------------------------------- MODULE Files -------------------------------
(***************************************************************************)
(* File tabs and editor tabs of one server, with the one dialog they share *)
(* and the bound on what the user begins in each of them.  A behaviour is  *)
(* mostly about one of the two, or about their questions meeting.          *)
(***************************************************************************)
EXTENDS FileTabs, EditorTabs

CONSTANT Quotas   \* bounds, one of which holds in a behaviour: operations begun in each tab, questions in settings

ASSUME QuotaAssumption == Quotas \subseteq [FTabs \cup Editors \cup {"settings"} -> Nat]

VARIABLE settingsOps   \* number of questions SettingsDialog may still ask

filesVars == <<settingsOps, dialogVars, fileVars, fileOps, editorVars, editorOps>>

Init ==
    /\ DialogInit /\ FileInit /\ EditorInit
    /\ \E q \in Quotas : fileOps = Restrict(q, FTabs) /\ editorOps = Restrict(q, Editors)
                      /\ settingsOps = q["settings"]

(* AskElsewhere and the click that ends an alert.                          *)
Elsewhere ==
    /\ \/ AskElsewhere /\ settingsOps > 0 /\ settingsOps' = settingsOps - 1
       \/ AnswerElsewhere /\ UNCHANGED settingsOps
    /\ UNCHANGED <<fileVars, fileOps, editorVars, editorOps>>

Next ==
    \/ FileNext /\ UNCHANGED <<editorVars, editorOps, settingsOps>>
    \/ EditorNext /\ UNCHANGED <<fileVars, fileOps, settingsOps>>
    \/ Elsewhere

Spec == Init /\ [][Next]_filesVars

TypeOK == FileTypeOK /\ EditorTypeOK

(* Every SFTP session has a tab, or it was connected for a tab that the    *)
(* user had closed meanwhile.                                              *)
SessionsOwned ==
    /\ \A t \in sftp : ft[t].open \/ t \in late
    /\ \A e \in editorSftp : ed[e].open \/ ed[e].late
=============================================================================
