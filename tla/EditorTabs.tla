----------------------------- MODULE EditorTabs -----------------------------
(***************************************************************************)
(* Editor tabs (editor-tabs.ts, EditorPanel.vue, EncodingPickerDialog.vue, *)
(* DirtyCloseDialog.vue and the dirty part of closeTabs): a remote file is *)
(* read and decoded, changed, saved through the transfer pipeline, opened  *)
(* again in another encoding, and closed.                                  *)
(*                                                                         *)
(* A text is a number, the version the user wrote, and a flag that it was  *)
(* garbled by a wrong decoding; texts have characters that no two of the   *)
(* encodings write alike.  Editors of one path share the server's file.    *)
(* Line endings are left out.                                              *)
(***************************************************************************)
EXTENDS Dialogs, Sequences, SequencesExt

CONSTANTS
    Editors,     \* editor tabs
    EditorPaths, \* the paths that are opened
    MaxSaves     \* bound: calls of saveEditorTab of one tab under way

ASSUME EditorAssumption ==
    /\ MaxSaves \in Nat \ {0}
    /\ "none" \notin Editors   \* no tab; an editor is named by a UUID

VARIABLES
    ed,          \* the editor tabs of store.tabs, and their openEditorTab calls
    editorSftp,  \* the keys of sessions that are editors
    file,        \* the server's file at each path
    saves,       \* saveEditorTab calls of each tab, oldest first
    reopening,   \* reopenEditorTab of each tab past its question
    closing,     \* store.dirtyCloseConfirm, and what its dialog does
    texts,       \* number of texts written so far
    editorOps,   \* number of operations the user may still begin in each tab
    behind,      \* history: editors whose clean flag may not tell the truth
    wasted,      \* history: texts the user gave up, or wrote over
    abandoned    \* history: paths of which the user closed an editor that was not clean

editorVars == <<ed, editorSftp, file, saves, reopening, closing, texts, behind, wasted, abandoned>>

Encodings == {"utf-8", "utf-16", "gbk"}
Unforced == "none"   \* no encoding asked for, none found
Gone == [text |-> <<0, FALSE>>, enc |-> "gone", bom |-> FALSE]

NoEditor == [pc |-> "none", open |-> FALSE, path |-> "none", text |-> <<0, FALSE>>,
             enc |-> "utf-8", bom |-> FALSE, dirty |-> FALSE,
             late |-> FALSE]

NotClosing == [tab |-> "none", saving |-> FALSE]

(* A file that others wrote; a byte order mark is of the encoding used.    *)
FirstContents ==
    {[text |-> <<0, FALSE>>, enc |-> e, bom |-> b] :
        e \in Encodings, b \in BOOLEAN}

EditorInit ==
    /\ ed = [e \in Editors |-> NoEditor] /\ editorSftp = {}
    /\ file \in [EditorPaths -> {f \in FirstContents : f.bom => f.enc # "gbk"}]
    /\ saves = [e \in Editors |-> <<>>] /\ reopening = [e \in Editors |-> Unforced]
    /\ closing = NotClosing /\ texts = 0 /\ behind = {} /\ wasted = {} /\ abandoned = {}

UserEdits(e) == editorOps[e] > 0 /\ editorOps' = [editorOps EXCEPT ![e] = @ - 1]

(* The other editors that are open on a path.                              *)
Sharing(e) == {d \in Editors \ {e} : ed[d].open /\ ed[d].path = ed[e].path}

-----------------------------------------------------------------------------
(* Bytes and texts                                                         *)

(* bomSignature                                                            *)
Signature(f) == IF f.bom THEN f.enc ELSE Unforced

Effective(f, forced) ==
    IF forced # Unforced THEN forced ELSE IF f.bom THEN f.enc ELSE "utf-8"

(* decodeFile                                                              *)
Decode(f, forced) ==
    LET e == Effective(f, forced) IN
    [text |-> <<f.text[1], f.text[2] \/ e # f.enc>>, enc |-> e,
     bom |-> Signature(f) = e]

CanEncode(d) == d.enc # "gbk"

(* Mutation: a byte order mark is never written.                           *)
EncodePlain(d) == [text |-> d.text, enc |-> d.enc, bom |-> FALSE]

(* encodeFile                                                              *)
Encode(d) == [text |-> d.text, enc |-> d.enc, bom |-> d.bom]

(* What an editor takes over from a file it has read.                      *)
Loaded(d, f, forced) ==
    LET r == Decode(f, forced) IN
    [d EXCEPT !.text = r.text, !.enc = r.enc, !.bom = r.bom, !.dirty = FALSE]

-----------------------------------------------------------------------------
(* openEditorTab                                                           *)

(* Opened from a file tab; a file above 10 MiB asks first, and a question  *)
(* that cannot be asked counts as a refusal.                               *)
OpenEditor(e, p, large) ==
    /\ ed[e].pc = "none" /\ editorOps[e] > 0
    /\ IF large THEN Asks([by |-> "large", tab |-> e, paths |-> {}]) ELSE UNCHANGED dialogVars
    /\ ed' = [ed EXCEPT ![e] = [NoEditor EXCEPT !.path = p, !.open = TRUE, !.pc =
                  IF ~large THEN "connecting" ELSE IF Busy THEN "error" ELSE "asking"]]
    /\ UNCHANGED <<editorSftp, file, saves, reopening, closing, texts, editorOps, behind, wasted, abandoned>>

AnswerLarge(e, ok) ==
    /\ dialog.by = "large" /\ dialog.tab = e /\ Settles
    /\ ed' = [ed EXCEPT ![e].pc = IF ok THEN "connecting" ELSE "error"]
    /\ UNCHANGED <<editorSftp, file, saves, reopening, closing, texts, editorOps, behind, wasted, abandoned>>

(* registerSftpSession does not look whether the tab is still there.       *)
EditorConnected(e) ==
    /\ ed[e].pc = "connecting"
    /\ ed' = [ed EXCEPT ![e].pc = "reading"] /\ editorSftp' = editorSftp \cup {e}
    /\ UNCHANGED <<file, saves, reopening, closing, texts, editorOps, behind, wasted, abandoned>>
    /\ UNCHANGED dialogVars

(* No password, no connection, or no such file.                            *)
OpenFails(e) ==
    /\ ed[e].pc \in {"connecting", "reading"}
    /\ ed' = [ed EXCEPT ![e].pc = "error"]
    /\ UNCHANGED <<editorSftp, file, saves, reopening, closing, texts, editorOps, behind, wasted, abandoned>>
    /\ UNCHANGED dialogVars

FirstRead(e) ==
    /\ ed[e].pc = "reading" /\ e \in editorSftp /\ file[ed[e].path] # Gone
    /\ ed' = [ed EXCEPT ![e] = IF @.open THEN [Loaded(@, file[@.path], Unforced) EXCEPT !.pc = "online"]
                               ELSE [@ EXCEPT !.pc = "closed"]]
    /\ behind' = behind \ {e}
    /\ UNCHANGED <<editorSftp, file, saves, reopening, closing, texts, editorOps, wasted, abandoned>>
    /\ UNCHANGED dialogVars

-----------------------------------------------------------------------------
(* Changing the document                                                   *)

(* No dialog is in front of the panel.                                     *)
InEditor(e) ==
    /\ ed[e].open /\ ed[e].pc = "online" /\ ~Busy /\ closing = NotClosing /\ UserEdits(e)

InFlight(e) == saves[e] # <<>> \/ reopening[e] # Unforced

Blurs(e) == behind' = IF InFlight(e) THEN behind \cup {e} ELSE behind

(* A text that is replaced without being on the server.                    *)
GivesUp(e) ==
    wasted' = IF ed[e].dirty \/ e \in behind THEN wasted \cup {ed[e].text[1]} ELSE wasted

(* The updateListener of mountEditor.                                      *)
Type(e) ==
    /\ InEditor(e) /\ texts' = texts + 1
    /\ ed' = [ed EXCEPT ![e].text[1] = texts + 1, ![e].dirty = TRUE]
    /\ GivesUp(e) /\ Blurs(e)
    /\ UNCHANGED <<editorSftp, file, saves, reopening, closing, abandoned>>
    /\ UNCHANGED dialogVars

(* "Save with encoding" of the picker: written by the next save.           *)
SetEditorEncoding(e, b) ==
    /\ InEditor(e)
    /\ ed' = [ed EXCEPT ![e].enc = "utf-8", ![e].bom = b, ![e].dirty = TRUE]
    /\ Blurs(e)
    /\ UNCHANGED <<editorSftp, file, saves, reopening, closing, texts, wasted, abandoned>>
    /\ UNCHANGED dialogVars

-----------------------------------------------------------------------------
(* saveEditorTab                                                           *)

Alert == [by |-> "alert", tab |-> "none", paths |-> {}]

(* The document is encoded before anything is awaited.  DirtyCloseDialog   *)
(* may save a tab that has become clean since it asked.                    *)
Starts(e, from) ==
    /\ e \in editorSftp /\ Len(saves[e]) < MaxSaves
    /\ saves' = [saves EXCEPT ![e] = Append(@, [step |-> "write", data |-> Encode(ed[e]), from |-> from])]
    /\ behind' = IF InFlight(e) \/ ~ed[e].dirty THEN behind \cup {e} ELSE behind
    /\ UNCHANGED ed

(* The button of the panel, which is off while nothing has changed.        *)
Save(e) ==
    /\ InEditor(e) /\ ed[e].dirty
    /\ IF CanEncode(ed[e]) THEN Starts(e, "panel") /\ UNCHANGED dialogVars
       ELSE Asks(Alert) /\ UNCHANGED <<saves, behind, ed>>
    /\ UNCHANGED <<editorSftp, file, reopening, closing, texts, wasted, abandoned>>

(* The server changes the file of e, and those who share it are not told.  *)
Disturbs(e) == behind' = behind \cup Sharing(e)

(* transferFile has written the bytes beside the target; commitTemporary   *)
(* removes the target if it is there, ...                                  *)
SaveRemoves(e, i) ==
    /\ i \in DOMAIN saves[e] /\ saves[e][i].step = "write" /\ e \in editorSftp
    /\ saves' = [saves EXCEPT ![e][i].step = "rename"]
    /\ file' = [file EXCEPT ![ed[e].path] = Gone]
    /\ wasted' = IF file[ed[e].path].text = saves[e][i].data.text THEN wasted
                 ELSE wasted \cup {file[ed[e].path].text[1]}
    /\ Disturbs(e)
    /\ UNCHANGED <<ed, editorSftp, reopening, closing, texts, editorOps, abandoned>>
    /\ UNCHANGED dialogVars

(* What is left of a tab that is closed, with or without the user having   *)
(* agreed to lose its changes; a connection under way goes on.             *)
CloseNow(e, agreed) ==
    /\ ed' = [ed EXCEPT ![e].open = FALSE, ![e].dirty = FALSE,
                        ![e].late = ed[e].pc \in {"asking", "connecting"},
                        ![e].pc = IF @ \in {"asking", "connecting"} THEN @ ELSE "closed"]
    /\ editorSftp' = editorSftp \ {e}
    /\ saves' = [saves EXCEPT ![e] = <<>>] /\ reopening' = [reopening EXCEPT ![e] = Unforced]
    /\ closing' = NotClosing
    /\ abandoned' = IF ed[e].dirty \/ e \in behind \/ InFlight(e)
                    THEN abandoned \cup {ed[e].path} ELSE abandoned
    /\ wasted' = IF agreed \/ e \in behind THEN wasted \cup {ed[e].text[1]} ELSE wasted
    /\ behind' = behind \ {e}

(* ... and renames, which does not overwrite.  Then the tab is clean,      *)
(* whatever has been typed since, and the dialog that saved it closes it.  *)
SaveEnds(e, i) ==
    /\ i \in DOMAIN saves[e] /\ saves[e][i].step = "rename" /\ e \in editorSftp
    /\ file[ed[e].path] = Gone
    /\ file' = [file EXCEPT ![ed[e].path] = saves[e][i].data]
    /\ IF saves[e][i].from = "dialog"
       THEN CloseNow(e, FALSE)
       ELSE /\ saves' = [saves EXCEPT ![e] = RemoveAt(@, i)]
            /\ ed' = [ed EXCEPT ![e].dirty = FALSE] /\ Disturbs(e)
            /\ UNCHANGED <<editorSftp, reopening, closing, wasted, abandoned>>
    /\ UNCHANGED <<texts, editorOps>> /\ UNCHANGED dialogVars

(* The temporary file goes, the tab stays as it is.                        *)
SaveFails(e, i) ==
    /\ i \in DOMAIN saves[e] /\ e \in editorSftp
    /\ saves' = [saves EXCEPT ![e] = RemoveAt(@, i)]
    /\ IF saves[e][i].from = "panel" THEN Asks(Alert) /\ UNCHANGED closing
       ELSE closing' = [closing EXCEPT !.saving = FALSE] /\ UNCHANGED dialogVars
    /\ UNCHANGED <<ed, editorSftp, file, reopening, texts, editorOps, behind, wasted, abandoned>>

-----------------------------------------------------------------------------
(* reopenEditorTab, from the picker                                        *)

Reopen(e, forced) ==
    /\ InEditor(e) /\ reopening[e] = Unforced /\ e \in editorSftp
    /\ IF ed[e].dirty
       THEN Asks([by |-> "reopen", tab |-> e, paths |-> {forced}]) /\ UNCHANGED <<reopening, behind>>
       ELSE reopening' = [reopening EXCEPT ![e] = forced] /\ Blurs(e) /\ UNCHANGED dialogVars
    /\ UNCHANGED <<ed, editorSftp, file, saves, closing, texts, wasted, abandoned>>

AnswerReopen(e, ok) ==
    /\ dialog.by = "reopen" /\ dialog.tab = e /\ Settles
    /\ IF ok /\ e \in editorSftp
       THEN reopening' = [reopening EXCEPT ![e] = CHOOSE f \in dialog.paths : TRUE] /\ Blurs(e)
       ELSE UNCHANGED <<reopening, behind>>
    /\ UNCHANGED <<ed, editorSftp, file, saves, closing, texts, editorOps, wasted, abandoned>>

Reread(e) ==
    /\ reopening[e] # Unforced /\ e \in editorSftp /\ file[ed[e].path] # Gone
    /\ ed' = [ed EXCEPT ![e] = Loaded(@, file[@.path], reopening[e])]
    /\ reopening' = [reopening EXCEPT ![e] = Unforced] /\ GivesUp(e)
    /\ behind' = IF saves[e] = <<>> THEN behind \ {e} ELSE behind \cup {e}
    /\ UNCHANGED <<editorSftp, file, saves, closing, texts, editorOps, abandoned>>
    /\ UNCHANGED dialogVars

RereadFails(e) ==
    /\ reopening[e] # Unforced /\ e \in editorSftp
    /\ reopening' = [reopening EXCEPT ![e] = Unforced] /\ Asks(Alert)
    /\ UNCHANGED <<ed, editorSftp, file, saves, closing, texts, editorOps, behind, wasted, abandoned>>

-----------------------------------------------------------------------------
(* Closing: closeTabs of one tab, and DirtyCloseDialog                     *)

(* Mutation: only texts that could be saved are asked about.               *)
AsksFirstIfSavable(e) == ed[e].dirty /\ CanEncode(ed[e])

AsksFirst(e) == ed[e].dirty

CloseEditor(e) ==
    /\ ed[e].open /\ closing = NotClosing
    /\ IF AsksFirst(e)
       THEN /\ closing' = [tab |-> e, saving |-> FALSE]
            /\ UNCHANGED <<ed, editorSftp, saves, reopening, behind, wasted, abandoned>>
       ELSE CloseNow(e, FALSE)
    /\ UNCHANGED <<file, texts, editorOps>> /\ UNCHANGED dialogVars

CancelClose ==
    /\ closing # NotClosing /\ ~closing.saving /\ closing' = NotClosing
    /\ UNCHANGED <<ed, editorSftp, file, saves, reopening, texts, editorOps, behind, wasted, abandoned>>
    /\ UNCHANGED dialogVars

Discard(e) ==
    /\ closing.tab = e /\ ~closing.saving /\ CloseNow(e, TRUE)
    /\ UNCHANGED <<file, texts, editorOps>> /\ UNCHANGED dialogVars

(* An error is shown in the dialog, which stays.                           *)
SaveAndClose(e) ==
    /\ closing.tab = e /\ ~closing.saving /\ CanEncode(ed[e]) /\ Starts(e, "dialog")
    /\ closing' = [closing EXCEPT !.saving = TRUE]
    /\ UNCHANGED <<editorSftp, file, reopening, texts, editorOps, wasted, abandoned>>
    /\ UNCHANGED dialogVars

-----------------------------------------------------------------------------
EditorNext ==
    \/ CancelClose
    \/ \E e \in Editors :
          \/ \E p \in EditorPaths, b \in BOOLEAN : OpenEditor(e, p, b)
          \/ EditorConnected(e) \/ OpenFails(e) \/ FirstRead(e)
          \/ Type(e) \/ Save(e) \/ Reread(e) \/ RereadFails(e)
          \/ \E b \in BOOLEAN : AnswerLarge(e, b) \/ SetEditorEncoding(e, b) \/ AnswerReopen(e, b)
          \/ \E i \in 1..MaxSaves : SaveRemoves(e, i) \/ SaveEnds(e, i) \/ SaveFails(e, i)
          \/ \E f \in {"utf-8", "gbk"} : Reopen(e, f)
          \/ CloseEditor(e) \/ Discard(e) \/ SaveAndClose(e)

-----------------------------------------------------------------------------
EditorTypeOK ==
    /\ \A e \in Editors :
          /\ ed[e].pc \in {"none", "asking", "connecting", "reading", "online", "error", "closed"}
          /\ ed[e].path \in EditorPaths \cup {"none"} /\ ed[e].enc \in Encodings
          /\ ed[e].text[1] \in 0..texts
          /\ Len(saves[e]) <= MaxSaves /\ reopening[e] \in Encodings \cup {Unforced}
    /\ editorSftp \subseteq Editors /\ behind \subseteq Editors
    /\ wasted \subseteq 0..texts /\ abandoned \subseteq EditorPaths
    /\ closing.tab \in Editors \cup {"none"}

(* A tab without unsaved changes shows what the server has: its clean flag *)
(* is true, unless calls overlapped or another tab wrote the file.         *)
CleanIsSaved ==
    \A e \in Editors :
        (ed[e].open /\ ed[e].pc = "online" /\ ~ed[e].dirty /\ e \notin behind /\ ~InFlight(e))
        => /\ file[ed[e].path] # Gone
           /\ Decode(file[ed[e].path], ed[e].enc).text = ed[e].text

(* A text the user wrote is in an editor or on the server until the user   *)
(* gives it up.                                                            *)
WrittenKept ==
    \A v \in 1..texts :
        \/ v \in wasted
        \/ \E e \in Editors : ed[e].open /\ ed[e].text[1] = v
        \/ \E p \in EditorPaths : file[p].text[1] = v

(* A file that a save removed is back, or a tab that could write it again  *)
(* is open, or was closed before it was clean.                             *)
RemovedComesBack ==
    \A p \in EditorPaths : file[p] = Gone =>
        \/ p \in abandoned
        \/ \E e \in Editors : ed[e].open /\ ed[e].path = p
                 /\ (ed[e].dirty \/ e \in behind \/ InFlight(e))

(* No step of saves, reopenings and closings, failed or overlapping, loses *)
(* a text: neither one the user wrote nor the one the server had.          *)
TextsKept == CleanIsSaved /\ WrittenKept /\ RemovedComesBack

(* A file the PWA wrote opens again as the text that was saved, with its   *)
(* byte order mark, when nobody says which encoding it has.                *)
SavedReopens ==
    \A p \in EditorPaths : file[p].text[1] # 0 =>
        LET r == Decode(file[p], Unforced) IN
        /\ r.text = file[p].text /\ r.enc = file[p].enc /\ r.bom = file[p].bom
=============================================================================
