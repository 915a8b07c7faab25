------------------------------ MODULE FileTabs ------------------------------
(***************************************************************************)
(* File tabs (file-tabs.ts, file-commands.ts, clipboard.ts, operations.ts, *)
(* FilePanel.vue): the directory a tab shows, its history and selection,   *)
(* and what its commands do to the files of the server.                    *)
(*                                                                         *)
(* All tabs are of one server, each with an SFTP session of its own.  The  *)
(* server has regular files only, a path is a directory and a name, and a  *)
(* file is known by the path it had at first.  A request takes effect when *)
(* it is answered.  Nothing orders the requests of one session: libssh2-   *)
(* runtime.ts pumps each of them by itself.                                *)
(***************************************************************************)
EXTENDS Dialogs, Sequences, Functions

CONSTANTS
    FTabs,      \* file tabs
    Dirs,       \* directories
    Root,       \* "/", the parent of all the others
    Names,      \* names of files
    FirstFiles, \* the paths that exist at first
    MaxCalls    \* bound: listings of one tab under way

ASSUME FileAssumption ==
    /\ Root \in Dirs /\ FirstFiles \subseteq Dirs \X Names /\ MaxCalls \in Nat \ {0}

VARIABLES
    ft,        \* the tabs of store.tabs, and their startFileTab calls
    sftp,      \* the keys of sessions
    listing,   \* listDirectory calls of each tab
    clip,      \* store.sftpClipboard
    paste,     \* the transfer task each tab waits for
    erase,     \* what deleteFileEntries of each tab has left to remove
    fs,        \* the server: a function from the paths that exist
    fileOps,   \* number of operations the user may still begin in each tab
    asked,     \* history: paths the user agreed to delete
    accounted, \* history: files deleted with consent, or copied over
    crossed,   \* history: tabs with two listings, or one that failed, since the last one that counted
    late       \* history: tabs closed before they were connected

fileVars == <<ft, sftp, listing, clip, paste, erase, fs, asked, accounted, crossed, late>>

NoTab == [pc |-> "none", open |-> FALSE, cwd |-> Root, history |-> <<Root>>,
          at |-> 1, shown |-> "nothing", rows |-> {}, selected |-> {}, failed |-> FALSE]

NoClip == [mode |-> "none", tab |-> "none", paths |-> {}]

NoTask == [kind |-> "none", mode |-> "copy", from |-> "none", paths |-> {},
           todo |-> {}, into |-> "cwd", failed |-> FALSE]

FileInit ==
    /\ ft = [t \in FTabs |-> NoTab] /\ sftp = {} /\ listing = [t \in FTabs |-> <<>>]
    /\ clip = NoClip /\ paste = [t \in FTabs |-> NoTask] /\ erase = [t \in FTabs |-> {}]
    /\ fs = [p \in FirstFiles |-> p]
    /\ asked = {} /\ accounted = {} /\ crossed = {} /\ late = {}

(* A command of the user, within the bound.                                *)
UserActs(t) == fileOps[t] > 0 /\ fileOps' = [fileOps EXCEPT ![t] = @ - 1]

-----------------------------------------------------------------------------
(* operations.ts on the server                                             *)

InDir(d) == {p \in DOMAIN fs : p[1] = d}

(* targetNameForEntry                                                      *)
Placed(p, d) == <<d, p[2]>>

Removes(p) == fs' = Restrict(fs, DOMAIN fs \ {p})

(* moveEntry does not overwrite.                                           *)
CanMove(p, q) == p \in DOMAIN fs /\ q \notin DOMAIN fs

Moves(p, q) ==
    /\ CanMove(p, q)
    /\ fs' = [r \in (DOMAIN fs \ {p}) \cup {q} |-> IF r = q THEN fs[p] ELSE fs[r]]
    /\ UNCHANGED accounted

(* copyEntry of a regular file replaces one of the same name.              *)
Copies(p, q) ==
    /\ p \in DOMAIN fs
    /\ fs' = [r \in DOMAIN fs \cup {q} |-> IF r = q THEN fs[p] ELSE fs[r]]
    /\ accounted' = accounted \cup {fs[r] : r \in DOMAIN fs \cap {q}}

-----------------------------------------------------------------------------
(* The life of a tab                                                       *)

OpenFileTab(t, d) ==
    /\ ft[t].pc = "none" /\ fileOps[t] > 0
    /\ ft' = [ft EXCEPT ![t] = [NoTab EXCEPT !.pc = "connecting", !.open = TRUE,
                                             !.cwd = d, !.history = <<d>>]]
    /\ UNCHANGED <<sftp, listing, clip, paste, erase, fs, fileOps, asked, accounted, crossed, late>>
    /\ UNCHANGED dialogVars

(* startFileTab: the saved password is read and backend.connect succeeds;  *)
(* nothing looks whether the tab is still there.                           *)
Connected(t) ==
    /\ ft[t].pc = "connecting"
    /\ ft' = [ft EXCEPT ![t].pc = "stat"] /\ sftp' = sftp \cup {t}
    /\ UNCHANGED <<listing, clip, paste, erase, fs, fileOps, asked, accounted, crossed, late>>
    /\ UNCHANGED dialogVars

NotConnected(t) ==
    /\ ft[t].pc = "connecting" /\ ft' = [ft EXCEPT ![t].pc = "error", ![t].failed = TRUE]
    /\ UNCHANGED <<sftp, listing, clip, paste, erase, fs, fileOps, asked, accounted, crossed, late>>
    /\ UNCHANGED dialogVars

(* The directory the terminal was in may be unreadable over SFTP.          *)
Statted(t, tab, there) ==
    IF there THEN [tab EXCEPT !.pc = "online"]
    ELSE [tab EXCEPT !.pc = "online", !.cwd = Root, !.history = <<Root>>, !.at = 1]

(* refreshFileTab: nothing without a session; the listing of an open tab   *)
(* is of the directory it is in now.                                       *)
Refresh(t, tab) ==
    IF t \in sftp /\ tab.open
    THEN /\ Len(listing[t]) < MaxCalls
         /\ listing' = [listing EXCEPT ![t] = Append(@, tab.cwd)]
         /\ ft' = [ft EXCEPT ![t] = [tab EXCEPT !.failed = FALSE]]
         /\ crossed' = IF listing[t] = <<>> THEN crossed \ {t} ELSE crossed \cup {t}
    ELSE ft' = [ft EXCEPT ![t] = tab] /\ UNCHANGED <<listing, crossed>>

Stat(t, there) ==
    /\ ft[t].pc = "stat" /\ t \in sftp /\ Refresh(t, Statted(t, ft[t], there))
    /\ UNCHANGED <<sftp, clip, paste, erase, fs, fileOps, asked, accounted, late>>
    /\ UNCHANGED dialogVars

(* A listing ends, whichever was asked for first, and is shown whatever    *)
(* directory the tab is in by then.                                        *)
Listed(t, i) ==
    /\ i \in DOMAIN listing[t]
    /\ ft' = [ft EXCEPT ![t].shown = listing[t][i], ![t].rows = InDir(listing[t][i])]
    /\ listing' = [listing EXCEPT ![t] = SubSeq(@, 1, i - 1) \o SubSeq(@, i + 1, Len(@))]
    /\ UNCHANGED <<sftp, clip, paste, erase, fs, fileOps, asked, accounted, crossed, late>>
    /\ UNCHANGED dialogVars

ListFails(t, i) ==
    /\ i \in DOMAIN listing[t]
    /\ ft' = [ft EXCEPT ![t].failed = TRUE]
    /\ listing' = [listing EXCEPT ![t] = SubSeq(@, 1, i - 1) \o SubSeq(@, i + 1, Len(@))]
    /\ UNCHANGED <<sftp, clip, paste, erase, fs, fileOps, asked, accounted, crossed, late>>
    /\ UNCHANGED dialogVars

(* Mutation: the session stays registered.                                 *)
ForgetsTab(t) == UNCHANGED sftp

(* closeFileTabSession                                                     *)
DropsSession(t) == sftp' = sftp \ {t}

CloseFileTab(t) ==
    /\ ft[t].open
    /\ ft' = [ft EXCEPT ![t] = [NoTab EXCEPT !.pc = IF ft[t].pc = "connecting"
                                                    THEN "connecting" ELSE "closed"]]
    /\ DropsSession(t)
    /\ listing' = [listing EXCEPT ![t] = <<>>]
    /\ late' = IF ft[t].pc = "connecting" THEN late \cup {t} ELSE late
    /\ UNCHANGED <<clip, paste, erase, fs, fileOps, asked, accounted, crossed>>
    /\ UNCHANGED dialogVars

-----------------------------------------------------------------------------
(* Going about                                                             *)

InTab(t) == ft[t].open /\ UserActs(t)

(* navigateFileTab: what was ahead in the history is forgotten.            *)
Navigate(t, d) ==
    /\ InTab(t)
    /\ LET past == SubSeq(ft[t].history, 1, ft[t].at) \o <<d>> IN
       Refresh(t, [ft[t] EXCEPT !.history = past, !.at = Len(past), !.cwd = d,
                                !.selected = {}])
    /\ UNCHANGED <<sftp, clip, paste, erase, fs, asked, accounted, late>>
    /\ UNCHANGED dialogVars

NavigateParent(t) == ft[t].cwd # Root /\ Navigate(t, Root)

(* Mutation: the directory that was left is shown again.                   *)
StepsLate(t, k) ==
    Refresh(t, [ft[t] EXCEPT !.at = @ + k, !.cwd = ft[t].history[ft[t].at]])

(* goBackFileTab and goForwardFileTab leave the selection alone.           *)
Steps(t, k) ==
    Refresh(t, [ft[t] EXCEPT !.at = @ + k, !.cwd = ft[t].history[ft[t].at + k]])

GoBack(t) ==
    /\ InTab(t) /\ ft[t].at > 1 /\ Steps(t, -1)
    /\ UNCHANGED <<sftp, clip, paste, erase, fs, asked, accounted, late>>
    /\ UNCHANGED dialogVars

GoForward(t) ==
    /\ InTab(t) /\ ft[t].at < Len(ft[t].history) /\ Steps(t, 1)
    /\ UNCHANGED <<sftp, clip, paste, erase, fs, asked, accounted, late>>
    /\ UNCHANGED dialogVars

(* F5, and a change of the order or of the hidden files shown.             *)
RefreshTab(t) ==
    /\ InTab(t) /\ Refresh(t, ft[t])
    /\ UNCHANGED <<sftp, clip, paste, erase, fs, asked, accounted, late>>
    /\ UNCHANGED dialogVars

(* A click on a row, or one with Ctrl, which takes it in or out.           *)
Select(t, p, more) ==
    /\ InTab(t) /\ p \in ft[t].rows
    /\ ft' = [ft EXCEPT ![t].selected = IF ~more THEN {p}
                                        ELSE IF p \in @ THEN @ \ {p} ELSE @ \cup {p}]
    /\ UNCHANGED <<sftp, listing, clip, paste, erase, fs, asked, accounted, crossed, late>>
    /\ UNCHANGED dialogVars

-----------------------------------------------------------------------------
(* Copying, cutting and pasting                                            *)

(* copySelectedFileEntries: selected rows that are still shown.            *)
CopySelected(t, mode) ==
    /\ InTab(t) /\ ft[t].selected # {}
    /\ clip' = [mode |-> mode, tab |-> t, paths |-> ft[t].selected \cap ft[t].rows]
    /\ UNCHANGED <<ft, sftp, listing, paste, erase, fs, asked, accounted, crossed, late>>
    /\ UNCHANGED dialogVars

(* pasteFileTab: both sessions must be there when the task is queued.  One *)
(* task of a tab at a time is a bound.                                     *)
Paste(t) ==
    /\ InTab(t) /\ paste[t].kind = "none" /\ clip.paths # {} /\ {t, clip.tab} \subseteq sftp
    /\ paste' = [paste EXCEPT ![t] = [NoTask EXCEPT
           !.kind = "paste", !.mode = clip.mode, !.from = clip.tab,
           !.paths = clip.paths, !.todo = clip.paths]]
    /\ UNCHANGED <<ft, sftp, listing, clip, erase, fs, asked, accounted, crossed, late>>
    /\ UNCHANGED dialogVars

(* onDrop of FilePanel: rows dragged from a tab onto a directory that is   *)
(* listed, or anywhere else.                                               *)
DropOn(t, u, d) ==
    /\ InTab(t) /\ paste[t].kind = "none" /\ ft[u].open /\ {t, u} \subseteq sftp
    /\ ft[u].selected # {} /\ (d = ft[t].cwd \/ ft[t].shown = Root)
    /\ paste' = [paste EXCEPT ![t] = [NoTask EXCEPT
           !.kind = "drop", !.mode = "cut", !.from = u, !.into = d,
           !.paths = ft[u].selected, !.todo = ft[u].selected]]
    /\ UNCHANGED <<ft, sftp, listing, clip, erase, fs, asked, accounted, crossed, late>>
    /\ UNCHANGED dialogVars

(* A pasted entry lands in the directory the tab is in when its turn comes. *)
Destination(t, p) ==
    Placed(p, IF paste[t].kind = "drop" THEN paste[t].into ELSE ft[t].cwd)

(* Mutation: what is cut in another session is removed there.              *)
PutsDownMoving(t, p) ==
    IF paste[t].mode = "cut" /\ paste[t].from # t
    THEN Removes(p) /\ UNCHANGED accounted
    ELSE Copies(p, Destination(t, p))

(* Cutting moves in one session only; into another it copies.              *)
PutsDown(t, p) ==
    IF paste[t].mode = "cut" /\ paste[t].from = t THEN Moves(p, Destination(t, p))
    ELSE Copies(p, Destination(t, p))

(* Requests of a session whose worker is gone are never answered.          *)
Answered(t) == {t, paste[t].from} \subseteq sftp

PasteOne(t, p) ==
    /\ p \in paste[t].todo /\ Answered(t) /\ PutsDown(t, p)
    /\ paste' = [paste EXCEPT ![t].todo = @ \ {p}]
    /\ UNCHANGED <<ft, sftp, listing, clip, erase, fileOps, asked, crossed, late>>
    /\ UNCHANGED dialogVars

(* The clipboard is cleared whatever it holds by now.  A task run again by *)
(* retry has no caller: its promise was rejected the first time.           *)
PasteEnds(t) ==
    /\ paste[t].kind # "none" /\ paste[t].todo = {}
    /\ paste' = [paste EXCEPT ![t] = NoTask]
    /\ clip' = IF paste[t].kind = "paste" /\ ~paste[t].failed THEN NoClip ELSE clip
    /\ IF paste[t].failed THEN UNCHANGED <<ft, listing, crossed>> ELSE Refresh(t, ft[t])
    /\ UNCHANGED <<sftp, erase, fs, fileOps, asked, accounted, late>>
    /\ UNCHANGED dialogVars

(* An entry is refused by the server; those after it are not tried.        *)
PasteFails(t) ==
    /\ paste[t].todo # {} /\ Answered(t)
    /\ paste' = [paste EXCEPT ![t] = IF @.kind = "drop" THEN NoTask
                                     ELSE [@ EXCEPT !.kind = "none", !.failed = TRUE]]
    /\ UNCHANGED <<ft, sftp, listing, clip, erase, fs, fileOps, asked, accounted, crossed, late>>
    /\ UNCHANGED dialogVars

(* retryTransfer begins with the first entry again.                        *)
RetryPaste(t) ==
    /\ UserActs(t) /\ paste[t].kind = "none" /\ paste[t].failed
    /\ paste' = [paste EXCEPT ![t].kind = "paste", ![t].todo = paste[t].paths]
    /\ UNCHANGED <<ft, sftp, listing, clip, erase, fs, asked, accounted, crossed, late>>
    /\ UNCHANGED dialogVars

-----------------------------------------------------------------------------
(* Deleting and renaming                                                   *)

AskDelete(t) ==
    /\ InTab(t) /\ ft[t].selected # {} /\ erase[t] = {}
    /\ Asks([by |-> "delete", tab |-> t, paths |-> ft[t].selected])
    /\ UNCHANGED fileVars

(* The context of the command holds the selection of the moment it began.  *)
Erased(t) == dialog.paths

AnswerDelete(t, ok) ==
    /\ dialog.by = "delete" /\ dialog.tab = t /\ Settles
    /\ IF ok /\ t \in sftp
       THEN erase' = [erase EXCEPT ![t] = Erased(t)] /\ asked' = asked \cup dialog.paths
       ELSE UNCHANGED <<erase, asked>>
    /\ UNCHANGED <<ft, sftp, listing, clip, paste, fs, fileOps, accounted, crossed, late>>

(* One after the other; the first that fails ends it, with no refresh.     *)
EraseOne(t, p) ==
    /\ p \in erase[t] /\ t \in sftp
    /\ IF p \in DOMAIN fs
       THEN /\ Removes(p)
            /\ accounted' = IF p \in asked THEN accounted \cup {fs[p]} ELSE accounted
            /\ erase' = [erase EXCEPT ![t] = @ \ {p}]
       ELSE erase' = [erase EXCEPT ![t] = {}] /\ UNCHANGED <<fs, accounted>>
    /\ IF p \in DOMAIN fs /\ erase[t] = {p}
       THEN Refresh(t, [ft[t] EXCEPT !.selected = {}])
       ELSE UNCHANGED <<ft, listing, crossed>>
    /\ UNCHANGED <<sftp, clip, paste, fileOps, asked, late>>
    /\ UNCHANGED dialogVars

AskRename(t) ==
    /\ InTab(t) /\ Cardinality(ft[t].selected) = 1
    /\ Asks([by |-> "rename", tab |-> t, paths |-> ft[t].selected])
    /\ UNCHANGED fileVars

(* renameFileEntry: the request, and the refresh that follows it.          *)
AnswerRename(t, n) ==
    /\ dialog.by = "rename" /\ dialog.tab = t /\ Settles
    /\ LET p == CHOOSE q \in dialog.paths : TRUE IN
       IF t \in sftp /\ ft[t].open /\ CanMove(p, <<p[1], n>>)
       THEN Moves(p, <<p[1], n>>) /\ Refresh(t, ft[t])
       ELSE UNCHANGED <<fs, accounted, ft, listing, crossed>>
    /\ UNCHANGED <<sftp, clip, paste, erase, fileOps, asked, late>>

CancelRename(t) ==
    /\ dialog.by = "rename" /\ dialog.tab = t /\ Settles
    /\ UNCHANGED <<fileVars, fileOps>>

-----------------------------------------------------------------------------
FileNext ==
    \E t \in FTabs :
        \/ \E d \in Dirs : OpenFileTab(t, d) \/ Navigate(t, d)
        \/ Connected(t) \/ NotConnected(t)
        \/ \E b \in BOOLEAN : Stat(t, b) \/ AnswerDelete(t, b)
        \/ \E i \in 1..MaxCalls : Listed(t, i) \/ ListFails(t, i)
        \/ CloseFileTab(t)
        \/ NavigateParent(t) \/ GoBack(t) \/ GoForward(t) \/ RefreshTab(t)
        \/ \E p \in Dirs \X Names :
              \/ \E b \in BOOLEAN : Select(t, p, b)
              \/ PasteOne(t, p) \/ EraseOne(t, p)
        \/ \E m \in {"copy", "cut"} : CopySelected(t, m)
        \/ Paste(t) \/ PasteEnds(t) \/ PasteFails(t) \/ RetryPaste(t)
        \/ \E u \in FTabs, d \in Dirs : DropOn(t, u, d)
        \/ AskDelete(t) \/ AskRename(t) \/ CancelRename(t)
        \/ \E n \in Names : AnswerRename(t, n)

-----------------------------------------------------------------------------
Paths == Dirs \X Names

FileTypeOK ==
    /\ ft \in [FTabs -> [pc: {"none", "connecting", "stat", "online", "error", "closed"},
                         open: BOOLEAN, cwd: Dirs, history: Seq(Dirs), at: Nat \ {0},
                         shown: Dirs \cup {"nothing"}, rows: SUBSET Paths,
                         selected: SUBSET Paths, failed: BOOLEAN]]
    /\ sftp \subseteq FTabs /\ listing \in [FTabs -> Seq(Dirs)]
    /\ \A t \in FTabs : Len(listing[t]) <= MaxCalls
    /\ clip.paths \subseteq Paths
    /\ \A t \in FTabs : paste[t].todo \subseteq paste[t].paths /\ paste[t].paths \subseteq Paths
    /\ erase \in [FTabs -> SUBSET Paths] /\ DOMAIN fs \subseteq Paths
    /\ asked \subseteq Paths /\ accounted \subseteq FirstFiles
    /\ crossed \subseteq FTabs /\ late \subseteq FTabs

(* A tab is in a directory of its history, and when its last listing has   *)
(* come, overtaken by none, the rows it offers are of that directory.      *)
ShowsCwd ==
    \A t \in FTabs :
        /\ ft[t].at \in DOMAIN ft[t].history /\ ft[t].history[ft[t].at] = ft[t].cwd
        /\ (ft[t].pc = "online" /\ ft[t].open /\ listing[t] = <<>>
               /\ ~ft[t].failed /\ t \notin crossed) => ft[t].shown = ft[t].cwd

(* Whatever tabs, tasks and answers are under way, a file of the server    *)
(* goes only if the user agreed to delete that very path, or if another    *)
(* was copied onto it.                                                     *)
NothingLost == FirstFiles \subseteq Range(fs) \cup accounted
=============================================================================
