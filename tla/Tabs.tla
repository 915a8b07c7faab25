-------------------------------- MODULE Tabs --------------------------------
(***************************************************************************)
(* The tabs of the workbench (ws.ts, stores/app.ts, tabCommands.ts,        *)
(* DirtyCloseDialog.vue): which tabs are open, which of each kind is       *)
(* active, which dock has the focus, and how tabs are opened, closed and   *)
(* connected again.  Ids are random, so a closed tab never comes back.     *)
(* A session is a number, new for every connection of a terminal.          *)
(***************************************************************************)
EXTENDS Naturals, FiniteSets, Sequences, SequencesExt

CONSTANTS Terminals, Listings, Editors   \* the ids tabs may get, by kind

VARIABLES
    store,   \* stores/app.ts
    term,    \* sessionId, state and telemetry of each terminal tab
    used,    \* the ids given so far
    sessions \* number of sessions begun so far

tabVars == <<store, term, used, sessions>>

None == "none"
Ids == Terminals \cup Listings \cup Editors
Kinds == {"terminal", "file", "editor"}

Kind(t) == IF t \in Terminals THEN "terminal" ELSE IF t \in Listings THEN "file" ELSE "editor"

NotAsked == [tab |-> None, rest |-> <<>>, saving |-> FALSE]

NoTelemetry == [session |-> 0, cpu |-> 0]

Offline == [session |-> 0, state |-> "idle", telemetry |-> NoTelemetry]

(* The initial store, after App.vue has connected the Node or failed to.   *)
TabsInit ==
    /\ \E c \in BOOLEAN, p \in BOOLEAN :
           store = [tabs |-> <<>>, active |-> [k \in Kinds |-> None], focused |-> "terminal",
                    category |-> "file", bottomOpen |-> FALSE, view |-> "welcome", panelOpen |-> p,
                    connected |-> c, dirty |-> {}, confirm |-> NotAsked, telemetry |-> NoTelemetry]
    /\ term = [t \in Terminals |-> Offline] /\ used = {} /\ sessions = 0

IsOpen(s, t) == t \in ToSet(s.tabs)

TabsOf(s, k) == SelectSeq(s.tabs, LAMBDA t : Kind(t) = k)

(* What store.tabs.find gives of a terminal; Offline if it has none.       *)
Tab(s, t) == IF t \in Terminals /\ IsOpen(s, t) THEN term[t] ELSE Offline

(* setBottomPanelActiveTab                                                 *)
SetBottomActive(s, t) ==
    [s EXCEPT !.active[Kind(t)] = t, !.category = Kind(t), !.focused = "bottomPanel"]

(* getFocusedTabId, getActiveBottomPanelTabId                              *)
FocusedTab(s) == s.active[IF s.focused = "terminal" THEN "terminal" ELSE s.category]

(* A dialog is in front of the workbench.                                  *)
Asked(s) == s.confirm # NotAsked

-----------------------------------------------------------------------------
(* Opening                                                                 *)

Fresh(t) == t \notin used /\ used' = used \cup {t}

Begins(t, state) ==
    /\ sessions' = sessions + 1
    /\ term' = [term EXCEPT ![t] = [session |-> sessions + 1, state |-> state, telemetry |-> NoTelemetry]]

(* addTab, after connectHost has read the password, whatever is asked      *)
(* meanwhile: the tab comes after another terminal, or last.               *)
AddTab(t, after) ==
    /\ t \in Terminals /\ Fresh(t) /\ Begins(t, "connecting")
    /\ after \in ToSet(TabsOf(store, "terminal")) \cup {None}
    /\ LET at == SelectInSeq(store.tabs, LAMBDA x : x = after) IN
       store' = [store EXCEPT
           !.tabs = IF at > 0 THEN InsertAt(@, at + 1, t) ELSE Append(@, t),
           !.active["terminal"] = t, !.focused = "terminal", !.view = "shell"]

(* createFileTab; openEditorTab needs a listing to open the file from.     *)
OpenBottomTab(t) ==
    /\ t \in Listings \cup Editors /\ ~Asked(store) /\ Fresh(t)
    /\ t \in Editors => TabsOf(store, "file") # <<>>
    /\ store' = [SetBottomActive([store EXCEPT !.tabs = Append(@, t)], t)
                    EXCEPT !.bottomOpen = TRUE, !.view = "shell"]
    /\ UNCHANGED <<term, sessions>>

(* reconnectTab                                                            *)
ReconnectTab(t) ==
    /\ IsOpen(store, t) /\ t \in Terminals /\ Begins(t, "connecting")
    /\ UNCHANGED <<store, used>>

(* updateTabState, for the session the tab has now: the callbacks that     *)
(* startTab gives to connectSsh read it when they are called, and a tab    *)
(* that is open has begun one.                                             *)
UpdateTabState(t, state) ==
    /\ Tab(store, t).session # 0 /\ term[t].state # state
    /\ LET gone == state \in {"idle", "error"} IN
       /\ term' = [term EXCEPT ![t].state = state, ![t].telemetry = IF gone THEN NoTelemetry ELSE @]
       /\ store' = IF gone /\ t = store.active["terminal"]
                   THEN [store EXCEPT !.telemetry = NoTelemetry] ELSE store
    /\ UNCHANGED <<used, sessions>>

-----------------------------------------------------------------------------
(* Closing                                                                 *)

(* Mutation: the neighbour is looked up by the old place of the tab only.  *)
NextActiveSamePlace(s, closing, k) ==
    LET typed == TabsOf(s, k)
        left  == SelectSeq(typed, LAMBDA t : t \notin closing)
        at    == SelectInSeq(typed, LAMBDA t : t = s.active[k])
    IN  IF s.active[k] \notin closing THEN s.active[k]
        ELSE IF at \in 1 .. Len(left) THEN left[at] ELSE None

(* nextActiveId                                                            *)
NextActive(s, closing, k) ==
    LET typed == TabsOf(s, k)
        left  == SelectSeq(typed, LAMBDA t : t \notin closing)
        at    == SelectInSeq(typed, LAMBDA t : t = s.active[k])
        near  == SelectSeq(<<at, at - 1, 1>>, LAMBDA i : i \in 1 .. Len(left))
    IN  IF s.active[k] \notin closing THEN s.active[k]
        ELSE IF near = <<>> THEN None ELSE left[near[1]]

(* The end of closeTabs, when nothing is asked or the answer is known.     *)
Closed(s, closing) ==
    LET left   == SelectSeq(s.tabs, LAMBDA t : t \notin closing)
        active == [k \in Kinds |-> NextActive(s, closing, k)]
    IN  IF closing \cap ToSet(s.tabs) = {} THEN s ELSE
        [s EXCEPT
           !.tabs = left, !.active = active, !.dirty = @ \ closing,
           !.bottomOpen = @ /\ \E i \in 1 .. Len(left) : left[i] \notin Terminals,
           !.telemetry = Tab([s EXCEPT !.tabs = left], active["terminal"]).telemetry,
           !.view = IF left = <<>> THEN "welcome" ELSE "shell"]

(* closeTabs: the first editor that is not saved is asked about.           *)
CloseTabs(s, ids) ==
    LET asked     == SelectSeq(s.tabs, LAMBDA t : t \in ToSet(ids))
        unsaved   == SelectSeq(asked, LAMBDA t : t \in s.dirty)
    IN  IF Asked(s) THEN s
        ELSE IF unsaved = <<>> THEN Closed(s, ToSet(ids))
        ELSE [s EXCEPT !.confirm = [tab |-> unsaved[1], saving |-> FALSE,
                                    rest |-> SelectSeq(asked, LAMBDA t : t # unsaved[1])]]

(* What becomes of the tabs that were to be closed after the asked one.    *)
CloseRest(s, rest) == IF rest = <<>> THEN s ELSE CloseTabs(s, rest)

Settle(s) ==
    CloseRest(Closed([s EXCEPT !.confirm = NotAsked], {s.confirm.tab}), s.confirm.rest)

UserCloses(ids) ==
    /\ ~Asked(store) /\ store' = CloseTabs(store, ids)
    /\ UNCHANGED <<term, used, sessions>>

(* tab.close, terminal.disconnect, and the cross of an instance.           *)
CloseTab(t) == IsOpen(store, t) /\ UserCloses(<<t>>)

(* tab.closeOthers, tab.closeToRight and tab.closeAll of the group that    *)
(* the dock shows the tab in.                                              *)
CloseOthers(t, group) ==
    /\ t \in ToSet(group) /\ Len(group) > 1
    /\ UserCloses(SelectSeq(group, LAMBDA x : x # t))

CloseToRight(t, group) ==
    LET at == SelectInSeq(group, LAMBDA x : x = t) IN
    /\ at \in 1 .. Len(group) - 1
    /\ UserCloses(SubSeq(group, at + 1, Len(group)))

CloseAll(group) == group # <<>> /\ UserCloses(group)

EditsText(e) ==
    /\ e \in Editors /\ IsOpen(store, e) /\ ~Asked(store) /\ e \notin store.dirty
    /\ store' = [store EXCEPT !.dirty = @ \cup {e}] /\ UNCHANGED <<term, used, sessions>>

(* DirtyCloseDialog: close, discard, and saveAndClose in two steps.        *)
CancelClose ==
    /\ Asked(store) /\ ~store.confirm.saving
    /\ store' = [store EXCEPT !.confirm = NotAsked] /\ UNCHANGED <<term, used, sessions>>

Discard ==
    /\ Asked(store) /\ ~store.confirm.saving
    /\ store' = Settle(store) /\ UNCHANGED <<term, used, sessions>>

SaveAndClose ==
    /\ Asked(store) /\ ~store.confirm.saving
    /\ store' = [store EXCEPT !.confirm.saving = TRUE] /\ UNCHANGED <<term, used, sessions>>

SaveEnds(ok) ==
    /\ store.confirm.saving
    /\ store' = IF ok THEN Settle(store) ELSE [store EXCEPT !.confirm.saving = FALSE]
    /\ UNCHANGED <<term, used, sessions>>

TabsTypeOK ==
    /\ store.tabs \in Seq(Ids) /\ IsInjective(store.tabs)
    /\ store.active \in [Kinds -> Ids \cup {None}]
    /\ store.focused \in {"terminal", "bottomPanel"} /\ store.category \in {"file", "editor"}
    /\ store.view \in {"welcome", "shell"} /\ store.dirty \subseteq Editors \cap ToSet(store.tabs)
    /\ used \subseteq Ids /\ sessions \in Nat
=============================================================================
