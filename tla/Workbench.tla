------------------------------ MODULE Workbench ------------------------------
(***************************************************************************)
(* The workbench: its tabs, the docks that show them, the metrics of the   *)
(* active terminal and the sizes of the panels.  What a handler changes is *)
(* seen by the watchers before the next handler runs.                      *)
(***************************************************************************)
EXTENDS Docks, Telemetry, PanelSizes

CONSTANT Quotas   \* bounds, one of which holds in a behaviour: number of steps of each sort

ASSUME QuotaAssumption == Quotas \subseteq [{"tabs", "docks", "metrics", "sizes"} -> Nat]

VARIABLE quota  \* what is left of it

vars == <<tabVars, dockVars, telemetryVars, sizeVars, quota>>

(* Whether the Node is connected, and the size of the window, vary where   *)
(* the quota lets them matter.                                             *)
Init ==
    /\ TabsInit /\ DocksInit /\ TelemetryInit /\ SizesInit /\ quota \in Quotas
    /\ quota["metrics"] = 0 => ~store.connected
    /\ quota["metrics"] + quota["sizes"] = 0 => ~store.panelOpen
    /\ quota["sizes"] = 0 => ~widths.open /\ \A w \in Windows : w.width <= window.width

Spends(sort) == quota[sort] > 0 /\ quota' = [quota EXCEPT ![sort] = @ - 1]

Quiet == Still /\ TelemetryStill

TerminalOrder == main.panels

UserTabs ==
    /\ Spends("tabs")
    /\ \/ \E t \in Terminals, after \in Terminals \cup {None} : AddTab(t, after)
       \/ \E t \in Listings \cup Editors : OpenBottomTab(t)
       \/ \E t \in Ids : CloseTab(t)
       \/ \E t \in Terminals : CloseOthers(t, TerminalOrder) \/ CloseToRight(t, TerminalOrder)
       \/ CloseAll(TerminalOrder)
       \/ \E t \in Terminals : ReconnectTab(t)
       \/ \E e \in Editors : EditsText(e)
    /\ UNCHANGED <<dockVars, telemetryVars, sizeVars>>

(* What the user answers, and what others report.                          *)
Reports ==
    /\ \/ (CancelClose \/ Discard \/ SaveAndClose \/ SaveEnds(TRUE) \/ SaveEnds(FALSE)) /\ UNCHANGED quota
       \/ Spends("metrics") /\ \E t \in Terminals, state \in {"online", "idle", "error"} :
                                   UpdateTabState(t, state)
    /\ UNCHANGED <<dockVars, telemetryVars, sizeVars>>

(* Pointing at something in a dock takes longer than the two frames of an  *)
(* activation; closing and opening by a key or by an answer may not.       *)
UserDocks ==
    /\ Spends("docks") /\ \A k \in BottomKinds : dock[k].pending = None
    /\ \/ \E t \in Terminals : ClickTerminal(t)
       \/ \E k \in BottomKinds :
             \/ \E t \in Listings \cup Editors :
                   \/ SelectInstance(k, t) \/ ClickPanel(k, t)
                   \/ \E j \in DOMAIN dock[k].panes, where \in {"before", "center", "after"} :
                         Drop(k, t, j, where)
             \/ SelectCategory(k)
       \/ ToggleBottomPanel
       \/ \E t \in Listings : DragOverListing(t)
    /\ UNCHANGED <<telemetryVars, sizeVars>>

Layout ==
    /\ \E k \in BottomKinds : LayoutChanges(k) \/ DockviewChooses(k) \/ Frame(k)
    /\ UNCHANGED <<telemetryVars, sizeVars, quota>>

Metrics ==
    /\ \/ (TogglePanel \/ NodeChanges) /\ Spends("metrics")
       \/ TimerFires /\ Spends("metrics")
    /\ UNCHANGED <<dockVars, sizeVars>>

Answered == PollAnswered /\ UNCHANGED <<dockVars, sizeVars, quota>>

UserSizes ==
    /\ Spends("sizes")
    /\ \/ \E side \in {"left", "right"} : StartDrag(side)
       \/ \E by \in -window.width .. window.width : MoveDrag(by)
       \/ ToggleSidebar \/ ToggleMaximized \/ StartPull
       \/ \E w \in Windows : WindowResizes(w)
       \/ \E y \in -1 .. window.height : MovePull(y)
    /\ UNCHANGED <<dockVars, telemetryVars>>

SizesFollow ==
    /\ DragFrame \/ EndDrag \/ EndPull
    /\ UNCHANGED <<dockVars, telemetryVars, quota>>

(* While the pointer drags an edge, the user does nothing else.            *)
Handler ==
    /\ Quiet /\ (bottom.ready <=> store.view = "shell")
    /\ \/ (drag.side = None /\ ~pull.on /\ ~drag.frame) /\ (UserTabs \/ UserDocks \/ Metrics \/ Reports)
       \/ Layout \/ UserSizes \/ SizesFollow

(* The watchers of the sources of telemetry and of the active tabs run     *)
(* before a render, those that mount the docks and follow the tabs after.  *)
Watchers ==
    \/ WatchActive /\ UNCHANGED <<telemetryVars, sizeVars, quota>>
    \/ TelemetryStill /\ (Mount \/ WatchTabs) /\ UNCHANGED <<telemetryVars, sizeVars, quota>>
    \/ Reconcile /\ UNCHANGED <<dockVars, sizeVars, quota>>
    \/ BottomMounts /\ UNCHANGED <<dockVars, telemetryVars, quota>>

Next == Handler \/ Watchers \/ Answered

Spec == Init /\ [][Next]_vars

TypeOK == TabsTypeOK /\ window \in Windows

(* Dragging an edge moves that edge with the pointer and takes from the    *)
(* others only what they can spare (DragFits, EdgeFollows).                *)
PanelsFit == [][DragFits /\ EdgeFollows']_vars
=============================================================================
