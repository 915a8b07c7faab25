----------------------------- MODULE PanelSizes -----------------------------
(***************************************************************************)
(* The sizes of the side panels and of the bottom panel, as the user drags *)
(* their edges (App.vue, BottomPanel.vue, bottom-panel-layout.ts).  Sizes  *)
(* are in a unit of many pixels; the window's edges are at 0.  What the    *)
(* browser measures is what the store says, but for the hidden panels.     *)
(***************************************************************************)
EXTENDS Tabs, Integers

CONSTANTS
    ActivityBar, MinSidebar, MinPanel, MinTerminal, \* widths
    MinHeight, CollapseBelow, DefaultHeight, Header, \* of the bottom panel, of the terminals' tabs
    Windows                                          \* sizes the window may have

ASSUME SizeAssumption ==
    /\ {ActivityBar, MinSidebar, MinPanel, MinTerminal} \subseteq Nat
    /\ {MinHeight, CollapseBelow, DefaultHeight, Header} \subseteq Nat
    /\ CollapseBelow < MinHeight /\ Windows \subseteq [width : Nat, height : Nat]

VARIABLES
    window,  \* its size
    widths,  \* store.sidebarWidth, store.panelWidth, store.sidebarOpen
    drag,    \* resizing of a side panel: the side, and pendingResizeDelta
    bottom,  \* store.bottomPanelHeight, bottomPanelRestoreHeight, bottomPanelMaximized
    pull     \* resizing of the bottom panel; where the pointer is, and as history
             \* whether it began at another height than the one that was shown

sizeVars == <<window, widths, drag, bottom, pull>>

NoDrag == [side |-> None, delta |-> 0, frame |-> FALSE]

NoPull == [on |-> FALSE, from |-> 0, height |-> 0, anchored |-> FALSE, collapsed |-> FALSE,
           at |-> 0, jumps |-> FALSE]

Least(a, b) == IF a < b THEN a ELSE b
Most(a, b) == IF a > b THEN a ELSE b

SizesInit ==
    /\ window \in Windows
    /\ \E open \in BOOLEAN : widths = [sidebar |-> MinSidebar + 1, panel |-> MinPanel + 1, open |-> open]
    /\ drag = NoDrag /\ pull = NoPull
    /\ bottom = [height |-> DefaultHeight, restore |-> DefaultHeight, maximized |-> FALSE, ready |-> FALSE]

Others == UNCHANGED <<term, used, sessions>>

-----------------------------------------------------------------------------
(* Side panels                                                             *)

SidebarVisible == widths.open
PanelVisible == store.view = "shell" /\ store.panelOpen

(* getTerminalWidth                                                        *)
TerminalWidth(w) ==
    Most(0, window.width - ActivityBar - (IF SidebarVisible THEN w.sidebar ELSE 0)
                                       - (IF PanelVisible THEN w.panel ELSE 0))

(* What may be taken from the terminal, then from the panel opposite.      *)
Spare(visible, size, least) == IF visible THEN Most(0, size - least) ELSE 0

(* Mutation: the panel opposite gives way although it is hidden.           *)
Shrunk(w, by, opposite, visible, least) ==
    LET center == Least(by, Most(0, TerminalWidth(w) - MinTerminal))
    IN  [center |-> center, other |-> by - center]

(* The shares of a drag that makes a panel wider.                          *)
Shares(w, by, opposite, visible, least) ==
    LET center == Least(by, Most(0, TerminalWidth(w) - MinTerminal))
    IN  [center |-> center, other |-> Least(by - center, Spare(visible, opposite, least))]

(* resizeLeft                                                              *)
ResizeLeft(w, by) ==
    IF by < 0 THEN [w EXCEPT !.sidebar = Most(MinSidebar, @ + by)]
    ELSE LET s == Shares(w, by, w.panel, PanelVisible, MinPanel) IN
         [w EXCEPT !.sidebar = @ + s.center + s.other, !.panel = @ - s.other]

(* resizeRight                                                             *)
ResizeRight(w, by) ==
    IF by > 0 THEN [w EXCEPT !.panel = Most(MinPanel, @ - by)]
    ELSE LET s == Shares(w, -by, w.sidebar, SidebarVisible, MinSidebar) IN
         [w EXCEPT !.panel = @ + s.center + s.other, !.sidebar = @ - s.other]

(* resize                                                                  *)
Resized(w, side, by) == IF side = "left" THEN ResizeLeft(w, by) ELSE ResizeRight(w, by)

(* startResize of App.vue; the edge of a hidden panel is not there.        *)
StartDrag(side) ==
    /\ drag.side = None /\ ~pull.on
    /\ (side = "left" /\ SidebarVisible) \/ (side = "right" /\ PanelVisible)
    /\ drag' = [drag EXCEPT !.side = side, !.delta = 0]
    /\ UNCHANGED <<store, window, widths, bottom, pull>> /\ Others

(* moveResize, queueResize                                                 *)
MoveDrag(by) ==
    /\ drag.side # None /\ by # 0
    /\ drag' = [drag EXCEPT !.delta = @ + by, !.frame = TRUE]
    /\ UNCHANGED <<store, window, widths, bottom, pull>> /\ Others

ApplyDelta ==
    widths' = IF drag.side = None THEN widths ELSE Resized(widths, drag.side, drag.delta)

(* applyPendingResize, in an animation frame.                              *)
DragFrame ==
    /\ drag.frame /\ ApplyDelta
    /\ drag' = [drag EXCEPT !.frame = FALSE, !.delta = IF drag.side = None THEN @ ELSE 0]
    /\ UNCHANGED <<store, window, bottom, pull>> /\ Others

(* endResize, flushPendingResize                                           *)
EndDrag ==
    /\ drag.side # None /\ ApplyDelta /\ drag' = NoDrag
    /\ UNCHANGED <<store, window, bottom, pull>> /\ Others

(* workbench.toggleConnections                                             *)
ToggleSidebar ==
    /\ drag.side = None /\ widths' = [widths EXCEPT !.open = ~@]
    /\ UNCHANGED <<store, window, drag, bottom, pull>> /\ Others

-----------------------------------------------------------------------------
(* The bottom panel                                                        *)

HasTerminal == \E t \in Terminals : IsOpen(store, t)

BottomVisible == store.view = "shell" /\ store.bottomOpen

(* normalBottomPanelMaxHeight, getNormalMaxHeight                          *)
NormalMax(height) ==
    Most(MinHeight, IF HasTerminal THEN height - 3 * Header ELSE height)

(* clampBottomPanelHeight, clampNormalHeight                               *)
Clamp(height, size) == Least(NormalMax(size), Most(MinHeight, height))

Fit(height) == Clamp(height, window.height)

(* What is seen of the panel (heightStyle).                                *)
ShownHeight == IF bottom.maximized THEN window.height ELSE Fit(bottom.height)

(* onMounted and onBeforeUnmount of BottomPanel, initializeHeight.         *)
BottomMounts ==
    /\ bottom.ready # (store.view = "shell")
    /\ LET unset == (window.height * 35) \div 100 IN
       bottom' = [bottom EXCEPT !.ready = ~@,
                     !.height = IF bottom.ready THEN @
                                ELSE Fit(IF @ = DefaultHeight THEN unset ELSE @)]
    /\ pull' = NoPull
    /\ UNCHANGED <<store, window, widths, drag>> /\ Others

(* The window gets another size (onViewportResize).                        *)
WindowResizes(w) ==
    /\ w # window /\ ~pull.on /\ drag.side = None /\ window' = w
    /\ bottom' = [bottom EXCEPT !.height =
                     IF bottom.ready /\ BottomVisible /\ ~bottom.maximized
                     THEN Clamp(@, w.height) ELSE @]
    /\ UNCHANGED <<store, widths, drag, pull>> /\ Others

(* toggleMaximized, restoreFromMaximized                                   *)
ToggleMaximized ==
    /\ BottomVisible /\ bottom.ready /\ ~pull.on
    /\ bottom' = IF bottom.maximized
                 THEN [bottom EXCEPT !.maximized = FALSE, !.height = Fit(bottom.restore)]
                 ELSE [bottom EXCEPT !.maximized = TRUE, !.restore = bottom.height]
    /\ UNCHANGED <<store, window, widths, drag, pull>> /\ Others

(* startResize of BottomPanel, at the upper edge of the panel.             *)
StartPull ==
    /\ BottomVisible /\ bottom.ready /\ ~pull.on /\ drag.side = None
    /\ LET edge   == window.height - ShownHeight
           height == IF bottom.maximized THEN bottom.restore ELSE bottom.height
       IN  pull' = [NoPull EXCEPT !.on = TRUE, !.from = edge, !.at = edge, !.height = height,
                        !.jumps = ~bottom.maximized /\ height # ShownHeight]
    /\ UNCHANGED <<store, window, widths, drag, bottom>> /\ Others

Boundary == IF HasTerminal THEN Header ELSE 0

Leaves(y) == bottom.maximized /\ y > Boundary

Requested(y) ==
    IF pull.anchored \/ Leaves(y) THEN window.height - y ELSE pull.height + pull.from - y

(* shouldMaximizeBottomPanel, after exitMaximizedForResize.                *)
Maximizes(y) == y <= Boundary /\ Requested(y) > NormalMax(window.height)

Handles(y) == pull.on /\ (bottom.maximized => Leaves(y))

PullTo(y) == [pull EXCEPT !.anchored = @ \/ Leaves(y), !.at = y]

(* moveResize of BottomPanel, one action for each way it goes.             *)
PullStays(y) ==
    /\ pull.on /\ \/ bottom.maximized /\ ~Leaves(y)
                  \/ pull.collapsed /\ Requested(y) < CollapseBelow
    /\ pull' = [pull EXCEPT !.at = y] /\ UNCHANGED <<store, bottom>>

PullReopens(y) ==
    /\ Handles(y) /\ pull.collapsed /\ Requested(y) >= CollapseBelow
    /\ store' = [store EXCEPT !.bottomOpen = TRUE]
    /\ bottom' = [bottom EXCEPT !.height = Fit(Requested(y)), !.maximized = FALSE]
    /\ pull' = [PullTo(y) EXCEPT !.collapsed = FALSE]

PullMaximizes(y) ==
    /\ Handles(y) /\ ~pull.collapsed /\ Maximizes(y)
    /\ bottom' = [bottom EXCEPT !.restore = pull.height, !.height = Fit(pull.height), !.maximized = TRUE]
    /\ pull' = PullTo(y) /\ UNCHANGED store

PullCollapses(y) ==
    /\ Handles(y) /\ ~pull.collapsed /\ ~Maximizes(y) /\ Requested(y) < CollapseBelow
    /\ store' = [store EXCEPT !.bottomOpen = FALSE]
    /\ bottom' = [bottom EXCEPT !.maximized = FALSE,
                      !.height = IF bottom.maximized THEN NormalMax(window.height) ELSE @]
    /\ pull' = [PullTo(y) EXCEPT !.collapsed = TRUE]

PullMoves(y) ==
    /\ Handles(y) /\ ~pull.collapsed /\ ~Maximizes(y) /\ Requested(y) >= CollapseBelow
    /\ bottom' = [bottom EXCEPT !.height = Fit(Requested(y)), !.maximized = FALSE]
    /\ pull' = PullTo(y) /\ UNCHANGED store

MovePull(y) ==
    /\ PullStays(y) \/ PullReopens(y) \/ PullMaximizes(y) \/ PullCollapses(y) \/ PullMoves(y)
    /\ UNCHANGED <<window, widths, drag>> /\ Others

EndPull ==
    /\ pull.on /\ pull' = NoPull
    /\ UNCHANGED <<store, window, widths, drag, bottom>> /\ Others

-----------------------------------------------------------------------------
(* A drag leaves the terminal and each side panel its least width, or what *)
(* it had if that was less, and does not change a panel that is hidden.    *)
DragFits ==
    drag.side # None =>
        /\ TerminalWidth(widths)' >= Least(MinTerminal, TerminalWidth(widths))
        /\ widths.sidebar' >= Least(MinSidebar, widths.sidebar)
        /\ widths.panel' >= Least(MinPanel, widths.panel)
        /\ ~PanelVisible => widths.panel' = widths.panel
        /\ ~SidebarVisible => widths.sidebar' = widths.sidebar

(* The upper edge of the bottom panel is under the pointer that drags it,  *)
(* or as near as its height allows, also after it was collapsed or         *)
(* maximized on the way; unless the window changed while the panel was     *)
(* hidden or maximized, for then the drag begins at a height of before.    *)
EdgeFollows ==
    pull.on /\ ~pull.jumps /\ BottomVisible /\ ~bottom.maximized =>
        ShownHeight = Fit(window.height - pull.at)
=============================================================================
