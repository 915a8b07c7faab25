-------------------------------- MODULE Docks --------------------------------
(***************************************************************************)
(* The docks that show the tabs (MainDock.vue, BottomPanelDock.vue,        *)
(* workspace-docking.ts).  Each keeps panels of its own in a Dockview and  *)
(* follows the store by watchers: those on the active tab run first        *)
(* (WatchActive), then what appeared is mounted (Mount), then those on the *)
(* list of tabs run (WatchTabs).  Dockview reports what became active.     *)
(*                                                                         *)
(* A bottom dock has panes, each with the panels of some tabs.  Panes of   *)
(* one workspace group are shown together, the others are hidden.  The     *)
(* sizes of panes, and dragging terminals in their dock, are left out.     *)
(***************************************************************************)
EXTENDS Tabs

VARIABLES
    main,  \* MainDock: its panels, the active one, ignoreDockviewActive
    dock,  \* BottomPanelDock of each category
    seen   \* what the watchers have seen of store.tabs and the active tabs

dockVars == <<main, dock, seen>>

BottomKinds == {"file", "editor"}

NoMain == [mounted |-> FALSE, panels |-> <<>>, active |-> None, ignore |-> FALSE]

NoDock == [panes |-> <<>>, active |-> None, group |-> None,
           groupOf |-> [t \in Listings \cup Editors |-> None],
           pending |-> None, frames |-> 0, flips |-> FALSE]

Seen(s) == [tabs |-> s.tabs, active |-> s.active]

DocksInit == main = NoMain /\ dock = [k \in BottomKinds |-> NoDock] /\ seen = Seen(store)

(* The watchers have nothing left to do.                                   *)
Still == seen = Seen(store) /\ (main.mounted <=> store.view = "shell")

-----------------------------------------------------------------------------
(* A bottom dock.  A store and a dock go together through the functions    *)
(* that a handler calls, in their order.                                   *)

With(s, d) == [s |-> s, d |-> d]

Panels(d) == UNION {ToSet(d.panes[i].panels) : i \in DOMAIN d.panes}

(* getPanel: the place of the pane that has the panel, or 0.               *)
PaneOf(d, t) == SelectInSeq(d.panes, LAMBDA p : t \in ToSet(p.panels))

Pane(ids, group) == [panels |-> ids, group |-> group, shown |-> TRUE]

(* ensurePanelWorkspaceGroup, newWorkspaceGroupId: named after the tab.    *)
EnsureGroup(d, t) == IF d.groupOf[t] = None THEN t ELSE d.groupOf[t]

(* syncDockWorkspaceGroups: tabs that are closed lose their group; a pane  *)
(* without one takes its first panel's, and a panel without one its pane's.*)
SyncGroups(s, d, k) ==
    LET kept == [d EXCEPT !.groupOf =
                    [t \in DOMAIN @ |-> IF IsOpen(s, t) THEN d.groupOf[t] ELSE None]]
        group(p) == IF p.group # None THEN p.group ELSE EnsureGroup(kept, p.panels[1])
    IN  [kept EXCEPT
           !.panes = [i \in DOMAIN @ |-> [d.panes[i] EXCEPT !.group = group(d.panes[i])]],
           !.groupOf = [t \in DOMAIN @ |-> IF kept.groupOf[t] = None /\ t \in Panels(d)
                                           THEN group(d.panes[PaneOf(d, t)]) ELSE kept.groupOf[t]]]

(* workspaceGroupForPanel                                                  *)
GroupFor(d, t) == IF t \in Panels(d) THEN d.panes[PaneOf(d, t)].group
                  ELSE IF t = None THEN None ELSE d.groupOf[t]

(* schedulePanelActivation: at once, and again after two layout passes, in *)
(* which Dockview may choose a panel itself.                               *)
ScheduleActivation(d, t) ==
    [d EXCEPT !.active = t, !.pending = t, !.frames = 2, !.flips = TRUE]

(* applyWorkspaceGroupVisibility: which group is to be shown, which panel   *)
(* of it is to be active, and both of them done.                           *)
WantedGroup(s, d, k, preferred) ==
    LET groups == {d.panes[i].group : i \in DOMAIN d.panes}
        wanted == SelectSeq(<<IF preferred \in Panels(d) THEN GroupFor(d, preferred) ELSE None,
                              IF d.group \in groups THEN d.group ELSE None,
                              GroupFor(d, s.active[k]),
                              IF d.panes = <<>> THEN None ELSE d.panes[1].group>>,
                            LAMBDA g : g # None)
    IN  IF wanted = <<>> THEN None ELSE wanted[1]

WantedPanel(s, d, k, group, preferred) ==
    LET shown == SelectSeq(d.panes, LAMBDA p : p.group = group) IN
    IF preferred \in Panels(d) THEN preferred
    ELSE IF \E i \in DOMAIN shown : s.active[k] \in ToSet(shown[i].panels) THEN s.active[k]
    ELSE IF shown = <<>> \/ group = None THEN None ELSE shown[1].panels[1]

ShowGroup(d, group) ==
    IF group = None THEN d
    ELSE [d EXCEPT !.group = group,
                   !.panes = [i \in DOMAIN @ |-> [d.panes[i] EXCEPT !.shown = d.panes[i].group = group]]]

ShowPanel(s, d, k, t) ==
    IF t = None THEN With(s, d)
    ELSE With([s EXCEPT !.active[k] = t], IF d.active = t THEN d ELSE ScheduleActivation(d, t))

ApplySynced(s, d, k, preferred) ==
    ShowPanel(s, ShowGroup(d, WantedGroup(s, d, k, preferred)), k,
              WantedPanel(s, d, k, WantedGroup(s, d, k, preferred), preferred))

ApplyVisibility(s, d, k, preferred) == ApplySynced(s, SyncGroups(s, d, k), k, preferred)

(* restoreActivePanel                                                      *)
Tell(r, k, t, asked) ==
    IF t # asked /\ r.s.category = k THEN With(SetBottomActive(r.s, t), r.d) ELSE r

RestoreActive(r, k) ==
    LET asked == r.s.active[k]
        t     == IF asked \in Panels(r.d) THEN asked ELSE r.d.active
    IN  IF t = None THEN r ELSE Tell(ApplyVisibility(r.s, r.d, k, t), k, t, asked)

(* A pane whose last panel leaves is gone; if the active panel leaves,     *)
(* Dockview takes another.                                                 *)
Without(d, t) ==
    LET i    == PaneOf(d, t)
        rest == SelectSeq(d.panes[i].panels, LAMBDA x : x # t)
        left == IF rest = <<>> THEN RemoveAt(d.panes, i)
                ELSE [d.panes EXCEPT ![i].panels = rest]
        next == IF rest # <<>> THEN rest[Len(rest)]
                ELSE IF left # <<>> THEN left[1].panels[1] ELSE None
    IN  [d EXCEPT !.panes = left, !.active = IF @ = t THEN next ELSE @]

(* removePanel                                                             *)
RemovePanel(r, k, t) ==
    LET i == PaneOf(r.d, t) IN
    ApplyVisibility(r.s, IF i = 0 THEN r.d
                         ELSE Without([r.d EXCEPT !.panes[i].group = None, !.groupOf[t] = None], t),
                    k, None)

(* addPanel: a group of its own, right of the active pane.                 *)
AddPanel(r, k, t) ==
    LET d  == r.d
        at == IF d.panes = <<>> THEN 1 ELSE 1 + (IF d.active = None THEN 1 ELSE PaneOf(d, d.active))
        g  == EnsureGroup(d, t)
    IN  IF t \in Panels(d) THEN r
        ELSE ApplyVisibility(r.s, [d EXCEPT !.groupOf[t] = g,
                                            !.panes = InsertAt(@, at, Pane(<<t>>, g))], k, None)

Synced(r, k) == With(r.s, SyncGroups(r.s, r.d, k))

(* The watcher of the list of tabs; onReady does the same with an empty    *)
(* list before.                                                            *)
FollowTabs(r, k, before) ==
    LET removed == SelectSeq(before, LAMBDA t : t \notin ToSet(TabsOf(r.s, k)))
        added   == FoldLeft(LAMBDA x, t : AddPanel(x, k, t),
                            FoldLeft(LAMBDA x, t : RemovePanel(x, k, t), r, removed), TabsOf(r.s, k))
    IN  RestoreActive(Synced(added, k), k)

(* onDidActivePanelChange of a bottom dock, when it is not synchronizing.  *)
DidActivate(s, unsynced, k, t) ==
    LET d == SyncGroups(s, unsynced, k) IN
    IF unsynced.pending \notin {None, t} THEN With(s, unsynced)
    ELSE With(SetBottomActive(s, t), [d EXCEPT !.pending = None, !.group = GroupFor(d, t)])

-----------------------------------------------------------------------------
(* The dock of the terminals                                               *)

(* onDidActivePanelChange of MainDock                                      *)
MainActivated(s, m, t) ==
    IF m.ignore THEN s ELSE [s EXCEPT !.active["terminal"] = t, !.focused = "terminal"]

RemoveTerminal(r, t) ==
    LET left == SelectSeq(r.d.panels, LAMBDA x : x # t)
        next == IF left = <<>> THEN None ELSE left[1]
        m    == [r.d EXCEPT !.panels = left, !.active = IF @ = t THEN next ELSE @]
    IN  With(IF r.d.active = t THEN MainActivated(r.s, m, next) ELSE r.s, m)

(* addPanel: where the list of tabs has it; Dockview activates it.         *)
AddTerminal(r, t) ==
    LET order == SelectSeq(r.s.tabs, LAMBDA x : x = t \/ x \in ToSet(r.d.panels))
        m     == [r.d EXCEPT !.panels = order, !.active = t]
    IN  IF t \in ToSet(r.d.panels) THEN r ELSE With(MainActivated(r.s, m, t), m)

(* The watcher of the list of tabs, with the activation in its nextTick.   *)
FollowTerminals(s, m, before) ==
    LET r == FoldLeft(RemoveTerminal, With(s, m), SelectSeq(before, LAMBDA t : ~IsOpen(s, t)))
        a == FoldLeft(AddTerminal, r, TabsOf(s, "terminal"))
        t == a.s.active["terminal"]
    IN  IF t \in ToSet(a.d.panels) \ ToSet(before) THEN [a EXCEPT !.d.active = t] ELSE a

(* The watcher of activeTerminalTabId.                                     *)
ShowTerminal(s, m) ==
    LET t == s.active["terminal"] IN
    IF t \in ToSet(m.panels) THEN [m EXCEPT !.active = t, !.ignore = TRUE] ELSE m

-----------------------------------------------------------------------------
(* What a dock writes into the store: the active tabs and the focus.       *)
Writes(s) ==
    store' = [store EXCEPT !.active = [k \in Kinds |-> s.active[k]],
                           !.category = s.category, !.focused = s.focused]

-----------------------------------------------------------------------------
(* Watchers                                                                *)

(* The pre-flush watchers of the three active tabs.                        *)
WatchActive ==
    /\ seen.active # store.active
    /\ LET changed(k) == main.mounted /\ seen.active[k] # store.active[k] /\ store.active[k] # None
           f == IF changed("file") THEN ApplyVisibility(store, dock["file"], "file", store.active["file"])
                ELSE With(store, dock["file"])
           e == IF changed("editor") THEN ApplyVisibility(f.s, dock["editor"], "editor", f.s.active["editor"])
                ELSE With(f.s, dock["editor"])
       IN  /\ Writes(e.s) /\ dock' = [file |-> f.d, editor |-> e.d]
           /\ main' = IF changed("terminal") THEN ShowTerminal(store, main) ELSE main
    /\ seen' = [seen EXCEPT !.active = store.active]
    /\ UNCHANGED <<term, used, sessions>>

Followed(m, f, e) ==
    /\ Writes(e.s) /\ main' = [m.d EXCEPT !.ignore = FALSE]
    /\ dock' = [file |-> f.d, editor |-> e.d]

FollowEditors(m, f, before) ==
    Followed(m, f, FollowTabs(With(f.s, dock["editor"]), "editor", before))

FollowListings(m, before) ==
    FollowEditors(m, FollowTabs(With(m.s, dock["file"]), "file", before), before)

Follow(before) ==
    FollowListings(FollowTerminals(store, [main EXCEPT !.mounted = TRUE], before), before)

(* App.vue shows the docks while the view is the shell; onReady.           *)
Mount ==
    /\ seen.active = store.active /\ main.mounted # (store.view = "shell")
    /\ IF main.mounted THEN main' = NoMain /\ dock' = [k \in BottomKinds |-> NoDock] /\ UNCHANGED store
                       ELSE Follow(<<>>)
    /\ seen' = Seen(store) /\ UNCHANGED <<term, used, sessions>>

(* The post-flush watchers of store.tabs.                                  *)
WatchTabs ==
    /\ seen.active = store.active /\ main.mounted /\ store.view = "shell" /\ seen.tabs # store.tabs
    /\ Follow(seen.tabs)
    /\ seen' = Seen(store) /\ UNCHANGED <<term, used, sessions>>

-----------------------------------------------------------------------------
(* What the user and Dockview do                                           *)

Bottom(k, r) ==
    /\ Writes(r.s) /\ dock' = [dock EXCEPT ![k] = r.d]
    /\ UNCHANGED <<term, used, sessions, main, seen>>

ClickTerminal(t) ==
    /\ t \in ToSet(main.panels) \ {main.active}
    /\ main' = [main EXCEPT !.active = t]
    /\ store' = MainActivated(store, [main EXCEPT !.ignore = FALSE], t)
    /\ UNCHANGED <<term, used, sessions, dock, seen>>

(* selectInstance                                                          *)
SelectInstance(k, t) ==
    /\ t \in ToSet(TabsOf(store, k)) /\ main.mounted
    /\ Bottom(k, ApplyVisibility(SetBottomActive(store, t), dock[k], k, t))

(* selectCategory, closePanel, workbench.toggleBottomPanel                 *)
SelectCategory(k) ==
    /\ store.category # k /\ store.view = "shell"
    /\ store' = [store EXCEPT !.category = k, !.focused = "bottomPanel"]
    /\ UNCHANGED <<term, used, sessions, dockVars>>

ToggleBottomPanel ==
    /\ store' = [store EXCEPT !.bottomOpen = ~@] /\ UNCHANGED <<term, used, sessions, dockVars>>

(* A panel of another pane that is shown gets the focus.                   *)
ClickPanel(k, t) ==
    /\ t \in Panels(dock[k]) \ {dock[k].active} /\ dock[k].panes[PaneOf(dock[k], t)].shown
    /\ Bottom(k, DidActivate(store, [dock[k] EXCEPT !.active = t], k, t))

(* FilePanel's timer while something is dragged over a listing.            *)
DragOverListing(t) ==
    /\ t \in Panels(dock["file"]) /\ dock["file"].panes[PaneOf(dock["file"], t)].shown
    /\ store' = SetBottomActive(store, t) /\ UNCHANGED <<term, used, sessions, dockVars>>

(* onDidDrop in the middle or at an edge of a pane; at an edge the panels  *)
(* that stay behind in another pane follow, in a pane of their own.        *)
Dropped(s, unsynced, k, t, j, where) ==
    LET d      == SyncGroups(s, unsynced, k)
        onto   == d.panes[j]
        from   == d.panes[PaneOf(d, t)]
        rest   == IF from = onto THEN <<>> ELSE SelectSeq(from.panels, LAMBDA x : x # t)
        stays  == SelectSeq(onto.panels, LAMBDA x : x # t)
        others == IF rest = <<>> THEN <<>> ELSE <<Pane(rest, onto.group)>>
        kept   == IF stays = <<>> THEN <<>> ELSE <<Pane(stays, onto.group)>>
        new    == <<Pane(<<t>>, onto.group)>>
        there  == IF where = "before" THEN new \o others \o kept ELSE kept \o others \o new
        edge(p) == IF p = onto THEN there ELSE IF p = from THEN <<>> ELSE <<p>>
        left(p) == SelectSeq(p.panels, LAMBDA x : x # t)
        middle(p) == IF p = onto THEN <<[p EXCEPT !.panels = stays \o <<t>>]>>
                     ELSE IF left(p) = <<>> THEN <<>> ELSE <<[p EXCEPT !.panels = left(p)]>>
        moved  == IF where = "center" THEN {t} ELSE {t} \cup ToSet(rest)
    IN  [d EXCEPT !.panes = FlattenSeq([i \in DOMAIN @ |-> IF where = "center" THEN middle(@[i])
                                                           ELSE edge(@[i])]),
                  !.groupOf = [x \in DOMAIN @ |-> IF x \in moved THEN onto.group ELSE @[x]],
                  !.group = IF where = "center" THEN @ ELSE onto.group,
                  !.active = IF where = "center" THEN t ELSE @]

Drop(k, t, j, where) ==
    /\ t \in Panels(dock[k]) /\ j \in DOMAIN dock[k].panes /\ dock[k].panes[j].shown
    /\ t \in ToSet(TabsOf(store, k))
    /\ LET d == Dropped(store, dock[k], k, t, j, where) IN
       Bottom(k, ApplyVisibility(SetBottomActive(store, t), d, k, t))

(* onDidLayoutChange                                                       *)
LayoutChanges(k) == dock[k].panes # <<>> /\ Bottom(k, ApplyVisibility(store, dock[k], k, None))

(* In a layout pass after a change of visibility Dockview may take the     *)
(* first panel that is shown for the one just activated, once.             *)
DockviewChooses(k) ==
    LET shown == SelectSeq(dock[k].panes, LAMBDA p : p.shown)
        d == [dock[k] EXCEPT !.flips = FALSE, !.active = shown[1].panels[1]]
    IN  /\ dock[k].pending = dock[k].active /\ dock[k].flips /\ shown # <<>> /\ d.active # dock[k].active
        /\ Bottom(k, DidActivate(store, d, k, d.active))

(* activate, in an animation frame.                                        *)
Frame(k) ==
    LET d    == dock[k]
        t    == d.pending
        last == [d EXCEPT !.frames = @ - 1, !.pending = IF d.frames = 1 THEN None ELSE @]
        r    == DidActivate(store, [d EXCEPT !.active = t], k, t)
    IN  /\ t # None
        /\ IF t \notin Panels(d) THEN Bottom(k, With(store, [d EXCEPT !.pending = None]))
           ELSE IF d.active # t THEN Bottom(k, r)
           ELSE Bottom(k, With([store EXCEPT !.active[k] = t], last))

-----------------------------------------------------------------------------
(* The list of instances                                                   *)

(* workspaceSplitMarker                                                    *)
SplitMarker(i, n) ==
    IF n <= 1 THEN "" ELSE IF i = 1 THEN "first" ELSE IF i = n THEN "last" ELSE "middle"

(* arrangeWorkspaceInstances: by groups, in the order of their first tabs; *)
(* then the tabs that no pane has.                                         *)
Arranged(s, d, k) ==
    LET ids    == TabsOf(s, k)
        order(t) == SelectInSeq(ids, LAMBDA x : x = t)
        known(p) == SelectSeq(p.panels, LAMBDA t : t \in ToSet(ids))
        panes  == SelectSeq([i \in DOMAIN d.panes |-> [d.panes[i] EXCEPT !.panels = known(d.panes[i])]],
                            LAMBDA p : p.panels # <<>>)
        inGroup(g) == SelectSeq(panes, LAMBDA p : p.group = g)
        first(g) == CHOOSE i \in 1 .. Len(ids) :
                        /\ \E p \in ToSet(inGroup(g)) : ids[i] \in ToSet(p.panels)
                        /\ \A j \in 1 .. i - 1, p \in ToSet(inGroup(g)) : ids[j] \notin ToSet(p.panels)
        groups == SetToSortSeq({p.group : p \in ToSet(panes)}, LAMBDA g, h : first(g) < first(h))
        lines(g) == LET ps == inGroup(g) IN
                    FlattenSeq([i \in DOMAIN ps |->
                        [n \in DOMAIN ps[i].panels |-> [tab |-> ps[i].panels[n],
                                                        marker |-> SplitMarker(i, Len(ps))]]])
        placed == FlattenSeq([i \in DOMAIN groups |-> lines(groups[i])])
        rest   == SelectSeq(ids, LAMBDA t : \A i \in DOMAIN placed : placed[i].tab # t)
    IN  placed \o [i \in DOMAIN rest |-> [tab |-> rest[i], marker |-> ""]]

-----------------------------------------------------------------------------
(* Nothing is to be watched, and no activation is under way.               *)
Settled == Still /\ \A k \in BottomKinds : dock[k].pending = None

DockFollows(k) ==
    LET d    == dock[k]
        list == Arranged(store, d, k)
    IN  /\ Panels(d) = ToSet(TabsOf(store, k))
        /\ IF d.panes = <<>> THEN d.active = None ELSE d.active = store.active[k]
        /\ \A i \in DOMAIN d.panes :
               /\ d.panes[i].shown <=> d.panes[i].group = d.group
               /\ d.active \in ToSet(d.panes[i].panels) => d.panes[i].shown
               /\ \A t \in ToSet(d.panes[i].panels) : d.groupOf[t] = d.panes[i].group
        /\ Len(list) = Len(TabsOf(store, k))
        /\ {list[i].tab : i \in DOMAIN list} = Panels(d)

(* Once the docks have followed the store, each shows the tab that the     *)
(* store says is active and only panes that belong together, every open    *)
(* tab has one panel and one line in the list of its dock, and a kind has  *)
(* an active tab as long as any is open.  (When the last listing closes,   *)
(* the store may go on naming it as the active one.)                       *)
DocksFollow ==
    Settled =>
        /\ \A k \in Kinds : TabsOf(store, k) # <<>> => store.active[k] \in ToSet(TabsOf(store, k))
        /\ main.mounted =>
              /\ main.panels = TabsOf(store, "terminal") /\ main.active = store.active["terminal"]
              /\ \A k \in BottomKinds : DockFollows(k)
=============================================================================
