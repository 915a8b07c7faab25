------------------------------- MODULE Menus -------------------------------
(***************************************************************************)
(* Commands and menus (commandRegistry.ts, menuRegistry.ts,                *)
(* actionRegistry.ts, CommandContextMenu.vue): every command and menu      *)
(* entry is registered when its module is loaded and stays; a menu is      *)
(* opened with the context of that moment and resolved again whenever a    *)
(* context key changes, and a command is asked again when it is run.       *)
(***************************************************************************)
EXTENDS WhenClauses, FiniteSets, TLC

CONSTANTS
    MenuCommands, \* the registered commands: their clauses, as trees
    Entries,      \* the contributions to each menu
    Submenus,     \* parent and id of each submenu
    Clauses,      \* more clauses the parser is tried on
    Areas,        \* number of each area, as a string value
    AppKeys       \* the keys syncAppContext sets to booleans

VARIABLES
    keys,      \* the values of contextKeyService
    facts,     \* what is true of the terminal a menu is opened on
    menu,      \* the open menu and the context of its invocation
    ran,       \* history: the command that ran last, and whether its clauses meant it to
    menuSteps  \* bound: steps of the user and the application still to come

menuVars == <<keys, facts, menu, ran, menuSteps>>

NoContext == [k \in {} |-> Undefined]
NoMenu == [id |-> "none", ctx |-> NoContext]

MenuInit ==
    /\ keys = [k \in AppKeys |-> Bool(FALSE)] /\ menu = NoMenu
    /\ facts = [tab |-> TRUE, selection |-> FALSE, online |-> TRUE]
    /\ ran = [command |-> "none", meant |-> TRUE]

-----------------------------------------------------------------------------
(* getSnapshot: the context of the invocation lies over the keys.          *)
Snapshot(ctx) == ctx @@ keys

Evaluate(e, ctx) == EvaluateWhen(Written(e), Snapshot(ctx))

(* isVisible, isEnabled of CommandService                                  *)
IsVisible(c, ctx) == c \in DOMAIN MenuCommands /\ Evaluate(MenuCommands[c].when, ctx)

IsEnabled(c, ctx) == IsVisible(c, ctx) /\ Evaluate(MenuCommands[c].enablement, ctx)

(* sorted: by group, order and the sequence of registration                *)
Before(a, b) ==
    \/ a.group < b.group
    \/ a.group = b.group /\ a.order < b.order
    \/ a.group = b.group /\ a.order = b.order /\ a.seq < b.seq

Sorted(id) == SetToSortSeq({e \in Entries : e.menu = id}, Before)

Item(e, children, enabled) == [entry |-> e, children |-> children, enabled |-> enabled]

(* A submenu that was not registered, or without an item, is left out.     *)
Listed(e, children) == e.id \in Submenus /\ children # <<>>

(* resolve and resolveEntries                                              *)
ResolveEntries(id, ctx) ==
    LET resolve[m \in {e.menu : e \in Entries}] ==
        LET Adds(e) ==
              CASE e.is = "separator" -> <<Item(e, <<>>, FALSE)>>
                [] e.is = "submenu" /\ Evaluate(e.when, ctx) /\ Listed(e, resolve[e.id]) ->
                     <<Item(e, resolve[e.id], TRUE)>>
                [] e.is = "command" /\ Evaluate(e.when, ctx) /\ IsVisible(e.id, ctx) ->
                     <<Item(e, <<>>, IsEnabled(e.id, ctx))>>
                [] OTHER -> <<>>
            entries == Sorted(m)
        IN  FlattenSeq([i \in DOMAIN entries |-> Adds(entries[i])])
    IN resolve[id]

Items == ResolveEntries(menu.id, menu.ctx)

(* The items and those of the submenus, which hold no submenus.            *)
Flat(items) == FlattenSeq([i \in DOMAIN items |-> <<items[i]>> \o items[i].children])

-----------------------------------------------------------------------------
Spends == menuSteps > 0 /\ menuSteps' = menuSteps - 1

(* The watch of App.vue sets one of its keys.                              *)
SyncAppContext(k, v) ==
    /\ Spends /\ keys[k] # v /\ keys' = [keys EXCEPT ![k] = v]
    /\ UNCHANGED <<facts, menu, ran>>

(* The terminal changes: its tab is closed, text is selected, it goes      *)
(* offline.  An open menu keeps the context it was opened with.            *)
FactChanges(f) ==
    /\ Spends /\ facts' = [facts EXCEPT ![f] = ~@]
    /\ UNCHANGED <<keys, menu, ran>>

(* contextValues of the context a menu on a terminal is opened with        *)
TerminalContext ==
    ("area" :> Areas["terminal"]) @@ ("tabExists" :> Bool(facts.tab))
        @@ ("hasSelection" :> Bool(facts.selection)) @@ ("isOnline" :> Bool(facts.online))

(* ... of one on the hosts that are selected, and of the activity bar      *)
HostContext(n) == ("area" :> Areas["host"]) @@ ("selectedCount" :> <<"number", n>>)
GlobalContext == "area" :> Areas["global"]

(* onContextMenu                                                           *)
OpenMenu(id, ctx) ==
    /\ menu = NoMenu /\ Spends /\ menu' = [id |-> id, ctx |-> ctx]
    /\ UNCHANGED <<keys, facts, ran>>

(* onOpenChange(false)                                                     *)
CloseMenu ==
    /\ menu # NoMenu /\ menu' = NoMenu
    /\ UNCHANGED <<keys, facts, ran, menuSteps>>

(* What the clauses of a command mean under some values.                   *)
Meant(c, ks) == Means(MenuCommands[c].when, ks) /\ Means(MenuCommands[c].enablement, ks)

(* execute of CommandService                                               *)
Runs(c, ctx) ==
    ran' = IF IsEnabled(c, ctx) THEN [command |-> c, meant |-> Meant(c, Snapshot(ctx))] ELSE ran

Click(item) ==
    /\ item.entry.is = "command" /\ item.enabled
    /\ Runs(item.entry.id, menu.ctx) /\ menu' = NoMenu
    /\ UNCHANGED <<keys, facts, menuSteps>>

MenuNext ==
    \/ \E k \in AppKeys, b \in BOOLEAN : SyncAppContext(k, Bool(b))
    \/ \E f \in DOMAIN facts : FactChanges(f)
    \/ OpenMenu("terminal.context", TerminalContext)
    \/ \E n \in 0..2 : OpenMenu("host.context", HostContext(n))
    \/ OpenMenu("workbench.activity", GlobalContext)
    \/ CloseMenu
    \/ menu # NoMenu /\ \E item \in Range(Flat(Items)) : Click(item)

-----------------------------------------------------------------------------
(* The entries a menu has at present, those of its submenus included, and  *)
(* of them those that are to be seen under some values.                    *)
Tree == {e \in Entries : e.menu = menu.id
             \/ \E s \in Entries : s.is = "submenu" /\ s.menu = menu.id /\ s.id = e.menu}

Seen(tree, ks) ==
    LET visible == {e \in tree : e.is = "command" /\ Means(MenuCommands[e.id].when, ks)}
    IN  visible \cup {e \in tree : e.is = "separator"}
                \cup {e \in tree : e.is = "submenu" /\ \E v \in visible : v.menu = e.id}

(* Some items are these entries, each once, in the order of groups.        *)
Lists(flat, entries) ==
    /\ {flat[i].entry : i \in DOMAIN flat} = entries /\ Len(flat) = Cardinality(entries)
    /\ \A i, j \in DOMAIN flat :
          LET a == flat[i].entry
              b == flat[j].entry
          IN  (a.menu = b.menu /\ <<a.group, a.order>> # <<b.group, b.order>>
               /\ a.group <= b.group /\ (a.group = b.group => a.order <= b.order)) => i < j

Enables(flat, ks) ==
    \A i \in DOMAIN flat : flat[i].entry.is = "command" => flat[i].enabled = Meant(flat[i].entry.id, ks)

Agree(ks) == \A e \in Clauses : EvaluateWhen(Written(e), ks) = Means(e, ks)

Offers(flat, ks) == Agree(ks) /\ Lists(flat, Seen(Tree, ks)) /\ Enables(flat, ks)

(* What a menu shows and what runs is what the clauses mean: read with the *)
(* usual precedence of ! && || and parentheses, under the keys of now and  *)
(* the context of the invocation.  An open menu offers exactly the visible *)
(* commands of its tree, each once, enabled exactly when it could run, in  *)
(* the order of groups, and no submenu is empty.                           *)
ShownIsMeant ==
    ran.meant /\ (menu # NoMenu => Offers(Flat(Items), Snapshot(menu.ctx)))
=============================================================================
