------------------------------ MODULE Commands ------------------------------
(***************************************************************************)
(* Menus and shortcuts together (keybindingService.ts, App.vue): a key     *)
(* that is pressed outside of a text field runs the first command it is    *)
(* bound to on its page, with the context of the tab that has the focus.   *)
(***************************************************************************)
EXTENDS Menus, Keybindings

CONSTANT Quotas  \* bounds: the steps with menus, and the changes on each page

vars == <<menuVars, keyVars>>

Init ==
    /\ \E q \in Quotas : menuSteps = q.menu /\ left = q.keys
    /\ MenuInit /\ KeyInit

(* The listener of attach.  A command that is not enabled keeps the key    *)
(* from the others that are bound to it.                                   *)
KeyDown(p, event, inText, ctx) ==
    /\ boot[p].pc = "ready" /\ menu = NoMenu /\ ~Editing(p)
    /\ IF inText \/ Resolve(memory[p], event) = "none" THEN UNCHANGED ran
       ELSE Runs(Resolve(memory[p], event), ctx)
    /\ Spends /\ UNCHANGED <<keys, facts, menu, keyVars>>

(* The context App.vue gives: the area of the focused tab, and its id.     *)
FocusContext(area) == ("area" :> Areas[area]) @@ ("tabExists" :> Bool(facts.tab))

PressNext ==
    menuSteps > 0 /\ \E p \in Pages, e \in Events, inText \in BOOLEAN, area \in {"file", "global"} :
        KeyDown(p, e, inText, FocusContext(area))

Next ==
    \/ KeyNext /\ UNCHANGED menuVars
    \/ MenuNext /\ UNCHANGED keyVars
    \/ PressNext

Spec == Init /\ [][Next]_vars
=============================================================================
