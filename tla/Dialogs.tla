------------------------------ MODULE Dialogs ------------------------------
(***************************************************************************)
(* The one interaction dialog of the page (dialogs.ts, InteractionDialog): *)
(* a question is shown when the slot is free and refused at once, with the *)
(* answer of a user who cancels, when it is not.                           *)
(***************************************************************************)
EXTENDS Integers, FiniteSets

VARIABLE dialog   \* store.interactionDialog, and who holds its promise

dialogVars == dialog

NoQuestion == [by |-> "nobody", tab |-> "none", paths |-> {}]

DialogInit == dialog = NoQuestion

Busy == dialog # NoQuestion

(* open                                                                    *)
Asks(q) == dialog' = IF Busy THEN dialog ELSE q

(* settleInteractionDialog: only the resolver of the question shown runs.  *)
Settles == dialog' = NoQuestion

(* confirmDialog and alertDialog of code that has no other state here, as  *)
(* SettingsDialog has; both end with a click of the user.                  *)
AskElsewhere ==
    ~Busy /\ Asks([by |-> "settings", tab |-> "none", paths |-> {}])

AnswerElsewhere == dialog.by \in {"settings", "alert"} /\ Settles
=============================================================================
