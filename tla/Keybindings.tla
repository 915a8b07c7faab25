---------------------------- MODULE Keybindings ----------------------------
(***************************************************************************)
(* Keyboard shortcuts (keybindingRegistry.ts, keybindingPreferences.ts,    *)
(* KeyboardShortcutsDialog.vue): each page has a registry in memory, fills *)
(* it from IndexedDB when it starts, changes it in the dialog, and writes  *)
(* the whole record back, one write after the other.                       *)
(*                                                                         *)
(* No default has a weight of its own and every override has weight 1000,  *)
(* so the strength of a binding is its place: the defaults as they were    *)
(* registered, then the overrides as they were last set.                   *)
(***************************************************************************)
EXTENDS Naturals, Sequences, SequencesExt

CONSTANTS
    Pages,       \* pages of the PWA on one IndexedDB
    Commands,    \* ids of commands
    Codes,       \* codes of keys
    Defaults,    \* the default bindings, in the order they are registered
    Events,      \* strokes as a key event reports them
    Clearing,    \* those of the keys Delete and Backspace
    Platform     \* what `mod' stands for: "ctrl", or "meta" on a Mac

VARIABLES
    memory,  \* the rules and disabled commands of each page's registry
    boot,    \* where onMounted of each page is, and what it read
    db,      \* the record keybindingPreferences
    writes,  \* the write under way of each page, the calls that wait, and whether one failed
    dialog,  \* the editor of the dialog of each page
    left,    \* bound: changes the user may still make on each page; at first 0 if it is not open
    writer,  \* history: the page that wrote the record
    early,   \* history: pages that changed a preference before they had loaded it
    crossed  \* history: pages where restoring one command filled the editor of another

keyVars == <<memory, boot, db, writes, dialog, left, writer, early, crossed>>

NoStroke == [key |-> "none", mods |-> {}]
Nothing == [rules |-> <<>>, disabled |-> {}]
NoRecord == [stored |-> FALSE, rules |-> <<>>, disabled |-> {}]
NoEditor == [command |-> "none", captured |-> NoStroke, pressed |-> FALSE]
Idle == [snapshot |-> NoRecord, waiting |-> <<>>, broken |-> FALSE]

KeyInit ==
    /\ memory = [p \in Pages |-> Nothing]
    /\ boot = [p \in Pages |-> [pc |-> IF left[p] > 0 THEN "starting" ELSE "absent", read |-> NoRecord]]
    /\ db = NoRecord /\ writes = [p \in Pages |-> Idle] /\ dialog = [p \in Pages |-> NoEditor]
    /\ writer = "none" /\ early = {} /\ crossed = {}

-----------------------------------------------------------------------------
(* The registry                                                            *)

Bind(c, stroke) == [command |-> c, stroke |-> stroke]

(* modifierSet                                                             *)
Effective(stroke) ==
    [stroke EXCEPT !.mods = {IF m = "mod" THEN Platform ELSE m : m \in stroke.mods}]

(* matchesStroke                                                           *)
MatchesStroke(event, stroke) == event = Effective(stroke)

(* formatKeyStroke, and parseKeyStroke of what it wrote                    *)
Formatted(stroke) == Effective(stroke)

Modifiers == {"ctrl", "shift", "alt", "meta", "mod"}
Stroke == [key : Codes \cup {"none"}, mods : SUBSET Modifiers]
Binding == [command : Commands, stroke : Stroke]

(* A key event reports the modifiers that are pressed, and `mod' is none.  *)
(* The defaults of two commands are different strokes.                     *)
ASSUME KeyAssumption ==
    /\ Platform \in {"ctrl", "meta"}
    /\ "none" \notin Commands /\ "none" \notin Pages /\ "none" \notin Codes
    /\ \A e \in Events : e \in Stroke /\ e.key # "none" /\ "mod" \notin e.mods
    /\ Defaults \in Seq(Binding)
    /\ \A i, j \in DOMAIN Defaults :
          /\ Defaults[i].stroke.key # "none"
          /\ Effective(Defaults[i].stroke) = Effective(Defaults[j].stroke) =>
                Defaults[i].command = Defaults[j].command

Overridden(m) == {r.command : r \in Range(m.rules)}

(* All bindings, the weakest first.                                        *)
Bindings(m) == Defaults \o m.rules

(* effectiveBindings: the places of the bindings that count.               *)
EffectiveBindings(m) ==
    {i \in DOMAIN Bindings(m) :
        IF i \in DOMAIN Defaults THEN Defaults[i].command \notin Overridden(m)
        ELSE Bindings(m)[i].stroke # NoStroke}

(* The first of what is sorted by weight and sequence, or no binding.      *)
Strongest(m, places) ==
    IF places = {} THEN Bind("none", NoStroke) ELSE Bindings(m)[Max(places)]

(* getCurrentBinding                                                       *)
Current(m, c) == Strongest(m, {i \in EffectiveBindings(m) : Bindings(m)[i].command = c})

(* getDefaultBinding: the first one that was registered                    *)
Default(c) ==
    LET own == {i \in DOMAIN Defaults : Defaults[i].command = c} IN
    IF own = {} THEN Bind("none", NoStroke) ELSE Defaults[Min(own)]

(* The bindings a key event can run.                                       *)
Candidates(m, event) ==
    {i \in EffectiveBindings(m) :
        /\ Bindings(m)[i].command \notin m.disabled
        /\ MatchesStroke(event, Bindings(m)[i].stroke)}

(* resolve                                                                 *)
Resolve(m, event) == Strongest(m, Candidates(m, event)).command

(* findConflicts: the strokes are compared as they are written, `mod' is   *)
(* not `ctrl'.                                                             *)
FindConflicts(m, stroke, c) ==
    {d \in Commands \ ({c} \cup m.disabled) : Current(m, d).command = d /\ Current(m, d).stroke = stroke}

-----------------------------------------------------------------------------
(* The preferences                                                         *)

(* currentOverrideRules(exceptCommandId): overriddenCommands is a set, so  *)
(* there is one rule of the command at most.                               *)
Except(m, c) == RemoveFirstMatch(m.rules, LAMBDA r : r.command = c)

IsDefault(c, stroke) ==
    /\ stroke # NoStroke /\ Default(c).command = c
    /\ Formatted(stroke) = Formatted(Default(c).stroke)

(* Mutation: a command that was switched off stays off.                    *)
OverrideStaysOff(m, c, stroke) ==
    [rules |-> IF IsDefault(c, stroke) THEN Except(m, c) ELSE Append(Except(m, c), Bind(c, stroke)),
     disabled |-> m.disabled]

(* setKeybindingOverride: what it makes of the registry.                   *)
Override(m, c, stroke) ==
    [rules |-> IF IsDefault(c, stroke) THEN Except(m, c) ELSE Append(Except(m, c), Bind(c, stroke)),
     disabled |-> IF stroke = NoStroke THEN m.disabled ELSE m.disabled \ {c}]

(* persistKeybindingPreferences: the record it puts.                       *)
Record(m) ==
    [stored |-> TRUE, disabled |-> m.disabled,
     rules |-> [i \in DOMAIN m.rules |-> Bind(m.rules[i].command, Formatted(m.rules[i].stroke))]]

(* loadKeybindingPreferences: the registry after a record was read.        *)
Loaded(m, r) == IF r.stored THEN [rules |-> r.rules, disabled |-> r.disabled] ELSE m

(* queuePersistKeybindingPreferences: the first write takes its snapshot   *)
(* at once, the next ones when the one before has ended.  After a write    *)
(* that failed the chain stays rejected and no other is tried.             *)
Queue(p, m, then) ==
    writes' = IF writes[p].broken THEN writes
              ELSE [writes EXCEPT ![p].waiting = Append(@, then),
                       ![p].snapshot = IF writes[p].waiting = <<>> THEN Record(m) ELSE @]

Changes(p, m, then) ==
    /\ left[p] > 0 /\ left' = [left EXCEPT ![p] = @ - 1]
    /\ memory' = [memory EXCEPT ![p] = m] /\ Queue(p, m, then)
    /\ early' = IF boot[p].pc = "ready" THEN early ELSE early \cup {p}
    /\ UNCHANGED <<boot, db, writer, crossed>>

(* What goes on after the await of the call that waited for a write, in    *)
(* the editor that is open by then.                                        *)
Continued(p, then) ==
    CASE then.is = "cancel" -> NoEditor
      [] then.is = "restored" ->
           [dialog[p] EXCEPT !.captured = Current(memory[p], then.command).stroke, !.pressed = FALSE]
      [] OTHER -> dialog[p]

Resumes(p, then) ==
    /\ dialog' = [dialog EXCEPT ![p] = Continued(p, then)]
    /\ crossed' = IF then.is = "restored" /\ dialog[p].command \notin {"none", then.command}
                  THEN crossed \cup {p} ELSE crossed

(* Mutation: the next write puts the snapshot of this one again.           *)
WriteEndsAgain(p) ==
    LET rest == Tail(writes[p].waiting) IN
    /\ db' = writes[p].snapshot /\ writer' = p
    /\ writes' = [writes EXCEPT ![p].waiting = rest]
    /\ Resumes(p, Head(writes[p].waiting))
    /\ UNCHANGED <<memory, boot, left, early>>

(* A write is in the database.                                             *)
WriteEnds(p) ==
    LET rest == Tail(writes[p].waiting) IN
    /\ db' = writes[p].snapshot /\ writer' = p
    /\ writes' = [writes EXCEPT ![p].waiting = rest,
                     ![p].snapshot = IF rest = <<>> THEN NoRecord ELSE Record(memory[p])]
    /\ Resumes(p, Head(writes[p].waiting))
    /\ UNCHANGED <<memory, boot, left, early>>

(* A write fails: it and all that wait behind it reject.                   *)
WriteFails(p) ==
    /\ writes' = [writes EXCEPT ![p] = [Idle EXCEPT !.broken = TRUE]]
    /\ UNCHANGED <<memory, boot, db, dialog, left, writer, early, crossed>>

-----------------------------------------------------------------------------
(* onMounted of App.vue                                                    *)

To(p, pc, r) == boot' = [boot EXCEPT ![p] = [pc |-> pc, read |-> r]]

LoadReads(p) ==
    /\ boot[p].pc = "starting" /\ To(p, "reading", db)
    /\ UNCHANGED <<memory, db, writes, dialog, left, writer, early, crossed>>

LoadApplies(p) ==
    /\ boot[p].pc = "reading" /\ To(p, "ready", NoRecord)
    /\ memory' = [memory EXCEPT ![p] = Loaded(@, boot[p].read)]
    /\ UNCHANGED <<db, writes, dialog, left, writer, early, crossed>>

(* Something before it throws, and the preferences are not loaded.         *)
LoadSkipped(p) ==
    /\ boot[p].pc = "starting" /\ To(p, "failed", NoRecord)
    /\ UNCHANGED <<memory, db, writes, dialog, left, writer, early, crossed>>

(* The page is loaded again; a write under way is in the database or not.  *)
Reload(p) ==
    /\ boot[p].pc # "absent"
    /\ memory' = [memory EXCEPT ![p] = Nothing] /\ To(p, "starting", NoRecord)
    /\ writes' = [writes EXCEPT ![p] = Idle] /\ dialog' = [dialog EXCEPT ![p] = NoEditor]
    /\ \/ UNCHANGED <<db, writer>>
       \/ writes[p].waiting # <<>> /\ db' = writes[p].snapshot /\ writer' = p
    /\ early' = early \ {p} /\ crossed' = crossed \ {p} /\ UNCHANGED left

-----------------------------------------------------------------------------
(* KeyboardShortcutsDialog.vue                                             *)

Edits(p, d) ==
    dialog' = [dialog EXCEPT ![p] = d] /\ UNCHANGED <<memory, boot, db, writes, left, writer, early, crossed>>

(* One page at a time: what is typed in an editor is of its page alone.    *)
StartEditing(p, c) ==
    /\ \A q \in Pages : dialog[q].command = "none"
    /\ left[p] > 0
    /\ Edits(p, [command |-> c, captured |-> Current(memory[p], c).stroke, pressed |-> FALSE])

Editing(p) == dialog[p].command # "none"

(* onRecorderKeydown: a stroke, Delete or Backspace, Escape, Enter.        *)
Capture(p, event) == Editing(p) /\ Edits(p, [dialog[p] EXCEPT !.captured = event, !.pressed = TRUE])
ClearCapture(p) == Editing(p) /\ Edits(p, [dialog[p] EXCEPT !.captured = NoStroke, !.pressed = FALSE])
CancelEditing(p) == Editing(p) /\ Edits(p, NoEditor)

Conflicts(p) ==
    IF dialog[p].captured = NoStroke THEN {}
    ELSE FindConflicts(memory[p], dialog[p].captured, dialog[p].command)

SaveEditing(p) ==
    /\ Editing(p) /\ Conflicts(p) = {}
    /\ Changes(p, Override(memory[p], dialog[p].command, dialog[p].captured), [is |-> "cancel", command |-> "none"])
    /\ UNCHANGED dialog

(* resetKeybinding, from a row or from the editor.                         *)
Reset(m, c) == [rules |-> Except(m, c), disabled |-> m.disabled \ {c}]

RestoreOne(p, c) ==
    /\ dialog[p].command = "none"
    /\ Changes(p, Reset(memory[p], c), [is |-> "nothing", command |-> "none"]) /\ UNCHANGED dialog

RestoreEditing(p) ==
    /\ Editing(p) /\ UNCHANGED dialog
    /\ Changes(p, Reset(memory[p], dialog[p].command), [is |-> "restored", command |-> dialog[p].command])

(* setKeybindingEnabled                                                    *)
SetEnabled(p, c) ==
    /\ dialog[p].command = "none" /\ UNCHANGED dialog
    /\ Changes(p, [memory[p] EXCEPT !.disabled = IF c \in @ THEN @ \ {c} ELSE @ \cup {c}],
               [is |-> "nothing", command |-> "none"])

(* resetAllKeybindings                                                     *)
RestoreAll(p) ==
    /\ dialog[p].command = "none"
    /\ Changes(p, Nothing, [is |-> "nothing", command |-> "none"]) /\ UNCHANGED dialog

DialogNext(p) ==
    \/ \E c \in Commands : StartEditing(p, c) \/ RestoreOne(p, c) \/ SetEnabled(p, c)
    \/ \E e \in Events \ Clearing : Capture(p, e)
    \/ ClearCapture(p) \/ CancelEditing(p) \/ SaveEditing(p) \/ RestoreEditing(p) \/ RestoreAll(p)

PageNext(p) ==
    \/ LoadReads(p) \/ LoadApplies(p) \/ LoadSkipped(p) \/ Reload(p)
    \/ writes[p].waiting # <<>> /\ (WriteEnds(p) \/ WriteFails(p))

KeyNext == \E p \in Pages : DialogNext(p) \/ PageNext(p)

(* A page that is not open has no changes to make.                         *)
KeySpec == left \in [Pages -> Nat] /\ KeyInit /\ [][KeyNext]_keyVars

-----------------------------------------------------------------------------
(* The record of a page whose writes have all ended, that no other page    *)
(* wrote over, gives every key and every switch the meaning it has on that *)
(* page: loading the page again changes no shortcut.                       *)
StoredIsShown ==
    \A p \in Pages :
        (/\ boot[p].pc = "ready" /\ p \notin early /\ writer \in {p, "none"}
         /\ writes[p].waiting = <<>> /\ ~writes[p].broken) =>
            LET again == Loaded(Nothing, db) IN
            again = memory[p]
              \/ /\ again.disabled = memory[p].disabled
                 /\ \A e \in Events : Resolve(again, e) = Resolve(memory[p], e)

(* A stroke that was pressed and saved in the editor runs the command from *)
(* then on, whatever the defaults, the other overrides and the commands    *)
(* that are switched off are.  Only a stroke that restoring one command    *)
(* left in the editor of another can come in its way.                      *)
RecordedWorks ==
    [][\A p \in Pages \ crossed :
        LET d == dialog[p] IN
        (memory'[p] # memory[p] /\ SaveEditing(p) /\ d.pressed) => Resolve(memory'[p], d.captured) = d.command]_keyVars
=============================================================================
