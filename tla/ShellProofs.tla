---------------------------- MODULE ShellProofs ----------------------------
(***************************************************************************)
(* Theorems about two parts of the shell, Keybindings and Workbench, which *)
(* share no state.  Of Keybindings: strokes and the resolution of a key    *)
(* event, then what is kept between a page's registry, its writes and the  *)
(* stored record.  Of Workbench: the sizes of the panels under a drag, and *)
(* the polls that keep the metrics of the active terminal.                 *)
(***************************************************************************)
EXTENDS Keybindings, Workbench, FiniteSetTheorems, SequenceTheorems, WellFoundedInduction, TLAPS

-----------------------------------------------------------------------------
(* The greatest and the least place of a set                               *)

LEMMA LeastNat ==
    ASSUME NEW T, T \subseteq Nat, T # {}
    PROVE  \E x \in T : \A y \in T : x <= y
<1>. DEFINE R == {ss \in Nat \X Nat : ss[1] < ss[2]}
<1>1. IsWellFoundedOn(R, Nat)
  BY NatLessThanWellFounded DEF OpToRel
<1>2. \A x, y \in Nat : y < x => <<y, x>> \in R
  OBVIOUS
<1>. HIDE DEF R
<1>3. PICK x \in T : \A y \in T : ~(<<y, x>> \in R)
  BY <1>1, WFMin
<1>4. ASSUME NEW y \in T PROVE x <= y
  <2>1. x \in Nat /\ y \in Nat
    OBVIOUS
  <2>2. ~(y < x)
    BY <1>2, <1>3, <2>1
  <2>. QED
    BY <2>1, <2>2
<1>. QED
  BY <1>4

LEMMA MinIs ==
    ASSUME NEW I, I \subseteq Nat, I # {}
    PROVE  Min(I) \in I /\ \A i \in I : Min(I) <= i
BY LeastNat DEF Min

LEMMA MaxIs ==
    ASSUME NEW n \in Nat, NEW I \in SUBSET (1..n), I # {}
    PROVE  Max(I) \in I /\ \A i \in I : i <= Max(I)
<1>. DEFINE T == {n - i : i \in I}
<1>1. T \subseteq Nat /\ T # {}
  OBVIOUS
<1>. HIDE DEF T
<1>2. PICK x \in T : \A y \in T : x <= y
  BY <1>1, LeastNat
<1>. USE DEF T
<1>3. PICK i \in I : x = n - i
  BY <1>2
<1>4. ASSUME NEW j \in I PROVE j <= i
  <2>1. n - j \in T
    OBVIOUS
  <2>. QED
    BY <1>2, <1>3, <2>1
<1>5. \A j \in I : i >= j
  BY <1>4
<1>. HIDE DEF T
<1>6. Max(I) \in I /\ \A j \in I : Max(I) >= j
  BY <1>5 DEF Max
<1>. QED
  BY <1>6

-----------------------------------------------------------------------------
(* Strokes                                                                 *)

Plain(stroke) == "mod" \notin stroke.mods

LEMMA NoStrokeType == NoStroke \in Stroke /\ Plain(NoStroke)
<1>1. NoStroke.mods = {} /\ NoStroke.key = "none"
  BY DEF NoStroke
<1>2. NoStroke \in Stroke
  BY DEF NoStroke, Stroke
<1>. QED
  BY <1>1, <1>2 DEF Plain

(* Writing a stroke and reading it back replaces `mod', and nothing else.  *)
LEMMA EffectiveIs ==
    ASSUME NEW s \in Stroke
    PROVE  /\ Effective(s) \in Stroke /\ Plain(Effective(s))
           /\ Plain(s) => Effective(s) = s
           /\ Effective(s).key = s.key
           /\ (Effective(s) = NoStroke) <=> (s = NoStroke)
<1>. DEFINE mods == {IF m = "mod" THEN Platform ELSE m : m \in s.mods}
<1>1. s.mods \in SUBSET Modifiers /\ s.key \in Codes \cup {"none"} /\ s = [key |-> s.key, mods |-> s.mods]
  BY DEF Stroke
<1>2. mods \in SUBSET Modifiers /\ "mod" \notin mods
  BY <1>1, KeyAssumption DEF Modifiers
<1>3. Plain(s) => mods = s.mods
  BY <1>1 DEF Plain
<1>4. mods = {} <=> s.mods = {}
  OBVIOUS
<1>5. Effective(s) = [key |-> s.key, mods |-> mods]
  BY <1>1 DEF Effective
<1>. HIDE DEF mods
<1>6. Effective(s) \in Stroke /\ Effective(s).key = s.key /\ Effective(s).mods = mods
  BY <1>1, <1>2, <1>5 DEF Stroke
<1>7. Plain(s) => Effective(s) = s
  BY <1>1, <1>3, <1>5
<1>8. \A t \in Stroke : t = NoStroke <=> t.key = "none" /\ t.mods = {}
  BY DEF Stroke, NoStroke
<1>. QED
  BY <1>2, <1>4, <1>6, <1>7, <1>8 DEF Plain

LEMMA EffectiveTwice ==
    ASSUME NEW s \in Stroke
    PROVE  Effective(Effective(s)) = Effective(s)
BY EffectiveIs

LEMMA EventIs ==
    ASSUME NEW e \in Events
    PROVE  e \in Stroke /\ Plain(e) /\ e # NoStroke /\ Effective(e) = e
<1>1. e \in Stroke /\ Plain(e) /\ e.key # "none"
  BY KeyAssumption DEF Plain
<1>. QED
  BY <1>1, EffectiveIs DEF NoStroke

-----------------------------------------------------------------------------
(* The registry                                                            *)

Registry == [rules : Seq(Binding), disabled : SUBSET Commands]

(* A command has one rule at most.                                         *)
Single(rules) ==
    \A i, j \in DOMAIN rules : rules[i].command = rules[j].command => i = j

LEMMA BindType ==
    ASSUME NEW c \in Commands, NEW s \in Stroke
    PROVE  Bind(c, s) \in Binding /\ Bind(c, s).command = c /\ Bind(c, s).stroke = s
BY DEF Bind, Binding

LEMMA BindingIs ==
    ASSUME NEW b \in Binding
    PROVE  b.command \in Commands /\ b.stroke \in Stroke /\ b = Bind(b.command, b.stroke)
BY DEF Bind, Binding

LEMMA NothingType == Nothing \in Registry /\ Single(Nothing.rules) /\ DOMAIN Nothing.rules = {}
BY DEF Nothing, Registry, Single

LEMMA BindingsAre ==
    ASSUME NEW m \in Registry
    PROVE  /\ Bindings(m) \in Seq(Binding)
           /\ Len(Defaults) \in Nat /\ Len(m.rules) \in Nat
           /\ DOMAIN Bindings(m) = 1..(Len(Defaults) + Len(m.rules))
           /\ DOMAIN Defaults = 1..Len(Defaults) /\ DOMAIN m.rules = 1..Len(m.rules)
           /\ \A i \in DOMAIN Defaults : i \in DOMAIN Bindings(m) /\ Bindings(m)[i] = Defaults[i]
           /\ \A j \in DOMAIN m.rules :
                 /\ Len(Defaults) + j \in DOMAIN Bindings(m)
                 /\ Len(Defaults) + j \notin DOMAIN Defaults
                 /\ Bindings(m)[Len(Defaults) + j] = m.rules[j]
           /\ \A i \in DOMAIN Bindings(m) \ DOMAIN Defaults :
                 i - Len(Defaults) \in DOMAIN m.rules /\ Bindings(m)[i] = m.rules[i - Len(Defaults)]
<1>1. Defaults \in Seq(Binding) /\ m.rules \in Seq(Binding)
  BY KeyAssumption DEF Registry
<1>. QED
  BY <1>1 DEF Bindings

LEMMA StrongestIs ==
    ASSUME NEW m \in Registry, NEW places \in SUBSET DOMAIN Bindings(m), places # {}
    PROVE  \E i \in places : Strongest(m, places) = Bindings(m)[i] /\ \A j \in places : j <= i
<1>1. PICK n \in Nat : DOMAIN Bindings(m) = 1..n
  BY BindingsAre
<1>2. Max(places) \in places /\ \A i \in places : i <= Max(places)
  BY <1>1, MaxIs
<1>. QED
  BY <1>2 DEF Strongest

(* currentOverrideRules leaves the rules of the other commands.            *)
LEMMA ExceptIs ==
    ASSUME NEW m \in Registry, Single(m.rules), NEW c
    PROVE  /\ Except(m, c) \in Seq(Binding) /\ Single(Except(m, c))
           /\ \A i \in DOMAIN Except(m, c) :
                 /\ Except(m, c)[i].command # c
                 /\ \E j \in DOMAIN m.rules : Except(m, c)[i] = m.rules[j]
<1>. DEFINE q == m.rules
            I == {i \in 1..Len(q) : q[i].command = c}
<1>1. q \in Seq(Binding) /\ Len(q) \in Nat /\ DOMAIN q = 1..Len(q)
  BY DEF Registry
<1>2. CASE I = {}
  <2>1. Except(m, c) = q
    BY <1>2 DEF Except, RemoveFirstMatch
  <2>. QED
    BY <1>1, <1>2, <2>1
<1>3. CASE I # {}
  <2>. DEFINE k == Min(I)
  <2>1. k \in I
    <3>1. I \subseteq Nat
      BY <1>1
    <3>. HIDE DEF I
    <3>. QED
      BY <1>3, <3>1, MinIs
  <2>2. Except(m, c) = SubSeq(q, 1, k - 1) \o SubSeq(q, k + 1, Len(q))
    BY <1>3 DEF Except, RemoveFirstMatch, RemoveAt, SelectInSeq
  <2>. HIDE DEF k
  <2>3. k \in 1..Len(q) /\ q[k].command = c
    BY <2>1
  <2>4. \A i \in 1..Len(q) : i # k => q[i].command # c
    BY <1>1, <2>3 DEF Single
  <2>. HIDE DEF I
  <2>. DEFINE a == SubSeq(q, 1, k - 1)
              b == SubSeq(q, k + 1, Len(q))
  <2>5. /\ a \in Seq(Binding) /\ Len(a) = k - 1 /\ \A i \in 1..(k - 1) : a[i] = q[i]
        /\ b \in Seq(Binding) /\ Len(b) = Len(q) - k
        /\ \A i \in 1..(Len(q) - k) : b[i] = q[i + k]
    BY <1>1, <2>3
  <2>6. Except(m, c) = a \o b
    BY <2>2
  <2>. HIDE DEF a, b, q
  <2>. DEFINE r == Except(m, c)
  <2>7. /\ r \in Seq(Binding) /\ Len(r) = Len(q) - 1 /\ DOMAIN r = 1..(Len(q) - 1)
        /\ \A i \in 1..(k - 1) : r[i] = q[i]
        /\ \A i \in k..(Len(q) - 1) : r[i] = q[i + 1]
    <3>1. PICK n \in Nat : n = Len(q)
      BY <1>1
    <3>2. k \in Nat /\ 1 <= k /\ k <= n /\ k - 1 \in Nat /\ n - k \in Nat
      BY <2>3, <3>1
    <3>3. r \in Seq(Binding) /\ Len(r) = Len(a) + Len(b) /\ DOMAIN r = 1..(Len(a) + Len(b))
      <4>1. a \o b \in Seq(Binding) /\ Len(a \o b) = Len(a) + Len(b) /\ DOMAIN (a \o b) = 1..(Len(a) + Len(b))
        BY <2>5
      <4>. QED
        BY <2>6, <4>1 DEF r
    <3>4. \A i \in 1..(Len(a) + Len(b)) : r[i] = IF i <= Len(a) THEN a[i] ELSE b[i - Len(a)]
      <4>1. \A i \in 1..(Len(a) + Len(b)) : (a \o b)[i] = IF i <= Len(a) THEN a[i] ELSE b[i - Len(a)]
        BY <2>5
      <4>. QED
        BY <2>6, <4>1 DEF r
    <3>. HIDE DEF r
    <3>5. Len(a) + Len(b) = n - 1 /\ Len(r) = n - 1 /\ DOMAIN r = 1..(n - 1)
      BY <2>5, <3>1, <3>2, <3>3
    <3>6. ASSUME NEW i \in 1..(k - 1) PROVE r[i] = q[i]
      BY <2>5, <3>1, <3>2, <3>4, <3>5
    <3>7. ASSUME NEW i \in k..(n - 1) PROVE r[i] = q[i + 1]
      <4>1. i - (k - 1) \in 1..(n - k) /\ (i - (k - 1)) + k = i + 1 /\ ~(i <= k - 1) /\ i \in 1..(n - 1)
        BY <3>2
      <4>2. b[i - (k - 1)] = q[i + 1]
        BY <2>5, <3>1, <4>1
      <4>. QED
        BY <2>5, <3>4, <3>5, <4>1, <4>2
    <3>. QED
      BY <3>1, <3>3, <3>5, <3>6, <3>7
  <2>. HIDE DEF r
  <2>8. \A i \in DOMAIN r : \E j \in 1..Len(q) : j # k /\ r[i] = q[j] /\ (IF i < k THEN j = i ELSE j = i + 1)
    BY <1>1, <2>3, <2>7
  <2>9. Single(r)
    <3>. USE DEF q
    <3>1. \A i, j \in 1..Len(q) : q[i].command = q[j].command => i = j
      BY <1>1 DEF Single
    <3>. HIDE DEF q
    <3>. QED
      BY <1>1, <2>3, <2>7, <2>8, <3>1 DEF Single
  <2>10. \A i \in DOMAIN r : r[i].command # c /\ \E j \in DOMAIN q : r[i] = q[j]
    BY <1>1, <2>4, <2>8
  <2>. QED
    BY <2>7, <2>9, <2>10 DEF r, q
<1>. QED
  BY <1>2, <1>3

LEMMA OverrideType ==
    ASSUME NEW m \in Registry, Single(m.rules), NEW c \in Commands, NEW s \in Stroke
    PROVE  Override(m, c, s) \in Registry /\ Single(Override(m, c, s).rules)
<1>. DEFINE q == Except(m, c)
<1>1. q \in Seq(Binding) /\ Single(q) /\ \A i \in DOMAIN q : q[i].command # c
  BY ExceptIs
<1>2. Bind(c, s) \in Binding /\ Bind(c, s).command = c
  BY BindType
<1>3. m.disabled \in SUBSET Commands
  BY DEF Registry
<1>. DEFINE r == Append(q, Bind(c, s))
<1>4. /\ r \in Seq(Binding) /\ DOMAIN r = 1..(Len(q) + 1) /\ DOMAIN q = 1..Len(q) /\ Len(q) \in Nat
      /\ r[Len(q) + 1] = Bind(c, s) /\ \A i \in DOMAIN q : r[i] = q[i]
  BY <1>1, <1>2
<1>. HIDE DEF q
<1>5. Single(r)
  <2>. HIDE DEF r
  <2>. QED
    BY <1>1, <1>2, <1>4 DEF Single
<1>6. Override(m, c, s).rules \in {q, r} /\ Override(m, c, s).disabled \in {m.disabled, m.disabled \ {c}}
  BY DEF Override, q, r
<1>7. Override(m, c, s) = [rules |-> Override(m, c, s).rules, disabled |-> Override(m, c, s).disabled]
  BY DEF Override
<1>. HIDE DEF r
<1>. QED
  BY <1>1, <1>3, <1>4, <1>5, <1>6, <1>7 DEF Registry

LEMMA ResetType ==
    ASSUME NEW m \in Registry, Single(m.rules), NEW c
    PROVE  Reset(m, c) \in Registry /\ Single(Reset(m, c).rules) /\ Reset(m, c).rules = Except(m, c)
<1>1. Reset(m, c).rules = Except(m, c) /\ Reset(m, c).disabled = m.disabled \ {c}
  BY DEF Reset
<1>2. Reset(m, c) = [rules |-> Except(m, c), disabled |-> m.disabled \ {c}] /\ m.disabled \in SUBSET Commands
  BY DEF Reset, Registry
<1>. QED
  BY <1>1, <1>2, ExceptIs DEF Registry

(* The bindings that count are defaults of commands without a rule, and    *)
(* rules with a stroke.                                                    *)
LEMMA EffectiveBindingIs ==
    ASSUME NEW m \in Registry, NEW i
    PROVE  i \in EffectiveBindings(m) <=>
              \/ i \in DOMAIN Defaults /\ \A j \in DOMAIN m.rules : m.rules[j].command # Defaults[i].command
              \/ i \in DOMAIN Bindings(m) \ DOMAIN Defaults /\ Bindings(m)[i].stroke # NoStroke
<1>1. \A c : c \in Overridden(m) <=> \E j \in DOMAIN m.rules : m.rules[j].command = c
  BY DEF Overridden, Range
<1>2. i \in DOMAIN Defaults => i \in DOMAIN Bindings(m)
  BY BindingsAre
<1>. QED
  BY <1>1, <1>2 DEF EffectiveBindings

LEMMA CandidatesIn ==
    ASSUME NEW m, NEW e
    PROVE  Candidates(m, e) \in SUBSET DOMAIN Bindings(m) /\ EffectiveBindings(m) \in SUBSET DOMAIN Bindings(m)
BY DEF Candidates, EffectiveBindings

(* The binding of a command with a rule is its rule.                       *)
LEMMA CurrentIs ==
    ASSUME NEW m \in Registry, Single(m.rules), NEW k \in DOMAIN m.rules, m.rules[k].stroke # NoStroke
    PROVE  Current(m, m.rules[k].command) = m.rules[k]
<1>. DEFINE c == m.rules[k].command
            own == {i \in EffectiveBindings(m) : Bindings(m)[i].command = c}
            L == Len(Defaults) + k
<1>1. L \in DOMAIN Bindings(m) \ DOMAIN Defaults /\ Bindings(m)[L] = m.rules[k]
  BY BindingsAre
<1>2. L \in own
  BY <1>1, EffectiveBindingIs
<1>3. own \in SUBSET DOMAIN Bindings(m)
  BY CandidatesIn
<1>4. ASSUME NEW i \in own PROVE i = L
  <2>1. i \in EffectiveBindings(m) /\ Bindings(m)[i].command = c /\ i \in DOMAIN Bindings(m)
    BY <1>3
  <2>2. i \notin DOMAIN Defaults
    BY <2>1, BindingsAre, EffectiveBindingIs
  <2>3. i - Len(Defaults) \in DOMAIN m.rules /\ m.rules[i - Len(Defaults)].command = c
    BY <2>1, <2>2, BindingsAre
  <2>4. i - Len(Defaults) = k
    BY <2>3 DEF Single
  <2>. QED
    BY <2>1, <2>4, BindingsAre
<1>. HIDE DEF own, L
<1>5. Strongest(m, own) = Bindings(m)[L]
  BY <1>2, <1>3, <1>4, StrongestIs
<1>. QED
  BY <1>1, <1>5 DEF Current, own

(* A rule of the user's own, or one that repeats a default.                *)
Own(b) == Plain(b.stroke) \/ \E i \in DOMAIN Defaults : b = Defaults[i]
AllOwn(rules) == \A i \in DOMAIN rules : Own(rules[i])

LEMMA CurrentType ==
    ASSUME NEW m \in Registry, NEW c \in Commands
    PROVE  /\ Current(m, c).stroke \in Stroke
           /\ AllOwn(m.rules) => Own(Bind(c, Current(m, c).stroke))
<1>. DEFINE own == {i \in EffectiveBindings(m) : Bindings(m)[i].command = c}
<1>1. Current(m, c) = Strongest(m, own)
  BY DEF Current
<1>2. own \in SUBSET DOMAIN Bindings(m)
  BY CandidatesIn
<1>3. CASE own = {}
  <2>1. Current(m, c).stroke = NoStroke
    BY <1>1, <1>3 DEF Strongest, Bind
  <2>2. Bind(c, NoStroke).stroke = NoStroke
    BY DEF Bind
  <2>. QED
    BY <2>1, <2>2, NoStrokeType DEF Own
<1>4. CASE own # {}
  <2>. HIDE DEF own
  <2>1. PICK i \in own : Current(m, c) = Bindings(m)[i]
    BY <1>1, <1>2, <1>4, StrongestIs
  <2>. USE DEF own
  <2>2. i \in DOMAIN Bindings(m) /\ Bindings(m)[i].command = c
    BY <1>2
  <2>3. Bindings(m)[i] \in Binding
    BY <2>2, BindingsAre
  <2>4. Current(m, c).stroke \in Stroke /\ Bind(c, Current(m, c).stroke) = Bindings(m)[i]
    BY <2>1, <2>2, <2>3, BindingIs
  <2>5. CASE i \in DOMAIN Defaults
    BY <2>4, <2>5, BindingsAre DEF Own
  <2>6. CASE i \notin DOMAIN Defaults
    BY <2>2, <2>4, <2>6, BindingsAre DEF AllOwn
  <2>. QED
    BY <2>4, <2>5, <2>6
<1>. QED
  BY <1>3, <1>4

-----------------------------------------------------------------------------
(* A stroke that is recorded without a conflict runs its command.          *)

LEMMA LastWins ==
    ASSUME NEW m \in Registry, NEW c \in Commands, NEW e \in Events, NEW q \in Seq(Binding),
           m.rules = Append(q, Bind(c, e)), c \notin m.disabled
    PROVE  Resolve(m, e) = c
<1>. DEFINE L == Len(Defaults) + Len(q) + 1
<1>1. e \in Stroke /\ e # NoStroke /\ Effective(e) = e
  BY EventIs
<1>2. Bind(c, e) \in Binding /\ Bind(c, e).command = c /\ Bind(c, e).stroke = e
  BY <1>1, BindType
<1>3. Len(q) \in Nat /\ Len(m.rules) = Len(q) + 1 /\ m.rules[Len(q) + 1] = Bind(c, e) /\ DOMAIN m.rules = 1..(Len(q) + 1)
  BY <1>2
<1>4. L \in DOMAIN Bindings(m) \ DOMAIN Defaults /\ Bindings(m)[L] = Bind(c, e)
  <2>1. Len(q) + 1 \in DOMAIN m.rules /\ L = Len(Defaults) + (Len(q) + 1)
    BY <1>3, BindingsAre
  <2>. QED
    BY <1>3, <2>1, BindingsAre
<1>5. \A i \in DOMAIN Bindings(m) : i \in Nat /\ i <= L
  <2>1. DOMAIN Bindings(m) = 1..(Len(Defaults) + Len(m.rules)) /\ Len(Defaults) \in Nat
    BY BindingsAre
  <2>2. L = Len(Defaults) + Len(m.rules)
    BY <1>3, <2>1
  <2>. HIDE DEF L
  <2>. QED
    BY <1>3, <2>1, <2>2
<1>6. L \in Nat
  BY <1>4, <1>5
<1>. HIDE DEF L
<1>7. L \in EffectiveBindings(m)
  BY <1>1, <1>2, <1>4, EffectiveBindingIs
<1>8. L \in Candidates(m, e)
  BY <1>1, <1>2, <1>4, <1>7 DEF Candidates, MatchesStroke
<1>9. PICK i \in Candidates(m, e) :
         Strongest(m, Candidates(m, e)) = Bindings(m)[i] /\ \A j \in Candidates(m, e) : j <= i
  BY <1>8, CandidatesIn, StrongestIs
<1>10. i \in Nat /\ i <= L /\ L <= i
  BY <1>5, <1>8, <1>9, CandidatesIn
<1>11. i = L
  BY <1>6, <1>10
<1>. QED
  BY <1>2, <1>4, <1>9, <1>11 DEF Resolve

LEMMA CandidateIs ==
    ASSUME NEW m \in Registry, NEW e, NEW i
    PROVE  i \in Candidates(m, e) <=>
              /\ i \in EffectiveBindings(m) /\ Bindings(m)[i].command \notin m.disabled
              /\ e = Effective(Bindings(m)[i].stroke)
BY DEF Candidates, MatchesStroke

LEMMA DefaultIs ==
    ASSUME NEW c \in Commands, Default(c).command = c
    PROVE  \E i \in DOMAIN Defaults : Default(c) = Defaults[i]
<1>. DEFINE own == {i \in DOMAIN Defaults : Defaults[i].command = c}
<1>1. CASE own = {}
  BY <1>1, KeyAssumption DEF Default, Bind
<1>2. CASE own # {}
  <2>1. DOMAIN Defaults \subseteq Nat /\ own \subseteq DOMAIN Defaults
    BY KeyAssumption
  <2>2. Default(c) = Defaults[Min(own)]
    BY <1>2 DEF Default
  <2>. HIDE DEF own
  <2>3. Min(own) \in own
    BY <1>2, <2>1, MinIs
  <2>. QED
    BY <2>1, <2>2, <2>3
<1>. QED
  BY <1>1, <1>2

LEMMA RecordedRuns ==
    ASSUME NEW m \in Registry, Single(m.rules), AllOwn(m.rules), NEW c \in Commands, NEW e \in Events,
           FindConflicts(m, e, c) = {}
    PROVE  Resolve(Override(m, c, e), e) = c
<1>. DEFINE n == Override(m, c, e)
<1>1. e \in Stroke /\ e # NoStroke /\ Effective(e) = e
  BY EventIs
<1>2. n \in Registry
  BY <1>1, OverrideType
<1>3. n.disabled = m.disabled \ {c}
  BY <1>1 DEF Override
<1>4. /\ Except(m, c) \in Seq(Binding)
      /\ \A i \in DOMAIN Except(m, c) :
            /\ Except(m, c)[i].command # c
            /\ \E j \in DOMAIN m.rules : Except(m, c)[i] = m.rules[j]
  BY ExceptIs
<1>5. CASE ~IsDefault(c, e)
  <2>1. n.rules = Append(Except(m, c), Bind(c, e))
    BY <1>5 DEF Override
  <2>. HIDE DEF n
  <2>2. Resolve(n, e) = c
    BY <1>2, <1>3, <1>4, <2>1, LastWins
  <2>. QED
    BY <2>2 DEF n
<1>6. CASE IsDefault(c, e)
  <2>1. n.rules = Except(m, c)
    BY <1>6 DEF Override
  <2>. HIDE DEF n
  <2>2. PICK d \in DOMAIN Defaults : Default(c) = Defaults[d]
    BY <1>6, DefaultIs DEF IsDefault
  <2>3. Defaults[d].command = c /\ Effective(Defaults[d].stroke) = e
    BY <1>1, <1>6, <2>2 DEF IsDefault, Formatted
  <2>4. d \in EffectiveBindings(n) /\ Bindings(n)[d] = Defaults[d]
    <3>1. \A j \in DOMAIN n.rules : n.rules[j].command # Defaults[d].command
      BY <1>4, <2>1, <2>3
    <3>2. d \in EffectiveBindings(n)
      BY <1>2, <3>1, EffectiveBindingIs
    <3>. QED
      BY <1>2, <3>2, BindingsAre
  <2>5. d \in Candidates(n, e)
    BY <1>2, <1>3, <2>3, <2>4, CandidateIs
  <2>6. ASSUME NEW i \in Candidates(n, e) PROVE Bindings(n)[i].command = c
    <3>1. /\ i \in EffectiveBindings(n) /\ Bindings(n)[i].command \notin n.disabled
          /\ e = Effective(Bindings(n)[i].stroke) /\ i \in DOMAIN Bindings(n)
      BY <1>2, CandidateIs, CandidatesIn
    <3>2. CASE i \in DOMAIN Defaults
      <4>1. Bindings(n)[i] = Defaults[i]
        BY <1>2, <3>2, BindingsAre
      <4>2. Effective(Defaults[i].stroke) = Effective(Defaults[d].stroke)
        BY <2>3, <3>1, <4>1
      <4>. QED
        BY <2>3, <3>2, <4>1, <4>2, KeyAssumption
    <3>3. CASE i \notin DOMAIN Defaults
      <4>1. i - Len(Defaults) \in DOMAIN n.rules /\ Bindings(n)[i] = n.rules[i - Len(Defaults)]
        BY <1>2, <3>1, <3>3, BindingsAre
      <4>2. Bindings(n)[i].command # c
        BY <1>4, <2>1, <4>1
      <4>3. PICK k \in DOMAIN m.rules : Bindings(n)[i] = m.rules[k]
        BY <1>4, <2>1, <4>1
      <4>4. m.rules[k] \in Binding
        BY <4>3 DEF Registry
      <4>5. m.rules[k].command \in Commands \ ({c} \cup m.disabled) /\ m.rules[k].stroke \in Stroke
        BY <1>3, <3>1, <4>2, <4>3, <4>4, BindingIs
      <4>6. ASSUME Plain(m.rules[k].stroke) PROVE FALSE
        <5>1. m.rules[k].stroke = e
          BY <3>1, <4>3, <4>5, <4>6, EffectiveIs
        <5>2. Current(m, m.rules[k].command) = m.rules[k]
          BY <1>1, <5>1, CurrentIs
        <5>3. m.rules[k].command \in FindConflicts(m, e, c)
          BY <4>5, <5>1, <5>2 DEF FindConflicts
        <5>. QED
          BY <5>3
      <4>7. ASSUME NEW j \in DOMAIN Defaults, m.rules[k] = Defaults[j] PROVE FALSE
        <5>1. Effective(Defaults[j].stroke) = Effective(Defaults[d].stroke)
          BY <2>3, <3>1, <4>3, <4>7
        <5>2. Defaults[j].command = c
          BY <2>3, <5>1, KeyAssumption
        <5>. QED
          BY <4>2, <4>3, <4>7, <5>2
      <4>. QED
        BY <4>6, <4>7 DEF AllOwn, Own
    <3>. QED
      BY <3>2, <3>3
  <2>7. \E i \in Candidates(n, e) : Strongest(n, Candidates(n, e)) = Bindings(n)[i]
    BY <1>2, <2>5, CandidatesIn, StrongestIs
  <2>8. Resolve(n, e) = c
    BY <2>6, <2>7 DEF Resolve
  <2>. QED
    BY <2>8 DEF n
<1>. QED
  BY <1>5, <1>6

-----------------------------------------------------------------------------
(* The record                                                              *)

Registries == {m \in Registry : Single(m.rules)}
Records ==
    {r \in [stored : BOOLEAN, rules : Seq(Binding), disabled : SUBSET Commands] :
        Single(r.rules) /\ \A i \in DOMAIN r.rules : Plain(r.rules[i].stroke)}

LEMMA NoRecordType == NoRecord \in Records /\ ~NoRecord.stored
<1>1. NoRecord.rules = <<>> /\ NoRecord.disabled = {} /\ NoRecord.stored = FALSE
  BY DEF NoRecord
<1>2. NoRecord \in [stored : BOOLEAN, rules : Seq(Binding), disabled : SUBSET Commands]
  BY DEF NoRecord
<1>. QED
  BY <1>1, <1>2 DEF Records, Single

(* The record has the rules and the disabled commands of the registry,     *)
(* each stroke as it is written and read.                                  *)
LEMMA RecordIs ==
    ASSUME NEW m \in Registries
    PROVE  /\ Record(m) \in Records /\ Record(m).stored /\ Record(m).disabled = m.disabled
           /\ DOMAIN Record(m).rules = DOMAIN m.rules
           /\ \A i \in DOMAIN m.rules :
                 /\ Record(m).rules[i].command = m.rules[i].command
                 /\ Record(m).rules[i].stroke = Effective(m.rules[i].stroke)
<1>. DEFINE q == [i \in DOMAIN m.rules |-> Bind(m.rules[i].command, Formatted(m.rules[i].stroke))]
<1>1. m \in Registry /\ m.rules \in Seq(Binding) /\ m.disabled \in SUBSET Commands /\ Single(m.rules)
  BY DEF Registries, Registry
<1>2. Record(m) = [stored |-> TRUE, disabled |-> m.disabled, rules |-> q]
  BY DEF Record
<1>3. ASSUME NEW i \in DOMAIN m.rules
      PROVE  /\ q[i] \in Binding /\ q[i].command = m.rules[i].command
             /\ q[i].stroke = Effective(m.rules[i].stroke) /\ Plain(q[i].stroke)
  <2>1. m.rules[i] \in Binding
    BY <1>1
  <2>2. m.rules[i].command \in Commands /\ m.rules[i].stroke \in Stroke
    BY <2>1, BindingIs
  <2>3. Effective(m.rules[i].stroke) \in Stroke /\ Plain(Effective(m.rules[i].stroke))
    BY <2>2, EffectiveIs
  <2>4. q[i] = Bind(m.rules[i].command, Effective(m.rules[i].stroke))
    BY DEF Formatted
  <2>. QED
    BY <2>2, <2>3, <2>4, BindType
<1>4. DOMAIN q = DOMAIN m.rules
  OBVIOUS
<1>5. q \in Seq(Binding)
  <2>1. DOMAIN m.rules = 1..Len(m.rules) /\ Len(m.rules) \in Nat
    BY <1>1
  <2>2. q \in [1..Len(m.rules) -> Binding]
    <3>1. \A i \in DOMAIN m.rules : q[i] \in Binding
      BY <1>3
    <3>. QED
      BY <2>1, <3>1
  <2>. HIDE DEF q
  <2>. QED
    BY <2>1, <2>2
<1>. HIDE DEF q
<1>6. Single(q)
  BY <1>1, <1>3, <1>4 DEF Single
<1>7. Record(m).rules = q /\ Record(m).disabled = m.disabled /\ Record(m).stored = TRUE
  BY <1>2
<1>8. Record(m) \in [stored : BOOLEAN, rules : Seq(Binding), disabled : SUBSET Commands]
  BY <1>1, <1>2, <1>5
<1>. QED
  BY <1>3, <1>4, <1>6, <1>7, <1>8 DEF Records

LEMMA LoadedIs ==
    ASSUME NEW m \in Registries, NEW r \in Records
    PROVE  /\ Loaded(m, r) \in Registries
           /\ ~r.stored => Loaded(m, r) = m
           /\ r.stored => /\ Loaded(m, r).rules = r.rules /\ Loaded(m, r).disabled = r.disabled
                          /\ AllOwn(Loaded(m, r).rules)
<1>1. r.rules \in Seq(Binding) /\ r.disabled \in SUBSET Commands /\ Single(r.rules)
      /\ \A i \in DOMAIN r.rules : Plain(r.rules[i].stroke)
  BY DEF Records
<1>2. CASE r.stored
  <2>1. Loaded(m, r) = [rules |-> r.rules, disabled |-> r.disabled]
    BY <1>2 DEF Loaded
  <2>. QED
    BY <1>1, <1>2, <2>1 DEF Registries, Registry, AllOwn, Own
<1>3. CASE ~r.stored
  BY <1>3 DEF Loaded
<1>. QED
  BY <1>2, <1>3

(* What a record gives is written as the same record.                      *)
LEMMA RecordOfLoaded ==
    ASSUME NEW m \in Registries, NEW r \in Records, r.stored
    PROVE  Record(Loaded(m, r)) = r
<1>. DEFINE n == Loaded(m, r)
<1>1. n \in Registries /\ n.rules = r.rules /\ n.disabled = r.disabled
  BY LoadedIs
<1>2. /\ r \in [stored : BOOLEAN, rules : Seq(Binding), disabled : SUBSET Commands]
      /\ \A i \in DOMAIN r.rules : Plain(r.rules[i].stroke)
  BY DEF Records
<1>. HIDE DEF n
<1>3. ASSUME NEW i \in DOMAIN r.rules
      PROVE  Bind(r.rules[i].command, Formatted(r.rules[i].stroke)) = r.rules[i]
  <2>1. r.rules[i] \in Binding /\ Plain(r.rules[i].stroke)
    BY <1>2
  <2>2. r.rules[i].stroke \in Stroke /\ r.rules[i] = Bind(r.rules[i].command, r.rules[i].stroke)
    BY <2>1, BindingIs
  <2>3. Effective(r.rules[i].stroke) = r.rules[i].stroke
    BY <2>1, <2>2, EffectiveIs
  <2>. QED
    BY <2>2, <2>3 DEF Formatted
<1>. DEFINE q == [i \in DOMAIN r.rules |-> Bind(r.rules[i].command, Formatted(r.rules[i].stroke))]
<1>4. q = r.rules
  <2>1. r.rules = [i \in DOMAIN r.rules |-> r.rules[i]]
    BY <1>2
  <2>2. \A i \in DOMAIN r.rules : q[i] = r.rules[i]
    BY <1>3
  <2>. QED
    BY <2>1, <2>2
<1>5. Record(n) = [stored |-> TRUE, disabled |-> r.disabled, rules |-> q]
  BY <1>1 DEF Record
<1>. HIDE DEF q
<1>6. r = [stored |-> TRUE, disabled |-> r.disabled, rules |-> r.rules]
  BY <1>2
<1>. QED
  BY <1>4, <1>5, <1>6 DEF n

(* Strokes that are effectively the same give a key the same meaning.      *)
LEMMA SameResolve ==
    ASSUME NEW m \in Registry, NEW n \in Registry, NEW e,
           n.disabled = m.disabled, DOMAIN n.rules = DOMAIN m.rules,
           \A i \in DOMAIN m.rules :
              n.rules[i].command = m.rules[i].command /\ n.rules[i].stroke = Effective(m.rules[i].stroke)
    PROVE  Resolve(n, e) = Resolve(m, e)
<1>1. DOMAIN Bindings(n) = DOMAIN Bindings(m)
  <2>1. \A k, l \in Nat : 1..k = 1..l => k = l
    <3>1. ASSUME NEW k \in Nat, NEW l \in Nat, 1..k = 1..l PROVE k = l
      <4>1. \A i \in Nat : (1 <= i /\ i <= k) <=> (1 <= i /\ i <= l)
        BY <3>1
      <4>. QED
        BY <4>1
    <3>. QED
      BY <3>1
  <2>2. Len(n.rules) = Len(m.rules)
    BY <2>1, BindingsAre
  <2>. QED
    BY <2>2, BindingsAre
<1>2. ASSUME NEW i \in DOMAIN Bindings(m)
      PROVE  /\ Bindings(n)[i].command = Bindings(m)[i].command
             /\ Effective(Bindings(n)[i].stroke) = Effective(Bindings(m)[i].stroke)
             /\ Bindings(n)[i].stroke = NoStroke <=> Bindings(m)[i].stroke = NoStroke
             /\ i \in DOMAIN Defaults => Bindings(n)[i] = Defaults[i] /\ Bindings(m)[i] = Defaults[i]
  <2>1. CASE i \in DOMAIN Defaults
    BY <2>1, BindingsAre
  <2>2. CASE i \notin DOMAIN Defaults
    <3>. DEFINE j == i - Len(Defaults)
    <3>1. j \in DOMAIN m.rules /\ Bindings(m)[i] = m.rules[j] /\ Bindings(n)[i] = n.rules[j]
      BY <1>1, <2>2, BindingsAre
    <3>. HIDE DEF j
    <3>2. m.rules[j] \in Binding
      BY <3>1 DEF Registry
    <3>3. m.rules[j].stroke \in Stroke
      BY <3>2, BindingIs
    <3>. QED
      BY <2>2, <3>1, <3>3, EffectiveIs, EffectiveTwice
  <2>. QED
    BY <2>1, <2>2
<1>3. \A i : i \in EffectiveBindings(n) <=> i \in EffectiveBindings(m)
  <2>1. \A i \in DOMAIN Bindings(m) \ DOMAIN Defaults :
           i \in EffectiveBindings(n) <=> i \in EffectiveBindings(m)
    BY <1>1, <1>2, EffectiveBindingIs
  <2>2. \A i \in DOMAIN Defaults : i \in EffectiveBindings(n) <=> i \in EffectiveBindings(m)
    BY EffectiveBindingIs
  <2>3. \A i : i \in EffectiveBindings(n) \/ i \in EffectiveBindings(m) => i \in DOMAIN Bindings(m)
    BY <1>1, CandidatesIn
  <2>. QED
    BY <2>1, <2>2, <2>3
<1>4. Candidates(n, e) = Candidates(m, e)
  <2>1. \A i : i \in Candidates(n, e) <=> i \in Candidates(m, e)
    <3>1. \A i \in DOMAIN Bindings(m) : i \in Candidates(n, e) <=> i \in Candidates(m, e)
      BY <1>2, <1>3, CandidateIs
    <3>2. \A i : i \in Candidates(n, e) \/ i \in Candidates(m, e) => i \in DOMAIN Bindings(m)
      BY <1>1, CandidatesIn
    <3>. QED
      BY <3>1, <3>2
  <2>. QED
    BY <2>1
<1>. DEFINE places == Candidates(m, e)
<1>5. CASE places = {}
  BY <1>4, <1>5 DEF Resolve, Strongest
<1>6. CASE places # {}
  <2>1. PICK k \in Nat : DOMAIN Bindings(m) = 1..k
    BY BindingsAre
  <2>2. places \in SUBSET (1..k)
    BY <2>1, CandidatesIn
  <2>. HIDE DEF places
  <2>3. Max(places) \in DOMAIN Bindings(m)
    BY <1>6, <2>1, <2>2, MaxIs
  <2>4. Strongest(m, places) = Bindings(m)[Max(places)] /\ Strongest(n, places) = Bindings(n)[Max(places)]
    BY <1>6 DEF Strongest
  <2>5. Resolve(m, e) = Strongest(m, places).command /\ Resolve(n, e) = Strongest(n, places).command
    BY <1>4 DEF Resolve, places
  <2>. QED
    BY <1>2, <2>3, <2>4, <2>5
<1>. QED
  BY <1>5, <1>6

-----------------------------------------------------------------------------
(* The invariant                                                           *)

Calls == [is : {"cancel", "nothing"}, command : {"none"}] \cup [is : {"restored"}, command : Commands]
Recorders == [command : Commands \cup {"none"}, captured : Stroke, pressed : BOOLEAN]

KeyTypeOK ==
    /\ memory \in [Pages -> Registries]
    /\ boot \in [Pages -> [pc : {"absent", "starting", "reading", "ready", "failed"}, read : Records]]
    /\ db \in Records
    /\ writes \in [Pages -> [snapshot : Records, waiting : Seq(Calls), broken : BOOLEAN]]
    /\ dialog \in [Pages -> Recorders]
    /\ left \in [Pages -> Nat]
    /\ writer \in Pages \cup {"none"} /\ early \in SUBSET Pages /\ crossed \in SUBSET Pages

(* What is in an editor is a stroke that was pressed, or is the command's  *)
(* own.                                                                    *)
EditorOK(p) ==
    /\ dialog[p].pressed => dialog[p].captured \in Events
    /\ p \notin crossed =>
          /\ AllOwn(memory[p].rules)
          /\ Editing(p) => Own(Bind(dialog[p].command, dialog[p].captured))

(* The last write puts what the page has; a page has nothing until it has  *)
(* loaded what was stored, which nobody has changed since; then what is    *)
(* stored is what the page has.                                            *)
KeptOK(p) ==
    p \notin early =>
        /\ (Len(writes[p].waiting) = 1 /\ ~writes[p].broken) => writes[p].snapshot = Record(memory[p])
        /\ boot[p].pc # "ready" => writes[p].waiting = <<>> /\ memory[p] = Nothing
        /\ (boot[p].pc = "reading" /\ writer \in {p, "none"}) => boot[p].read = db
        /\ (boot[p].pc = "ready" /\ writer \in {p, "none"} /\ writes[p].waiting = <<>> /\ ~writes[p].broken) =>
              IF db.stored THEN db = Record(memory[p]) ELSE memory[p] = Nothing

KeyInv == KeyTypeOK /\ \A p \in Pages : EditorOK(p) /\ KeptOK(p)

LEMMA InvAtFirst ==
    ASSUME left \in [Pages -> Nat], KeyInit
    PROVE  KeyInv
<1>1. Nothing \in Registries /\ AllOwn(Nothing.rules)
  BY NothingType DEF Registries, AllOwn
<1>2. NoRecord \in Records /\ NoRecord.stored = FALSE
  BY NoRecordType
<1>3. NoEditor \in Recorders /\ NoEditor.command = "none" /\ NoEditor.pressed = FALSE
  BY NoStrokeType DEF NoEditor, Recorders
<1>4. Idle \in [snapshot : Records, waiting : Seq(Calls), broken : BOOLEAN] /\ Idle.waiting = <<>>
  BY <1>2 DEF Idle
<1>5. KeyTypeOK
  <2>1. memory \in [Pages -> Registries] /\ dialog \in [Pages -> Recorders] /\ db \in Records
    BY <1>1, <1>2, <1>3 DEF KeyInit
  <2>2. writes \in [Pages -> [snapshot : Records, waiting : Seq(Calls), broken : BOOLEAN]]
    BY <1>4 DEF KeyInit
  <2>3. boot \in [Pages -> [pc : {"absent", "starting", "reading", "ready", "failed"}, read : Records]]
    BY <1>2 DEF KeyInit
  <2>. QED
    BY <2>1, <2>2, <2>3 DEF KeyInit, KeyTypeOK
<1>6. ASSUME NEW p \in Pages PROVE EditorOK(p) /\ KeptOK(p)
  <2>1. /\ memory[p] = Nothing /\ dialog[p] = NoEditor /\ writes[p] = Idle
        /\ boot[p].pc \in {"absent", "starting"}
    BY DEF KeyInit
  <2>2. EditorOK(p)
    BY <1>1, <1>3, <2>1 DEF EditorOK, Editing
  <2>3. Len(<<>>) # 1
    OBVIOUS
  <2>4. KeptOK(p)
    BY <1>4, <2>1, <2>3 DEF KeptOK
  <2>. QED
    BY <2>2, <2>4
<1>. QED
  BY <1>5, <1>6 DEF KeyInv

(* What one page does leaves the others as they are, but for the record.   *)
LEMMA OtherPage ==
    ASSUME KeyInv, NEW p \in Pages, NEW q \in Pages, q # p,
           memory'[q] = memory[q], boot'[q] = boot[q], writes'[q] = writes[q], dialog'[q] = dialog[q],
           q \in early' <=> q \in early, q \in crossed' <=> q \in crossed,
           (db' = db /\ writer' = writer) \/ writer' = p
    PROVE  EditorOK(q)' /\ KeptOK(q)'
<1>1. EditorOK(q) /\ KeptOK(q) /\ p # "none"
  BY KeyAssumption DEF KeyInv
<1>2. EditorOK(q)'
  BY <1>1 DEF EditorOK, Editing
<1>3. KeptOK(q)'
  <2>1. writer' \in {q, "none"} => db' = db /\ writer' = writer
    BY <1>1
  <2>. QED
    BY <1>1, <2>1 DEF KeptOK
<1>. QED
  BY <1>2, <1>3

LEMMA EditsKeeps ==
    ASSUME KeyInv, NEW p \in Pages, NEW d \in Recorders, Edits(p, d),
           d.pressed => d.captured \in Events,
           (AllOwn(memory[p].rules) /\ p \notin crossed /\ d.command # "none") => Own(Bind(d.command, d.captured))
    PROVE  KeyInv'
<1>1. dialog' = [dialog EXCEPT ![p] = d] /\ dialog \in [Pages -> Recorders]
  BY DEF Edits, KeyInv, KeyTypeOK
<1>2. dialog'[p] = d /\ \A q \in Pages : q # p => dialog'[q] = dialog[q]
  BY <1>1
<1>3. KeyTypeOK'
  <2>1. dialog' \in [Pages -> Recorders]
    BY <1>1
  <2>. QED
    BY <2>1 DEF Edits, KeyInv, KeyTypeOK
<1>4. EditorOK(p) /\ KeptOK(p)
  BY DEF KeyInv
<1>5. EditorOK(p)'
  BY <1>2, <1>4 DEF EditorOK, Editing, Edits
<1>6. KeptOK(p)'
  BY <1>4 DEF KeptOK, Edits
<1>7. ASSUME NEW q \in Pages, q # p PROVE EditorOK(q)' /\ KeptOK(q)'
  BY <1>2, <1>7, OtherPage DEF Edits
<1>. QED
  BY <1>3, <1>5, <1>6, <1>7 DEF KeyInv

LEMMA ChangesKeeps ==
    ASSUME KeyInv, NEW p \in Pages, NEW m \in Registries, NEW then \in Calls,
           Changes(p, m, then), UNCHANGED dialog,
           (EditorOK(p) /\ p \notin crossed) => AllOwn(m.rules)
    PROVE  KeyInv'
<1>. DEFINE Chains == [snapshot : Records, waiting : Seq(Calls), broken : BOOLEAN]
            w == writes[p]
            w2 == [w EXCEPT !.waiting = Append(w.waiting, then),
                            !.snapshot = IF w.waiting = <<>> THEN Record(m) ELSE w.snapshot]
<1>1. /\ memory \in [Pages -> Registries] /\ writes \in [Pages -> Chains] /\ left \in [Pages -> Nat]
      /\ early \in SUBSET Pages
  BY DEF KeyInv, KeyTypeOK
<1>2. /\ memory' = [memory EXCEPT ![p] = m] /\ left' = [left EXCEPT ![p] = @ - 1] /\ left[p] > 0
      /\ early' = IF boot[p].pc = "ready" THEN early ELSE early \cup {p}
      /\ boot' = boot /\ db' = db /\ writer' = writer /\ crossed' = crossed /\ dialog' = dialog
  BY DEF Changes
<1>3. memory'[p] = m /\ memory' \in [Pages -> Registries] /\ \A q \in Pages : q # p => memory'[q] = memory[q]
  BY <1>1, <1>2
<1>4. /\ ~w.broken => writes'[p] = w2
      /\ w.broken => writes'[p] = w
      /\ \A q \in Pages : q # p => writes'[q] = writes[q]
      /\ writes' \in [Pages -> Chains]
  <2>1. w \in Chains /\ Record(m) \in Records
    BY <1>1, RecordIs
  <2>2. w2 \in Chains
    <3>1. w.waiting \in Seq(Calls) /\ w.snapshot \in Records /\ w.broken \in BOOLEAN
      BY <2>1
    <3>2. Append(w.waiting, then) \in Seq(Calls)
      BY <3>1
    <3>. QED
      BY <2>1, <3>1, <3>2
  <2>3. writes' = IF w.broken THEN writes ELSE [writes EXCEPT ![p] = w2]
    BY DEF Changes, Queue
  <2>. HIDE DEF w2
  <2>. QED
    BY <1>1, <2>2, <2>3
<1>5. left' \in [Pages -> Nat]
  <2>1. left[p] - 1 \in Nat
    BY <1>1, <1>2
  <2>. QED
    BY <1>1, <1>2, <2>1
<1>6. early' \in SUBSET Pages /\ \A q \in Pages : q # p => (q \in early' <=> q \in early)
  BY <1>1, <1>2
<1>7. KeyTypeOK'
  BY <1>2, <1>3, <1>4, <1>5, <1>6 DEF KeyInv, KeyTypeOK
<1>8. EditorOK(p) /\ KeptOK(p) /\ w \in Chains
  BY <1>1 DEF KeyInv
<1>9. EditorOK(p)'
  BY <1>2, <1>3, <1>8 DEF EditorOK, Editing
<1>10. KeptOK(p)'
  <2>. SUFFICES ASSUME p \notin early' PROVE KeptOK(p)'
    BY DEF KeptOK
  <2>1. boot'[p].pc = "ready" /\ p \notin early
    BY <1>2
  <2>2. ~w.broken => Len(w2.waiting) = Len(w.waiting) + 1 /\ w2.waiting # <<>> /\ w2.broken = w.broken
                     /\ w2.snapshot = (IF w.waiting = <<>> THEN Record(m) ELSE w.snapshot)
    BY <1>8
  <2>3. ~w.broken /\ Len(w2.waiting) = 1 => w.waiting = <<>>
    BY <1>8, <2>2
  <2>. HIDE DEF w2
  <2>. QED
    BY <1>3, <1>4, <2>1, <2>2, <2>3 DEF KeptOK
<1>11. ASSUME NEW q \in Pages, q # p PROVE EditorOK(q)' /\ KeptOK(q)'
  BY <1>2, <1>3, <1>4, <1>6, <1>11, OtherPage
<1>. QED
  BY <1>7, <1>9, <1>10, <1>11 DEF KeyInv

LEMMA DialogKeeps ==
    ASSUME KeyInv, NEW p \in Pages, DialogNext(p)
    PROVE  KeyInv'
<1>1. /\ memory[p] \in Registry /\ Single(memory[p].rules) /\ memory[p] \in Registries
      /\ memory[p].disabled \in SUBSET Commands
      /\ dialog[p] \in Recorders /\ EditorOK(p)
  BY DEF KeyInv, KeyTypeOK, Registries, Registry
<1>2. dialog[p].command \in Commands \cup {"none"} /\ dialog[p].captured \in Stroke
  BY <1>1 DEF Recorders
<1>3. /\ [is |-> "cancel", command |-> "none"] \in Calls /\ [is |-> "nothing", command |-> "none"] \in Calls
      /\ \A c \in Commands : [is |-> "restored", command |-> c] \in Calls
  BY DEF Calls
<1>4. Nothing \in Registries /\ AllOwn(Nothing.rules)
  BY NothingType DEF Registries, AllOwn
<1>5. ASSUME NEW c \in Commands PROVE Reset(memory[p], c) \in Registries
  BY <1>1, ResetType DEF Registries
<1>6. ASSUME NEW c \in Commands, AllOwn(memory[p].rules) PROVE AllOwn(Reset(memory[p], c).rules)
  <2>1. Reset(memory[p], c).rules = Except(memory[p], c)
    BY <1>1, ResetType
  <2>2. \A i \in DOMAIN Except(memory[p], c) : \E j \in DOMAIN memory[p].rules :
           Except(memory[p], c)[i] = memory[p].rules[j]
    BY <1>1, ExceptIs
  <2>. QED
    BY <1>6, <2>1, <2>2 DEF AllOwn
<1>7. ASSUME NEW c \in Commands, StartEditing(p, c) PROVE KeyInv'
  <2>. DEFINE d == [command |-> c, captured |-> Current(memory[p], c).stroke, pressed |-> FALSE]
  <2>1. Current(memory[p], c).stroke \in Stroke
        /\ (AllOwn(memory[p].rules) => Own(Bind(c, Current(memory[p], c).stroke)))
    BY <1>1, CurrentType
  <2>2. d \in Recorders /\ d.command = c /\ d.captured = Current(memory[p], c).stroke /\ d.pressed = FALSE
    BY <2>1 DEF Recorders
  <2>3. Edits(p, d)
    BY <1>7 DEF StartEditing
  <2>. HIDE DEF d
  <2>. QED
    BY <2>1, <2>2, <2>3, EditsKeeps
<1>8. ASSUME NEW c \in Commands, RestoreOne(p, c) PROVE KeyInv'
  <2>1. Changes(p, Reset(memory[p], c), [is |-> "nothing", command |-> "none"]) /\ UNCHANGED dialog
    BY <1>8 DEF RestoreOne
  <2>. QED
    BY <1>3, <1>5, <1>6, <2>1, ChangesKeeps DEF EditorOK
<1>9. ASSUME NEW c \in Commands, SetEnabled(p, c) PROVE KeyInv'
  <2>. DEFINE off == IF c \in memory[p].disabled THEN memory[p].disabled \ {c} ELSE memory[p].disabled \cup {c}
              m == [memory[p] EXCEPT !.disabled = off]
  <2>1. Changes(p, m, [is |-> "nothing", command |-> "none"]) /\ UNCHANGED dialog
    BY <1>9 DEF SetEnabled
  <2>2. off \in SUBSET Commands
    BY <1>1
  <2>. HIDE DEF off
  <2>3. m \in Registry /\ m.rules = memory[p].rules
    BY <1>1, <2>2 DEF Registry
  <2>. HIDE DEF m
  <2>4. m \in Registries
    BY <1>1, <2>3 DEF Registries
  <2>. QED
    BY <1>3, <2>1, <2>3, <2>4, ChangesKeeps DEF EditorOK
<1>10. ASSUME NEW e \in Events, Capture(p, e) PROVE KeyInv'
  <2>. DEFINE d == [dialog[p] EXCEPT !.captured = e, !.pressed = TRUE]
  <2>1. e \in Stroke /\ Plain(e)
    BY EventIs
  <2>2. d \in Recorders /\ d.captured = e
    BY <1>1, <2>1 DEF Recorders
  <2>3. Edits(p, d)
    BY <1>10 DEF Capture
  <2>. HIDE DEF d
  <2>4. Own(Bind(d.command, e))
    BY <2>1 DEF Own, Bind
  <2>. QED
    BY <2>2, <2>3, <2>4, EditsKeeps
<1>11. CASE ClearCapture(p)
  <2>. DEFINE d == [dialog[p] EXCEPT !.captured = NoStroke, !.pressed = FALSE]
  <2>1. d \in Recorders /\ d.captured = NoStroke /\ d.pressed = FALSE
    BY <1>1, NoStrokeType DEF Recorders
  <2>2. Edits(p, d)
    BY <1>11 DEF ClearCapture
  <2>. HIDE DEF d
  <2>3. Own(Bind(d.command, NoStroke))
    BY NoStrokeType DEF Own, Bind
  <2>. QED
    BY <2>1, <2>2, <2>3, EditsKeeps
<1>12. CASE CancelEditing(p)
  <2>1. NoEditor \in Recorders /\ NoEditor.pressed = FALSE /\ NoEditor.command = "none"
    BY NoStrokeType DEF NoEditor, Recorders
  <2>2. Edits(p, NoEditor)
    BY <1>12 DEF CancelEditing
  <2>. QED
    BY <2>1, <2>2, EditsKeeps
<1>13. CASE SaveEditing(p)
  <2>. DEFINE c == dialog[p].command
              s == dialog[p].captured
              m == Override(memory[p], c, s)
  <2>1. /\ Changes(p, m, [is |-> "cancel", command |-> "none"]) /\ UNCHANGED dialog
        /\ c \in Commands /\ s \in Stroke /\ Editing(p)
    BY <1>2, <1>13 DEF SaveEditing, Editing
  <2>2. m \in Registries
    BY <1>1, <2>1, OverrideType DEF Registries
  <2>3. ASSUME AllOwn(memory[p].rules), Own(Bind(c, s)) PROVE AllOwn(m.rules)
    <3>. DEFINE q == Except(memory[p], c)
    <3>1. q \in Seq(Binding) /\ \A i \in DOMAIN q : \E j \in DOMAIN memory[p].rules : q[i] = memory[p].rules[j]
      BY <1>1, ExceptIs
    <3>2. AllOwn(q)
      BY <2>3, <3>1 DEF AllOwn
    <3>3. m.rules \in {q, Append(q, Bind(c, s))}
      BY DEF Override
    <3>4. Bind(c, s) \in Binding
      BY <2>1, BindType
    <3>. HIDE DEF q, c, s, m
    <3>5. \A i \in DOMAIN Append(q, Bind(c, s)) :
             (i \in DOMAIN q /\ Append(q, Bind(c, s))[i] = q[i]) \/ Append(q, Bind(c, s))[i] = Bind(c, s)
      BY <3>1, <3>4
    <3>6. AllOwn(Append(q, Bind(c, s)))
      BY <2>3, <3>2, <3>5 DEF AllOwn
    <3>. QED
      BY <3>2, <3>3, <3>6
  <2>4. (EditorOK(p) /\ p \notin crossed) => AllOwn(m.rules)
    BY <2>1, <2>3 DEF EditorOK
  <2>. HIDE DEF m, c, s
  <2>. QED
    BY <1>3, <2>1, <2>2, <2>4, ChangesKeeps
<1>14. CASE RestoreEditing(p)
  <2>. DEFINE c == dialog[p].command
  <2>1. c \in Commands /\ UNCHANGED dialog
        /\ Changes(p, Reset(memory[p], c), [is |-> "restored", command |-> c])
    BY <1>2, <1>14 DEF RestoreEditing, Editing
  <2>. HIDE DEF c
  <2>. QED
    BY <1>3, <1>5, <1>6, <2>1, ChangesKeeps DEF EditorOK
<1>15. CASE RestoreAll(p)
  <2>1. Changes(p, Nothing, [is |-> "nothing", command |-> "none"]) /\ UNCHANGED dialog
    BY <1>15 DEF RestoreAll
  <2>. QED
    BY <1>3, <1>4, <2>1, ChangesKeeps
<1>. QED
  BY <1>7, <1>8, <1>9, <1>10, <1>11, <1>12, <1>13, <1>14, <1>15 DEF DialogNext

LEMMA LoadKeeps ==
    ASSUME KeyInv, NEW p \in Pages, LoadReads(p) \/ LoadApplies(p) \/ LoadSkipped(p)
    PROVE  KeyInv'
<1>. DEFINE Boots == [pc : {"absent", "starting", "reading", "ready", "failed"}, read : Records]
<1>1. /\ memory \in [Pages -> Registries] /\ boot \in [Pages -> Boots] /\ db \in Records
      /\ boot[p].read \in Records /\ EditorOK(p) /\ KeptOK(p)
  BY DEF KeyInv, KeyTypeOK
<1>2. NoRecord \in Records
  BY NoRecordType
<1>3. /\ UNCHANGED <<db, writes, dialog, left, writer, early, crossed>>
      /\ \E pc \in {"reading", "ready", "failed"}, r \in Records :
            boot' = [boot EXCEPT ![p] = [pc |-> pc, read |-> r]]
  BY <1>1, <1>2 DEF LoadReads, LoadApplies, LoadSkipped, To
<1>4. boot' \in [Pages -> Boots] /\ \A q \in Pages : q # p => boot'[q] = boot[q]
  BY <1>1, <1>3
<1>5. \/ memory' = memory
      \/ memory' = [memory EXCEPT ![p] = Loaded(memory[p], boot[p].read)]
  BY DEF LoadReads, LoadApplies, LoadSkipped
<1>6. Loaded(memory[p], boot[p].read) \in Registries
  BY <1>1, LoadedIs
<1>7. memory' \in [Pages -> Registries] /\ \A q \in Pages : q # p => memory'[q] = memory[q]
  BY <1>1, <1>5, <1>6
<1>8. KeyTypeOK'
  BY <1>3, <1>4, <1>7 DEF KeyInv, KeyTypeOK
<1>9. EditorOK(p)' /\ KeptOK(p)'
  <2>1. CASE LoadReads(p)
    <3>1. boot'[p].pc = "reading" /\ boot'[p].read = db /\ memory' = memory /\ boot[p].pc = "starting"
      BY <1>1, <2>1 DEF LoadReads, To
    <3>. QED
      BY <1>1, <1>3, <3>1 DEF EditorOK, Editing, KeptOK
  <2>2. CASE LoadSkipped(p)
    <3>1. boot'[p].pc = "failed" /\ memory' = memory /\ boot[p].pc = "starting"
      BY <1>1, <2>2 DEF LoadSkipped, To
    <3>. QED
      BY <1>1, <1>3, <3>1 DEF EditorOK, Editing, KeptOK
  <2>3. CASE LoadApplies(p)
    <3>1. boot'[p].pc = "ready" /\ boot[p].pc = "reading" /\ memory'[p] = Loaded(memory[p], boot[p].read)
      BY <1>1, <2>3 DEF LoadApplies, To
    <3>2. AllOwn(memory[p].rules) => AllOwn(memory'[p].rules)
      BY <1>1, <3>1, LoadedIs
    <3>3. EditorOK(p)'
      BY <1>1, <1>3, <3>2 DEF EditorOK, Editing
    <3>4. KeptOK(p)'
      <4>. SUFFICES ASSUME p \notin early PROVE KeptOK(p)'
        BY <1>3 DEF KeptOK
      <4>1. writes'[p].waiting = <<>> /\ memory[p] = Nothing
        BY <1>1, <1>3, <3>1 DEF KeptOK
      <4>2. Len(<<>>) # 1
        OBVIOUS
      <4>3. ASSUME writer' \in {p, "none"}
            PROVE  IF db.stored THEN db = Record(memory'[p]) ELSE memory'[p] = Nothing
        <5>1. boot[p].read = db
          BY <1>1, <1>3, <3>1, <4>3 DEF KeptOK
        <5>2. memory[p] \in Registries
          BY <1>1
        <5>. QED
          BY <1>1, <3>1, <4>1, <5>1, <5>2, LoadedIs, RecordOfLoaded
      <4>. QED
        BY <1>3, <3>1, <4>1, <4>2, <4>3 DEF KeptOK
    <3>. QED
      BY <3>3, <3>4
  <2>. QED
    BY <2>1, <2>2, <2>3
<1>10. ASSUME NEW q \in Pages, q # p PROVE EditorOK(q)' /\ KeptOK(q)'
  BY <1>3, <1>4, <1>7, <1>10, OtherPage
<1>. QED
  BY <1>8, <1>9, <1>10 DEF KeyInv

LEMMA ReloadKeeps ==
    ASSUME KeyInv, NEW p \in Pages, Reload(p)
    PROVE  KeyInv'
<1>1. /\ memory' = [memory EXCEPT ![p] = Nothing]
      /\ boot' = [boot EXCEPT ![p] = [pc |-> "starting", read |-> NoRecord]]
      /\ writes' = [writes EXCEPT ![p] = Idle] /\ dialog' = [dialog EXCEPT ![p] = NoEditor]
      /\ (db' = db /\ writer' = writer) \/ (db' = writes[p].snapshot /\ writer' = p)
      /\ early' = early \ {p} /\ crossed' = crossed \ {p} /\ left' = left
  BY DEF Reload, To
<1>2. Nothing \in Registries /\ AllOwn(Nothing.rules)
  BY NothingType DEF Registries, AllOwn
<1>3. NoEditor \in Recorders /\ NoEditor.command = "none" /\ NoEditor.pressed = FALSE
  BY NoStrokeType DEF NoEditor, Recorders
<1>4. Idle \in [snapshot : Records, waiting : Seq(Calls), broken : BOOLEAN] /\ Idle.waiting = <<>>
  BY NoRecordType DEF Idle
<1>5. [pc |-> "starting", read |-> NoRecord]
        \in [pc : {"absent", "starting", "reading", "ready", "failed"}, read : Records]
  BY NoRecordType
<1>6. KeyTypeOK
  BY DEF KeyInv
<1>7. /\ memory'[p] = Nothing /\ boot'[p].pc = "starting" /\ writes'[p] = Idle /\ dialog'[p] = NoEditor
      /\ \A q \in Pages : q # p => /\ memory'[q] = memory[q] /\ boot'[q] = boot[q]
                                   /\ writes'[q] = writes[q] /\ dialog'[q] = dialog[q]
  BY <1>1, <1>6 DEF KeyTypeOK
<1>8. KeyTypeOK'
  <2>1. memory' \in [Pages -> Registries] /\ dialog' \in [Pages -> Recorders]
    BY <1>1, <1>2, <1>3, <1>6 DEF KeyTypeOK
  <2>2. writes' \in [Pages -> [snapshot : Records, waiting : Seq(Calls), broken : BOOLEAN]]
    BY <1>1, <1>4, <1>6 DEF KeyTypeOK
  <2>3. boot' \in [Pages -> [pc : {"absent", "starting", "reading", "ready", "failed"}, read : Records]]
    BY <1>1, <1>5, <1>6 DEF KeyTypeOK
  <2>4. db' \in Records
    BY <1>1, <1>6 DEF KeyTypeOK
  <2>5. /\ left' \in [Pages -> Nat] /\ writer' \in Pages \cup {"none"}
        /\ early' \in SUBSET Pages /\ crossed' \in SUBSET Pages
    BY <1>1, <1>6 DEF KeyTypeOK
  <2>. QED
    BY <2>1, <2>2, <2>3, <2>4, <2>5 DEF KeyTypeOK
<1>9. EditorOK(p)'
  BY <1>2, <1>3, <1>7 DEF EditorOK, Editing
<1>10. KeptOK(p)'
  <2>1. Len(<<>>) # 1
    OBVIOUS
  <2>. QED
    BY <1>4, <1>7, <2>1 DEF KeptOK
<1>11. ASSUME NEW q \in Pages, q # p PROVE EditorOK(q)' /\ KeptOK(q)'
  <2>1. /\ q \in early' <=> q \in early
        /\ q \in crossed' <=> q \in crossed
        /\ (db' = db /\ writer' = writer) \/ writer' = p
    BY <1>1, <1>11
  <2>. QED
    BY <1>7, <1>11, <2>1, OtherPage
<1>. QED
  BY <1>8, <1>9, <1>10, <1>11 DEF KeyInv

LEMMA WriteFailsKeeps ==
    ASSUME KeyInv, NEW p \in Pages, WriteFails(p)
    PROVE  KeyInv'
<1>. DEFINE w == [Idle EXCEPT !.broken = TRUE]
<1>1. w \in [snapshot : Records, waiting : Seq(Calls), broken : BOOLEAN] /\ w.waiting = <<>> /\ w.broken = TRUE
  <2>1. Idle \in [snapshot : Records, waiting : Seq(Calls), broken : BOOLEAN] /\ Idle.waiting = <<>>
    BY NoRecordType DEF Idle
  <2>. QED
    BY <2>1
<1>2. /\ writes' = [writes EXCEPT ![p] = w]
      /\ UNCHANGED <<memory, boot, db, dialog, left, writer, early, crossed>>
  BY DEF WriteFails
<1>. HIDE DEF w
<1>3. KeyTypeOK /\ EditorOK(p) /\ KeptOK(p)
  BY DEF KeyInv
<1>4. writes' \in [Pages -> [snapshot : Records, waiting : Seq(Calls), broken : BOOLEAN]]
      /\ writes'[p] = w /\ \A q \in Pages : q # p => writes'[q] = writes[q]
  BY <1>1, <1>2, <1>3 DEF KeyTypeOK
<1>5. KeyTypeOK'
  BY <1>2, <1>3, <1>4 DEF KeyTypeOK
<1>6. EditorOK(p)'
  BY <1>2, <1>3 DEF EditorOK, Editing
<1>7. KeptOK(p)'
  BY <1>1, <1>2, <1>3, <1>4 DEF KeptOK
<1>8. ASSUME NEW q \in Pages, q # p PROVE EditorOK(q)' /\ KeptOK(q)'
  BY <1>2, <1>4, <1>8, OtherPage
<1>. QED
  BY <1>5, <1>6, <1>7, <1>8 DEF KeyInv

LEMMA WriteEndsKeeps ==
    ASSUME KeyInv, NEW p \in Pages, writes[p].waiting # <<>>, WriteEnds(p)
    PROVE  KeyInv'
<1>. DEFINE Chains == [snapshot : Records, waiting : Seq(Calls), broken : BOOLEAN]
            w == writes[p]
            rest == Tail(w.waiting)
            next == IF rest = <<>> THEN NoRecord ELSE Record(memory[p])
            w2 == [w EXCEPT !.waiting = rest, !.snapshot = next]
            then == Head(w.waiting)
            d == Continued(p, then)
<1>1. KeyTypeOK /\ EditorOK(p) /\ KeptOK(p)
  BY DEF KeyInv
<1>2. w \in Chains /\ memory[p] \in Registries /\ dialog[p] \in Recorders
  BY <1>1 DEF KeyTypeOK
<1>3. /\ rest \in Seq(Calls) /\ then \in Calls /\ (rest = <<>> => Len(w.waiting) = 1)
  <2>. DEFINE v == w.waiting
  <2>1. v \in Seq(Calls) /\ v # <<>>
    BY <1>2
  <2>. HIDE DEF v
  <2>2. Tail(v) \in Seq(Calls) /\ Head(v) \in Calls
    BY <2>1
  <2>3. Len(Tail(v)) = Len(v) - 1 /\ Len(v) \in Nat /\ Len(<<>>) = 0
    BY <2>1
  <2>4. Tail(v) = <<>> => Len(v) = 1
    <3>1. ASSUME Tail(v) = <<>> PROVE Len(Tail(v)) = 0
      BY <2>3, <3>1
    <3>. QED
      BY <2>3, <3>1
  <2>. QED
    BY <2>2, <2>4 DEF v
<1>4. next \in Records /\ (rest # <<>> => next = Record(memory[p]))
  BY <1>2, NoRecordType, RecordIs
<1>5. /\ db' = w.snapshot /\ writer' = p /\ writes' = [writes EXCEPT ![p] = w2]
      /\ dialog' = [dialog EXCEPT ![p] = d]
      /\ crossed' = IF then.is = "restored" /\ dialog[p].command \notin {"none", then.command}
                    THEN crossed \cup {p} ELSE crossed
      /\ UNCHANGED <<memory, boot, left, early>>
  BY DEF WriteEnds, Resumes
<1>6. then.is \in {"cancel", "nothing", "restored"} /\ (then.is = "restored" => then.command \in Commands)
  BY <1>3 DEF Calls
<1>7. /\ d \in Recorders /\ (d.pressed => d.captured \in Events)
      /\ (p \notin crossed' /\ AllOwn(memory[p].rules) /\ d.command # "none") => Own(Bind(d.command, d.captured))
  <2>1. CASE then.is = "cancel"
    <3>1. d = NoEditor
      BY <2>1 DEF Continued
    <3>2. NoEditor \in Recorders /\ NoEditor.pressed = FALSE /\ NoEditor.command = "none"
      BY NoStrokeType DEF NoEditor, Recorders
    <3>. HIDE DEF d
    <3>. QED
      BY <3>1, <3>2
  <2>2. CASE then.is = "nothing"
    <3>1. d = dialog[p]
      BY <2>2 DEF Continued
    <3>2. crossed' = crossed
      BY <1>5, <2>2
    <3>. HIDE DEF d
    <3>. QED
      BY <1>1, <1>2, <3>1, <3>2 DEF EditorOK, Editing
  <2>3. CASE then.is = "restored"
    <3>. DEFINE s == Current(memory[p], then.command).stroke
    <3>1. then.command \in Commands /\ memory[p] \in Registry
      BY <1>2, <1>6, <2>3 DEF Registries
    <3>. HIDE DEF then
    <3>2. s \in Stroke /\ (AllOwn(memory[p].rules) => Own(Bind(then.command, s)))
      BY <3>1, CurrentType
    <3>3. d = [dialog[p] EXCEPT !.captured = s, !.pressed = FALSE]
      BY <2>3 DEF Continued
    <3>. HIDE DEF s
    <3>4. d \in Recorders /\ d.pressed = FALSE /\ d.captured = s /\ d.command = dialog[p].command
      BY <1>2, <3>2, <3>3 DEF Recorders
    <3>. HIDE DEF d
    <3>5. ASSUME p \notin crossed', d.command # "none" PROVE d.command = then.command
      BY <1>5, <2>3, <3>4, <3>5
    <3>. QED
      BY <3>2, <3>4, <3>5
  <2>. QED
    BY <1>6, <2>1, <2>2, <2>3
<1>. HIDE DEF d, then
<1>8. w2 \in Chains /\ w2.waiting = rest /\ w2.snapshot = next /\ w2.broken = w.broken
  <2>. HIDE DEF rest, next
  <2>. QED
    BY <1>2, <1>3, <1>4
<1>. HIDE DEF w2, next
<1>9. /\ writes' \in [Pages -> Chains] /\ writes'[p] = w2 /\ dialog' \in [Pages -> Recorders] /\ dialog'[p] = d
      /\ \A q \in Pages : q # p => writes'[q] = writes[q] /\ dialog'[q] = dialog[q]
  BY <1>1, <1>5, <1>7, <1>8 DEF KeyTypeOK
<1>10. crossed' \in SUBSET Pages /\ (p \in crossed => p \in crossed')
       /\ \A q \in Pages : q # p => (q \in crossed' <=> q \in crossed)
  BY <1>1, <1>5 DEF KeyTypeOK
<1>11. KeyTypeOK'
  <2>1. db' \in Records /\ writer' \in Pages \cup {"none"}
    BY <1>2, <1>5
  <2>. QED
    BY <1>1, <1>5, <1>9, <1>10, <2>1 DEF KeyTypeOK
<1>12. EditorOK(p)'
  BY <1>1, <1>5, <1>7, <1>9, <1>10 DEF EditorOK, Editing
<1>13. KeptOK(p)'
  <2>. SUFFICES ASSUME p \notin early PROVE KeptOK(p)'
    BY <1>5 DEF KeptOK
  <2>1. boot'[p].pc = "ready" /\ boot[p].pc = "ready" /\ memory' = memory
    BY <1>1, <1>5 DEF KeptOK
  <2>2. (rest = <<>> /\ ~w2.broken) => db' = Record(memory[p])
    BY <1>1, <1>3, <1>5, <1>8 DEF KeptOK
  <2>3. db'.stored \/ ~(rest = <<>> /\ ~w2.broken)
    BY <1>2, <2>2, RecordIs
  <2>4. Len(<<>>) # 1
    OBVIOUS
  <2>. HIDE DEF rest
  <2>. QED
    BY <1>4, <1>5, <1>8, <1>9, <2>1, <2>2, <2>3, <2>4 DEF KeptOK
<1>14. ASSUME NEW q \in Pages, q # p PROVE EditorOK(q)' /\ KeptOK(q)'
  BY <1>5, <1>9, <1>10, <1>14, OtherPage
<1>. QED
  BY <1>11, <1>12, <1>13, <1>14 DEF KeyInv

LEMMA StepKeeps == KeyInv /\ [KeyNext]_keyVars => KeyInv'
<1>1. ASSUME KeyInv, UNCHANGED keyVars PROVE KeyInv'
  BY <1>1 DEF keyVars, KeyInv, KeyTypeOK, EditorOK, Editing, KeptOK
<1>2. ASSUME KeyInv, NEW p \in Pages, DialogNext(p) PROVE KeyInv'
  BY <1>2, DialogKeeps
<1>3. ASSUME KeyInv, NEW p \in Pages, PageNext(p) PROVE KeyInv'
  BY <1>3, LoadKeeps, ReloadKeeps, WriteEndsKeeps, WriteFailsKeeps DEF PageNext
<1>. QED
  BY <1>1, <1>2, <1>3 DEF KeyNext

-----------------------------------------------------------------------------
(* The theorems                                                            *)

(* What a page's registry, its editor, its queue of writes and the record  *)
(* in IndexedDB are to one another.                                        *)
THEOREM Inductive == KeySpec => []KeyInv
<1>1. (left \in [Pages -> Nat] /\ KeyInit) => KeyInv
  BY InvAtFirst
<1>. QED
  BY <1>1, StepKeeps, PTL DEF KeySpec

(* Loading a page again changes no shortcut, once its writes have ended    *)
(* and if no other page wrote: whatever keys, defaults and overrides there *)
(* are.                                                                    *)
THEOREM Stored == KeySpec => []StoredIsShown
<1>1. KeyInv => StoredIsShown
  <2>. SUFFICES
          ASSUME KeyInv, NEW p \in Pages, boot[p].pc = "ready", p \notin early, writer \in {p, "none"},
                 writes[p].waiting = <<>>, ~writes[p].broken
          PROVE  \/ Loaded(Nothing, db) = memory[p]
                 \/ /\ Loaded(Nothing, db).disabled = memory[p].disabled
                    /\ \A e \in Events : Resolve(Loaded(Nothing, db), e) = Resolve(memory[p], e)
    BY DEF StoredIsShown
  <2>1. IF db.stored THEN db = Record(memory[p]) ELSE memory[p] = Nothing
    BY DEF KeyInv, KeptOK
  <2>2. memory[p] \in Registries /\ db \in Records /\ Nothing \in Registries
    BY NothingType DEF KeyInv, KeyTypeOK, Registries
  <2>3. CASE ~db.stored
    BY <2>1, <2>2, <2>3, LoadedIs
  <2>4. CASE db.stored
    <3>. DEFINE n == Loaded(Nothing, db)
                m == memory[p]
    <3>1. n \in Registries /\ n.rules = db.rules /\ n.disabled = db.disabled
      BY <2>2, <2>4, LoadedIs
    <3>2. db = Record(m)
      BY <2>1, <2>4
    <3>. HIDE DEF n, m
    <3>3. m \in Registries
      BY <2>2 DEF m
    <3>4. /\ n.disabled = m.disabled /\ DOMAIN n.rules = DOMAIN m.rules
          /\ \A i \in DOMAIN m.rules :
                /\ n.rules[i].command = m.rules[i].command
                /\ n.rules[i].stroke = Effective(m.rules[i].stroke)
      BY <3>1, <3>2, <3>3, RecordIs
    <3>5. \A e \in Events : Resolve(n, e) = Resolve(m, e)
      BY <3>1, <3>3, <3>4, SameResolve DEF Registries
    <3>. QED
      BY <3>4, <3>5 DEF n, m
  <2>. QED
    BY <2>3, <2>4
<1>. QED
  BY <1>1, Inductive, PTL

(* A stroke that is recorded without a conflict runs its command, whatever *)
(* keys, defaults, overrides and switches there are.                       *)
THEOREM Recorded == KeySpec => RecordedWorks
<1>. DEFINE Works(p) ==
        (memory'[p] # memory[p] /\ SaveEditing(p) /\ dialog[p].pressed) =>
            Resolve(memory'[p], dialog[p].captured) = dialog[p].command
<1>1. ASSUME KeyInv, NEW p \in Pages \ crossed PROVE Works(p)
  <2>. SUFFICES ASSUME SaveEditing(p), dialog[p].pressed
                PROVE  Resolve(memory'[p], dialog[p].captured) = dialog[p].command
    OBVIOUS
  <2>. DEFINE m == memory[p]
              c == dialog[p].command
              e == dialog[p].captured
  <2>1. EditorOK(p) /\ m \in Registries /\ dialog[p] \in Recorders
    BY <1>1 DEF KeyInv, KeyTypeOK
  <2>2. e \in Events /\ AllOwn(m.rules)
    BY <1>1, <2>1 DEF EditorOK
  <2>3. c \in Commands
    BY <2>1 DEF Recorders, SaveEditing, Editing
  <2>4. FindConflicts(m, e, c) = {}
    <3>1. e # NoStroke
      BY <2>2, EventIs
    <3>. QED
      BY <3>1 DEF SaveEditing, Conflicts
  <2>5. memory'[p] = Override(m, c, e)
    <3>1. memory' = [memory EXCEPT ![p] = Override(m, c, e)]
      BY DEF SaveEditing, Changes
    <3>. QED
      BY <1>1, <3>1 DEF KeyInv, KeyTypeOK
  <2>. HIDE DEF m, c, e
  <2>6. Resolve(Override(m, c, e), e) = c
    BY <2>1, <2>2, <2>3, <2>4, RecordedRuns DEF Registries
  <2>. QED
    BY <2>5, <2>6 DEF c, e
<1>2. KeyInv => [\A p \in Pages \ crossed : Works(p)]_keyVars
  BY <1>1
<1>3. KeyInv /\ [KeyNext]_keyVars => [\A p \in Pages \ crossed : Works(p)]_keyVars
  BY <1>2
<1>. QED
  BY <1>3, Inductive, PTL DEF KeySpec, RecordedWorks

-----------------------------------------------------------------------------
(* The workbench: what its parts are, as far as the proofs need it.        *)
Fields == {"tabs", "active", "focused", "category", "bottomOpen", "view", "panelOpen",
           "connected", "dirty", "confirm", "telemetry"}

States == {"idle", "connecting", "online", "error"}
Reading == [session : Nat, cpu : Int]
Sample == [total : Nat, idle : Nat]
Knowledge == [supported : {"unknown", "yes", "no"}, last : Sample]
Asking == [session : Nat, live : BOOLEAN, own : BOOLEAN, last : Sample,
           pc : {"probing", "sampling", "closing"}]

(* Only the fields of the store matter, not what the docks put into them.  *)
StoreShape == DOMAIN store = Fields /\ DOMAIN store.active = Kinds

MetricTypes ==
    /\ StoreShape /\ sessions \in Nat
    /\ term \in [Terminals -> [session : Nat, state : States, telemetry : Reading]]
    /\ polls \in Seq(Asking) /\ timer \in Nat /\ counters \in Sample /\ refused \subseteq Nat
    /\ DOMAIN known \subseteq Nat /\ known \in [DOMAIN known -> Knowledge]

Percent(reading) == reading.cpu \in 0 .. 100 \cup {Missing}

(* A tab has metrics only of the session it has now, while it is online.   *)
TabOK(t) ==
    /\ term[t].session <= sessions
    /\ term[t].state = "online" => term[t].session # 0
    /\ term[t].telemetry # NoTelemetry =>
          /\ term[t].telemetry.session = term[t].session /\ term[t].state = "online"
          /\ Percent(term[t].telemetry)

(* A sample that was read when the host's counters were lower.             *)
Earlier(s) ==
    /\ s.idle <= counters.idle /\ s.total <= counters.total
    /\ counters.idle - s.idle <= counters.total - s.total

(* What is known of a session, and a poll that waits for an answer.        *)
KnownOK(m) == Earlier(known[m].last) /\ (known[m].supported = "no" => m \in refused)

PollOK(p) ==
    /\ Earlier(p.last) /\ (p.own => p.session \in DOMAIN known)
    /\ p.pc = "closing" => p.session \in refused
    /\ p.live => p.session = watched[5]

NoneLive(ps) == \A i \in DOMAIN ps : ~ps[i].live

(* One poll or timer at most, of the session that the watcher saw last.    *)
OneLive(ps) == \A i, j \in DOMAIN ps : ps[i].live /\ ps[j].live => i = j

OnePoll == OneLive(polls) /\ (timer # 0 => timer = watched[5] /\ NoneLive(polls))

(* What the panel shows, and that polling goes on: the two halves of       *)
(* MetricsFollow when the watcher has seen what the sources are.           *)
Shows ==
    store.telemetry # NoTelemetry =>
        /\ store.telemetry.session = ActiveTab.session /\ ActiveTab.state = "online"
        /\ Percent(store.telemetry)

GoesOn ==
    CanPoll(ActiveTab.session) /\ ActiveTab.session \notin refused =>
        timer # 0 \/ ~NoneLive(polls)

(* The inductive invariant of the metrics.  That a live poll asks the      *)
(* session watched last is what keeps a late answer off another tab; that  *)
(* the samples are earlier is what makes a usage a percentage.             *)
MetricInv ==
    /\ MetricTypes /\ counters.idle <= counters.total
    /\ \A t \in Terminals : TabOK(t)
    /\ \A m \in DOMAIN known : KnownOK(m)
    /\ \A i \in DOMAIN polls : PollOK(polls[i])
    /\ OnePoll
    /\ TelemetryStill => Shows /\ GoesOn

(* The inductive invariant of the sizes.  A drag that does not jump began  *)
(* with the edge under the pointer: until the panel was maximized on the   *)
(* way, its height is counted from there.                                  *)
SizeTypes ==
    /\ window \in [width : Nat, height : Nat]
    /\ widths \in [sidebar : Nat, panel : Nat, open : BOOLEAN]
    /\ drag \in [side : {None, "left", "right"}, delta : Int, frame : BOOLEAN]
    /\ bottom \in [height : Int, restore : Int, maximized : BOOLEAN, ready : BOOLEAN]
    /\ pull \in [on : BOOLEAN, from : Int, height : Int, anchored : BOOLEAN, collapsed : BOOLEAN,
                 at : Int, jumps : BOOLEAN]

SizeInv ==
    /\ SizeTypes /\ widths.sidebar >= MinSidebar /\ widths.panel >= MinPanel
    /\ (drag.side = "left" => SidebarVisible) /\ (drag.side = "right" => PanelVisible)
    /\ pull.on /\ pull.collapsed => ~store.bottomOpen
    /\ pull.on /\ ~pull.jumps /\ ~bottom.maximized /\ ~pull.anchored =>
          pull.height + pull.from = window.height
    /\ EdgeFollows

-----------------------------------------------------------------------------
(* Panels                                                                  *)

LEMMA Widths ==
    ASSUME SizeTypes, NEW w \in [sidebar : Nat, panel : Nat, open : BOOLEAN]
    PROVE  TerminalWidth(w) \in Nat
<1>1. PICK width \in Nat, bar \in Nat : width = window.width /\ bar = ActivityBar
  BY SizeAssumption DEF SizeTypes
<1>2. w.sidebar \in Nat /\ w.panel \in Nat
  OBVIOUS
<1>3. PICK a \in Nat : a = IF SidebarVisible THEN w.sidebar ELSE 0
  BY <1>2
<1>4. PICK b \in Nat : b = IF PanelVisible THEN w.panel ELSE 0
  BY <1>2
<1>5. TerminalWidth(w) = Most(0, width - bar - a - b)
  BY <1>1, <1>3, <1>4 DEF TerminalWidth
<1>. QED
  BY <1>5 DEF Most

LEMMA Heights ==
    ASSUME SizeTypes, NEW size \in Nat
    PROVE  NormalMax(size) \in Nat /\ NormalMax(size) >= MinHeight
BY SizeAssumption DEF NormalMax, Most

(* A height that fits stays as it is.                                      *)
LEMMA Fits ==
    ASSUME SizeTypes, NEW size \in Nat, NEW h \in Int
    PROVE  Clamp(h, size) \in Int /\ Clamp(Clamp(h, size), size) = Clamp(h, size)
<1>1. PICK top \in Nat : top = NormalMax(size) /\ top >= MinHeight
  BY Heights
<1>2. \A x : Clamp(x, size) = Least(top, Most(MinHeight, x))
  BY <1>1 DEF Clamp
<1>. QED
  BY <1>1, <1>2, SizeAssumption DEF Least, Most

(* What the sizes depend on of the store.                                  *)
SameView ==
    /\ store'.tabs = store.tabs /\ store'.view = store.view
    /\ store'.bottomOpen = store.bottomOpen /\ store'.panelOpen = store.panelOpen

LEMMA ViewsAgree ==
    ASSUME SameView, window' = window
    PROVE  /\ PanelVisible' = PanelVisible /\ BottomVisible' = BottomVisible
           /\ HasTerminal' = HasTerminal
           /\ \A h : Fit(h)' = Fit(h)
<1>1. PanelVisible' = PanelVisible /\ BottomVisible' = BottomVisible
  BY DEF SameView, PanelVisible, BottomVisible
<1>2. HasTerminal' = HasTerminal
  BY DEF SameView, HasTerminal, IsOpen
<1>. QED
  BY <1>1, <1>2 DEF Fit, Clamp, NormalMax

(* A step that is not about sizes.                                         *)
LEMMA SizesKept ==
    ASSUME SizeInv, UNCHANGED sizeVars, SameView \/ (drag.side = None /\ ~pull.on)
    PROVE  SizeInv' /\ DragFits /\ EdgeFollows'
<1>. USE DEF sizeVars
<1>1. SizeTypes'
  BY DEF SizeInv, SizeTypes
<1>2. CASE drag.side = None /\ ~pull.on
  <2>1. DragFits /\ EdgeFollows'
    BY <1>2 DEF DragFits, EdgeFollows
  <2>. QED
    BY <1>1, <1>2, <2>1 DEF SizeInv, SidebarVisible, None
<1>3. CASE SameView
  <2>1. /\ PanelVisible' = PanelVisible /\ BottomVisible' = BottomVisible
        /\ \A h : Fit(h)' = Fit(h)
    BY <1>3, ViewsAgree
  <2>2. EdgeFollows'
    BY <2>1 DEF SizeInv, EdgeFollows, ShownHeight
  <2>3. TerminalWidth(widths)' = TerminalWidth(widths)
    BY <2>1 DEF TerminalWidth, SidebarVisible
  <2>4. TerminalWidth(widths) \in Nat /\ widths.sidebar \in Nat /\ widths.panel \in Nat
    BY Widths DEF SizeInv, SizeTypes
  <2>5. DragFits
    BY <2>3, <2>4, SizeAssumption DEF DragFits, Least
  <2>. QED
    BY <1>1, <1>3, <2>1, <2>2, <2>5 DEF SizeInv, SidebarVisible, SameView
<1>. QED
  BY <1>2, <1>3

Kept(w) ==
    /\ w \in [sidebar : Nat, panel : Nat, open : BOOLEAN]
    /\ w.sidebar >= MinSidebar /\ w.panel >= MinPanel /\ w.open = widths.open
    /\ TerminalWidth(w) >= Least(MinTerminal, TerminalWidth(widths))
    /\ ~PanelVisible => w.panel = widths.panel
    /\ ~SidebarVisible => w.sidebar = widths.sidebar

(* Who gets wider takes from the terminal first, then from the other panel.*)
LEMMA SharesFit ==
    ASSUME SizeInv, NEW by \in Nat, NEW opposite \in Nat, NEW visible \in BOOLEAN, NEW least \in Nat,
           opposite >= least
    PROVE  LET s == Shares(widths, by, opposite, visible, least) IN
           /\ s.center \in Nat /\ s.other \in Nat /\ opposite - s.other >= least
           /\ ~visible => s.other = 0
           /\ s.center > 0 => TerminalWidth(widths) - s.center >= MinTerminal
<1>1. PICK t \in Nat, mt \in Nat : t = TerminalWidth(widths) /\ mt = MinTerminal
  BY Widths, SizeAssumption DEF SizeInv, SizeTypes
<1>. DEFINE c == Least(by, Most(0, t - mt))
<1>2. c \in Nat /\ (c > 0 => t - c >= mt) /\ by - c \in Nat
  BY DEF Least, Most
<1>. DEFINE o == Least(by - c, Spare(visible, opposite, least))
<1>. HIDE DEF c
<1>3. o \in Nat /\ opposite - o >= least /\ (~visible => o = 0)
  BY <1>2 DEF Least, Most, Spare
<1>4. Shares(widths, by, opposite, visible, least) = [center |-> c, other |-> o]
  BY <1>1 DEF Shares, c
<1>. QED
  BY <1>1, <1>2, <1>3, <1>4

LEMMA LeftResizes ==
    ASSUME SizeInv, SidebarVisible, NEW by \in Int
    PROVE  Kept(ResizeLeft(widths, by))
<1>1. PICK width \in Nat, bar \in Nat, ms \in Nat, mp \in Nat, mt \in Nat :
         /\ width = window.width /\ bar = ActivityBar
         /\ ms = MinSidebar /\ mp = MinPanel /\ mt = MinTerminal
  BY SizeAssumption DEF SizeInv, SizeTypes
<1>2. PICK s \in Nat, p \in Nat, v \in BOOLEAN :
         s = widths.sidebar /\ p = widths.panel /\ v = PanelVisible /\ s >= ms /\ p >= mp
  BY <1>1 DEF SizeInv, SizeTypes, PanelVisible
<1>3. widths \in [sidebar : Nat, panel : Nat, open : BOOLEAN]
  BY DEF SizeInv, SizeTypes
<1>4. \A w : TerminalWidth(w) = Most(0, width - bar - w.sidebar - (IF v THEN w.panel ELSE 0))
  BY <1>1, <1>2 DEF TerminalWidth
<1>5. CASE by < 0
  <2>. DEFINE w == [widths EXCEPT !.sidebar = Most(MinSidebar, @ + by)]
  <2>1. PICK n \in Nat : n = Most(ms, s + by) /\ n >= ms /\ n <= s
    BY <1>1, <1>2, <1>5 DEF Most
  <2>2. /\ w \in [sidebar : Nat, panel : Nat, open : BOOLEAN]
        /\ w.sidebar = n /\ w.panel = p /\ w.open = widths.open
    BY <2>1, <1>1, <1>2, <1>3
  <2>3. ResizeLeft(widths, by) = w
    BY <1>5 DEF ResizeLeft
  <2>. HIDE DEF w
  <2>4. TerminalWidth(w) >= Least(mt, TerminalWidth(widths))
    BY <1>2, <1>4, <2>1, <2>2 DEF Least, Most
  <2>. QED
    BY <1>1, <1>2, <2>1, <2>2, <2>3, <2>4 DEF Kept
<1>6. CASE by >= 0
  <2>. DEFINE f == Shares(widths, by, widths.panel, PanelVisible, MinPanel)
              w == [widths EXCEPT !.sidebar = @ + f.center + f.other, !.panel = @ - f.other]
  <2>1. by \in Nat /\ widths.panel \in Nat /\ PanelVisible \in BOOLEAN /\ MinPanel \in Nat /\ widths.panel >= MinPanel
    BY <1>1, <1>2, <1>6
  <2>2. /\ f.center \in Nat /\ f.other \in Nat /\ widths.panel - f.other >= MinPanel
        /\ ~PanelVisible => f.other = 0
        /\ f.center > 0 => TerminalWidth(widths) - f.center >= MinTerminal
    BY <2>1, SharesFit
  <2>3. ResizeLeft(widths, by) = w
    BY <1>6 DEF ResizeLeft
  <2>. HIDE DEF f
  <2>4. PICK c \in Nat, o \in Nat :
           c = f.center /\ o = f.other /\ p - o >= mp /\ (~v => o = 0)
             /\ (c > 0 => TerminalWidth(widths) - c >= mt)
    BY <2>2, <1>1, <1>2
  <2>. DEFINE u == [widths EXCEPT !.sidebar = s + c + o, !.panel = p - o]
  <2>9. w = u
    BY <2>4, <1>2, <1>3
  <2>8. s + c + o \in Nat /\ p - o \in Nat
    BY <2>4, <1>2
  <2>7. /\ u \in [sidebar : Nat, panel : Nat, open : BOOLEAN]
        /\ u.sidebar = s + c + o /\ u.panel = p - o /\ u.open = widths.open
    BY <2>8, <1>3
  <2>5. /\ w \in [sidebar : Nat, panel : Nat, open : BOOLEAN]
        /\ w.sidebar = s + c + o /\ w.panel = p - o /\ w.open = widths.open
    BY <2>7, <2>9
  <2>. HIDE DEF w, u
  <2>6. TerminalWidth(w) >= Least(mt, TerminalWidth(widths))
    <3>. DEFINE before == width - bar - s - (IF v THEN p ELSE 0)
    <3>1. TerminalWidth(widths) = Most(0, before) /\ before \in Int
      BY <1>2, <1>4
    <3>2. TerminalWidth(w) = Most(0, before - c)
      BY <1>4, <2>4, <2>5
    <3>. HIDE DEF before
    <3>. QED
      BY <3>1, <3>2, <2>4 DEF Least, Most
  <2>. QED
    BY <1>1, <1>2, <2>3, <2>4, <2>5, <2>6 DEF Kept
<1>. QED
  BY <1>5, <1>6

LEMMA RightResizes ==
    ASSUME SizeInv, PanelVisible, NEW by \in Int
    PROVE  Kept(ResizeRight(widths, by))
<1>1. PICK width \in Nat, bar \in Nat, ms \in Nat, mp \in Nat, mt \in Nat :
         /\ width = window.width /\ bar = ActivityBar
         /\ ms = MinSidebar /\ mp = MinPanel /\ mt = MinTerminal
  BY SizeAssumption DEF SizeInv, SizeTypes
<1>2. PICK s \in Nat, p \in Nat, v \in BOOLEAN :
         s = widths.sidebar /\ p = widths.panel /\ v = SidebarVisible /\ s >= ms /\ p >= mp
  BY <1>1 DEF SizeInv, SizeTypes, SidebarVisible
<1>3. widths \in [sidebar : Nat, panel : Nat, open : BOOLEAN]
  BY DEF SizeInv, SizeTypes
<1>4. \A w : TerminalWidth(w) = Most(0, width - bar - (IF v THEN w.sidebar ELSE 0) - w.panel)
  BY <1>1, <1>2 DEF TerminalWidth
<1>5. CASE by > 0
  <2>. DEFINE w == [widths EXCEPT !.panel = Most(MinPanel, @ - by)]
  <2>1. PICK n \in Nat : n = Most(mp, p - by) /\ n >= mp /\ n <= p
    BY <1>1, <1>2, <1>5 DEF Most
  <2>2. /\ w \in [sidebar : Nat, panel : Nat, open : BOOLEAN]
        /\ w.sidebar = s /\ w.panel = n /\ w.open = widths.open
    BY <2>1, <1>1, <1>2, <1>3
  <2>3. ResizeRight(widths, by) = w
    BY <1>5 DEF ResizeRight
  <2>. HIDE DEF w
  <2>4. TerminalWidth(w) >= Least(mt, TerminalWidth(widths))
    BY <1>2, <1>4, <2>1, <2>2 DEF Least, Most
  <2>. QED
    BY <1>1, <1>2, <2>1, <2>2, <2>3, <2>4 DEF Kept
<1>6. CASE by <= 0
  <2>. DEFINE f == Shares(widths, -by, widths.sidebar, SidebarVisible, MinSidebar)
              w == [widths EXCEPT !.panel = @ + f.center + f.other, !.sidebar = @ - f.other]
  <2>1. /\ -by \in Nat /\ widths.sidebar \in Nat /\ SidebarVisible \in BOOLEAN
        /\ MinSidebar \in Nat /\ widths.sidebar >= MinSidebar
    BY <1>1, <1>2, <1>6
  <2>2. /\ f.center \in Nat /\ f.other \in Nat /\ widths.sidebar - f.other >= MinSidebar
        /\ ~SidebarVisible => f.other = 0
        /\ f.center > 0 => TerminalWidth(widths) - f.center >= MinTerminal
    BY <2>1, SharesFit
  <2>3. ResizeRight(widths, by) = w
    BY <1>6 DEF ResizeRight
  <2>. HIDE DEF f
  <2>4. PICK c \in Nat, o \in Nat :
           c = f.center /\ o = f.other /\ s - o >= ms /\ (~v => o = 0)
             /\ (c > 0 => TerminalWidth(widths) - c >= mt)
    BY <2>2, <1>1, <1>2
  <2>. DEFINE u == [widths EXCEPT !.panel = p + c + o, !.sidebar = s - o]
  <2>9. w = u
    BY <2>4, <1>2, <1>3
  <2>8. s - o \in Nat /\ p + c + o \in Nat
    BY <2>4, <1>2
  <2>7. /\ u \in [sidebar : Nat, panel : Nat, open : BOOLEAN]
        /\ u.sidebar = s - o /\ u.panel = p + c + o /\ u.open = widths.open
    BY <2>8, <1>3
  <2>5. /\ w \in [sidebar : Nat, panel : Nat, open : BOOLEAN]
        /\ w.sidebar = s - o /\ w.panel = p + c + o /\ w.open = widths.open
    BY <2>7, <2>9
  <2>. HIDE DEF w, u
  <2>6. TerminalWidth(w) >= Least(mt, TerminalWidth(widths))
    BY <1>2, <1>4, <2>4, <2>5 DEF Least, Most
  <2>. QED
    BY <1>1, <1>2, <2>3, <2>4, <2>5, <2>6 DEF Kept
<1>. QED
  BY <1>5, <1>6

LEMMA DragResizes ==
    ASSUME SizeInv, drag.side # None
    PROVE  Kept(Resized(widths, drag.side, drag.delta))
<1>1. drag.side \in {"left", "right"} /\ drag.delta \in Int
  BY DEF SizeInv, SizeTypes
<1>2. CASE drag.side = "left"
  BY <1>1, <1>2, LeftResizes DEF SizeInv, Resized
<1>3. CASE drag.side = "right"
  BY <1>1, <1>3, RightResizes DEF SizeInv, Resized
<1>. QED
  BY <1>1, <1>2, <1>3

Drags == [side : {None, "left", "right"}, delta : Int, frame : BOOLEAN]
Bottoms == [height : Int, restore : Int, maximized : BOOLEAN, ready : BOOLEAN]
Pulls == [on : BOOLEAN, from : Int, height : Int, anchored : BOOLEAN, collapsed : BOOLEAN,
          at : Int, jumps : BOOLEAN]

(* A step of a drag of a side panel.                                       *)
LEMMA DragSteps ==
    ASSUME SizeInv, UNCHANGED <<store, window, bottom, pull>>, Kept(widths'), drag' \in Drags,
           drag'.side = "left" => SidebarVisible, drag'.side = "right" => PanelVisible
    PROVE  SizeInv' /\ DragFits /\ EdgeFollows'
<1>1. SameView /\ window' = window
  BY DEF SameView
<1>2. /\ PanelVisible' = PanelVisible /\ BottomVisible' = BottomVisible
      /\ \A h : Fit(h)' = Fit(h)
  BY <1>1, ViewsAgree
<1>3. SidebarVisible' = SidebarVisible
  BY DEF SidebarVisible, Kept
<1>4. EdgeFollows'
  BY <1>2 DEF SizeInv, EdgeFollows, ShownHeight
<1>5. TerminalWidth(widths)' = TerminalWidth(widths')
  BY <1>2, <1>3 DEF TerminalWidth
<1>6. widths.sidebar \in Nat /\ widths.panel \in Nat /\ widths'.sidebar \in Nat /\ widths'.panel \in Nat
  BY DEF SizeInv, SizeTypes, Kept
<1>7. DragFits
  BY <1>5, <1>6, SizeAssumption DEF DragFits, Kept, Least, SizeInv
<1>8. SizeTypes'
  BY DEF SizeInv, SizeTypes, Kept, Drags
<1>. QED
  BY <1>2, <1>3, <1>4, <1>7, <1>8 DEF SizeInv, Kept

LEMMA NoDragFits ==
    ASSUME SizeInv
    PROVE  Kept(widths)
<1>1. TerminalWidth(widths) \in Nat
  BY Widths DEF SizeInv, SizeTypes
<1>. QED
  BY <1>1, SizeAssumption DEF Kept, SizeInv, SizeTypes, Least

LEMMA Dragging ==
    ASSUME SizeInv,
           (\E side \in {"left", "right"} : StartDrag(side)) \/ (\E by \in Int : MoveDrag(by)) \/ DragFrame \/ EndDrag
    PROVE  SizeInv' /\ DragFits /\ EdgeFollows'
<1>1. drag \in Drags /\ SizeTypes
  BY DEF SizeInv, SizeTypes, Drags
<1>2. Kept(widths)
  BY NoDragFits
<1>3. NoDrag \in Drags
  BY DEF NoDrag, Drags
<1>4. ASSUME NEW side \in {"left", "right"}, StartDrag(side) PROVE SizeInv' /\ DragFits /\ EdgeFollows'
  <2>0. drag' = [drag EXCEPT !.side = side, !.delta = 0] /\ UNCHANGED <<store, window, widths, bottom, pull>>
    BY <1>4 DEF StartDrag
  <2>3. side \in {None, "left", "right"} /\ 0 \in Int
    OBVIOUS
  <2>4. [drag EXCEPT !.side = side] \in Drags
    BY <1>1, <2>3 DEF Drags
  <2>5. drag' \in Drags
    BY <1>1, <2>0, <2>3 DEF Drags
  <2>6. drag'.side = side
    BY <1>1, <2>0 DEF Drags
  <2>1. drag' \in Drags /\ drag'.side = side /\ UNCHANGED <<store, window, widths, bottom, pull>>
    BY <2>0, <2>5, <2>6
  <2>2. (side = "left" => SidebarVisible) /\ (side = "right" => PanelVisible)
    BY <1>4 DEF StartDrag
  <2>. QED
    BY <1>2, <2>1, <2>2, DragSteps
<1>5. ASSUME NEW by \in Int, MoveDrag(by) PROVE SizeInv' /\ DragFits /\ EdgeFollows'
  <2>0. PICK d \in Int : d = drag.delta + by
    BY <1>1 DEF Drags
  <2>8. drag' = [drag EXCEPT !.delta = drag.delta + by, !.frame = TRUE]
    BY <1>5, Zenon DEF MoveDrag
  <2>9. drag' = [drag EXCEPT !.delta = d, !.frame = TRUE] /\ UNCHANGED <<store, window, widths, bottom, pull>>
    BY <1>5, <2>0, <2>8, Zenon DEF MoveDrag
  <2>1. drag' \in Drags /\ drag'.side = drag.side
    BY <1>1, <2>9 DEF Drags
  <2>. QED
    BY <1>2, <2>1, <2>9, DragSteps DEF SizeInv
<1>6. CASE DragFrame
  <2>0. PICK d \in Int : d = IF drag.side = None THEN drag.delta ELSE 0
    BY <1>1 DEF Drags
  <2>9. drag' = [drag EXCEPT !.frame = FALSE, !.delta = d] /\ UNCHANGED <<store, window, bottom, pull>>
    BY <1>6, <2>0 DEF DragFrame
  <2>1. drag' \in Drags /\ drag'.side = drag.side
    BY <1>1, <2>9 DEF Drags
  <2>2. Kept(widths')
    BY <1>2, <1>6, DragResizes DEF DragFrame, ApplyDelta
  <2>. QED
    BY <2>1, <2>2, <2>9, DragSteps DEF SizeInv
<1>7. CASE EndDrag
  <2>1. drag' \in Drags /\ drag'.side = None /\ UNCHANGED <<store, window, bottom, pull>>
    BY <1>3, <1>7 DEF EndDrag, NoDrag
  <2>2. Kept(widths')
    BY <1>7, DragResizes DEF EndDrag, ApplyDelta
  <2>. QED
    BY <2>1, <2>2, DragSteps DEF None
<1>. QED
  BY <1>4, <1>5, <1>6, <1>7

LEMMA SidebarToggled ==
    ASSUME SizeInv, ToggleSidebar
    PROVE  SizeInv' /\ DragFits /\ EdgeFollows'
<1>1. drag.side = None /\ UNCHANGED <<store, window, drag, bottom, pull>>
  BY DEF ToggleSidebar
<1>2. widths' \in [sidebar : Nat, panel : Nat, open : BOOLEAN]
      /\ widths'.sidebar = widths.sidebar /\ widths'.panel = widths.panel
  BY DEF ToggleSidebar, SizeInv, SizeTypes
<1>3. SameView /\ window' = window
  BY <1>1 DEF SameView
<1>4. BottomVisible' = BottomVisible /\ \A h : Fit(h)' = Fit(h)
  BY <1>3, ViewsAgree
<1>5. EdgeFollows' /\ DragFits
  BY <1>1, <1>4 DEF SizeInv, EdgeFollows, ShownHeight, DragFits
<1>6. SizeTypes'
  BY <1>1, <1>2 DEF SizeInv, SizeTypes
<1>. QED
  BY <1>1, <1>2, <1>5, <1>6 DEF SizeInv, None

(* A step that is about the bottom panel.                                  *)
PullInv ==
    /\ pull.on /\ pull.collapsed => ~store.bottomOpen
    /\ pull.on /\ ~pull.jumps /\ ~bottom.maximized /\ ~pull.anchored =>
          pull.height + pull.from = window.height
    /\ EdgeFollows

LEMMA PullSteps ==
    ASSUME SizeInv, UNCHANGED <<window, widths, drag>>,
           store'.view = store.view, store'.panelOpen = store.panelOpen,
           bottom' \in Bottoms, pull' \in Pulls, PullInv'
    PROVE  SizeInv' /\ DragFits /\ EdgeFollows'
<1>1. PanelVisible' = PanelVisible /\ SidebarVisible' = SidebarVisible
  BY DEF PanelVisible, SidebarVisible
<1>2. TerminalWidth(widths)' = TerminalWidth(widths)
  BY <1>1 DEF TerminalWidth
<1>3. TerminalWidth(widths) \in Nat /\ widths.sidebar \in Nat /\ widths.panel \in Nat
  BY Widths DEF SizeInv, SizeTypes
<1>4. DragFits
  BY <1>2, <1>3, SizeAssumption DEF DragFits, Least
<1>5. SizeTypes'
  BY DEF SizeInv, SizeTypes, Bottoms, Pulls
<1>. QED
  BY <1>1, <1>4, <1>5 DEF SizeInv, PullInv

LEMMA FitIs ==
    ASSUME SizeTypes, NEW h \in Int
    PROVE  Fit(h) \in Int /\ Fit(Fit(h)) = Fit(h)
BY Fits DEF Fit, SizeTypes

LEMMA BottomStarts ==
    ASSUME SizeInv, BottomMounts \/ ToggleMaximized \/ StartPull \/ EndPull
    PROVE  SizeInv' /\ DragFits /\ EdgeFollows'
<1>1. SizeTypes /\ bottom \in Bottoms /\ pull \in Pulls /\ window.height \in Nat
  BY DEF SizeInv, SizeTypes, Bottoms, Pulls
<1>2. NoPull \in Pulls /\ ~NoPull.on
  BY DEF NoPull, Pulls
<1>3. CASE BottomMounts
  <2>. DEFINE unset == (window.height * 35) \div 100
              wanted == IF bottom.height = DefaultHeight THEN unset ELSE bottom.height
              h == IF bottom.ready THEN bottom.height ELSE Fit(wanted)
  <2>1. unset \in Int
    BY <1>1
  <2>2. wanted \in Int
    BY <1>1, <2>1 DEF Bottoms
  <2>3. h \in Int
    BY <1>1, <2>2, FitIs DEF Bottoms
  <2>4. bottom' = [bottom EXCEPT !.ready = ~@, !.height = h]
    BY <1>3 DEF BottomMounts
  <2>. HIDE DEF h
  <2>5. bottom' \in Bottoms
    BY <1>1, <2>3, <2>4 DEF Bottoms
  <2>6. UNCHANGED <<store, window, widths, drag>> /\ pull' = NoPull
    BY <1>3 DEF BottomMounts
  <2>7. PullInv'
    BY <1>2, <2>6 DEF PullInv, EdgeFollows
  <2>. QED
    BY <1>2, <2>5, <2>6, <2>7, PullSteps
<1>4. CASE ToggleMaximized
  <2>1. Fit(bottom.restore) \in Int
    BY <1>1, FitIs DEF Bottoms
  <2>2. bottom' \in Bottoms
    BY <1>1, <1>4, <2>1 DEF Bottoms, ToggleMaximized
  <2>3. UNCHANGED <<store, window, widths, drag, pull>> /\ ~pull.on
    BY <1>4 DEF ToggleMaximized
  <2>4. PullInv'
    BY <2>3 DEF PullInv, EdgeFollows
  <2>. QED
    BY <1>1, <2>2, <2>3, <2>4, PullSteps
<1>5. CASE StartPull
  <2>. DEFINE edge == window.height - ShownHeight
              h == IF bottom.maximized THEN bottom.restore ELSE bottom.height
              j == ~bottom.maximized /\ h # ShownHeight
  <2>1. ShownHeight \in Int /\ (~bottom.maximized => ShownHeight = Fit(bottom.height))
    BY <1>1, FitIs DEF ShownHeight, Bottoms
  <2>2. h \in Int /\ edge \in Int /\ j \in BOOLEAN /\ window.height - edge = ShownHeight
    BY <1>1, <2>1 DEF Bottoms
  <2>3. ~bottom.maximized => ShownHeight = Fit(window.height - edge)
    BY <1>1, <2>1, <2>2, FitIs DEF Bottoms
  <2>4. ~bottom.maximized /\ ~j => h + edge = window.height
    BY <1>1, <2>1, <2>2
  <2>5. pull' = [NoPull EXCEPT !.on = TRUE, !.from = edge, !.at = edge, !.height = h, !.jumps = j]
    BY <1>5 DEF StartPull
  <2>. HIDE DEF edge, h, j
  <2>6. /\ pull' \in Pulls /\ pull'.from = edge /\ pull'.at = edge /\ pull'.height = h /\ pull'.jumps = j
        /\ ~pull'.collapsed
    BY <2>2, <2>5 DEF NoPull, Pulls
  <2>7. UNCHANGED <<store, window, widths, drag, bottom>>
    BY <1>5 DEF StartPull
  <2>8. SameView
    BY <2>7 DEF SameView
  <2>9. \A x : Fit(x)' = Fit(x)
    BY <2>7, <2>8, ViewsAgree
  <2>10. ShownHeight' = ShownHeight
    BY <2>7, <2>9 DEF ShownHeight
  <2>11. PullInv'
    BY <2>3, <2>4, <2>6, <2>7, <2>9, <2>10 DEF PullInv, EdgeFollows
  <2>. QED
    BY <1>1, <2>6, <2>7, <2>11, PullSteps
<1>6. CASE EndPull
  <2>1. UNCHANGED <<store, window, widths, drag, bottom>> /\ pull' = NoPull
    BY <1>6 DEF EndPull
  <2>2. PullInv'
    BY <1>2, <2>1 DEF PullInv, EdgeFollows
  <2>. QED
    BY <1>1, <1>2, <2>1, <2>2, PullSteps
<1>. QED
  BY <1>3, <1>4, <1>5, <1>6

LEMMA WindowResized ==
    ASSUME SizeInv, NEW w \in Windows, WindowResizes(w)
    PROVE  SizeInv' /\ DragFits /\ EdgeFollows'
<1>1. SizeTypes /\ bottom \in Bottoms /\ w \in [width : Nat, height : Nat]
  BY SizeAssumption DEF SizeInv, SizeTypes, Bottoms
<1>2. Clamp(bottom.height, w.height) \in Int
  BY <1>1, Fits DEF Bottoms
<1>3. bottom' \in Bottoms
  BY <1>1, <1>2 DEF Bottoms, WindowResizes
<1>4. ~pull.on /\ drag.side = None /\ window' = w /\ UNCHANGED <<store, widths, drag, pull>>
  BY DEF WindowResizes
<1>5. DragFits /\ EdgeFollows'
  BY <1>4 DEF DragFits, EdgeFollows
<1>6. SizeTypes'
  BY <1>1, <1>3, <1>4 DEF SizeInv, SizeTypes, Bottoms
<1>. QED
  BY <1>4, <1>5, <1>6 DEF SizeInv, None

(* Where the pointer is wanted, unless the drag jumps at its beginning.    *)
LEMMA RequestedIs ==
    ASSUME SizeInv, pull.on, NEW y \in Int
    PROVE  /\ Requested(y) \in Int
           /\ ~pull.jumps /\ (bottom.maximized => Leaves(y)) => Requested(y) = window.height - y
<1>1. PICK h \in Nat, p \in Int, f \in Int : h = window.height /\ p = pull.height /\ f = pull.from
  BY DEF SizeInv, SizeTypes
<1>2. Requested(y) = IF pull.anchored \/ Leaves(y) THEN h - y ELSE p + f - y
  BY <1>1 DEF Requested
<1>3. ~pull.jumps /\ ~bottom.maximized /\ ~pull.anchored => p + f = h
  BY <1>1 DEF SizeInv
<1>4. CASE pull.anchored \/ Leaves(y)
  BY <1>1, <1>2, <1>4
<1>5. CASE ~pull.anchored /\ ~Leaves(y)
  BY <1>1, <1>2, <1>3, <1>5
<1>. QED
  BY <1>4, <1>5

(* The panel is at the pointer, and no more collapsed.                     *)
LEMMA PulledTo ==
    ASSUME SizeInv, StoreShape, NEW y \in Int, Handles(y), UNCHANGED <<window, widths, drag>>,
           store'.view = store.view, store'.panelOpen = store.panelOpen, store'.tabs = store.tabs,
           bottom' = [bottom EXCEPT !.height = Fit(Requested(y)), !.maximized = FALSE],
           pull' \in Pulls, ~pull'.collapsed, pull'.at = y, pull'.jumps = pull.jumps,
           pull'.anchored = (pull.anchored \/ Leaves(y)),
           pull'.height = pull.height, pull'.from = pull.from
    PROVE  SizeInv' /\ DragFits /\ EdgeFollows'
<1>1. /\ Requested(y) \in Int /\ (~pull.jumps => Requested(y) = window.height - y)
  BY RequestedIs DEF Handles
<1>2. SizeTypes /\ bottom \in Bottoms
  BY DEF SizeInv, SizeTypes, Bottoms
<1>3. Fit(Requested(y)) \in Int /\ Fit(Fit(Requested(y))) = Fit(Requested(y))
  BY <1>1, <1>2, FitIs
<1>4. bottom' \in Bottoms /\ bottom'.height = Fit(Requested(y)) /\ ~bottom'.maximized
  BY <1>2, <1>3 DEF Bottoms
<1>5. \A h : Fit(h)' = Fit(h)
  <2>1. HasTerminal' = HasTerminal
    BY DEF HasTerminal, IsOpen
  <2>. QED
    BY <2>1 DEF Fit, Clamp, NormalMax
<1>6. EdgeFollows'
  BY <1>1, <1>3, <1>4, <1>5 DEF EdgeFollows, ShownHeight
<1>7. pull'.on /\ ~pull'.jumps /\ ~bottom'.maximized /\ ~pull'.anchored =>
          pull'.height + pull'.from = window'.height
  BY DEF SizeInv, Handles
<1>8. PullInv'
  BY <1>6, <1>7 DEF PullInv
<1>. QED
  BY <1>4, <1>8, PullSteps

LEMMA PullToIs ==
    ASSUME pull \in Pulls, NEW y \in Int
    PROVE  LET p == PullTo(y) IN
           /\ p \in Pulls /\ p.at = y /\ p.anchored = (pull.anchored \/ Leaves(y))
           /\ p.on = pull.on /\ p.jumps = pull.jumps /\ p.collapsed = pull.collapsed
           /\ p.height = pull.height /\ p.from = pull.from
<1>1. PICK a \in BOOLEAN : a = (pull.anchored \/ Leaves(y))
  OBVIOUS
<1>2. PullTo(y) = [pull EXCEPT !.anchored = a, !.at = y]
  BY <1>1 DEF PullTo
<1>. QED
  BY <1>1, <1>2 DEF Pulls

LEMMA Pulling ==
    ASSUME SizeInv, StoreShape, NEW y \in Int, MovePull(y)
    PROVE  SizeInv' /\ DragFits /\ EdgeFollows'
<1>1. SizeTypes /\ bottom \in Bottoms /\ pull \in Pulls /\ UNCHANGED <<window, widths, drag>>
  BY DEF SizeInv, SizeTypes, Bottoms, Pulls, MovePull
<1>. DEFINE p == PullTo(y)
<1>2. /\ p \in Pulls /\ p.at = y /\ p.anchored = (pull.anchored \/ Leaves(y))
      /\ p.on = pull.on /\ p.jumps = pull.jumps /\ p.collapsed = pull.collapsed
      /\ p.height = pull.height /\ p.from = pull.from
  BY <1>1, PullToIs
<1>3. p = PullTo(y)
  OBVIOUS
<1>. HIDE DEF p
<1>4. CASE PullStays(y)
  <2>1. /\ pull' \in Pulls /\ pull'.on = pull.on /\ pull'.jumps = pull.jumps
        /\ pull'.collapsed = pull.collapsed /\ pull'.anchored = pull.anchored
        /\ pull'.height = pull.height /\ pull'.from = pull.from
    BY <1>1, <1>4 DEF PullStays, Pulls
  <2>2. UNCHANGED <<store, bottom>> /\ (bottom.maximized \/ ~BottomVisible)
    BY <1>4 DEF PullStays, SizeInv, BottomVisible
  <2>3. PullInv'
    BY <1>1, <2>1, <2>2 DEF SizeInv, PullInv, EdgeFollows, BottomVisible
  <2>. QED
    BY <1>1, <2>1, <2>2, <2>3, PullSteps
<1>5. CASE PullReopens(y)
  <2>1. /\ store'.view = store.view /\ store'.panelOpen = store.panelOpen /\ store'.tabs = store.tabs
    BY <1>5 DEF PullReopens, StoreShape, Fields
  <2>2. pull' = [p EXCEPT !.collapsed = FALSE] /\ Handles(y)
        /\ bottom' = [bottom EXCEPT !.height = Fit(Requested(y)), !.maximized = FALSE]
    BY <1>3, <1>5 DEF PullReopens
  <2>3. /\ pull' \in Pulls /\ pull'.at = y /\ pull'.anchored = (pull.anchored \/ Leaves(y))
        /\ pull'.jumps = pull.jumps /\ ~pull'.collapsed
        /\ pull'.height = pull.height /\ pull'.from = pull.from
    BY <1>2, <2>2 DEF Pulls
  <2>. QED
    BY <1>1, <2>1, <2>2, <2>3, PulledTo, Zenon
<1>6. CASE PullMaximizes(y)
  <2>1. Fit(pull.height) \in Int /\ pull.height \in Int
    BY <1>1, FitIs DEF Pulls
  <2>2. bottom' \in Bottoms /\ bottom'.maximized
    BY <1>1, <1>6, <2>1 DEF PullMaximizes, Bottoms
  <2>3. pull' = p /\ ~pull.collapsed /\ store' = store
    BY <1>3, <1>6 DEF PullMaximizes
  <2>4. PullInv'
    BY <1>2, <2>2, <2>3 DEF PullInv, EdgeFollows
  <2>. QED
    BY <1>1, <1>2, <2>2, <2>3, <2>4, PullSteps
<1>7. CASE PullCollapses(y)
  <2>1. /\ store'.view = store.view /\ store'.panelOpen = store.panelOpen /\ ~store'.bottomOpen
    BY <1>7 DEF PullCollapses, StoreShape, Fields
  <2>2. NormalMax(window.height) \in Int
    BY <1>1, Heights DEF SizeTypes
  <2>3. bottom' \in Bottoms /\ ~bottom'.maximized
    BY <1>1, <1>7, <2>2 DEF PullCollapses, Bottoms
  <2>4. pull' = [p EXCEPT !.collapsed = TRUE] /\ Handles(y)
    BY <1>3, <1>7 DEF PullCollapses
  <2>5. /\ pull' \in Pulls /\ pull'.anchored = (pull.anchored \/ Leaves(y))
        /\ pull'.jumps = pull.jumps /\ pull'.height = pull.height /\ pull'.from = pull.from
    BY <1>2, <2>4 DEF Pulls
  <2>6. EdgeFollows'
    BY <2>1 DEF EdgeFollows, BottomVisible
  <2>7. pull'.on /\ ~pull'.jumps /\ ~bottom'.maximized /\ ~pull'.anchored =>
            pull'.height + pull'.from = window'.height
    BY <1>1, <2>4, <2>5 DEF SizeInv, Handles
  <2>8. PullInv'
    BY <2>1, <2>6, <2>7 DEF PullInv
  <2>. QED
    BY <1>1, <2>1, <2>3, <2>5, <2>8, PullSteps
<1>8. CASE PullMoves(y)
  <2>1. /\ pull' = p /\ store' = store /\ Handles(y) /\ ~pull.collapsed
        /\ bottom' = [bottom EXCEPT !.height = Fit(Requested(y)), !.maximized = FALSE]
    BY <1>3, <1>8 DEF PullMoves
  <2>2. /\ store'.view = store.view /\ store'.panelOpen = store.panelOpen /\ store'.tabs = store.tabs
    BY <2>1
  <2>3. /\ pull' \in Pulls /\ pull'.at = y /\ pull'.anchored = (pull.anchored \/ Leaves(y))
        /\ pull'.jumps = pull.jumps /\ ~pull'.collapsed
        /\ pull'.height = pull.height /\ pull'.from = pull.from
    BY <1>2, <2>1
  <2>. QED
    BY <1>1, <2>1, <2>2, <2>3, PulledTo, Zenon
<1>. QED
  BY <1>4, <1>5, <1>6, <1>7, <1>8 DEF MovePull

-----------------------------------------------------------------------------
(* Samples                                                                 *)

LEMMA UsageIsPercent ==
    ASSUME NEW total \in Nat, NEW idle \in Nat, idle <= total
    PROVE  Usage(total, idle) \in 0 .. 100
<1>1. CASE total = 0
  BY <1>1 DEF Usage
<1>2. CASE total # 0
  <2>. DEFINE q == (idle * 100) \div total
  <2>1. q \in Nat /\ q <= 100
    BY <1>2
  <2>. HIDE DEF q
  <2>2. Usage(total, idle) = 100 - q
    BY <1>2 DEF Usage, q
  <2>. QED
    BY <2>1, <2>2
<1>. QED
  BY <1>1, <1>2

LEMMA Removed ==
    ASSUME NEW S, NEW s \in Seq(S), NEW i \in 1..Len(s)
    PROVE  LET r == SubSeq(s, 1, i - 1) \o SubSeq(s, i + 1, Len(s)) IN
           /\ r \in Seq(S) /\ Len(r) = Len(s) - 1
           /\ \A j \in 1..Len(r) : r[j] = s[IF j < i THEN j ELSE j + 1]
<1>. DEFINE a == SubSeq(s, 1, i - 1)
            b == SubSeq(s, i + 1, Len(s))
<1>1. Len(s) \in Nat
  OBVIOUS
<1>2. /\ a \in Seq(S) /\ Len(a) = i - 1
      /\ \A j \in 1..i - 1 : a[j] = s[j]
  <2>1. \A j \in 1..i - 1 : j \in 1..Len(s)
    BY <1>1
  <2>. QED
    BY <1>1, <2>1, SubSeqProperties
<1>3. /\ b \in Seq(S) /\ Len(b) = Len(s) - i
      /\ \A j \in 1..Len(s) - i : b[j] = s[i + j]
  <2>1. \A j \in i + 1..Len(s) : j \in 1..Len(s)
    BY <1>1
  <2>. QED
    BY <1>1, <2>1, SubSeqProperties
<1>. HIDE DEF a, b
<1>4. /\ a \o b \in Seq(S) /\ Len(a \o b) = Len(a) + Len(b)
      /\ \A j \in 1..Len(a) + Len(b) : (a \o b)[j] = IF j <= Len(a) THEN a[j] ELSE b[j - Len(a)]
  BY <1>2, <1>3, ConcatProperties
<1>. DEFINE r == a \o b
<1>. HIDE DEF r
<1>5. r \in Seq(S) /\ Len(r) = Len(s) - 1
  BY <1>1, <1>2, <1>3, <1>4 DEF r
<1>6. ASSUME NEW j \in 1..Len(r) PROVE r[j] = s[IF j < i THEN j ELSE j + 1]
  <2>1. r[j] = IF j <= Len(a) THEN a[j] ELSE b[j - Len(a)]
    BY <1>1, <1>2, <1>3, <1>4, <1>5 DEF r
  <2>. QED
    BY <1>1, <1>2, <1>3, <1>5, <2>1
<1>. QED
  BY <1>5, <1>6 DEF r, a, b

(* The polls that are left when one has ended.                             *)
LEMMA RemovalIs ==
    ASSUME NEW S, NEW ps \in Seq(S), NEW i \in 1 .. Len(ps), NEW r, r = RemoveAt(ps, i)
    PROVE  /\ r \in Seq(S) /\ DOMAIN r = 1 .. Len(r)
           /\ \A j \in DOMAIN r : \E k \in DOMAIN ps : k # i /\ r[j] = ps[k]
           /\ \A j, l \in DOMAIN r : j # l =>
                 \E k, m \in DOMAIN ps : k # m /\ k # i /\ m # i /\ r[j] = ps[k] /\ r[l] = ps[m]
           /\ \A k \in DOMAIN ps : k # i => \E j \in DOMAIN r : r[j] = ps[k]
<1>. DEFINE Old(j) == IF j < i THEN j ELSE j + 1
<1>1. /\ r \in Seq(S) /\ Len(r) = Len(ps) - 1
      /\ \A j \in 1 .. Len(r) : r[j] = ps[Old(j)]
  BY Removed DEF RemoveAt
<1>2. DOMAIN r = 1 .. Len(ps) - 1 /\ DOMAIN ps = 1 .. Len(ps) /\ Len(ps) \in Nat
  BY <1>1
<1>3. \A j \in DOMAIN r : Old(j) \in DOMAIN ps /\ Old(j) # i /\ r[j] = ps[Old(j)]
  <2>1. \A j \in 1 .. Len(ps) - 1 : Old(j) \in 1 .. Len(ps) /\ Old(j) # i
    BY <1>2
  <2>2. \A j \in DOMAIN r : r[j] = ps[Old(j)]
    BY <1>1, <1>2
  <2>. HIDE DEF Old
  <2>. QED
    BY <1>2, <2>1, <2>2
<1>4. \A j, l \in DOMAIN r : j # l => Old(j) # Old(l)
  BY <1>1, <1>2
<1>5. ASSUME NEW k \in DOMAIN ps, k # i PROVE \E j \in DOMAIN r : r[j] = ps[k]
  <2>1. CASE k < i
    <3>1. k \in DOMAIN r /\ Old(k) = k
      BY <1>2, <2>1
    <3>. QED
      BY <1>3, <3>1
  <2>2. CASE k > i
    <3>1. k - 1 \in DOMAIN r /\ Old(k - 1) = k
      BY <1>2, <2>2
    <3>. QED
      BY <1>3, <3>1
  <2>. QED
    BY <1>2, <1>5, <2>1, <2>2
<1>. HIDE DEF Old
<1>6. \A j \in DOMAIN r : \E k \in DOMAIN ps : k # i /\ r[j] = ps[k]
  BY <1>3
<1>7. ASSUME NEW j \in DOMAIN r, NEW l \in DOMAIN r, j # l
      PROVE  \E k, m \in DOMAIN ps : k # m /\ k # i /\ m # i /\ r[j] = ps[k] /\ r[l] = ps[m]
  BY <1>3, <1>4, <1>7
<1>8. DOMAIN r = 1 .. Len(r)
  BY <1>1
<1>. QED
  BY <1>1, <1>5, <1>6, <1>7, <1>8, Zenon

-----------------------------------------------------------------------------
(* What the handlers write into the store                                  *)

Shape(s) == DOMAIN s = Fields /\ DOMAIN s.active = Kinds

(* The metrics a step leaves in the store: the old ones, none, or those of *)
(* the tab that is active then.                                            *)
Takes(s, reading) ==
    /\ Shape(s)
    /\ s.telemetry \in {reading, NoTelemetry, Tab(s, s.active["terminal"]).telemetry}

LEMMA ClosedAnew ==
    ASSUME NEW s, Shape(s), NEW closing, closing \cap ToSet(s.tabs) # {}
    PROVE  LET c == Closed(s, closing) IN
           Shape(c) /\ c.telemetry = Tab(c, c.active["terminal"]).telemetry
<1>. DEFINE stay == SelectSeq(s.tabs, LAMBDA t : t \notin closing)
            active == [k \in Kinds |-> NextActive(s, closing, k)]
            c == Closed(s, closing)
<1>1. c = [s EXCEPT
             !.tabs = stay, !.active = active, !.dirty = @ \ closing,
             !.bottomOpen = @ /\ \E i \in 1 .. Len(stay) : stay[i] \notin Terminals,
             !.telemetry = Tab([s EXCEPT !.tabs = stay], active["terminal"]).telemetry,
             !.view = IF stay = <<>> THEN "welcome" ELSE "shell"]
  BY Zenon DEF Closed
<1>2. DOMAIN active = Kinds
  OBVIOUS
<1>. HIDE DEF stay, active, c
<1>3. /\ DOMAIN c = Fields /\ c.active = active /\ c.tabs = stay
      /\ c.telemetry = Tab([s EXCEPT !.tabs = stay], active["terminal"]).telemetry
  BY <1>1 DEF Shape, Fields
<1>4. [s EXCEPT !.tabs = stay].tabs = c.tabs
  BY <1>3 DEF Shape, Fields
<1>5. Tab([s EXCEPT !.tabs = stay], active["terminal"]) = Tab(c, c.active["terminal"])
  BY <1>3, <1>4 DEF Tab, IsOpen
<1>. QED
  BY <1>2, <1>3, <1>5 DEF Shape, c

LEMMA ClosedTakes ==
    ASSUME NEW s, Shape(s), NEW closing
    PROVE  Takes(Closed(s, closing), s.telemetry)
<1>1. CASE closing \cap ToSet(s.tabs) = {}
  BY <1>1 DEF Closed, Takes
<1>2. CASE closing \cap ToSet(s.tabs) # {}
  BY <1>2, ClosedAnew DEF Takes
<1>. QED
  BY <1>1, <1>2

LEMMA CloseTabsTakes ==
    ASSUME NEW s, Shape(s), NEW ids
    PROVE  Takes(CloseTabs(s, ids), s.telemetry)
<1>. DEFINE asked   == SelectSeq(s.tabs, LAMBDA t : t \in ToSet(ids))
            unsaved == SelectSeq(asked, LAMBDA t : t \in s.dirty)
            confirm == [tab |-> unsaved[1], saving |-> FALSE,
                        rest |-> SelectSeq(asked, LAMBDA t : t # unsaved[1])]
            c == [s EXCEPT !.confirm = confirm]
<1>1. CloseTabs(s, ids) \in {s, Closed(s, ToSet(ids)), c}
  BY Zenon DEF CloseTabs
<1>2. Takes(s, s.telemetry)
  BY DEF Takes
<1>. HIDE DEF confirm
<1>3. Takes(c, s.telemetry)
  BY DEF Takes, Shape, Fields
<1>. QED
  BY <1>1, <1>2, <1>3, ClosedTakes

LEMMA SettleTakes ==
    ASSUME NEW s, Shape(s)
    PROVE  Takes(Settle(s), s.telemetry)
<1>. DEFINE a == [s EXCEPT !.confirm = NotAsked]
            b == Closed(a, {s.confirm.tab})
            c == CloseTabs(b, s.confirm.rest)
<1>1. Shape(a) /\ a.telemetry = s.telemetry
  BY DEF Shape, Fields
<1>2. Takes(b, s.telemetry)
  BY <1>1, ClosedTakes
<1>3. Settle(s) \in {b, c}
  BY DEF Settle, CloseRest
<1>. HIDE DEF a, b
<1>4. Takes(c, s.telemetry)
  <2>. DEFINE asked   == SelectSeq(b.tabs, LAMBDA t : t \in ToSet(s.confirm.rest))
              unsaved == SelectSeq(asked, LAMBDA t : t \in b.dirty)
              confirm == [tab |-> unsaved[1], saving |-> FALSE,
                          rest |-> SelectSeq(asked, LAMBDA t : t # unsaved[1])]
              d == [b EXCEPT !.confirm = confirm]
  <2>1. c \in {b, Closed(b, ToSet(s.confirm.rest)), d}
    BY Zenon DEF CloseTabs
  <2>. HIDE DEF confirm
  <2>2. Shape(d) /\ d.telemetry = b.telemetry /\ d.tabs = b.tabs /\ d.active = b.active
    BY <1>2 DEF Takes, Shape, Fields
  <2>3. Takes(d, s.telemetry)
    BY <1>2, <2>2 DEF Takes, Tab, IsOpen
  <2>4. ASSUME c = Closed(b, ToSet(s.confirm.rest)) PROVE Takes(c, s.telemetry)
    <3>1. CASE ToSet(s.confirm.rest) \cap ToSet(b.tabs) = {}
      BY <1>2, <2>4, <3>1 DEF Closed
    <3>2. CASE ToSet(s.confirm.rest) \cap ToSet(b.tabs) # {}
      BY <1>2, <2>4, <3>2, ClosedAnew DEF Takes
    <3>. QED
      BY <3>1, <3>2
  <2>. QED
    BY <1>2, <2>1, <2>3, <2>4
<1>. QED
  BY <1>2, <1>3, <1>4

(* A step that leaves telemetry's own state alone.  The watcher of its     *)
(* sources has nothing left to do before it, or it leaves the sources too. *)
LEMMA Handled ==
    ASSUME MetricInv, TelemetryStill \/ Sources' = Sources, UNCHANGED telemetryVars,
           Shape(store'), sessions' \in Nat,
           term' \in [Terminals -> [session : Nat, state : States, telemetry : Reading]],
           \A t \in Terminals : TabOK(t)',
           store'.telemetry \in {store.telemetry, NoTelemetry, ActiveTab'.telemetry}
    PROVE  MetricInv'
<1>. USE DEF telemetryVars
<1>1. MetricTypes'
  BY DEF MetricInv, MetricTypes, StoreShape, Shape
<1>2. /\ (counters.idle <= counters.total)' /\ OnePoll'
      /\ \A m \in DOMAIN known' : KnownOK(m)'
      /\ \A i \in DOMAIN polls' : PollOK(polls[i])'
  BY DEF MetricInv, KnownOK, PollOK, Earlier, OnePoll
<1>3. ASSUME TelemetryStill' PROVE Shows' /\ GoesOn'
  <2>1. TelemetryStill /\ Sources' = Sources
    BY <1>3 DEF TelemetryStill
  <2>2. /\ store'.connected = store.connected /\ store'.view = store.view
        /\ store'.panelOpen = store.panelOpen
        /\ ActiveTab'.session = ActiveTab.session /\ ActiveTab'.state = ActiveTab.state
    BY <2>1 DEF Sources
  <2>3. Shows /\ GoesOn
    BY <2>1 DEF MetricInv
  <2>4. GoesOn'
    BY <2>2, <2>3 DEF GoesOn, CanPoll, telemetryVars
  <2>5. CASE store'.telemetry = ActiveTab'.telemetry
    <3>1. CASE ActiveTab' = Offline
      <4>1. store'.telemetry = NoTelemetry
        BY <2>5, <3>1 DEF Offline
      <4>. QED
        BY <2>4, <4>1 DEF Shows
    <3>2. CASE ActiveTab' # Offline
      <4>1. PICK u \in Terminals : ActiveTab' = term'[u]
        BY <3>2 DEF ActiveTab, Tab
      <4>2. TabOK(u)'
        OBVIOUS
      <4>. QED
        BY <2>4, <2>5, <4>1, <4>2 DEF Shows, TabOK, Percent
    <3>. QED
      BY <3>1, <3>2
  <2>6. CASE store'.telemetry \in {store.telemetry, NoTelemetry}
    <3>1. store'.telemetry # NoTelemetry =>
             /\ store'.telemetry.session = ActiveTab.session /\ ActiveTab.state = "online"
             /\ store'.telemetry.cpu \in 0 .. 100 \cup {Missing}
      BY <2>3, <2>6 DEF Shows, Percent
    <3>. QED
      BY <2>2, <2>4, <3>1 DEF Shows, Percent
  <2>. QED
    BY <2>4, <2>5, <2>6
<1>. QED
  BY <1>1, <1>2, <1>3 DEF MetricInv

(* No tab is begun, and what the panel shows is taken from where it may be.*)
LEMMA HandledStore ==
    ASSUME MetricInv, TelemetryStill \/ Sources' = Sources, UNCHANGED telemetryVars,
           UNCHANGED <<term, sessions>>, Takes(store', store.telemetry)
    PROVE  MetricInv'
<1>1. Shape(store') /\ store'.telemetry \in {store.telemetry, NoTelemetry, Tab(store', store'.active["terminal"]).telemetry}
  BY DEF Takes
<1>2. ActiveTab' = Tab(store', store'.active["terminal"])
  BY DEF ActiveTab, Active, Tab
<1>3. sessions' \in Nat /\ term' \in [Terminals -> [session : Nat, state : States, telemetry : Reading]]
  BY DEF MetricInv, MetricTypes
<1>4. \A t \in Terminals : TabOK(t)'
  BY DEF MetricInv, TabOK, Percent
<1>. QED
  BY <1>1, <1>2, <1>3, <1>4, Handled

(* The store is the same but for parts that telemetry does not read, or    *)
(* for its sources.                                                        *)
LEMMA HandledFrame ==
    ASSUME MetricInv, TelemetryStill \/ Sources' = Sources, UNCHANGED telemetryVars,
           UNCHANGED <<term, sessions>>, Shape(store'), store'.telemetry = store.telemetry
    PROVE  MetricInv'
BY HandledStore DEF Takes

LEMMA Begun ==
    ASSUME MetricInv, TelemetryStill, UNCHANGED telemetryVars, NEW t \in Terminals,
           Begins(t, "connecting"), Shape(store'), store'.telemetry = store.telemetry
    PROVE  MetricInv'
<1>. DEFINE new == [session |-> sessions + 1, state |-> "connecting", telemetry |-> NoTelemetry]
<1>1. sessions \in Nat /\ term \in [Terminals -> [session : Nat, state : States, telemetry : Reading]]
  BY DEF MetricInv, MetricTypes
<1>2. new \in [session : Nat, state : States, telemetry : Reading]
  BY <1>1 DEF States, Reading, NoTelemetry
<1>3. sessions' = sessions + 1 /\ term' = [term EXCEPT ![t] = new]
  BY DEF Begins
<1>4. ASSUME NEW u \in Terminals PROVE TabOK(u)'
  <2>1. CASE u = t
    <3>1. term'[u] = new
      BY <1>1, <1>3, <2>1
    <3>. QED
      BY <1>1, <1>3, <3>1 DEF TabOK
  <2>2. CASE u # t
    <3>1. term'[u] = term[u] /\ TabOK(u) /\ term[u].session \in Nat
      BY <1>1, <1>3, <2>2 DEF MetricInv
    <3>. QED
      BY <1>1, <1>3, <3>1 DEF TabOK, Percent
  <2>. QED
    BY <2>1, <2>2
<1>. HIDE DEF new
<1>5. term' \in [Terminals -> [session : Nat, state : States, telemetry : Reading]] /\ sessions' \in Nat
  BY <1>1, <1>2, <1>3
<1>. QED
  BY <1>4, <1>5, Handled

LEMMA StateUpdated ==
    ASSUME MetricInv, TelemetryStill, UNCHANGED telemetryVars, NEW t \in Terminals,
           NEW state \in {"online", "idle", "error"}, UpdateTabState(t, state)
    PROVE  MetricInv'
<1>1. sessions \in Nat /\ term \in [Terminals -> [session : Nat, state : States, telemetry : Reading]]
  BY DEF MetricInv, MetricTypes
<1>2. term[t].session # 0
  BY DEF UpdateTabState, Tab, Offline
<1>. DEFINE reading == IF state \in {"idle", "error"} THEN NoTelemetry ELSE term[t].telemetry
            new == [term[t] EXCEPT !.state = state, !.telemetry = reading]
<1>3. reading \in Reading
  BY <1>1 DEF Reading, NoTelemetry
<1>4. term' = [term EXCEPT ![t] = new] /\ sessions' = sessions
  BY DEF UpdateTabState
<1>5. reading # NoTelemetry => state = "online" /\ reading = term[t].telemetry
  OBVIOUS
<1>. HIDE DEF reading
<1>6. /\ new \in [session : Nat, state : States, telemetry : Reading]
      /\ new.session = term[t].session /\ new.state = state /\ new.telemetry = reading
  BY <1>1, <1>3 DEF States
<1>. HIDE DEF new
<1>7. ASSUME NEW u \in Terminals PROVE TabOK(u)'
  <2>1. CASE u = t
    <3>1. term'[u] = new /\ TabOK(t)
      BY <1>1, <1>4, <2>1 DEF MetricInv
    <3>. QED
      BY <1>2, <1>4, <1>5, <1>6, <3>1 DEF TabOK, Percent
  <2>2. CASE u # t
    <3>1. term'[u] = term[u] /\ TabOK(u)
      BY <1>1, <1>4, <2>2 DEF MetricInv
    <3>. QED
      BY <1>4, <3>1 DEF TabOK, Percent
  <2>. QED
    BY <2>1, <2>2
<1>8. term' \in [Terminals -> [session : Nat, state : States, telemetry : Reading]] /\ sessions' \in Nat
  BY <1>1, <1>4, <1>6
<1>9. store' \in {store, [store EXCEPT !.telemetry = NoTelemetry]}
  BY DEF UpdateTabState
<1>10. Shape(store') /\ store'.telemetry \in {store.telemetry, NoTelemetry}
  BY <1>9 DEF MetricInv, MetricTypes, StoreShape, Shape, Fields
<1>. QED
  BY <1>7, <1>8, <1>10, Handled

LEMMA UserTabsMetrics ==
    ASSUME MetricInv, TelemetryStill, UserTabs
    PROVE  MetricInv'
<1>1. Shape(store) /\ UNCHANGED telemetryVars
  BY DEF MetricInv, MetricTypes, StoreShape, Shape, UserTabs, telemetryVars
<1>2. ASSUME NEW t \in Terminals, NEW after, AddTab(t, after) PROVE MetricInv'
  <2>1. Shape(store') /\ store'.telemetry = store.telemetry
    BY <1>1, <1>2 DEF AddTab, Shape, Fields
  <2>2. Begins(t, "connecting")
    BY <1>2, Zenon DEF AddTab
  <2>. QED
    BY <1>1, <2>1, <2>2, Begun
<1>3. ASSUME NEW t, OpenBottomTab(t) PROVE MetricInv'
  <2>. DEFINE opened == [store EXCEPT !.tabs = Append(@, t)]
              active == SetBottomActive(opened, t)
  <2>1. Shape(opened) /\ opened.telemetry = store.telemetry
    BY <1>1 DEF Shape, Fields
  <2>. HIDE DEF opened
  <2>2. Shape(active) /\ active.telemetry = store.telemetry
    BY <2>1 DEF SetBottomActive, Shape, Fields
  <2>3. store' = [active EXCEPT !.bottomOpen = TRUE, !.view = "shell"]
    BY <1>3 DEF OpenBottomTab, opened
  <2>. HIDE DEF active
  <2>4. Shape(store') /\ store'.telemetry = store.telemetry
    BY <2>2, <2>3 DEF Shape, Fields
  <2>5. UNCHANGED <<term, sessions>>
    BY <1>3 DEF OpenBottomTab
  <2>. QED
    BY <1>1, <2>4, <2>5, HandledFrame
<1>4. ASSUME NEW ids, UserCloses(ids) PROVE MetricInv'
  BY <1>1, <1>4, CloseTabsTakes, HandledStore DEF UserCloses
<1>5. ASSUME NEW t \in Terminals, ReconnectTab(t) PROVE MetricInv'
  BY <1>1, <1>5, Begun DEF ReconnectTab
<1>6. ASSUME NEW e, EditsText(e) PROVE MetricInv'
  <2>1. Shape(store') /\ store'.telemetry = store.telemetry
    BY <1>1, <1>6 DEF EditsText, Shape, Fields
  <2>. QED
    BY <1>1, <1>6, <2>1, HandledFrame DEF EditsText
<1>7. ASSUME NEW t, CloseTab(t) PROVE MetricInv'
  BY <1>4, <1>7 DEF CloseTab
<1>8. ASSUME NEW t, CloseOthers(t, TerminalOrder) \/ CloseToRight(t, TerminalOrder) PROVE MetricInv'
  BY <1>4, <1>8, Zenon DEF CloseOthers, CloseToRight
<1>9. CASE CloseAll(TerminalOrder)
  BY <1>4, <1>9 DEF CloseAll
<1>. QED
  BY <1>2, <1>3, <1>5, <1>6, <1>7, <1>8, <1>9 DEF UserTabs

LEMMA ReportsMetrics ==
    ASSUME MetricInv, TelemetryStill, Reports
    PROVE  MetricInv'
<1>1. Shape(store) /\ UNCHANGED telemetryVars
  BY DEF MetricInv, MetricTypes, StoreShape, Shape, Reports, telemetryVars
<1>2. ASSUME NEW t \in Terminals, NEW state \in {"online", "idle", "error"}, UpdateTabState(t, state)
      PROVE  MetricInv'
  BY <1>1, <1>2, StateUpdated
<1>3. CASE CancelClose \/ SaveAndClose \/ SaveEnds(FALSE)
  <2>1. Shape(store') /\ store'.telemetry = store.telemetry /\ UNCHANGED <<term, sessions>>
    BY <1>1, <1>3 DEF CancelClose, SaveAndClose, SaveEnds, Shape, Fields
  <2>. QED
    BY <1>1, <2>1, HandledFrame
<1>4. CASE Discard \/ SaveEnds(TRUE)
  <2>1. store' = Settle(store) /\ UNCHANGED <<term, sessions>>
    BY <1>4 DEF Discard, SaveEnds
  <2>. QED
    BY <1>1, <2>1, SettleTakes, HandledStore
<1>. QED
  BY <1>2, <1>3, <1>4 DEF Reports

-----------------------------------------------------------------------------
(* What the docks write into the store                                     *)

Framed ==
    /\ Shape(store') /\ UNCHANGED <<term, sessions>>
    /\ store'.telemetry = store.telemetry /\ store'.connected = store.connected /\ SameView

LEMMA WritesFrame ==
    ASSUME Shape(store), NEW s, Writes(s), UNCHANGED <<term, sessions>>
    PROVE  Framed /\ Active' = s.active["terminal"]
<1>. DEFINE active == [k \in Kinds |-> s.active[k]]
<1>1. DOMAIN active = Kinds /\ active["terminal"] = s.active["terminal"]
  BY DEF Kinds
<1>2. store' = [store EXCEPT !.active = active, !.category = s.category, !.focused = s.focused]
  BY DEF Writes
<1>. HIDE DEF active
<1>. QED
  BY <1>1, <1>2 DEF Shape, Fields, Framed, SameView, Active

LEMMA ActivatedFrame ==
    ASSUME Shape(store), NEW t, store' = SetBottomActive(store, t), UNCHANGED <<term, sessions>>
    PROVE  Framed
BY DEF SetBottomActive, Shape, Fields, Framed, SameView

LEMMA LayoutFrame ==
    ASSUME Shape(store), Layout
    PROVE  Framed /\ UNCHANGED <<telemetryVars, sizeVars>>
<1>1. ASSUME NEW k, NEW r, Bottom(k, r) PROVE Framed
  BY <1>1, WritesFrame DEF Bottom
<1>2. ASSUME NEW k, LayoutChanges(k) PROVE Framed
  BY <1>1, <1>2 DEF LayoutChanges
<1>3. ASSUME NEW k, DockviewChooses(k) PROVE Framed
  BY <1>1, <1>3, Zenon DEF DockviewChooses
<1>4. ASSUME NEW k, Frame(k) PROVE Framed
  BY <1>1, <1>4, Zenon DEF Frame
<1>. QED
  BY <1>2, <1>3, <1>4 DEF Layout

LEMMA UserDocksFrame ==
    ASSUME Shape(store), UserDocks
    PROVE  /\ Shape(store') /\ UNCHANGED <<term, sessions, telemetryVars, sizeVars>>
           /\ store'.telemetry = store.telemetry
<1>1. ASSUME NEW k, NEW r, Bottom(k, r) PROVE Framed
  BY <1>1, WritesFrame DEF Bottom
<1>2. ASSUME NEW t, ClickTerminal(t) PROVE Framed
  <2>1. store' \in {store, [store EXCEPT !.active["terminal"] = t, !.focused = "terminal"]}
    BY <1>2 DEF ClickTerminal, MainActivated
  <2>. QED
    BY <1>2, <2>1 DEF ClickTerminal, Framed, SameView, Shape, Fields
<1>3. ASSUME NEW k, NEW t, SelectInstance(k, t) PROVE Framed
  BY <1>1, <1>3 DEF SelectInstance
<1>4. ASSUME NEW k, NEW t, ClickPanel(k, t) PROVE Framed
  BY <1>1, <1>4 DEF ClickPanel
<1>5. ASSUME NEW k, NEW t, NEW j, NEW where, Drop(k, t, j, where) PROVE Framed
  BY <1>1, <1>5, Zenon DEF Drop
<1>6. ASSUME NEW k, SelectCategory(k) PROVE Framed
  BY <1>6 DEF SelectCategory, Framed, SameView, Shape, Fields
<1>7. ASSUME NEW t, DragOverListing(t) PROVE Framed
  BY <1>7, ActivatedFrame DEF DragOverListing
<1>8. CASE ToggleBottomPanel
  <2>1. Shape(store') /\ UNCHANGED <<term, sessions>> /\ store'.telemetry = store.telemetry
    BY <1>8 DEF ToggleBottomPanel, Shape, Fields
  <2>. QED
    BY <2>1 DEF UserDocks
<1>9. ASSUME Framed
      PROVE  /\ Shape(store') /\ UNCHANGED <<term, sessions, telemetryVars, sizeVars>>
             /\ store'.telemetry = store.telemetry
  BY <1>9 DEF Framed, UserDocks
<1>. QED
  BY <1>2, <1>3, <1>4, <1>5, <1>6, <1>7, <1>8, <1>9 DEF UserDocks

(* A bottom dock never activates a terminal.                               *)
LEMMA VisibilityKeeps ==
    ASSUME NEW s, Shape(s), NEW k \in BottomKinds, NEW d, NEW t
    PROVE  LET r == ApplyVisibility(s, d, k, t) IN
           Shape(r.s) /\ r.s.active["terminal"] = s.active["terminal"]
<1>. DEFINE r == ApplyVisibility(s, d, k, t)
<1>1. ASSUME NEW e, NEW u PROVE ShowPanel(s, e, k, u).s \in {s, [s EXCEPT !.active[k] = u]}
  BY DEF ShowPanel, With
<1>2. r.s = s \/ \E u : r.s = [s EXCEPT !.active[k] = u]
  BY <1>1, Zenon DEF ApplyVisibility, ApplySynced
<1>. HIDE DEF r
<1>3. CASE r.s = s
  BY <1>3 DEF r
<1>4. ASSUME NEW u, r.s = [s EXCEPT !.active[k] = u]
      PROVE  Shape(r.s) /\ r.s.active["terminal"] = s.active["terminal"]
  BY <1>4 DEF Shape, Fields, Kinds, BottomKinds
<1>. QED
  BY <1>2, <1>3, <1>4 DEF r

LEMMA WatchActiveFrame ==
    ASSUME Shape(store), WatchActive
    PROVE  Framed /\ Active' = Active
<1>. DEFINE changed(k) == main.mounted /\ seen.active[k] # store.active[k] /\ store.active[k] # None
            f == IF changed("file") THEN ApplyVisibility(store, dock["file"], "file", store.active["file"])
                 ELSE With(store, dock["file"])
            e == IF changed("editor") THEN ApplyVisibility(f.s, dock["editor"], "editor", f.s.active["editor"])
                 ELSE With(f.s, dock["editor"])
<1>1. Writes(e.s) /\ UNCHANGED <<term, sessions>>
  BY Zenon DEF WatchActive
<1>2. \A s, d : With(s, d).s = s
  BY DEF With
<1>3. Shape(f.s) /\ f.s.active["terminal"] = store.active["terminal"]
  <2>1. CASE changed("file")
    BY <2>1, VisibilityKeeps DEF BottomKinds
  <2>2. CASE ~changed("file")
    BY <1>2, <2>2
  <2>. QED
    BY <2>1, <2>2
<1>. HIDE DEF f
<1>4. e.s.active["terminal"] = store.active["terminal"]
  <2>1. CASE changed("editor")
    BY <1>3, <2>1, VisibilityKeeps DEF BottomKinds
  <2>2. CASE ~changed("editor")
    BY <1>2, <1>3, <2>2
  <2>. QED
    BY <2>1, <2>2
<1>. QED
  BY <1>1, <1>4, WritesFrame DEF Active

LEMMA WatchTabsFrame ==
    ASSUME Shape(store), Mount \/ WatchTabs
    PROVE  Framed
<1>1. ASSUME NEW before, Follow(before), UNCHANGED <<term, sessions>> PROVE Framed
  <2>1. PICK s : Writes(s)
    BY <1>1, Zenon DEF Follow, FollowListings, FollowEditors, Followed
  <2>. QED
    BY <1>1, <2>1, WritesFrame
<1>2. CASE Mount
  <2>1. CASE main.mounted
    BY <1>2, <2>1 DEF Mount, Framed, SameView
  <2>2. CASE ~main.mounted
    BY <1>1, <1>2, <2>2 DEF Mount
  <2>. QED
    BY <2>1, <2>2
<1>3. CASE WatchTabs
  BY <1>1, <1>3 DEF WatchTabs
<1>. QED
  BY <1>2, <1>3

(* As long as the active terminal stays the same, so do the sources.       *)
LEMMA SourcesFramed ==
    ASSUME Framed, Active' = Active
    PROVE  Sources' = Sources
<1>1. ActiveTab' = ActiveTab
  BY DEF Framed, SameView, ActiveTab, Tab, IsOpen
<1>. QED
  BY <1>1 DEF Framed, SameView, Sources

LEMMA FramedMetrics ==
    ASSUME MetricInv, UNCHANGED telemetryVars, Framed, TelemetryStill \/ Active' = Active
    PROVE  MetricInv'
BY SourcesFramed, HandledFrame DEF Framed

(* What opens or closes a panel, or moves an edge.                         *)
LEMMA SizesFrame ==
    ASSUME Shape(store), UNCHANGED <<term, sessions>>,
           store' = store \/ \E b : store' = [store EXCEPT !.bottomOpen = b]
    PROVE  /\ Shape(store') /\ store'.telemetry = store.telemetry /\ Sources' = Sources
<1>1. /\ Shape(store') /\ store'.telemetry = store.telemetry /\ Active' = Active
      /\ store'.tabs = store.tabs /\ store'.view = store.view
      /\ store'.connected = store.connected /\ store'.panelOpen = store.panelOpen
  BY DEF Shape, Fields, Active
<1>2. ActiveTab' = ActiveTab
  BY <1>1 DEF ActiveTab, Tab, IsOpen
<1>. QED
  BY <1>1, <1>2 DEF Sources

LEMMA SizesMetrics ==
    ASSUME MetricInv, UserSizes \/ SizesFollow \/ (BottomMounts /\ UNCHANGED <<dockVars, telemetryVars, quota>>)
    PROVE  MetricInv'
<1>1. UNCHANGED telemetryVars /\ Shape(store)
  BY DEF UserSizes, SizesFollow, MetricInv, MetricTypes, StoreShape, Shape
<1>2. ASSUME NEW y, MovePull(y)
      PROVE  /\ UNCHANGED <<term, sessions>>
             /\ store' = store \/ \E b : store' = [store EXCEPT !.bottomOpen = b]
  BY <1>2 DEF MovePull, Others, PullStays, PullReopens, PullMaximizes, PullCollapses, PullMoves
<1>. DEFINE Goal == /\ UNCHANGED <<term, sessions>>
                    /\ store' = store \/ \E b : store' = [store EXCEPT !.bottomOpen = b]
<1>3. ASSUME UserSizes PROVE Goal
  <2>1. ASSUME NEW side, StartDrag(side) PROVE store' = store /\ Others
    BY <2>1 DEF StartDrag
  <2>2. ASSUME NEW by, MoveDrag(by) PROVE store' = store /\ Others
    BY <2>2 DEF MoveDrag
  <2>3. ASSUME NEW w, WindowResizes(w) PROVE store' = store /\ Others
    BY <2>3 DEF WindowResizes
  <2>4. CASE ToggleSidebar \/ ToggleMaximized \/ StartPull
    <3>1. store' = store /\ Others
      BY <2>4, Zenon DEF ToggleSidebar, ToggleMaximized, StartPull
    <3>. QED
      BY <3>1 DEF Others
  <2>. QED
    BY <1>2, <1>3, <2>1, <2>2, <2>3, <2>4 DEF UserSizes, Others
<1>4. ASSUME SizesFollow \/ BottomMounts PROVE Goal
  <2>1. store' = store /\ Others
    BY <1>4, Zenon DEF SizesFollow, DragFrame, EndDrag, EndPull, BottomMounts
  <2>. QED
    BY <2>1 DEF Others
<1>. QED
  BY <1>1, <1>3, <1>4, SizesFrame, HandledFrame

-----------------------------------------------------------------------------
(* The polls that wait                                                     *)

LEMMA OrphansIs ==
    ASSUME MetricTypes, NEW ps \in Seq(Asking), NEW gone
    PROVE  LET o == Orphans(ps, gone) IN
           /\ o \in Seq(Asking) /\ DOMAIN o = DOMAIN ps /\ Len(o) = Len(ps)
           /\ \A i \in DOMAIN ps :
                 /\ o[i].session = ps[i].session /\ o[i].live = ps[i].live /\ o[i].pc = ps[i].pc
                 /\ o[i].own => ps[i].own /\ ps[i].session \notin gone
                 /\ o[i].last \in {ps[i].last, Knows(ps[i].session).last}
<1>. DEFINE Orphan(p) == IF p.own /\ p.session \in gone
                         THEN [p EXCEPT !.own = FALSE, !.last = Knows(p.session).last] ELSE p
            o == Orphans(ps, gone)
<1>1. \A n : Knows(n).last \in Sample
  BY DEF MetricTypes, Knows, Unknown, NoSample, Knowledge, Sample
<1>2. ASSUME NEW p \in Asking
      PROVE  /\ Orphan(p) \in Asking
             /\ Orphan(p).session = p.session /\ Orphan(p).live = p.live /\ Orphan(p).pc = p.pc
             /\ Orphan(p).own => p.own /\ p.session \notin gone
             /\ Orphan(p).last \in {p.last, Knows(p.session).last}
  <2>1. PICK l \in Sample : l = Knows(p.session).last
    BY <1>1
  <2>2. [p EXCEPT !.own = FALSE, !.last = l] \in Asking
    BY DEF Asking
  <2>3. CASE p.own /\ p.session \in gone
    <3>1. Orphan(p) = [p EXCEPT !.own = FALSE, !.last = l]
      BY <2>1, <2>3
    <3>. HIDE DEF Orphan
    <3>. QED
      BY <2>1, <2>2, <3>1 DEF Asking
  <2>4. CASE ~(p.own /\ p.session \in gone)
    BY <2>4
  <2>. QED
    BY <2>3, <2>4
<1>3. o = [i \in DOMAIN ps |-> Orphan(ps[i])]
  BY Zenon DEF Orphans
<1>4. DOMAIN ps = 1 .. Len(ps) /\ Len(ps) \in Nat /\ \A i \in DOMAIN ps : ps[i] \in Asking
  BY ElementOfSeq
<1>. HIDE DEF Orphan, o
<1>5. DOMAIN o = DOMAIN ps /\ \A i \in DOMAIN ps : o[i] = Orphan(ps[i])
  BY <1>3
<1>6. o \in Seq(Asking) /\ Len(o) = Len(ps)
  BY <1>2, <1>3, <1>4, <1>5
<1>. QED
  BY <1>2, <1>4, <1>5, <1>6 DEF o

(* One poll has got its answer.                                            *)
LEMMA OthersWait ==
    ASSUME NEW ps \in Seq(Asking), OneLive(ps), NEW i \in 1 .. Len(ps), NEW r, r = RemoveAt(ps, i)
    PROVE  /\ r \in Seq(Asking) /\ OneLive(r)
           /\ \A j \in DOMAIN r : \E k \in DOMAIN ps : r[j] = ps[k]
           /\ ps[i].live => NoneLive(r)
           /\ NoneLive(ps) => NoneLive(r)
           /\ ~NoneLive(ps) /\ ~ps[i].live => ~NoneLive(r)
<1>1. /\ r \in Seq(Asking) /\ DOMAIN r = 1 .. Len(r)
      /\ \A j \in DOMAIN r : \E k \in DOMAIN ps : k # i /\ r[j] = ps[k]
      /\ \A j, l \in DOMAIN r : j # l =>
            \E k, m \in DOMAIN ps : k # m /\ k # i /\ m # i /\ r[j] = ps[k] /\ r[l] = ps[m]
      /\ \A k \in DOMAIN ps : k # i => \E j \in DOMAIN r : r[j] = ps[k]
  BY RemovalIs
<1>2. i \in DOMAIN ps
  OBVIOUS
<1>3. OneLive(r)
  <2>1. ASSUME NEW j \in DOMAIN r, NEW l \in DOMAIN r, r[j].live, r[l].live, j # l PROVE FALSE
    <3>1. PICK k \in DOMAIN ps, m \in DOMAIN ps : k # m /\ r[j] = ps[k] /\ r[l] = ps[m]
      BY <1>1, <2>1
    <3>. QED
      BY <2>1, <3>1 DEF OneLive
  <2>. QED
    BY <2>1 DEF OneLive
<1>4. ps[i].live => NoneLive(r)
  BY <1>1, <1>2 DEF OneLive, NoneLive
<1>5. NoneLive(ps) => NoneLive(r)
  BY <1>1 DEF NoneLive
<1>6. ~NoneLive(ps) /\ ~ps[i].live => ~NoneLive(r)
  BY <1>1 DEF NoneLive
<1>7. \A j \in DOMAIN r : \E k \in DOMAIN ps : r[j] = ps[k]
  BY <1>1
<1>. QED
  BY <1>1, <1>3, <1>4, <1>5, <1>6, <1>7

Added(ps, p) == Append(ps, p)

LEMMA AppendedIs ==
    ASSUME NEW ps \in Seq(Asking), NoneLive(ps), NEW p \in Asking, NEW r, r = Added(ps, p)
    PROVE  /\ r \in Seq(Asking) /\ OneLive(r) /\ (p.live => ~NoneLive(r))
           /\ \A j \in DOMAIN r : r[j] = p \/ \E k \in DOMAIN ps : r[j] = ps[k]
<1>1. /\ r \in Seq(Asking) /\ Len(r) = Len(ps) + 1 /\ Len(ps) \in Nat
      /\ DOMAIN r = 1 .. Len(ps) + 1 /\ DOMAIN ps = 1 .. Len(ps)
  BY DEF Added
<1>2. \A j \in DOMAIN ps : r[j] = ps[j]
  BY <1>1 DEF Added
<1>3. r[Len(ps) + 1] = p /\ Len(ps) + 1 \in DOMAIN r
  BY <1>1 DEF Added
<1>4. \A j \in DOMAIN r : j = Len(ps) + 1 \/ j \in DOMAIN ps
  BY <1>1
<1>5. OneLive(r)
  BY <1>2, <1>3, <1>4 DEF OneLive, NoneLive
<1>6. p.live => ~NoneLive(r)
  BY <1>3 DEF NoneLive
<1>. QED
  BY <1>1, <1>2, <1>3, <1>4, <1>5, <1>6

-----------------------------------------------------------------------------
(* What an answer changes                                                  *)

TermTypes == [Terminals -> [session : Nat, state : States, telemetry : Reading]]

(* What is left of MetricInv when a poll or a timer has done something.    *)
LEMMA Assembled ==
    ASSUME Shape(store'), sessions' \in Nat, term' \in TermTypes, \A t \in Terminals : TabOK(t)',
           counters' \in Sample, (counters.idle <= counters.total)',
           polls' \in Seq(Asking), \A i \in DOMAIN polls' : PollOK(polls[i])',
           DOMAIN known' \subseteq Nat, known' \in [DOMAIN known' -> Knowledge],
           \A m \in DOMAIN known' : KnownOK(m)',
           refused' \subseteq Nat, timer' \in Nat, OnePoll',
           TelemetryStill' => Shows' /\ GoesOn'
    PROVE  MetricInv'
BY DEF MetricInv, MetricTypes, StoreShape, Shape, TermTypes

Watching == \A p \in Asking : PollOK(p) => PollOK(p)'

LEMMA Watches ==
    ASSUME \A s \in Sample : Earlier(s) => Earlier(s)', DOMAIN known \subseteq DOMAIN known',
           refused \subseteq refused', UNCHANGED watched
    PROVE  Watching
BY DEF Watching, PollOK, Asking

LEMMA Learned ==
    ASSUME MetricInv, NEW n \in DOMAIN known, NEW k \in Knowledge, known' = [known EXCEPT ![n] = k],
           \A s \in Sample : Earlier(s) => Earlier(s)', refused \subseteq refused',
           Earlier(k.last)', k.supported = "no" => n \in refused'
    PROVE  /\ DOMAIN known' = DOMAIN known /\ known' \in [DOMAIN known' -> Knowledge]
           /\ \A m \in DOMAIN known' : KnownOK(m)'
<1>1. known \in [DOMAIN known -> Knowledge] /\ \A m \in DOMAIN known : KnownOK(m)
  BY DEF MetricInv, MetricTypes
<1>2. DOMAIN known' = DOMAIN known /\ known' \in [DOMAIN known' -> Knowledge]
  BY <1>1
<1>3. ASSUME NEW m \in DOMAIN known' PROVE KnownOK(m)'
  <2>1. CASE m = n
    <3>1. known'[m] = k
      BY <1>1, <2>1
    <3>. QED
      BY <2>1, <3>1 DEF KnownOK
  <2>2. CASE m # n
    <3>1. known'[m] = known[m] /\ KnownOK(m) /\ known[m].last \in Sample
      BY <1>1, <1>2, <1>3, <2>2 DEF Knowledge
    <3>. QED
      BY <3>1 DEF KnownOK
  <2>. QED
    BY <2>1, <2>2
<1>. QED
  BY <1>2, <1>3

(* A step that clears metrics, or leaves them as they are.                 *)
LEMMA KeptOrCleared ==
    ASSUME MetricInv, sessions' = sessions, Keep \/ \E ts : Clear(store, ts)
    PROVE  /\ Shape(store') /\ term' \in TermTypes /\ sessions' \in Nat
           /\ \A t \in Terminals : TabOK(t)'
           /\ Sources' = Sources /\ (Shows => Shows')
           /\ ActiveTab'.session = ActiveTab.session /\ \A n : CanPoll(n)' = CanPoll(n)
<1>1. Shape(store) /\ term \in TermTypes /\ sessions \in Nat
  BY DEF MetricInv, MetricTypes, StoreShape, Shape, TermTypes
<1>2. CASE Keep
  <2>1. Sources' = Sources /\ ActiveTab' = ActiveTab
    BY <1>2 DEF Keep, Sources, ActiveTab, Tab, IsOpen, Active
  <2>2. ASSUME NEW t \in Terminals PROVE TabOK(t)'
    BY <1>2, <2>2 DEF MetricInv, TabOK, Percent, Keep
  <2>3. Shows => Shows'
    BY <1>2, <2>1 DEF Shows, Percent, Keep
  <2>4. \A n : CanPoll(n)' = CanPoll(n)
    BY <1>2, <2>1 DEF CanPoll, Keep
  <2>. QED
    BY <1>1, <1>2, <2>1, <2>2, <2>3, <2>4 DEF Keep
<1>3. ASSUME NEW ts, Clear(store, ts) PROVE
           /\ Shape(store') /\ term' \in TermTypes /\ sessions' \in Nat
           /\ \A t \in Terminals : TabOK(t)'
           /\ Sources' = Sources /\ (Shows => Shows')
           /\ ActiveTab'.session = ActiveTab.session /\ \A n : CanPoll(n)' = CanPoll(n)
  <2>1. /\ Shape(store') /\ store'.telemetry = NoTelemetry /\ Active' = Active
        /\ store'.tabs = store.tabs /\ store'.view = store.view
        /\ store'.connected = store.connected /\ store'.panelOpen = store.panelOpen
    BY <1>1, <1>3 DEF Clear, Shape, Fields, Active
  <2>2. term' = [t \in Terminals |-> IF t \in ts THEN [term[t] EXCEPT !.telemetry = NoTelemetry] ELSE term[t]]
    BY <1>3 DEF Clear
  <2>3. ASSUME NEW t \in Terminals
        PROVE  /\ term'[t] \in [session : Nat, state : States, telemetry : Reading]
               /\ term'[t].session = term[t].session /\ term'[t].state = term[t].state
               /\ term'[t].telemetry \in {term[t].telemetry, NoTelemetry}
    <3>1. term[t] \in [session : Nat, state : States, telemetry : Reading] /\ NoTelemetry \in Reading
      BY <1>1 DEF TermTypes, NoTelemetry, Reading
    <3>2. [term[t] EXCEPT !.telemetry = NoTelemetry] \in [session : Nat, state : States, telemetry : Reading]
      BY <3>1
    <3>3. term'[t] = IF t \in ts THEN [term[t] EXCEPT !.telemetry = NoTelemetry] ELSE term[t]
      BY <2>2
    <3>. QED
      BY <3>1, <3>2, <3>3
  <2>4. term' \in TermTypes
    BY <2>2, <2>3 DEF TermTypes
  <2>5. ActiveTab'.session = ActiveTab.session /\ ActiveTab'.state = ActiveTab.state
    <3>1. CASE Active \in Terminals /\ IsOpen(store, Active)
      BY <2>1, <2>3, <3>1 DEF ActiveTab, Tab, IsOpen
    <3>2. CASE ~(Active \in Terminals /\ IsOpen(store, Active))
      BY <2>1, <3>2 DEF ActiveTab, Tab, IsOpen
    <3>. QED
      BY <3>1, <3>2
  <2>6. Sources' = Sources
    BY <2>1, <2>5 DEF Sources
  <2>7. ASSUME NEW t \in Terminals PROVE TabOK(t)'
    BY <2>3 DEF MetricInv, TabOK, Percent
  <2>8. Shows'
    BY <2>1 DEF Shows
  <2>9. \A n : CanPoll(n)' = CanPoll(n)
    BY <2>1, <2>5 DEF CanPoll
  <2>. QED
    BY <1>1, <2>1, <2>4, <2>5, <2>6, <2>7, <2>8, <2>9
<1>. QED
  BY <1>2, <1>3

(* What a poll may rely on when its answer comes.                          *)
LEMMA PollFacts ==
    ASSUME MetricInv, NEW i \in DOMAIN polls
    PROVE  /\ i \in 1 .. Len(polls) /\ polls \in Seq(Asking) /\ polls[i] \in Asking /\ PollOK(polls[i])
           /\ OneLive(polls) /\ polls[i].session \in Nat /\ timer \in Nat
           /\ polls[i].live => timer = 0
           /\ TelemetryStill /\ polls[i].live => polls[i].session = ActiveTab.session
<1>1. polls \in Seq(Asking) /\ timer \in Nat /\ OnePoll /\ PollOK(polls[i])
  BY DEF MetricInv, MetricTypes
<1>2. i \in 1 .. Len(polls) /\ polls[i] \in Asking
  BY <1>1
<1>3. polls[i].live => timer = 0
  BY <1>1 DEF OnePoll, NoneLive
<1>4. TelemetryStill => watched[5] = ActiveTab.session
  BY DEF TelemetryStill, Sources
<1>. QED
  BY <1>1, <1>2, <1>3, <1>4 DEF Asking, OnePoll, PollOK

(* A poll goes on: GoesOn holds after a step that keeps the sources if,    *)
(* when it was poll i that went on, something goes on still.               *)
LEMMA GoesOnStill ==
    ASSUME MetricInv, UNCHANGED watched, Sources' = Sources, refused \subseteq refused',
           ActiveTab'.session = ActiveTab.session, \A n : CanPoll(n)' = CanPoll(n), Shows => Shows',
           NEW i \in DOMAIN polls,
           timer # 0 => timer' # 0,
           ~NoneLive(polls) /\ ~polls[i].live => timer' # 0 \/ ~NoneLive(polls'),
           polls[i].live /\ CanPoll(polls[i].session) /\ polls[i].session \notin refused' =>
              timer' # 0 \/ ~NoneLive(polls')
    PROVE  TelemetryStill' => Shows' /\ GoesOn'
<1>. SUFFICES ASSUME TelemetryStill' PROVE Shows' /\ GoesOn'
  OBVIOUS
<1>1. TelemetryStill
  BY DEF TelemetryStill
<1>2. Shows /\ GoesOn
  BY <1>1 DEF MetricInv
<1>3. polls[i].live => polls[i].session = ActiveTab.session
  BY <1>1, PollFacts
<1>4. ASSUME CanPoll(ActiveTab.session), ActiveTab.session \notin refused' PROVE timer' # 0 \/ ~NoneLive(polls')
  <2>1. timer # 0 \/ ~NoneLive(polls)
    BY <1>2, <1>4 DEF GoesOn
  <2>2. CASE polls[i].live
    BY <1>3, <1>4, <2>2
  <2>3. CASE ~polls[i].live
    BY <2>1, <2>3
  <2>. QED
    BY <2>2, <2>3
<1>5. GoesOn'
  BY <1>4 DEF GoesOn
<1>. QED
  BY <1>2, <1>5

(* A session that can be polled is that of the active tab.                 *)
LEMMA PollableIs ==
    ASSUME MetricInv, NEW n, CanPoll(n)
    PROVE  /\ n # 0 /\ n \in Nat /\ Active \in Terminals /\ ActiveTab = term[Active]
           /\ term[Active].session = n /\ term[Active].state = "online"
<1>1. Active \in Terminals /\ ActiveTab = term[Active]
  BY DEF CanPoll, ActiveTab, Tab, Offline
<1>2. TabOK(Active) /\ term[Active].session \in Nat
  BY <1>1 DEF MetricInv, MetricTypes
<1>. QED
  BY <1>1, <1>2 DEF TabOK, CanPoll

LEMMA LearnsIs ==
    ASSUME MetricInv, NEW i \in DOMAIN polls, NEW field, NEW v, known' = Learns(i, field, v),
           \A s \in Sample : Earlier(s) => Earlier(s)', refused \subseteq refused',
           \/ field = "supported" /\ v \in {"yes", "no"} /\ (v = "no" => polls[i].session \in refused')
           \/ field = "last" /\ v \in Sample /\ Earlier(v)'
    PROVE  /\ DOMAIN known' = DOMAIN known /\ known' \in [DOMAIN known' -> Knowledge]
           /\ \A m \in DOMAIN known' : KnownOK(m)'
<1>1. known \in [DOMAIN known -> Knowledge] /\ \A m \in DOMAIN known : KnownOK(m) /\ known[m] \in Knowledge
  BY DEF MetricInv, MetricTypes
<1>2. CASE polls[i].own
  <2>1. PICK n \in DOMAIN known : n = polls[i].session
    BY <1>2, PollFacts DEF PollOK
  <2>2. Earlier(known[n].last) /\ known[n].last \in Sample /\ (known[n].supported = "no" => n \in refused)
    BY <1>1 DEF KnownOK, Knowledge
  <2>3. PICK l \in Sample : l = known[n].last
    BY <2>2
  <2>4. Earlier(l)'
    BY <2>2, <2>3
  <2>5. CASE field = "supported"
    <3>1. v \in {"yes", "no"} /\ (v = "no" => n \in refused')
      BY <2>1, <2>5
    <3>2. [known[n] EXCEPT !.supported = v] \in Knowledge
      BY <1>1, <3>1 DEF Knowledge
    <3>3. PICK k \in Knowledge : k = [known[n] EXCEPT !.supported = v]
      BY <3>2
    <3>4. k.last = l /\ k.supported = v
      BY <1>1, <2>3, <3>3 DEF Knowledge
    <3>5. known' = [known EXCEPT ![n] = k]
      BY <1>2, <2>1, <2>5, <3>3 DEF Learns
    <3>. QED
      BY <2>4, <3>1, <3>4, <3>5, Learned
  <2>6. CASE field = "last"
    <3>1. v \in Sample /\ Earlier(v)'
      BY <2>6
    <3>2. [known[n] EXCEPT !.last = v] \in Knowledge
      BY <1>1, <3>1 DEF Knowledge
    <3>3. PICK k \in Knowledge : k = [known[n] EXCEPT !.last = v]
      BY <3>2
    <3>4. k.last = v /\ k.supported = known[n].supported
      BY <1>1, <3>3 DEF Knowledge
    <3>5. known' = [known EXCEPT ![n] = k]
      BY <1>2, <2>1, <2>6, <3>3 DEF Learns
    <3>. QED
      BY <2>2, <3>1, <3>4, <3>5, Learned
  <2>. QED
    BY <2>5, <2>6
<1>3. CASE ~polls[i].own
  <2>1. known' = known
    BY <1>3 DEF Learns
  <2>2. ASSUME NEW m \in DOMAIN known PROVE KnownOK(m)'
    BY <1>1, <2>1, <2>2 DEF KnownOK, Knowledge
  <2>. QED
    BY <1>1, <2>1, <2>2
<1>. QED
  BY <1>2, <1>3

LEMMA PollsStay ==
    ASSUME Watching, \A j \in DOMAIN polls' : polls'[j] \in Asking /\ PollOK(polls'[j])
    PROVE  \A j \in DOMAIN polls' : PollOK(polls[j])'
<1>. SUFFICES ASSUME NEW j \in DOMAIN polls' PROVE PollOK(polls[j])'
  OBVIOUS
<1>1. PICK p \in Asking : p = polls'[j]
  OBVIOUS
<1>2. PollOK(p)
  BY <1>1
<1>3. PollOK(p)'
  BY <1>2 DEF Watching
<1>. QED
  BY <1>1, <1>3 DEF PollOK, Earlier

LEMMA ProbeYesMetrics ==
    ASSUME MetricInv, NEW i \in DOMAIN polls, ProbeSaysYes(i)
    PROVE  MetricInv'
<1>1. /\ known' = Learns(i, "supported", "yes") /\ Keep
      /\ UNCHANGED <<timer, watched, counters, refused, used, sessions>>
  BY DEF ProbeSaysYes
<1>2. /\ i \in 1 .. Len(polls) /\ polls \in Seq(Asking) /\ polls[i] \in Asking /\ PollOK(polls[i])
      /\ OneLive(polls) /\ (polls[i].live => timer = 0)
  BY PollFacts
<1>3. \A s \in Sample : Earlier(s) => Earlier(s)'
  BY <1>1 DEF Earlier
<1>4. known \in [DOMAIN known -> Knowledge] /\ \A m \in DOMAIN known : KnownOK(m)
  BY DEF MetricInv, MetricTypes
<1>5. /\ DOMAIN known' = DOMAIN known /\ known' \in [DOMAIN known' -> Knowledge]
      /\ \A m \in DOMAIN known' : KnownOK(m)'
  BY <1>1, <1>3, LearnsIs
<1>6. Watching
  BY <1>1, <1>3, <1>5, Watches
<1>. DEFINE r == RemoveAt(polls, i)
            x == [polls[i] EXCEPT !.pc = "sampling"]
<1>7. x \in Asking /\ PollOK(x) /\ x.live = polls[i].live
  <2>1. /\ x \in Asking /\ x.live = polls[i].live /\ x.own = polls[i].own /\ x.session = polls[i].session
        /\ x.last = polls[i].last /\ x.pc = "sampling"
    BY <1>2 DEF Asking
  <2>. QED
    BY <1>2, <2>1 DEF PollOK
<1>8. /\ r \in Seq(Asking) /\ OneLive(r) /\ \A j \in DOMAIN r : \E k \in DOMAIN polls : r[j] = polls[k]
      /\ (polls[i].live => NoneLive(r)) /\ (NoneLive(polls) => NoneLive(r))
      /\ ~NoneLive(polls) /\ ~polls[i].live => ~NoneLive(r)
  BY <1>2, OthersWait
<1>9. polls' = IF Continues(i) THEN Append(r, x) ELSE r
  BY DEF ProbeSaysYes, Done
<1>. HIDE DEF r, x
<1>10. \A j \in DOMAIN r : r[j] \in Asking /\ PollOK(r[j])
  BY <1>8 DEF MetricInv, MetricTypes
<1>11. /\ polls' \in Seq(Asking) /\ OneLive(polls') /\ \A j \in DOMAIN polls' : PollOK(polls[j])'
       /\ (NoneLive(polls) => NoneLive(polls')) /\ (Continues(i) => ~NoneLive(polls'))
       /\ ~NoneLive(polls) /\ ~polls[i].live => ~NoneLive(polls')
  <2>1. CASE Continues(i)
    <3>1. polls[i].live /\ NoneLive(r) /\ ~NoneLive(polls)
      BY <1>2, <1>8, <2>1 DEF Continues, NoneLive
    <3>2. /\ polls' \in Seq(Asking) /\ OneLive(polls') /\ ~NoneLive(polls')
          /\ \A j \in DOMAIN polls' : polls'[j] = x \/ \E k \in DOMAIN r : polls'[j] = r[k]
      <4>1. polls' = Added(r, x) /\ x.live /\ r \in Seq(Asking) /\ x \in Asking
        BY <1>7, <1>8, <1>9, <2>1, <3>1 DEF Added
      <4>. QED
        BY <3>1, <4>1, AppendedIs
    <3>3. \A j \in DOMAIN polls' : polls'[j] \in Asking /\ PollOK(polls'[j])
      BY <1>7, <1>10, <3>2
    <3>4. \A j \in DOMAIN polls' : PollOK(polls[j])'
      BY <1>6, <3>3, PollsStay
    <3>. QED
      BY <3>1, <3>2, <3>4
  <2>2. CASE ~Continues(i)
    <3>1. polls' = r
      BY <1>9, <2>2
    <3>2. \A j \in DOMAIN polls' : PollOK(polls[j])'
      BY <1>6, <1>10, <3>1, PollsStay
    <3>. QED
      BY <1>8, <2>2, <3>1, <3>2
  <2>. QED
    BY <2>1, <2>2
<1>12. OnePoll'
  BY <1>1, <1>11 DEF MetricInv, OnePoll
<1>13. /\ Shape(store') /\ term' \in TermTypes /\ sessions' \in Nat
       /\ \A t \in Terminals : TabOK(t)'
       /\ Sources' = Sources /\ (Shows => Shows')
       /\ ActiveTab'.session = ActiveTab.session /\ \A n : CanPoll(n)' = CanPoll(n)
  BY <1>1, KeptOrCleared
<1>14. TelemetryStill' => Shows' /\ GoesOn'
  BY <1>1, <1>11, <1>13, GoesOnStill DEF Continues
<1>15. /\ counters' \in Sample /\ (counters.idle <= counters.total)' /\ DOMAIN known' \subseteq Nat
       /\ refused' \subseteq Nat /\ timer' \in Nat
  BY <1>1, <1>5 DEF MetricInv, MetricTypes
<1>. QED
  BY <1>5, <1>11, <1>12, <1>13, <1>14, <1>15, Assembled

LEMMA ProbeNoMetrics ==
    ASSUME MetricInv, NEW i \in DOMAIN polls, ProbeSaysNo(i)
    PROVE  MetricInv'
<1>1. /\ known' = Learns(i, "supported", "no") /\ Keep /\ refused' = refused \cup {polls[i].session}
      /\ UNCHANGED <<timer, watched, counters, used, sessions>>
  BY DEF ProbeSaysNo
<1>2. /\ i \in 1 .. Len(polls) /\ polls \in Seq(Asking) /\ polls[i] \in Asking /\ PollOK(polls[i])
      /\ OneLive(polls) /\ polls[i].session \in Nat
  BY PollFacts
<1>3. \A s \in Sample : Earlier(s) => Earlier(s)'
  BY <1>1 DEF Earlier
<1>4. /\ DOMAIN known' = DOMAIN known /\ known' \in [DOMAIN known' -> Knowledge]
      /\ \A m \in DOMAIN known' : KnownOK(m)'
  BY <1>1, <1>3, LearnsIs
<1>5. Watching
  BY <1>1, <1>3, <1>4, Watches
<1>6. PICK x \in Asking : x = [polls[i] EXCEPT !.pc = "closing"]
  BY <1>2 DEF Asking
<1>7. /\ x.live = polls[i].live /\ x.own = polls[i].own /\ x.session = polls[i].session
      /\ x.last = polls[i].last /\ x.pc = "closing"
  BY <1>2, <1>6 DEF Asking
<1>8. PollOK(x)'
  <2>1. PICK p \in Asking : p = polls[i]
    BY <1>2
  <2>2. PollOK(p)'
    BY <1>2, <1>5, <2>1 DEF Watching
  <2>. QED
    BY <1>1, <1>7, <2>1, <2>2 DEF PollOK
<1>9. /\ polls' \in Seq(Asking) /\ DOMAIN polls' = DOMAIN polls
      /\ polls'[i] = x /\ \A j \in DOMAIN polls : j # i => polls'[j] = polls[j]
  <2>1. polls' = [polls EXCEPT ![i] = x]
    BY <1>6 DEF ProbeSaysNo
  <2>. QED
    BY <1>2, <2>1
<1>10. \A j \in DOMAIN polls : polls'[j].live = polls[j].live
  BY <1>7, <1>9
<1>11. OneLive(polls') /\ NoneLive(polls') = NoneLive(polls)
  BY <1>2, <1>9, <1>10 DEF OneLive, NoneLive
<1>12. ASSUME NEW j \in DOMAIN polls' PROVE PollOK(polls[j])'
  <2>1. CASE j = i
    BY <1>8, <1>9, <2>1 DEF PollOK, Earlier
  <2>2. CASE j # i
    <3>1. PICK p \in Asking : p = polls[j]
      BY <1>2, <1>9
    <3>2. PollOK(p)'
      BY <1>5, <1>9, <3>1 DEF Watching, MetricInv
    <3>. QED
      BY <1>9, <2>2, <3>1, <3>2 DEF PollOK, Earlier
  <2>. QED
    BY <2>1, <2>2
<1>13. OnePoll'
  BY <1>1, <1>11 DEF MetricInv, OnePoll
<1>14. /\ Shape(store') /\ term' \in TermTypes /\ sessions' \in Nat
       /\ \A t \in Terminals : TabOK(t)'
       /\ Sources' = Sources /\ (Shows => Shows')
       /\ ActiveTab'.session = ActiveTab.session /\ \A n : CanPoll(n)' = CanPoll(n)
  BY <1>1, KeptOrCleared
<1>15. TelemetryStill' => Shows' /\ GoesOn'
  BY <1>1, <1>11, <1>14, GoesOnStill
<1>16. /\ counters' \in Sample /\ (counters.idle <= counters.total)' /\ DOMAIN known' \subseteq Nat
       /\ refused' \subseteq Nat /\ timer' \in Nat
  BY <1>1, <1>2, <1>4 DEF MetricInv, MetricTypes
<1>. QED
  BY <1>4, <1>9, <1>12, <1>13, <1>14, <1>15, <1>16, Assembled

LEMMA ExecClosedMetrics ==
    ASSUME MetricInv, NEW i \in DOMAIN polls, ExecClosed(i)
    PROVE  MetricInv'
<1>1. /\ polls' = RemoveAt(polls, i) /\ polls[i].pc = "closing"
      /\ UNCHANGED <<timer, known, watched, counters, refused, used, sessions>>
  BY DEF ExecClosed, Done
<1>2. /\ i \in 1 .. Len(polls) /\ polls \in Seq(Asking) /\ polls[i] \in Asking /\ PollOK(polls[i])
      /\ OneLive(polls)
  BY PollFacts
<1>3. Watching
  BY <1>1, Watches DEF Earlier
<1>4. /\ polls' \in Seq(Asking) /\ OneLive(polls')
      /\ \A j \in DOMAIN polls' : \E k \in DOMAIN polls : polls'[j] = polls[k]
      /\ (NoneLive(polls) => NoneLive(polls')) /\ (~NoneLive(polls) /\ ~polls[i].live => ~NoneLive(polls'))
  BY <1>1, <1>2, OthersWait
<1>5. \A j \in DOMAIN polls' : PollOK(polls[j])'
  <2>1. \A j \in DOMAIN polls' : polls'[j] \in Asking /\ PollOK(polls'[j])
    BY <1>4 DEF MetricInv, MetricTypes
  <2>. QED
    BY <1>3, <2>1, PollsStay
<1>6. OnePoll'
  BY <1>1, <1>4 DEF MetricInv, OnePoll
<1>7. Keep \/ \E ts : Clear(store, ts)
  BY DEF ExecClosed, ClearActive
<1>8. /\ Shape(store') /\ term' \in TermTypes /\ sessions' \in Nat
      /\ \A t \in Terminals : TabOK(t)'
      /\ Sources' = Sources /\ (Shows => Shows')
      /\ ActiveTab'.session = ActiveTab.session /\ \A n : CanPoll(n)' = CanPoll(n)
  BY <1>1, <1>7, KeptOrCleared
<1>9. polls[i].session \in refused'
  BY <1>1, <1>2 DEF PollOK
<1>10. TelemetryStill' => Shows' /\ GoesOn'
  BY <1>1, <1>4, <1>8, <1>9, GoesOnStill
<1>11. /\ counters' \in Sample /\ (counters.idle <= counters.total)' /\ DOMAIN known' \subseteq Nat
       /\ known' \in [DOMAIN known' -> Knowledge] /\ \A m \in DOMAIN known' : KnownOK(m)'
       /\ refused' \subseteq Nat /\ timer' \in Nat
  BY <1>1 DEF MetricInv, MetricTypes, KnownOK, Earlier
<1>. QED
  BY <1>4, <1>5, <1>6, <1>8, <1>10, <1>11, Assembled

LEMMA PollFailsMetrics ==
    ASSUME MetricInv, NEW i \in DOMAIN polls, PollFails(i)
    PROVE  MetricInv'
<1>1. PICK n \in Nat : n = polls[i].session
  BY PollFacts
<1>. DEFINE ps == Orphans(polls, {n})
<1>2. /\ polls' = RemoveAt(ps, i) /\ known' = Restrict(known, DOMAIN known \ {n})
      /\ timer' = IF Continues(i) THEN n ELSE timer
      /\ UNCHANGED <<watched, counters, refused, used, sessions>>
  BY <1>1 DEF PollFails, Retries, SetTimer
<1>3. /\ i \in 1 .. Len(polls) /\ polls \in Seq(Asking) /\ polls[i] \in Asking /\ PollOK(polls[i])
      /\ OneLive(polls) /\ timer \in Nat /\ (polls[i].live => timer = 0)
  BY PollFacts
<1>4. /\ ps \in Seq(Asking) /\ DOMAIN ps = DOMAIN polls /\ Len(ps) = Len(polls)
      /\ \A j \in DOMAIN polls :
            /\ ps[j].session = polls[j].session /\ ps[j].live = polls[j].live /\ ps[j].pc = polls[j].pc
            /\ ps[j].own => polls[j].own /\ polls[j].session # n
            /\ ps[j].last \in {polls[j].last, Knows(polls[j].session).last}
  BY <1>3, OrphansIs DEF MetricInv
<1>. HIDE DEF ps
<1>5. OneLive(ps) /\ NoneLive(ps) = NoneLive(polls)
  BY <1>3, <1>4 DEF OneLive, NoneLive
<1>6. /\ polls' \in Seq(Asking) /\ OneLive(polls')
      /\ \A j \in DOMAIN polls' : \E k \in DOMAIN ps : polls'[j] = ps[k]
      /\ (ps[i].live => NoneLive(polls')) /\ (NoneLive(ps) => NoneLive(polls'))
      /\ (~NoneLive(ps) /\ ~ps[i].live => ~NoneLive(polls'))
  <2>1. i \in 1 .. Len(ps) /\ ps \in Seq(Asking) /\ OneLive(ps) /\ polls' = RemoveAt(ps, i)
    BY <1>2, <1>3, <1>4, <1>5
  <2>. QED
    BY <2>1, OthersWait
<1>7. known \in [DOMAIN known -> Knowledge] /\ DOMAIN known \subseteq Nat /\ \A m \in DOMAIN known : KnownOK(m)
  BY DEF MetricInv, MetricTypes
<1>8. known' = [m \in DOMAIN known \ {n} |-> known[m]]
  BY <1>2 DEF Restrict
<1>9. /\ DOMAIN known' = DOMAIN known \ {n} /\ known' \in [DOMAIN known' -> Knowledge]
      /\ \A m \in DOMAIN known' : known'[m] = known[m]
  BY <1>7, <1>8
<1>10. \A m \in DOMAIN known' : KnownOK(m)'
  BY <1>2, <1>7, <1>9 DEF KnownOK, Earlier
<1>11. \A m : Earlier(Knows(m).last)
  BY <1>7 DEF Knows, Unknown, NoSample, KnownOK, Earlier, MetricInv, MetricTypes, Sample
<1>12. ASSUME NEW k \in DOMAIN polls
       PROVE  /\ Earlier(ps[k].last) /\ (ps[k].own => ps[k].session \in DOMAIN known')
              /\ (ps[k].pc = "closing" => ps[k].session \in refused)
              /\ (ps[k].live => ps[k].session = watched[5])
  BY <1>4, <1>9, <1>11 DEF MetricInv, PollOK
<1>13. ASSUME NEW j \in DOMAIN polls' PROVE PollOK(polls[j])'
  <2>1. PICK k \in DOMAIN polls : polls'[j] = ps[k]
    BY <1>4, <1>6
  <2>2. PICK p : p = ps[k]
    OBVIOUS
  <2>3. /\ Earlier(p.last) /\ (p.own => p.session \in DOMAIN known')
        /\ (p.pc = "closing" => p.session \in refused) /\ (p.live => p.session = watched[5])
    BY <1>12, <2>2
  <2>4. polls'[j] = p
    BY <2>1, <2>2
  <2>. QED
    BY <1>2, <2>3, <2>4 DEF PollOK, Earlier
<1>14. Continues(i) => polls[i].live /\ n = watched[5]
  BY <1>1, <1>3 DEF Continues, PollOK
<1>15. OnePoll'
  <2>1. CASE Continues(i)
    BY <1>2, <1>3, <1>4, <1>6, <1>14, <2>1 DEF OnePoll
  <2>2. CASE ~Continues(i)
    BY <1>2, <1>5, <1>6, <2>2 DEF OnePoll, MetricInv
  <2>. QED
    BY <2>1, <2>2
<1>16. Keep \/ \E ts : Clear(store, ts)
  BY DEF PollFails, ClearActive
<1>17. /\ Shape(store') /\ term' \in TermTypes /\ sessions' \in Nat
       /\ \A t \in Terminals : TabOK(t)'
       /\ Sources' = Sources /\ (Shows => Shows')
       /\ ActiveTab'.session = ActiveTab.session /\ \A m : CanPoll(m)' = CanPoll(m)
  BY <1>2, <1>16, KeptOrCleared
<1>18. Continues(i) => n # 0
  BY PollableIs, <1>1 DEF Continues
<1>19. TelemetryStill' => Shows' /\ GoesOn'
  <2>1. polls[i].live /\ CanPoll(polls[i].session) => timer' # 0
    BY <1>2, <1>18 DEF Continues
  <2>2. timer # 0 => timer' # 0
    BY <1>2, <1>3, <1>14
  <2>3. ~NoneLive(polls) /\ ~polls[i].live => ~NoneLive(polls')
    BY <1>3, <1>4, <1>5, <1>6
  <2>. QED
    BY <1>2, <1>17, <2>1, <2>2, <2>3, GoesOnStill
<1>20. /\ counters' \in Sample /\ (counters.idle <= counters.total)' /\ DOMAIN known' \subseteq Nat
       /\ refused' \subseteq Nat /\ timer' \in Nat
  BY <1>2, <1>3, <1>7, <1>9 DEF MetricInv, MetricTypes
<1>. QED
  BY <1>6, <1>9, <1>10, <1>13, <1>15, <1>17, <1>19, <1>20, Assembled

LEMMA ParsedIs ==
    ASSUME NEW c \in Sample, NEW l \in Sample, c.idle <= c.total,
           l.idle <= c.idle, l.total <= c.total, c.idle - l.idle <= c.total - l.total
    PROVE  ParseCpu(c, l) \in 0 .. 100 \cup {Missing} /\ ParseCpu(NoSample, l) = Missing
<1>1. PICK ct \in Nat, ci \in Nat, lt \in Nat, li \in Nat :
         ct = c.total /\ ci = c.idle /\ lt = l.total /\ li = l.idle
  BY DEF Sample
<1>2. ct - lt \in Nat /\ ci - li \in Nat /\ ci - li <= ct - lt /\ ci <= ct
  BY <1>1
<1>3. Usage(ct, ci) \in 0 .. 100 /\ Usage(ct - lt, ci - li) \in 0 .. 100
  BY <1>2, UsageIsPercent
<1>4. ParseCpu(c, l) \in {Missing, Usage(ct, ci), Usage(ct - lt, ci - li)}
  BY <1>1 DEF ParseCpu
<1>. QED
  BY <1>3, <1>4 DEF ParseCpu

(* A sample is shown, of the tab that is active.                           *)
LEMMA SampleShown ==
    ASSUME MetricInv, NEW n, CanPoll(n), sessions' = sessions,
           NEW reading \in Reading, reading.session = n, Percent(reading),
           term' = [term EXCEPT ![Active].telemetry = reading],
           store' = [store EXCEPT !.telemetry = reading]
    PROVE  /\ Shape(store') /\ term' \in TermTypes /\ sessions' \in Nat
           /\ \A t \in Terminals : TabOK(t)'
           /\ Sources' = Sources /\ (Shows => Shows')
           /\ ActiveTab'.session = ActiveTab.session /\ \A m : CanPoll(m)' = CanPoll(m)
<1>1. Shape(store) /\ term \in TermTypes /\ sessions \in Nat
  BY DEF MetricInv, MetricTypes, StoreShape, Shape, TermTypes
<1>2. /\ Active \in Terminals /\ ActiveTab = term[Active]
      /\ term[Active].session = n /\ term[Active].state = "online"
  BY PollableIs
<1>3. /\ Shape(store') /\ store'.telemetry = reading /\ Active' = Active
      /\ store'.tabs = store.tabs /\ store'.view = store.view
      /\ store'.connected = store.connected /\ store'.panelOpen = store.panelOpen
  BY <1>1 DEF Shape, Fields, Active
<1>4. PICK x : x = [term[Active] EXCEPT !.telemetry = reading]
  OBVIOUS
<1>5. /\ x \in [session : Nat, state : States, telemetry : Reading]
      /\ x.session = n /\ x.state = "online" /\ x.telemetry = reading
  <2>1. term[Active] \in [session : Nat, state : States, telemetry : Reading]
    BY <1>1, <1>2 DEF TermTypes
  <2>. QED
    BY <1>2, <1>4, <2>1
<1>6. term' = [term EXCEPT ![Active] = x]
  BY <1>4
<1>7. /\ term' \in TermTypes /\ term'[Active] = x
      /\ \A t \in Terminals : t # Active => term'[t] = term[t]
  BY <1>1, <1>2, <1>5, <1>6 DEF TermTypes
<1>8. ASSUME NEW t \in Terminals PROVE TabOK(t)'
  <2>1. CASE t = Active
    <3>1. TabOK(Active)
      BY <2>1 DEF MetricInv
    <3>2. term'[t] = x
      BY <1>7, <2>1
    <3>. QED
      BY <1>2, <1>5, <2>1, <3>1, <3>2 DEF TabOK, Percent
  <2>2. CASE t # Active
    <3>1. TabOK(t) /\ term'[t] = term[t]
      BY <1>7, <2>2 DEF MetricInv
    <3>. QED
      BY <3>1 DEF TabOK, Percent
  <2>. QED
    BY <2>1, <2>2
<1>9. IsOpen(store, Active)
  BY <1>2 DEF CanPoll, ActiveTab, Tab, Offline
<1>10. ActiveTab' = x
  BY <1>2, <1>3, <1>7, <1>9 DEF ActiveTab, Tab, IsOpen
<1>11. ActiveTab'.session = ActiveTab.session /\ ActiveTab'.state = ActiveTab.state
  BY <1>2, <1>5, <1>10
<1>12. Sources' = Sources
  BY <1>3, <1>11 DEF Sources
<1>13. Shows'
  BY <1>3, <1>5, <1>10 DEF Shows, Percent
<1>14. \A m : CanPoll(m)' = CanPoll(m)
  BY <1>3, <1>11 DEF CanPoll
<1>. QED
  BY <1>1, <1>3, <1>7, <1>8, <1>11, <1>12, <1>13, <1>14

LEMMA SampleMetrics ==
    ASSUME MetricInv, NEW i \in DOMAIN polls, NEW busy \in 0 .. 1, NEW idle \in 0 .. 1, NEW readable \in BOOLEAN,
           SampleArrives(i, busy, idle, readable)
    PROVE  MetricInv'
<1>1. PICK n \in Nat : n = polls[i].session
  BY PollFacts
<1>2. PICK now : now = IF readable THEN counters' ELSE NoSample
  OBVIOUS
<1>3. PICK last : last = IF polls[i].own THEN known[n].last ELSE polls[i].last
  OBVIOUS
<1>4. PICK reading : reading = [session |-> n, cpu |-> ParseCpu(now, last)]
  OBVIOUS
<1>5. /\ polls' = RemoveAt(polls, i) /\ known' = Learns(i, "last", now)
      /\ timer' = IF Continues(i) THEN n ELSE timer
      /\ UNCHANGED <<watched, refused, used, sessions>>
      /\ counters' = [total |-> counters.total + busy + idle, idle |-> counters.idle + idle]
  BY <1>1, <1>2 DEF SampleArrives, Done, SetTimer
<1>6. IF Continues(i)
      THEN term' = [term EXCEPT ![Active].telemetry = reading] /\ store' = [store EXCEPT !.telemetry = reading]
      ELSE Keep
  BY <1>1, <1>2, <1>3, <1>4, Zenon DEF SampleArrives, Shown
<1>7. /\ i \in 1 .. Len(polls) /\ polls \in Seq(Asking) /\ polls[i] \in Asking /\ PollOK(polls[i])
      /\ OneLive(polls) /\ timer \in Nat /\ (polls[i].live => timer = 0)
  BY PollFacts
<1>8. /\ counters' \in Sample /\ (counters.idle <= counters.total)'
      /\ \A s \in Sample : Earlier(s) => Earlier(s)'
  <2>1. PICK ct \in Nat, ci \in Nat : ct = counters.total /\ ci = counters.idle /\ ci <= ct
    BY DEF MetricInv, MetricTypes, Sample
  <2>2. PICK dt \in Nat, di \in Nat : dt = ct + busy + idle /\ di = ci + idle /\ di <= dt /\ dt - ct >= di - ci
                                      /\ di >= ci
    BY <2>1
  <2>3. counters' = [total |-> dt, idle |-> di]
    BY <1>5, <2>1, <2>2
  <2>4. counters' \in Sample /\ (counters.idle <= counters.total)'
    BY <2>2, <2>3 DEF Sample
  <2>5. ASSUME NEW s \in Sample, Earlier(s) PROVE Earlier(s)'
    <3>1. PICK st \in Nat, si \in Nat : st = s.total /\ si = s.idle
      BY DEF Sample
    <3>2. si <= ci /\ st <= ct /\ ci - si <= ct - st
      BY <2>1, <2>5, <3>1 DEF Earlier
    <3>3. si <= di /\ st <= dt /\ di - si <= dt - st
      BY <2>2, <2>1, <3>1, <3>2
    <3>. QED
      BY <2>3, <3>1, <3>3 DEF Earlier
  <2>. QED
    BY <2>4, <2>5
<1>9. now \in Sample /\ Earlier(now)'
  <2>1. PICK dt \in Nat, di \in Nat : dt = counters'.total /\ di = counters'.idle /\ di <= dt
    BY <1>8 DEF Sample
  <2>2. CASE readable
    BY <1>2, <1>8, <2>1, <2>2 DEF Earlier
  <2>3. CASE ~readable
    <3>1. now = [total |-> 0, idle |-> 0]
      BY <1>2, <2>3 DEF NoSample
    <3>. QED
      BY <2>1, <3>1 DEF Sample, Earlier
  <2>. QED
    BY <2>2, <2>3
<1>10. last \in Sample /\ Earlier(last)'
  <2>1. last \in Sample /\ Earlier(last)
    <3>1. CASE polls[i].own
      <4>1. n \in DOMAIN known
        BY <1>1, <1>7, <3>1 DEF PollOK
      <4>. QED
        BY <1>3, <3>1, <4>1 DEF MetricInv, MetricTypes, KnownOK, Knowledge
    <3>2. CASE ~polls[i].own
      BY <1>3, <1>7, <3>2 DEF PollOK, Asking
    <3>. QED
      BY <3>1, <3>2
  <2>. QED
    BY <1>8, <2>1
<1>11. ParseCpu(now, last) \in 0 .. 100 \cup {Missing}
  <2>1. PICK c \in Sample : c = counters'
    BY <1>8
  <2>2. /\ c.idle <= c.total /\ last.idle <= c.idle /\ last.total <= c.total
        /\ c.idle - last.idle <= c.total - last.total
    BY <1>8, <1>10, <2>1 DEF Earlier
  <2>3. ParseCpu(c, last) \in 0 .. 100 \cup {Missing} /\ ParseCpu(NoSample, last) = Missing
    BY <1>10, <2>2, ParsedIs
  <2>. QED
    BY <1>2, <2>1, <2>3
<1>12. reading \in Reading /\ reading.session = n /\ Percent(reading)
  BY <1>4, <1>11 DEF Reading, Percent, Missing
<1>13. /\ DOMAIN known' = DOMAIN known /\ known' \in [DOMAIN known' -> Knowledge]
       /\ \A m \in DOMAIN known' : KnownOK(m)'
  BY <1>5, <1>8, <1>9, LearnsIs
<1>14. Watching
  BY <1>5, <1>8, <1>13, Watches
<1>15. /\ polls' \in Seq(Asking) /\ OneLive(polls')
       /\ \A j \in DOMAIN polls' : \E k \in DOMAIN polls : polls'[j] = polls[k]
       /\ (polls[i].live => NoneLive(polls')) /\ (NoneLive(polls) => NoneLive(polls'))
       /\ (~NoneLive(polls) /\ ~polls[i].live => ~NoneLive(polls'))
  BY <1>5, <1>7, OthersWait
<1>16. \A j \in DOMAIN polls' : PollOK(polls[j])'
  <2>1. \A j \in DOMAIN polls' : polls'[j] \in Asking /\ PollOK(polls'[j])
    BY <1>15 DEF MetricInv, MetricTypes
  <2>. QED
    BY <1>14, <2>1, PollsStay
<1>17. Continues(i) => polls[i].live /\ n = watched[5] /\ CanPoll(n) /\ n # 0
  BY <1>1, <1>7, PollableIs DEF Continues, PollOK
<1>18. OnePoll'
  <2>1. CASE Continues(i)
    BY <1>5, <1>15, <1>17, <2>1 DEF OnePoll
  <2>2. CASE ~Continues(i)
    BY <1>5, <1>15, <2>2 DEF OnePoll, MetricInv
  <2>. QED
    BY <2>1, <2>2
<1>19. /\ Shape(store') /\ term' \in TermTypes /\ sessions' \in Nat
       /\ \A t \in Terminals : TabOK(t)'
       /\ Sources' = Sources /\ (Shows => Shows')
       /\ ActiveTab'.session = ActiveTab.session /\ \A m : CanPoll(m)' = CanPoll(m)
  <2>1. CASE Continues(i)
    BY <1>5, <1>6, <1>12, <1>17, <2>1, SampleShown
  <2>2. CASE ~Continues(i)
    BY <1>5, <1>6, <2>2, KeptOrCleared
  <2>. QED
    BY <2>1, <2>2
<1>20. TelemetryStill' => Shows' /\ GoesOn'
  <2>1. polls[i].live /\ CanPoll(polls[i].session) => timer' # 0
    BY <1>1, <1>5, <1>17 DEF Continues
  <2>2. timer # 0 => timer' # 0
    BY <1>5, <1>7, <1>17
  <2>3. UNCHANGED watched /\ refused \subseteq refused'
    BY <1>5
  <2>. QED
    BY <1>15, <1>19, <2>1, <2>2, <2>3, GoesOnStill
<1>21. DOMAIN known' \subseteq Nat /\ refused' \subseteq Nat /\ timer' \in Nat
  BY <1>5, <1>7, <1>13 DEF MetricInv, MetricTypes
<1>. QED
  BY <1>8, <1>13, <1>15, <1>16, <1>18, <1>19, <1>20, <1>21, Assembled

(* The beginning of a poll, when no other is alive.                        *)
LEMMA BegunPoll ==
    ASSUME MetricInv, NEW n \in Nat, NEW waiting \in Seq(Asking), NoneLive(waiting), NEW kn,
           Begin(n, waiting, kn), UNCHANGED <<counters, refused>>, watched'[5] = n,
           DOMAIN kn \subseteq Nat, kn \in [DOMAIN kn -> Knowledge],
           \A m \in DOMAIN kn : Earlier(kn[m].last) /\ (kn[m].supported = "no" => m \in refused),
           \A j \in DOMAIN waiting :
              /\ Earlier(waiting[j].last) /\ (waiting[j].own => waiting[j].session \in DOMAIN kn)
              /\ (waiting[j].pc = "closing" => waiting[j].session \in refused)
    PROVE  /\ DOMAIN known' \subseteq Nat /\ known' \in [DOMAIN known' -> Knowledge]
           /\ \A m \in DOMAIN known' : KnownOK(m)'
           /\ polls' \in Seq(Asking) /\ \A j \in DOMAIN polls' : PollOK(polls[j])'
           /\ timer' = 0 /\ OnePoll' /\ (n \notin refused => ~NoneLive(polls'))
<1>1. /\ DOMAIN known' = DOMAIN kn \cup {n}
      /\ \A m \in DOMAIN known' : known'[m] = IF m \in DOMAIN kn THEN kn[m] ELSE Unknown
  BY DEF Begin
<1>2. Unknown \in Knowledge /\ Unknown.supported = "unknown" /\ Earlier(Unknown.last)
  BY DEF Unknown, NoSample, Knowledge, Sample, Earlier, MetricInv, MetricTypes
<1>3. ASSUME NEW m \in DOMAIN known'
      PROVE  /\ m \in Nat /\ known'[m] \in Knowledge /\ Earlier(known'[m].last)
             /\ known'[m].supported = "no" => m \in refused
  <2>1. CASE m \in DOMAIN kn
    BY <1>1, <2>1
  <2>2. CASE m \notin DOMAIN kn
    BY <1>1, <1>2, <2>2
  <2>. QED
    BY <2>1, <2>2
<1>4. ASSUME NEW m \in DOMAIN known' PROVE KnownOK(m)'
  BY <1>3 DEF KnownOK, Earlier
<1>5. known' = [m \in DOMAIN kn \cup {n} |-> IF m \in DOMAIN kn THEN kn[m] ELSE Unknown]
  BY DEF Begin
<1>6. known' \in [DOMAIN known' -> Knowledge] /\ DOMAIN known' \subseteq Nat
  BY <1>1, <1>3, <1>5
<1>7. ASSUME NEW p \in Asking, Earlier(p.last), p.own => p.session \in DOMAIN kn \cup {n},
             p.pc = "closing" => p.session \in refused, p.live => p.session = n
      PROVE  PollOK(p)'
  BY <1>1, <1>7 DEF PollOK, Earlier
<1>8. ASSUME NEW j \in DOMAIN waiting PROVE PollOK(waiting[j])' /\ waiting[j] \in Asking
  <2>1. PICK p \in Asking : p = waiting[j]
    OBVIOUS
  <2>2. PollOK(p)'
    BY <1>7, <2>1 DEF NoneLive
  <2>. QED
    BY <2>1, <2>2
<1>9. timer' = 0
  BY DEF Begin
<1>10. n \in DOMAIN known' /\ known'[n].supported \in {"unknown", "yes", "no"}
  BY <1>1, <1>3 DEF Knowledge
<1>11. \/ polls' = waiting /\ n \in refused
       \/ \E pc \in {"probing", "sampling"} : polls' = Append(waiting, Poll(n, pc))
  <2>1. CASE known'[n].supported = "no"
    BY <1>3, <1>10, <2>1 DEF Begin
  <2>2. CASE known'[n].supported # "no"
    BY <1>10, <2>2 DEF Begin
  <2>. QED
    BY <2>1, <2>2
<1>12. CASE polls' = waiting /\ n \in refused
  <2>1. polls' \in Seq(Asking) /\ OneLive(polls')
    BY <1>12 DEF OneLive, NoneLive
  <2>2. \A j \in DOMAIN polls' : PollOK(polls[j])'
    BY <1>8, <1>12 DEF PollOK, Earlier
  <2>3. OnePoll'
    BY <1>9, <2>1 DEF OnePoll
  <2>. QED
    BY <1>4, <1>6, <1>9, <1>12, <2>1, <2>2, <2>3
<1>13. ASSUME NEW pc \in {"probing", "sampling"}, polls' = Append(waiting, Poll(n, pc))
       PROVE  /\ polls' \in Seq(Asking) /\ \A j \in DOMAIN polls' : PollOK(polls[j])'
              /\ OneLive(polls') /\ ~NoneLive(polls')
  <2>1. PICK p : p = Poll(n, pc)
    OBVIOUS
  <2>2. /\ p \in Asking /\ p.session = n /\ p.live /\ p.own /\ p.last = NoSample /\ p.pc = pc
    BY <2>1 DEF Poll, Asking, NoSample, Sample
  <2>3. Earlier(p.last)
    BY <1>2, <2>2 DEF Unknown
  <2>4. PollOK(p)'
    BY <1>7, <2>2, <2>3
  <2>5. polls' = Added(waiting, p)
    BY <1>13, <2>1 DEF Added
  <2>6. /\ polls' \in Seq(Asking) /\ OneLive(polls') /\ ~NoneLive(polls')
        /\ \A j \in DOMAIN polls' : polls'[j] = p \/ \E k \in DOMAIN waiting : polls'[j] = waiting[k]
    BY <2>2, <2>5, AppendedIs
  <2>7. ASSUME NEW j \in DOMAIN polls' PROVE PollOK(polls[j])'
    <3>1. CASE polls'[j] = p
      BY <2>4, <3>1 DEF PollOK, Earlier
    <3>2. ASSUME NEW k \in DOMAIN waiting, polls'[j] = waiting[k] PROVE PollOK(polls[j])'
      BY <1>8, <3>2 DEF PollOK, Earlier
    <3>. QED
      BY <2>6, <3>1, <3>2
  <2>. QED
    BY <2>6, <2>7
<1>14. \/ polls' = waiting /\ n \in refused
       \/ /\ OnePoll' /\ ~NoneLive(polls') /\ polls' \in Seq(Asking)
          /\ \A j \in DOMAIN polls' : PollOK(polls[j])'
  BY <1>9, <1>11, <1>13 DEF OnePoll
<1>. QED
  BY <1>4, <1>6, <1>9, <1>12, <1>14

LEMMA TimerFiresMetrics ==
    ASSUME MetricInv, TimerFires
    PROVE  MetricInv'
<1>1. /\ timer # 0 /\ timer = watched[5] /\ NoneLive(polls) /\ OneLive(polls)
      /\ UNCHANGED <<watched, counters, refused, used, sessions>>
  BY DEF TimerFires, MetricInv, OnePoll
<1>2. /\ timer \in Nat /\ polls \in Seq(Asking) /\ counters \in Sample /\ counters.idle <= counters.total
      /\ refused \subseteq Nat /\ DOMAIN known \subseteq Nat /\ known \in [DOMAIN known -> Knowledge]
      /\ \A m \in DOMAIN known : KnownOK(m)
      /\ \A j \in DOMAIN polls : PollOK(polls[j])
  BY DEF MetricInv, MetricTypes
<1>3. Keep \/ \E ts : Clear(store, ts)
  BY DEF TimerFires, ClearActive
<1>4. /\ Shape(store') /\ term' \in TermTypes /\ sessions' \in Nat
      /\ \A t \in Terminals : TabOK(t)'
      /\ Sources' = Sources /\ (Shows => Shows')
      /\ ActiveTab'.session = ActiveTab.session /\ \A m : CanPoll(m)' = CanPoll(m)
  BY <1>1, <1>3, KeptOrCleared
<1>5. TelemetryStill' => Shows' /\ timer = ActiveTab.session
  BY <1>1, <1>4 DEF MetricInv, TelemetryStill, Sources
<1>6. CASE CanPoll(timer)
  <2>1. PICK n \in Nat : n = timer
    BY <1>2
  <2>2. Begin(n, polls, known) /\ watched'[5] = n /\ UNCHANGED <<counters, refused>>
    BY <1>1, <1>6, <2>1 DEF TimerFires
  <2>3. \A m \in DOMAIN known : Earlier(known[m].last) /\ (known[m].supported = "no" => m \in refused)
    BY <1>2 DEF KnownOK
  <2>4. \A j \in DOMAIN polls :
           /\ Earlier(polls[j].last) /\ (polls[j].own => polls[j].session \in DOMAIN known)
           /\ (polls[j].pc = "closing" => polls[j].session \in refused)
    BY <1>2 DEF PollOK
  <2>5. /\ DOMAIN known' \subseteq Nat /\ known' \in [DOMAIN known' -> Knowledge]
        /\ \A m \in DOMAIN known' : KnownOK(m)'
        /\ polls' \in Seq(Asking) /\ \A j \in DOMAIN polls' : PollOK(polls[j])'
        /\ timer' = 0 /\ OnePoll' /\ (n \notin refused => ~NoneLive(polls'))
    BY <1>1, <1>2, <2>2, <2>3, <2>4, BegunPoll
  <2>6. TelemetryStill' => Shows' /\ GoesOn'
    BY <1>1, <1>4, <1>5, <2>1, <2>5 DEF GoesOn
  <2>7. counters' \in Sample /\ (counters.idle <= counters.total)' /\ refused' \subseteq Nat /\ timer' \in Nat
    BY <1>1, <1>2, <2>5
  <2>. QED
    BY <1>4, <2>5, <2>6, <2>7, Assembled
<1>7. CASE ~CanPoll(timer)
  <2>1. timer' = 0 /\ UNCHANGED <<polls, known>>
    BY <1>7 DEF TimerFires
  <2>2. TelemetryStill' => Shows' /\ GoesOn'
    BY <1>4, <1>5, <1>7 DEF GoesOn
  <2>3. \A m \in DOMAIN known' : KnownOK(m)'
    BY <1>1, <1>2, <2>1 DEF KnownOK, Earlier
  <2>4. \A j \in DOMAIN polls' : PollOK(polls[j])'
    BY <1>1, <1>2, <2>1 DEF PollOK, Earlier
  <2>5. OnePoll'
    BY <1>1, <2>1 DEF OnePoll
  <2>6. /\ counters' \in Sample /\ (counters.idle <= counters.total)' /\ refused' \subseteq Nat /\ timer' \in Nat
        /\ polls' \in Seq(Asking) /\ DOMAIN known' \subseteq Nat /\ known' \in [DOMAIN known' -> Knowledge]
    BY <1>1, <1>2, <2>1
  <2>. QED
    BY <1>4, <2>2, <2>3, <2>4, <2>5, <2>6, Assembled
<1>. QED
  BY <1>6, <1>7

(* A new generation: no poll is alive.                                     *)
LEMMA StaleIs ==
    ASSUME NEW ps \in Seq(Asking)
    PROVE  LET s == Stale(ps) IN
           /\ s \in Seq(Asking) /\ DOMAIN s = DOMAIN ps /\ NoneLive(s)
           /\ \A i \in DOMAIN ps :
                 /\ s[i].session = ps[i].session /\ s[i].own = ps[i].own
                 /\ s[i].pc = ps[i].pc /\ s[i].last = ps[i].last
<1>. DEFINE Dead(p) == [p EXCEPT !.live = FALSE]
            s == Stale(ps)
<1>1. ASSUME NEW p \in Asking
      PROVE  /\ Dead(p) \in Asking /\ ~Dead(p).live /\ Dead(p).session = p.session
             /\ Dead(p).own = p.own /\ Dead(p).pc = p.pc /\ Dead(p).last = p.last
  BY DEF Asking
<1>2. s = [i \in DOMAIN ps |-> Dead(ps[i])]
  BY Zenon DEF Stale
<1>3. DOMAIN ps = 1 .. Len(ps) /\ Len(ps) \in Nat /\ \A i \in DOMAIN ps : ps[i] \in Asking
  BY ElementOfSeq
<1>. HIDE DEF Dead, s
<1>4. DOMAIN s = DOMAIN ps /\ \A i \in DOMAIN ps : s[i] = Dead(ps[i])
  BY <1>2
<1>5. s \in Seq(Asking)
  BY <1>1, <1>2, <1>3, <1>4
<1>. QED
  BY <1>1, <1>3, <1>4, <1>5 DEF s, NoneLive

LEMMA ReconcileMetrics ==
    ASSUME MetricInv, Reconcile
    PROVE  MetricInv'
<1>1. watched' = Sources /\ UNCHANGED <<counters, refused, used, sessions>>
  BY DEF Reconcile
<1>2. /\ polls \in Seq(Asking) /\ counters \in Sample /\ counters.idle <= counters.total
      /\ refused \subseteq Nat /\ DOMAIN known \subseteq Nat /\ known \in [DOMAIN known -> Knowledge]
      /\ \A m \in DOMAIN known : KnownOK(m)
      /\ \A j \in DOMAIN polls : PollOK(polls[j])
  BY DEF MetricInv, MetricTypes
<1>3. PICK kept : kept = Prune(known)
  OBVIOUS
<1>4. PICK stale : stale = Stale(polls)
  OBVIOUS
<1>5. PICK gone : gone = DOMAIN known \ DOMAIN kept
  OBVIOUS
<1>6. PICK waiting : waiting = Orphans(stale, gone)
  OBVIOUS
<1>7. PICK n : n = ActiveTab.session
  OBVIOUS
<1>8. \E ts : Clear(store, ts)
  BY Zenon DEF Reconcile
<1>9. /\ CanPoll(n) => Begin(n, waiting, kept)
      /\ ~CanPoll(n) => known' = kept /\ polls' = waiting /\ timer' = 0
  BY <1>3, <1>4, <1>5, <1>6, <1>7, Zenon DEF Reconcile
<1>10. /\ Shape(store') /\ term' \in TermTypes /\ sessions' \in Nat
       /\ \A t \in Terminals : TabOK(t)'
       /\ ActiveTab'.session = n /\ \A m : CanPoll(m)' = CanPoll(m)
  BY <1>1, <1>7, <1>8, KeptOrCleared
<1>11. Shows'
  <2>1. Shape(store)
    BY DEF MetricInv, MetricTypes, StoreShape, Shape
  <2>2. store'.telemetry = NoTelemetry
    BY <1>8, <2>1 DEF Clear, Shape, Fields
  <2>. QED
    BY <2>2 DEF Shows
<1>12. /\ DOMAIN kept \subseteq DOMAIN known /\ kept \in [DOMAIN kept -> Knowledge]
       /\ \A m \in DOMAIN kept : kept[m] = known[m]
  BY <1>2, <1>3 DEF Prune, Restrict
<1>13. \A m \in DOMAIN kept : Earlier(kept[m].last) /\ (kept[m].supported = "no" => m \in refused)
  BY <1>2, <1>12 DEF KnownOK
<1>14. /\ stale \in Seq(Asking) /\ DOMAIN stale = DOMAIN polls /\ NoneLive(stale)
       /\ \A j \in DOMAIN polls :
             /\ stale[j].session = polls[j].session /\ stale[j].own = polls[j].own
             /\ stale[j].pc = polls[j].pc /\ stale[j].last = polls[j].last
  BY <1>2, <1>4, StaleIs
<1>15. /\ waiting \in Seq(Asking) /\ DOMAIN waiting = DOMAIN stale
       /\ \A j \in DOMAIN stale :
             /\ waiting[j].session = stale[j].session /\ waiting[j].live = stale[j].live
             /\ waiting[j].pc = stale[j].pc
             /\ waiting[j].own => stale[j].own /\ stale[j].session \notin gone
             /\ waiting[j].last \in {stale[j].last, Knows(stale[j].session).last}
  BY <1>6, <1>14, OrphansIs DEF MetricInv
<1>16. NoneLive(waiting)
  BY <1>14, <1>15 DEF NoneLive
<1>17. \A m : Earlier(Knows(m).last)
  BY <1>2 DEF Knows, Unknown, NoSample, KnownOK, Earlier, Sample
<1>18. ASSUME NEW j \in DOMAIN waiting
       PROVE  /\ Earlier(waiting[j].last) /\ (waiting[j].own => waiting[j].session \in DOMAIN kept)
              /\ (waiting[j].pc = "closing" => waiting[j].session \in refused)
  <2>1. PollOK(polls[j]) /\ j \in DOMAIN polls /\ j \in DOMAIN stale
    BY <1>2, <1>14, <1>15
  <2>2. Earlier(waiting[j].last)
    BY <1>14, <1>15, <1>17, <2>1 DEF PollOK
  <2>3. waiting[j].own => waiting[j].session \in DOMAIN kept
    BY <1>5, <1>14, <1>15, <2>1 DEF PollOK
  <2>4. waiting[j].pc = "closing" => waiting[j].session \in refused
    BY <1>14, <1>15, <2>1 DEF PollOK
  <2>. QED
    BY <2>2, <2>3, <2>4
<1>19. counters' \in Sample /\ (counters.idle <= counters.total)' /\ refused' \subseteq Nat
  BY <1>1, <1>2
<1>20. CASE CanPoll(n)
  <2>1. n \in Nat
    BY <1>20, PollableIs
  <2>2. watched'[5] = n
    BY <1>1, <1>7 DEF Sources
  <2>3. /\ DOMAIN known' \subseteq Nat /\ known' \in [DOMAIN known' -> Knowledge]
        /\ \A m \in DOMAIN known' : KnownOK(m)'
        /\ polls' \in Seq(Asking) /\ \A j \in DOMAIN polls' : PollOK(polls[j])'
        /\ timer' = 0 /\ OnePoll' /\ (n \notin refused => ~NoneLive(polls'))
    <3>1. DOMAIN kept \subseteq Nat /\ Begin(n, waiting, kept) /\ UNCHANGED <<counters, refused>>
      BY <1>1, <1>2, <1>9, <1>12, <1>20
    <3>. QED
      BY <1>12, <1>13, <1>15, <1>14, <1>16, <1>18, <2>1, <2>2, <3>1, BegunPoll
  <2>4. TelemetryStill' => Shows' /\ GoesOn'
    BY <1>1, <1>10, <1>11, <2>3 DEF GoesOn
  <2>. QED
    BY <1>10, <1>19, <2>3, <2>4, Assembled
<1>21. CASE ~CanPoll(n)
  <2>1. known' = kept /\ polls' = waiting /\ timer' = 0
    BY <1>9, <1>21
  <2>2. \A m \in DOMAIN known' : KnownOK(m)'
    BY <1>1, <1>13, <2>1 DEF KnownOK, Earlier
  <2>3. \A j \in DOMAIN polls' : PollOK(polls[j])'
    BY <1>1, <1>16, <1>18, <2>1 DEF PollOK, Earlier, NoneLive
  <2>4. OnePoll'
    BY <1>16, <2>1 DEF OnePoll, OneLive, NoneLive
  <2>5. TelemetryStill' => Shows' /\ GoesOn'
    BY <1>10, <1>11, <1>21 DEF GoesOn
  <2>6. polls' \in Seq(Asking) /\ DOMAIN known' \subseteq Nat /\ known' \in [DOMAIN known' -> Knowledge] /\ timer' \in Nat
    BY <1>2, <1>12, <1>14, <1>15, <2>1
  <2>. QED
    BY <1>10, <1>19, <2>2, <2>3, <2>4, <2>5, <2>6, Assembled
<1>. QED
  BY <1>20, <1>21

-----------------------------------------------------------------------------
(* The specification                                                       *)

WorkbenchInv == MetricInv /\ SizeInv

LEMMA StartsWell ==
    ASSUME Init
    PROVE  WorkbenchInv
<1>1. PICK c \in BOOLEAN, p \in BOOLEAN :
           store = [tabs |-> <<>>, active |-> [k \in Kinds |-> None], focused |-> "terminal",
                    category |-> "file", bottomOpen |-> FALSE, view |-> "welcome", panelOpen |-> p,
                    connected |-> c, dirty |-> {}, confirm |-> NotAsked, telemetry |-> NoTelemetry]
  BY DEF Init, TabsInit
<1>2. /\ DOMAIN store = Fields /\ DOMAIN store.active = Kinds
      /\ store.view = "welcome" /\ ~store.bottomOpen /\ store.telemetry = NoTelemetry
  BY <1>1 DEF Fields
<1>3. term = [t \in Terminals |-> Offline] /\ sessions = 0
  BY DEF Init, TabsInit
<1>4. /\ polls = <<>> /\ timer = 0 /\ known = <<>> /\ refused = {} /\ watched = Sources
      /\ counters = [total |-> 2, idle |-> 1]
  BY DEF Init, TelemetryInit
<1>5. Offline \in [session : Nat, state : States, telemetry : Reading]
  BY DEF Offline, NoTelemetry, States, Reading
<1>6. MetricTypes /\ counters.idle <= counters.total
  BY <1>2, <1>3, <1>4, <1>5 DEF MetricTypes, StoreShape, Sample
<1>7. \A t \in Terminals : TabOK(t)
  BY <1>3 DEF TabOK, Offline
<1>8. DOMAIN polls = {} /\ DOMAIN known = {}
  BY <1>4
<1>9. OnePoll
  BY <1>4, <1>8 DEF OnePoll, OneLive
<1>10. Shows /\ GoesOn
  BY <1>2 DEF Shows, GoesOn, CanPoll
<1>11. MetricInv
  BY <1>6, <1>7, <1>8, <1>9, <1>10 DEF MetricInv
<1>12. /\ window \in Windows /\ drag = NoDrag /\ pull = NoPull
       /\ bottom = [height |-> DefaultHeight, restore |-> DefaultHeight, maximized |-> FALSE, ready |-> FALSE]
  BY DEF Init, SizesInit
<1>13. PICK open \in BOOLEAN : widths = [sidebar |-> MinSidebar + 1, panel |-> MinPanel + 1, open |-> open]
  BY DEF Init, SizesInit
<1>14. MinSidebar \in Nat /\ MinPanel \in Nat /\ DefaultHeight \in Nat /\ Windows \subseteq [width : Nat, height : Nat]
  BY SizeAssumption
<1>15. SizeTypes
  BY <1>12, <1>13, <1>14 DEF SizeTypes, NoDrag, NoPull
<1>16. widths.sidebar >= MinSidebar /\ widths.panel >= MinPanel
  BY <1>13, <1>14
<1>17. ~pull.on /\ drag.side \notin {"left", "right"}
  BY <1>12 DEF NoPull, NoDrag, None
<1>18. SizeInv
  BY <1>15, <1>16, <1>17 DEF SizeInv, EdgeFollows
<1>. QED
  BY <1>11, <1>18 DEF WorkbenchInv

LEMMA OnlyTelemetry ==
    ASSUME Shape(store), store' = store \/ \E x : store' = [store EXCEPT !.telemetry = x]
    PROVE  SameView
BY DEF Shape, Fields, SameView

(* Polls and their timer are not about sizes.                              *)
LEMMA PollsView ==
    ASSUME Shape(store), TimerFires \/ Reconcile \/ PollAnswered
    PROVE  SameView
<1>1. ASSUME Keep \/ \E ts : Clear(store, ts) PROVE SameView
  BY <1>1, OnlyTelemetry DEF Keep, Clear
<1>2. CASE TimerFires
  BY <1>1, <1>2 DEF TimerFires, ClearActive
<1>3. CASE Reconcile
  <2>1. \E ts : Clear(store, ts)
    BY <1>3, Zenon DEF Reconcile
  <2>. QED
    BY <1>1, <2>1
<1>4. ASSUME NEW i \in DOMAIN polls, ProbeSaysYes(i) \/ ProbeSaysNo(i) PROVE SameView
  BY <1>1, <1>4 DEF ProbeSaysYes, ProbeSaysNo
<1>5. ASSUME NEW i \in DOMAIN polls, ExecClosed(i) \/ PollFails(i) PROVE SameView
  BY <1>1, <1>5 DEF ExecClosed, PollFails, ClearActive
<1>6. ASSUME NEW i \in DOMAIN polls, NEW busy, NEW idle, NEW readable, SampleArrives(i, busy, idle, readable)
      PROVE  SameView
  <2>1. (\E x : store' = [store EXCEPT !.telemetry = x]) \/ Keep
    BY <1>6, Zenon DEF SampleArrives
  <2>. QED
    BY <2>1, OnlyTelemetry DEF Keep
<1>. QED
  BY <1>2, <1>3, <1>4, <1>5, <1>6 DEF PollAnswered

(* Every answer to a poll.                                                 *)
LEMMA AnsweredMetrics ==
    ASSUME MetricInv, PollAnswered
    PROVE  MetricInv'
BY ProbeYesMetrics, ProbeNoMetrics, ExecClosedMetrics, PollFailsMetrics, SampleMetrics DEF PollAnswered

LEMMA HandlerMetrics ==
    ASSUME MetricInv, Handler
    PROVE  MetricInv'
<1>1. TelemetryStill /\ Shape(store)
  BY DEF Handler, Quiet, MetricInv, MetricTypes, StoreShape, Shape
<1>2. CASE UserTabs
  BY <1>1, <1>2, UserTabsMetrics
<1>3. CASE Reports
  BY <1>1, <1>3, ReportsMetrics
<1>4. CASE UserDocks
  <2>1. /\ Shape(store') /\ UNCHANGED <<term, sessions>> /\ UNCHANGED telemetryVars
        /\ store'.telemetry = store.telemetry
    BY <1>1, <1>4, UserDocksFrame
  <2>. QED
    BY <1>1, <2>1, HandledFrame
<1>5. CASE Metrics
  <2>1. CASE TimerFires
    BY <2>1, TimerFiresMetrics
  <2>2. CASE TogglePanel \/ NodeChanges
    <3>1. /\ Shape(store') /\ UNCHANGED <<term, sessions>> /\ UNCHANGED telemetryVars
          /\ store'.telemetry = store.telemetry
      BY <1>1, <2>2 DEF TogglePanel, NodeChanges, Shape, Fields
    <3>. QED
      BY <1>1, <3>1, HandledFrame
  <2>. QED
    BY <1>5, <2>1, <2>2 DEF Metrics
<1>6. CASE Layout
  <2>1. Framed /\ UNCHANGED telemetryVars
    BY <1>1, <1>6, LayoutFrame
  <2>. QED
    BY <1>1, <2>1, FramedMetrics
<1>7. CASE UserSizes \/ SizesFollow
  BY <1>7, SizesMetrics
<1>. QED
  BY <1>2, <1>3, <1>4, <1>5, <1>6, <1>7 DEF Handler

LEMMA WatchersMetrics ==
    ASSUME MetricInv, Watchers
    PROVE  MetricInv'
<1>1. Shape(store)
  BY DEF MetricInv, MetricTypes, StoreShape, Shape
<1>2. CASE WatchActive /\ UNCHANGED <<telemetryVars, sizeVars, quota>>
  BY <1>1, <1>2, WatchActiveFrame, FramedMetrics
<1>3. CASE TelemetryStill /\ (Mount \/ WatchTabs) /\ UNCHANGED <<telemetryVars, sizeVars, quota>>
  BY <1>1, <1>3, WatchTabsFrame, FramedMetrics
<1>4. CASE Reconcile
  BY <1>4, ReconcileMetrics
<1>5. CASE BottomMounts /\ UNCHANGED <<dockVars, telemetryVars, quota>>
  BY <1>5, SizesMetrics
<1>. QED
  BY <1>2, <1>3, <1>4, <1>5 DEF Watchers

LEMMA MetricsStep ==
    ASSUME MetricInv, [Next]_vars
    PROVE  MetricInv'
<1>1. CASE Handler
  BY <1>1, HandlerMetrics
<1>2. CASE Watchers
  BY <1>2, WatchersMetrics
<1>3. CASE Answered
  BY <1>3, AnsweredMetrics DEF Answered
<1>4. CASE UNCHANGED vars
  <2>1. Shape(store) /\ UNCHANGED telemetryVars /\ UNCHANGED <<term, sessions>> /\ store' = store
    BY <1>4 DEF vars, tabVars, telemetryVars, MetricInv, MetricTypes, StoreShape, Shape
  <2>2. Framed /\ Active' = Active
    BY <2>1 DEF Framed, SameView, Active, Shape
  <2>. QED
    BY <2>1, <2>2, FramedMetrics
<1>. QED
  BY <1>1, <1>2, <1>3, <1>4 DEF Next

LEMMA SizesStep ==
    ASSUME MetricInv, SizeInv, [Next]_vars
    PROVE  SizeInv' /\ DragFits /\ EdgeFollows'
<1>1. Shape(store) /\ StoreShape
  BY DEF MetricInv, MetricTypes, StoreShape, Shape
<1>2. ASSUME drag.side = None /\ ~pull.on, UserTabs \/ UserDocks \/ Metrics \/ Reports
      PROVE  SizeInv' /\ DragFits /\ EdgeFollows'
  <2>1. UNCHANGED sizeVars
    BY <1>2, Zenon DEF UserTabs, UserDocks, Metrics, Reports
  <2>. QED
    BY <1>2, <2>1, SizesKept
<1>3. CASE Layout
  BY <1>1, <1>3, LayoutFrame, SizesKept DEF Framed
<1>4. CASE UserSizes
  <2>1. window.width \in Nat /\ window.height \in Nat
    BY DEF SizeInv, SizeTypes
  <2>2. ASSUME NEW by \in -window.width .. window.width, MoveDrag(by)
        PROVE  SizeInv' /\ DragFits /\ EdgeFollows'
    <3>1. by \in Int
      BY <2>1
    <3>. QED
      BY <2>2, <3>1, Dragging
  <2>3. ASSUME NEW y \in -1 .. window.height, MovePull(y)
        PROVE  SizeInv' /\ DragFits /\ EdgeFollows'
    <3>1. y \in Int
      BY <2>1
    <3>. QED
      BY <1>1, <2>3, <3>1, Pulling
  <2>4. ASSUME NEW side \in {"left", "right"}, StartDrag(side)
        PROVE  SizeInv' /\ DragFits /\ EdgeFollows'
    BY <2>4, Dragging
  <2>5. ASSUME NEW w \in Windows, WindowResizes(w)
        PROVE  SizeInv' /\ DragFits /\ EdgeFollows'
    BY <2>5, WindowResized
  <2>. QED
    BY <1>4, <2>2, <2>3, <2>4, <2>5, SidebarToggled, BottomStarts DEF UserSizes
<1>5. CASE SizesFollow
  BY <1>5, Dragging, BottomStarts DEF SizesFollow
<1>6. CASE Watchers
  <2>1. CASE WatchActive /\ UNCHANGED <<telemetryVars, sizeVars, quota>>
    BY <1>1, <2>1, WatchActiveFrame, SizesKept DEF Framed
  <2>2. CASE TelemetryStill /\ (Mount \/ WatchTabs) /\ UNCHANGED <<telemetryVars, sizeVars, quota>>
    BY <1>1, <2>2, WatchTabsFrame, SizesKept DEF Framed
  <2>3. CASE Reconcile /\ UNCHANGED <<dockVars, sizeVars, quota>>
    BY <1>1, <2>3, PollsView, SizesKept
  <2>4. CASE BottomMounts
    BY <2>4, BottomStarts
  <2>. QED
    BY <1>6, <2>1, <2>2, <2>3, <2>4 DEF Watchers
<1>7. CASE Answered
  BY <1>1, <1>7, PollsView, SizesKept DEF Answered
<1>8. CASE UNCHANGED vars
  <2>1. SameView /\ UNCHANGED sizeVars
    BY <1>8 DEF vars, tabVars, SameView
  <2>. QED
    BY <2>1, SizesKept
<1>. QED
  BY <1>2, <1>3, <1>4, <1>5, <1>6, <1>7, <1>8 DEF Next, Handler

(* WorkbenchInv is an inductive invariant: a panel is never narrower than  *)
(* its least width, an edge that is dragged can be seen, each sample that  *)
(* is kept is earlier than the counters, at most one poll lives, and it    *)
(* asks the session the watcher has seen last (App.vue, BottomPanel.vue,   *)
(* telemetry.ts).                                                          *)
THEOREM WorkbenchInvariant == Spec => []WorkbenchInv
<1>1. Init => WorkbenchInv
  BY StartsWell
<1>2. WorkbenchInv /\ [Next]_vars => WorkbenchInv'
  BY MetricsStep, SizesStep DEF WorkbenchInv
<1>. QED
  BY <1>1, <1>2, PTL DEF Spec

LEMMA AtMostOne ==
    ASSUME OneLive(polls)
    PROVE  /\ Cardinality(Live(polls)) \in {0, 1}
           /\ NoneLive(polls) <=> Live(polls) = {}
           /\ NoneLive(polls) => Cardinality(Live(polls)) = 0
<1>1. NoneLive(polls) <=> Live(polls) = {}
  BY DEF NoneLive, Live
<1>2. CASE Live(polls) = {}
  BY <1>1, <1>2, FS_EmptySet
<1>3. CASE Live(polls) # {}
  <2>1. PICK i : i \in Live(polls)
    BY <1>3
  <2>2. Live(polls) = {i}
    BY <2>1 DEF Live, OneLive
  <2>3. Cardinality({i}) = 1
    BY FS_Singleton
  <2>. QED
    BY <1>1, <1>3, <2>2, <2>3
<1>. QED
  BY <1>2, <1>3

(* What the panel shows was sampled in the session that the active tab has *)
(* while it is online, and is a percentage; as long as that session can be *)
(* polled exactly one poll or timer goes on, never two, however late the   *)
(* answers of older generations come (telemetry.ts: reconcile, poll).      *)
THEOREM MetricsFollowTheTab == Spec => []MetricsFollow
<1>1. MetricInv => MetricsFollow
  <2>1. SUFFICES ASSUME MetricInv PROVE MetricsFollow
    OBVIOUS
  <2>2. OnePoll /\ OneLive(polls)
    BY <2>1 DEF MetricInv, OnePoll
  <2>3. Cardinality(Live(polls)) + (IF timer = 0 THEN 0 ELSE 1) <= 1
    <3>1. CASE timer = 0
      BY <2>2, <3>1, AtMostOne
    <3>2. CASE timer # 0
      BY <2>2, <3>2, AtMostOne DEF OnePoll
    <3>. QED
      BY <3>1, <3>2
  <2>4. ASSUME TelemetryStill PROVE Shows /\ GoesOn
    BY <2>1, <2>4 DEF MetricInv
  <2>. QED
    BY <2>2, <2>3, <2>4, AtMostOne DEF MetricsFollow, Shows, GoesOn, Percent
<1>2. WorkbenchInv => MetricInv
  BY DEF WorkbenchInv
<1>. QED
  BY <1>1, <1>2, WorkbenchInvariant, PTL

(* A drag of the edge of a side panel leaves the terminal and both panels  *)
(* their least widths, or what they had, and never touches a hidden panel; *)
(* the edge of the bottom panel stays under the pointer that drags it, for *)
(* every window and every least size (App.vue: resizeLeft, resizeRight;    *)
(* BottomPanel.vue: moveResize).                                           *)
THEOREM EveryDragFits == Spec => PanelsFit
<1>1. WorkbenchInv /\ [Next]_vars => [DragFits /\ EdgeFollows']_vars
  BY SizesStep DEF WorkbenchInv
<1>. QED
  BY <1>1, WorkbenchInvariant, PTL DEF Spec, PanelsFit
=============================================================================
