------------------------ MODULE SshSessionsProofs ------------------------
(***************************************************************************)
(* Proofs about SshSessions: no password outlives the sessions of its      *)
(* host, a tab shown as online has a session, and the commands of a        *)
(* session run one after the other but for the locks that were deleted     *)
(* under them, for any number of tabs and sessions.                        *)
(*                                                                         *)
(* The last one is an argument about the queue of a session.  Its fronts   *)
(* are the commands that run or may start: those that are not queued, and  *)
(* those queued behind one that has ended.  A command that ends hands its  *)
(* place to the one behind it; only a command that finds no lock adds a    *)
(* front, and a lock is missing either because the queue ran empty or      *)
(* because closeExec deleted it, which cut counts.                         *)
(***************************************************************************)
EXTENDS SshSessions, FiniteSetTheorems, TLAPS

Phase == {"unused", "loading", "queued", "known", "connecting", "prompting",
          "unanswered", "trusted", "refused", "registered", "failing",
          "releasing", "dead"}
Attempt == [kind : {"none", "shell", "exec"}, of : Tabs \cup Ids \cup {0},
            pc : Phase, known : BOOLEAN, ask : BOOLEAN]
Tab == [is : {"unused", "open", "closed"}, session : Ids \cup {0},
        state : {"idle", "connecting", "online", "error"}, overlapped : BOOLEAN]
Job == [pc : {"none", "shell", "execs"}, todo : SUBSET Ids, on : Ids \cup {0}]
Closers == {"closeSsh", "closeExec"}

Types ==
    /\ tab \in [Tabs -> Tab] /\ att \in [Ids -> Attempt]
    /\ lock \in [Ids -> Ids \cup {0}] /\ cut \in [Ids -> Nat]
    /\ job \in [Ids -> [Closers -> Job]]
    /\ password \in Nat /\ known \in BOOLEAN /\ prompt \in Ids \cup {0}
    /\ dialog \subseteq Tabs

(* Session ids are given out in order; an attempt knows what it is for.    *)
Attempts ==
    \A i \in Ids :
        /\ att[i].pc # "unused" =>
               /\ att[i].kind # "none"
               /\ \A k \in Ids : k < i => att[k].pc # "unused"
        /\ att[i].pc = "unused" => att[i].kind = "none"
        /\ att[i].kind = "shell" => att[i].of \in Tabs /\ tab[att[i].of].is # "unused"
        /\ att[i].kind = "exec" => att[i].of \in Ids
        /\ att[i].pc = "loading" => att[i].kind = "shell"
        /\ att[i].pc = "queued" => att[i].kind = "exec"
        /\ att[i].ask => att[i].kind = "shell"

(* The prompt is shown for an attempt that waits for it.                   *)
Prompted == prompt # 0 => att[prompt].pc = "prompting"

(* What is still to be closed after a shell are commands.                  *)
Todos ==
    \A p \in Ids, call \in Closers : \A i \in job[p][call].todo : att[i].kind = "exec"

Ended == {"registered", "releasing", "dead"}

(* Tab x, whose id is t, with attempts a: its session is its own, and      *)
(* unless attempts overlapped every other one has come to a result.        *)
TabFits(t, x, a) ==
    /\ x.is = "open" => /\ x.session \in Ids
                        /\ a[x.session].kind = "shell" /\ a[x.session].of = t
    /\ x.is # "open" => x.state = "idle"
    /\ ~x.overlapped /\ x.is = "open" =>
           \A i \in Ids : a[i].kind = "shell" /\ a[i].of = t /\ i # x.session =>
               a[i].pc \in Ended
    /\ ~x.overlapped /\ x.state = "online" => a[x.session].pc = "registered"

TabsFit == \A t \in Tabs : TabFits(t, tab[t], att)

(* Sessions that keep the password.                                        *)
Held(a) == {i \in Ids : a[i].pc \in {"registered", "releasing"}}

Kept == password <= Cardinality(Held(att))

(* The commands of session p, in the order of their ids; k is the last one *)
(* queued before i.                                                        *)
Commands(a, p) == {i \in Ids : a[i].kind = "exec" /\ a[i].of = p}

Before(a, p, k, i) ==
    /\ k \in Commands(a, p) /\ k < i
    /\ \A j \in Commands(a, p) : j < i => j <= k

Fronts(a, p) ==
    {i \in Commands(a, p) :
        /\ a[i].pc # "dead"
        /\ a[i].pc = "queued" => \A k \in Ids : Before(a, p, k, i) => a[k].pc = "dead"}

(* The queue of session p with lock l, cut n times: the lock is the last   *)
(* command and has not ended, and every queued one has a predecessor.      *)
Queue(a, p, l, n) ==
    /\ l # 0 => /\ l \in Commands(a, p) /\ a[l].pc # "dead"
                /\ \A j \in Commands(a, p) : j <= l
    /\ \A i \in Commands(a, p) : a[i].pc = "queued" => \E k \in Ids : Before(a, p, k, i)
    /\ Cardinality(Fronts(a, p)) <= n + (IF l = 0 THEN 0 ELSE 1)

Queues == \A p \in Ids : Queue(att, p, lock[p], cut[p])

IInv == Types /\ Attempts /\ Prompted /\ Todos /\ TabsFit /\ Kept /\ Queues

-----------------------------------------------------------------------------
(* The queue of one session                                                *)

LEMMA SessionIds == /\ IsFiniteSet(Ids) /\ 0 \notin Ids /\ Ids \subseteq Nat
                    /\ \A S \in SUBSET Ids : IsFiniteSet(S) /\ Cardinality(S) \in Nat
                    /\ MaxSessions \in Nat
<1>1. MaxSessions \in Nat
  BY SessionAssumption
<1>2. IsFiniteSet(Ids)
  BY <1>1, FS_Interval DEF Ids
<1>3. \A S \in SUBSET Ids : IsFiniteSet(S) /\ Cardinality(S) \in Nat
  BY <1>2, FS_Subset, FS_CardinalityType
<1>. QED
  BY <1>1, <1>2, <1>3 DEF Ids

LEMMA FrontsFinite ==
    ASSUME NEW a, NEW p
    PROVE  Fronts(a, p) \subseteq Ids /\ Cardinality(Fronts(a, p)) \in Nat
<1>1. Fronts(a, p) \subseteq Ids
  BY DEF Fronts, Commands
<1>. QED
  BY <1>1, SessionIds

LEMMA CardinalityMonotone ==
    ASSUME NEW S \in SUBSET Ids, NEW T \in SUBSET Ids, S \subseteq T
    PROVE  Cardinality(S) <= Cardinality(T) /\ Cardinality(S) \in Nat /\ Cardinality(T) \in Nat
BY SessionIds, FS_Subset

(* A command has one successor.                                            *)
LEMMA OneSuccessor ==
    ASSUME NEW a, NEW p, NEW k \in Ids, NEW i \in Commands(a, p), NEW j \in Commands(a, p),
           Before(a, p, k, i), Before(a, p, k, j)
    PROVE  i = j
<1>1. i \in Nat /\ j \in Nat /\ k \in Nat
  BY SessionIds DEF Commands
<1>2. k < i /\ k < j /\ (i < j => i <= k) /\ (j < i => j <= k)
  BY DEF Before
<1>. QED
  BY <1>1, <1>2

(* What the queue of p sees of the attempts.                               *)
SameCommands(a, b) ==
    \A j \in Ids :
        /\ b[j].kind = "exec" <=> a[j].kind = "exec"
        /\ a[j].kind = "exec" => /\ b[j].of = a[j].of
                                 /\ b[j].pc = "queued" <=> a[j].pc = "queued"
                                 /\ b[j].pc = "dead" <=> a[j].pc = "dead"

LEMMA QueueSame ==
    ASSUME NEW a, NEW b, SameCommands(a, b), NEW p \in Ids, NEW l \in Ids \cup {0},
           NEW n \in Nat, Queue(a, p, l, n)
    PROVE  Queue(b, p, l, n)
<1>1. Commands(b, p) = Commands(a, p)
  BY DEF SameCommands, Commands
<1>2. \A k, i : Before(b, p, k, i) <=> Before(a, p, k, i)
  BY <1>1 DEF Before
<1>3. \A j \in Commands(a, p) : /\ b[j].pc = "queued" <=> a[j].pc = "queued"
                                /\ b[j].pc = "dead" <=> a[j].pc = "dead"
  BY DEF SameCommands, Commands
<1>4. \A k, i : Before(a, p, k, i) => k \in Commands(a, p)
  BY DEF Before
<1>5. Fronts(b, p) = Fronts(a, p)
  BY <1>1, <1>2, <1>3, <1>4 DEF Fronts
<1>. QED
  BY <1>1, <1>2, <1>3, <1>5 DEF Queue

(* The front i starts.                                                     *)
LEMMA QueueStarts ==
    ASSUME NEW a \in [Ids -> Attempt], NEW b \in [Ids -> Attempt], NEW i \in Ids,
           \A j \in Ids \ {i} : b[j] = a[j],
           b[i].kind = a[i].kind, b[i].of = a[i].of,
           a[i].pc = "queued", b[i].pc = "known",
           NEW k \in Ids, Before(a, a[i].of, k, i), a[k].pc = "dead",
           NEW p \in Ids, NEW l \in Ids \cup {0}, NEW n \in Nat, Queue(a, p, l, n)
    PROVE  Queue(b, p, l, n)
<1>1. Commands(b, p) = Commands(a, p)
  BY DEF Commands
<1>2. \A c, j : Before(b, p, c, j) <=> Before(a, p, c, j)
  BY <1>1 DEF Before
<1>3. \A j \in Ids : b[j].pc = "dead" <=> a[j].pc = "dead"
  <2>. SUFFICES ASSUME NEW j \in Ids PROVE b[j].pc = "dead" <=> a[j].pc = "dead"
    OBVIOUS
  <2>. QED
    BY j = i \/ j # i
<1>4. \A j \in Ids : b[j].pc = "queued" => a[j].pc = "queued" /\ j # i
  OBVIOUS
<1>5. ASSUME i \in Commands(a, p) PROVE i \in Fronts(a, p)
  <2>1. p = a[i].of
    BY <1>5 DEF Commands
  <2>2. \A c \in Ids : Before(a, p, c, i) => c = k
    <3>. SUFFICES ASSUME NEW c \in Ids, Before(a, p, c, i) PROVE c = k
      OBVIOUS
    <3>1. c \in Nat /\ k \in Nat /\ c <= k /\ k <= c
      BY <2>1, SessionIds DEF Before
    <3>. QED
      BY <3>1
  <2>. QED
    BY <1>5, <2>2 DEF Fronts
<1>6. Fronts(b, p) \subseteq Fronts(a, p)
  <2>. SUFFICES ASSUME NEW j \in Fronts(b, p) PROVE j \in Fronts(a, p)
    OBVIOUS
  <2>1. j \in Commands(a, p) /\ j \in Ids /\ a[j].pc # "dead"
    BY <1>1, <1>3 DEF Fronts, Commands
  <2>2. CASE j = i
    BY <2>1, <2>2, <1>5
  <2>3. CASE j # i
    <3>1. a[j].pc = "queued" => b[j].pc = "queued"
      BY <2>1, <2>3
    <3>. QED
      BY <2>1, <3>1, <1>2, <1>3 DEF Fronts
  <2>. QED
    BY <2>2, <2>3
<1>7. Cardinality(Fronts(b, p)) <= Cardinality(Fronts(a, p))
  BY <1>6, FrontsFinite, CardinalityMonotone
<1>8. Cardinality(Fronts(b, p)) <= n + (IF l = 0 THEN 0 ELSE 1)
  <2>1. Cardinality(Fronts(a, p)) <= n + (IF l = 0 THEN 0 ELSE 1)
    BY DEF Queue
  <2>. QED
    BY <2>1, <1>7, FrontsFinite
<1>. QED
  BY <1>1, <1>2, <1>3, <1>4, <1>8 DEF Queue, Commands

(* Command i, or a shell, ends; a lock that is still its own is removed.   *)
LEMMA QueueEnds ==
    ASSUME NEW a \in [Ids -> Attempt], NEW b \in [Ids -> Attempt], NEW i \in Ids,
           \A j \in Ids \ {i} : b[j] = a[j],
           b[i].kind = a[i].kind, b[i].of = a[i].of,
           a[i].pc \notin {"unused", "queued", "dead"}, b[i].pc = "dead",
           NEW p \in Ids, NEW l \in Ids \cup {0}, NEW n \in Nat, Queue(a, p, l, n),
           NEW m, m = (IF a[i].kind = "exec" /\ a[i].of = p /\ l = i THEN 0 ELSE l)
    PROVE  Queue(b, p, m, n)
<1>1. Commands(b, p) = Commands(a, p)
  BY DEF Commands
<1>2. \A c, j : Before(b, p, c, j) <=> Before(a, p, c, j)
  BY <1>1 DEF Before
<1>3. \A j \in Ids : b[j].pc = "queued" <=> a[j].pc = "queued"
  <2>. SUFFICES ASSUME NEW j \in Ids PROVE b[j].pc = "queued" <=> a[j].pc = "queued"
    OBVIOUS
  <2>. QED
    BY j = i \/ j # i
<1>4. m # 0 => /\ m \in Commands(b, p) /\ b[m].pc # "dead"
               /\ \A j \in Commands(b, p) : j <= m
  <2>. SUFFICES ASSUME m # 0
                PROVE  /\ m \in Commands(b, p) /\ b[m].pc # "dead"
                       /\ \A j \in Commands(b, p) : j <= m
    OBVIOUS
  <2>1. m = l /\ l \in Commands(a, p) /\ a[l].pc # "dead" /\ \A j \in Commands(a, p) : j <= l
    BY DEF Queue
  <2>2. l # i
    BY <2>1, SessionIds DEF Commands
  <2>. QED
    BY <1>1, <2>1, <2>2 DEF Commands
<1>5. \A j \in Commands(b, p) : b[j].pc = "queued" => \E k \in Ids : Before(b, p, k, j)
  BY <1>1, <1>2, <1>3 DEF Queue, Commands
<1>6. CASE i \notin Commands(a, p)
  <2>1. m = l /\ \A j \in Commands(a, p) : b[j] = a[j]
    BY <1>6 DEF Commands
  <2>2. Fronts(b, p) = Fronts(a, p)
    BY <1>1, <1>2, <2>1 DEF Fronts, Before
  <2>. QED
    BY <1>4, <1>5, <2>1, <2>2 DEF Queue
<1>7. CASE i \in Commands(a, p)
  <2>. DEFINE next == {j \in Commands(a, p) : Before(a, p, i, j)}
              F == Fronts(a, p)
              G == Fronts(b, p)
  <2>1. i \in F
    BY <1>7 DEF Fronts
  <2>2. G \subseteq (F \ {i}) \cup next
    <3>. SUFFICES ASSUME NEW j \in G, j \notin next PROVE j \in F \ {i}
      OBVIOUS
    <3>1. j \in Commands(a, p) /\ j \in Ids /\ b[j].pc # "dead" /\ j # i
      BY <1>1 DEF Fronts, Commands
    <3>2. a[j] = b[j]
      BY <3>1
    <3>3. ASSUME NEW k \in Ids, Before(a, p, k, j), a[j].pc = "queued"
          PROVE  a[k].pc = "dead"
      <4>1. k # i
        BY <3>1, <3>3
      <4>2. b[k].pc = "dead"
        BY <1>2, <3>2, <3>3 DEF Fronts
      <4>. QED
        BY <4>1, <4>2
    <3>. QED
      BY <3>1, <3>2, <3>3 DEF Fronts
  <2>3. \A x, y \in next : x = y
    BY OneSuccessor
  <2>4. next \subseteq Ids /\ F \subseteq Ids /\ G \subseteq Ids
    BY FrontsFinite DEF Commands
  <2>5. Cardinality(F \ {i}) = Cardinality(F) - 1 /\ Cardinality(F) \in Nat
        /\ IsFiniteSet(F \ {i})
    <3>1. IsFiniteSet(F)
      BY <2>4, SessionIds
    <3>. QED
      BY <2>1, <3>1, FS_RemoveElement, FS_CardinalityType
  <2>6. Cardinality(F) <= n + (IF l = 0 THEN 0 ELSE 1)
    BY DEF Queue
  <2>7. ASSUME next = {} PROVE Cardinality(G) <= Cardinality(F) - 1
    <3>1. G \subseteq F \ {i} /\ F \ {i} \subseteq Ids
      BY <2>2, <2>4, <2>7
    <3>. QED
      BY <2>4, <2>5, <3>1, CardinalityMonotone
  <2>8. ASSUME NEW x \in next PROVE Cardinality(G) <= Cardinality(F)
    <3>1. G \subseteq (F \ {i}) \cup {x} /\ (F \ {i}) \cup {x} \subseteq Ids
      BY <2>2, <2>3, <2>4
    <3>2. Cardinality((F \ {i}) \cup {x}) <= Cardinality(F)
      <4>1. CASE x \in F \ {i}
        <5>1. (F \ {i}) \cup {x} = F \ {i}
          BY <4>1
        <5>. QED
          BY <5>1, <2>5
      <4>2. CASE x \notin F \ {i}
        <5>. DEFINE E == F \ {i}
        <5>1. Cardinality(E) = Cardinality(F) - 1 /\ Cardinality(F) \in Nat /\ IsFiniteSet(E)
          BY <2>5
        <5>. HIDE DEF E
        <5>2. x \notin E
          BY <4>2 DEF E
        <5>3. Cardinality(E \cup {x}) = Cardinality(E) + 1
          BY <5>1, <5>2, FS_AddElement
        <5>4. Cardinality(E \cup {x}) <= Cardinality(F)
          BY <5>1, <5>3
        <5>. QED
          BY <5>4 DEF E
      <4>. QED
        BY <4>1, <4>2
    <3>. QED
      BY <2>5, <3>1, <3>2, <2>4, CardinalityMonotone
  <2>9. Cardinality(G) \in Nat
    BY FrontsFinite
  <2>10. CASE l = i
    <3>1. \A j \in Commands(a, p) : j <= i
      BY <2>10, SessionIds DEF Queue
    <3>2. next = {}
      <4>. SUFFICES ASSUME NEW j \in next PROVE FALSE
        OBVIOUS
      <4>1. j \in Nat /\ i \in Nat /\ i < j /\ j <= i
        BY <3>1, SessionIds DEF Before, Commands
      <4>. QED
        BY <4>1
    <3>3. m = 0 /\ l # 0
      BY <1>7, <2>10, SessionIds DEF Commands
    <3>4. Cardinality(G) <= n + 0
      <4>. HIDE DEF G, F
      <4>. QED
        BY <2>5, <2>6, <2>7, <2>9, <3>2, <3>3
    <3>. QED
      BY <1>4, <1>5, <3>3, <3>4 DEF Queue
  <2>11. CASE l # i
    <3>1. m = l
      BY <2>11
    <3>2. Cardinality(G) <= Cardinality(F)
      <4>1. CASE next = {}
        <5>. HIDE DEF G, F
        <5>. QED
          BY <4>1, <2>5, <2>7, <2>9
      <4>2. CASE next # {}
        BY <4>2, <2>8
      <4>. QED
        BY <4>1, <4>2
    <3>3. Cardinality(G) <= n + (IF m = 0 THEN 0 ELSE 1)
      <4>. HIDE DEF G, F
      <4>. QED
        BY <2>5, <2>6, <2>9, <3>1, <3>2
    <3>. QED
      BY <1>4, <1>5, <3>3 DEF Queue
  <2>. QED
    BY <2>10, <2>11
<1>. QED
  BY <1>6, <1>7

(* A new command joins the queue, behind its lock if there is one.         *)
LEMMA QueueJoins ==
    ASSUME NEW a \in [Ids -> Attempt], NEW b \in [Ids -> Attempt], NEW i \in Ids,
           \A j \in Ids \ {i} : b[j] = a[j],
           a[i].kind # "exec", b[i].kind = "exec",
           NEW p \in Ids, b[i].of = p, NEW l \in Ids \cup {0}, NEW n \in Nat,
           Queue(a, p, l, n), \A j \in Commands(a, p) : j < i,
           b[i].pc = (IF l = 0 THEN "known" ELSE "queued")
    PROVE  Queue(b, p, i, n)
<1>1. Commands(b, p) = Commands(a, p) \cup {i} /\ i \notin Commands(a, p)
  BY DEF Commands
<1>2. ASSUME NEW k, NEW j \in Commands(a, p)
      PROVE  Before(b, p, k, j) <=> Before(a, p, k, j)
  <2>1. j \in Nat /\ i \in Nat /\ j < i
    BY SessionIds DEF Commands
  <2>2. k = i => ~(k < j)
    BY <2>1
  <2>. QED
    BY <1>1, <2>1, <2>2 DEF Before
<1>3. i # 0 /\ b[i].pc # "dead" /\ \A j \in Commands(b, p) : j <= i
  <2>1. i # 0 /\ b[i].pc # "dead"
    BY SessionIds
  <2>2. ASSUME NEW j \in Commands(b, p) PROVE j <= i
    <3>1. j \in Nat /\ i \in Nat /\ (j = i \/ j < i)
      BY <1>1, SessionIds DEF Commands
    <3>. QED
      BY <3>1
  <2>. QED
    BY <2>1, <2>2
<1>4. l # 0 => Before(b, p, l, i) /\ l \in Ids /\ b[l].pc # "dead"
  <2>. SUFFICES ASSUME l # 0 PROVE Before(b, p, l, i) /\ l \in Ids /\ b[l].pc # "dead"
    OBVIOUS
  <2>1. l \in Commands(a, p) /\ a[l].pc # "dead" /\ \A j \in Commands(a, p) : j <= l
    BY DEF Queue
  <2>2. l # i /\ l < i /\ l \in Ids
    BY <1>1, <2>1 DEF Commands
  <2>3. \A j \in Commands(b, p) : j < i => j <= l
    <3>. SUFFICES ASSUME NEW j \in Commands(b, p), j < i PROVE j <= l
      OBVIOUS
    <3>1. j \in Nat /\ i \in Nat /\ j # i
      BY SessionIds DEF Commands
    <3>. QED
      BY <3>1, <1>1, <2>1
  <2>. QED
    BY <1>1, <2>1, <2>2, <2>3 DEF Before
<1>5. \A j \in Commands(b, p) : b[j].pc = "queued" => \E k \in Ids : Before(b, p, k, j)
  <2>1. \A j \in Commands(a, p) : b[j].pc = "queued" => \E k \in Ids : Before(b, p, k, j)
    BY <1>2, <1>1 DEF Queue, Commands
  <2>. QED
    BY <1>1, <1>4, <2>1
<1>6. \A j \in Commands(a, p) : j \in Fronts(b, p) => j \in Fronts(a, p)
  <2>. SUFFICES ASSUME NEW j \in Commands(a, p), j \in Fronts(b, p) PROVE j \in Fronts(a, p)
    OBVIOUS
  <2>1. a[j] = b[j]
    BY DEF Commands
  <2>2. ASSUME NEW k \in Ids, Before(a, p, k, j), a[j].pc = "queued" PROVE a[k].pc = "dead"
    <3>1. b[k].pc = "dead"
      BY <2>1, <2>2, <1>2 DEF Fronts
    <3>2. k # i
      BY <2>2, <1>1 DEF Before
    <3>. QED
      BY <3>1, <3>2
  <2>. QED
    BY <2>1, <2>2 DEF Fronts
<1>. DEFINE F == Fronts(a, p)
            G == Fronts(b, p)
<1>7. G \subseteq F \cup (IF l = 0 THEN {i} ELSE {})
  <2>1. l # 0 => i \notin G
    BY <1>4 DEF Fronts
  <2>2. \A j \in G : j \in Commands(a, p) \/ j = i
    BY <1>1 DEF Fronts
  <2>. QED
    BY <1>6, <2>1, <2>2
<1>8. Cardinality(F) <= n + (IF l = 0 THEN 0 ELSE 1)
  BY DEF Queue
<1>9. F \subseteq Ids /\ G \subseteq Ids /\ Cardinality(F) \in Nat /\ Cardinality(G) \in Nat
      /\ IsFiniteSet(F)
  BY FrontsFinite, SessionIds
<1>10. i \notin F
  BY <1>1 DEF Fronts
<1>. HIDE DEF F, G
<1>11. Cardinality(G) <= n + 1
  <2>1. CASE l = 0
    <3>1. G \subseteq F \cup {i} /\ F \cup {i} \subseteq Ids
      BY <1>7, <1>9, <2>1
    <3>2. Cardinality(F \cup {i}) = Cardinality(F) + 1
      BY <1>9, <1>10, FS_AddElement
    <3>3. Cardinality(G) <= Cardinality(F \cup {i})
      BY <1>9, <3>1, CardinalityMonotone
    <3>. QED
      BY <1>8, <1>9, <2>1, <3>2, <3>3
  <2>2. CASE l # 0
    <3>1. Cardinality(G) <= Cardinality(F)
      BY <1>7, <1>9, <2>2, CardinalityMonotone
    <3>. QED
      BY <1>8, <1>9, <2>2, <3>1
  <2>. QED
    BY <2>1, <2>2
<1>. QED
  BY <1>1, <1>3, <1>5, <1>11 DEF Queue, G

(* The lock is deleted, whoever holds it.                                  *)
LEMMA QueueCut ==
    ASSUME NEW a, NEW p \in Ids, NEW l \in Ids \cup {0}, NEW n \in Nat, Queue(a, p, l, n)
    PROVE  Queue(a, p, 0, IF l # 0 THEN n + 1 ELSE n)
BY FrontsFinite DEF Queue

(* The running commands are among the fronts.                              *)
LEMMA QueueBound ==
    ASSUME NEW a, NEW p \in Ids, NEW l \in Ids \cup {0}, NEW n \in Nat, Queue(a, p, l, n)
    PROVE  Cardinality({i \in Commands(a, p) : a[i].pc \notin {"queued", "dead"}}) <= 1 + n
<1>. DEFINE S == {i \in Commands(a, p) : a[i].pc \notin {"queued", "dead"}}
<1>1. S \subseteq Fronts(a, p) /\ S \subseteq Ids
  BY DEF Fronts, Commands
<1>2. Cardinality(S) <= Cardinality(Fronts(a, p)) /\ Cardinality(S) \in Nat
  BY <1>1, FrontsFinite, CardinalityMonotone
<1>3. Cardinality(Fronts(a, p)) <= n + (IF l = 0 THEN 0 ELSE 1)
  BY DEF Queue
<1>. HIDE DEF S
<1>4. Cardinality(S) <= 1 + n
  BY <1>2, <1>3, FrontsFinite
<1>. QED
  BY <1>4 DEF S

-----------------------------------------------------------------------------
(* Steps of one attempt                                                    *)

LEMMA Facts ==
    ASSUME IInv
    PROVE  /\ tab \in [Tabs -> Tab] /\ att \in [Ids -> Attempt]
           /\ lock \in [Ids -> Ids \cup {0}] /\ cut \in [Ids -> Nat]
           /\ job \in [Ids -> [Closers -> Job]]
           /\ password \in Nat /\ known \in BOOLEAN /\ prompt \in Ids \cup {0}
           /\ dialog \subseteq Tabs /\ 0 \notin Ids
BY SessionIds DEF IInv, Types

LEMMA AttemptFacts ==
    ASSUME IInv, NEW i \in Ids
    PROVE  /\ att[i] \in Attempt /\ att[i].pc \in Phase
           /\ att[i].kind \in {"none", "shell", "exec"}
           /\ att[i].known \in BOOLEAN /\ att[i].ask \in BOOLEAN
           /\ att[i].kind = "shell" => att[i].of \in Tabs /\ tab[att[i].of].is # "unused"
           /\ att[i].kind = "exec" => att[i].of \in Ids
           /\ att[i].kind = "none" <=> att[i].pc = "unused"
           /\ att[i].pc = "loading" => att[i].kind = "shell"
           /\ att[i].pc = "queued" => att[i].kind = "exec"
           /\ att[i].ask => att[i].kind = "shell"
<1>1. att[i] \in Attempt
  BY Facts
<1>. QED
  BY <1>1 DEF IInv, Attempts, Attempt

LEMMA TabFacts ==
    ASSUME IInv, NEW t \in Tabs
    PROVE  /\ tab[t] \in Tab /\ TabFits(t, tab[t], att)
           /\ tab[t].is \in {"unused", "open", "closed"} /\ tab[t].session \in Ids \cup {0}
           /\ tab[t].overlapped \in BOOLEAN
<1>1. tab[t] \in Tab
  BY Facts
<1>. QED
  BY <1>1 DEF IInv, TabsFit, Tab

(* Attempt i, which is under way, gets to pc.                              *)
StepsTo(i, pc) ==
    /\ att' \in [Ids -> Attempt]
    /\ att[i].pc # "unused" /\ att'[i].pc = pc
    /\ pc \in Phase \ {"unused", "loading", "queued"}
    /\ att'[i].kind = att[i].kind /\ att'[i].of = att[i].of /\ att'[i].ask = att[i].ask
    /\ \A j \in Ids \ {i} : att'[j] = att[j]

LEMMA GoesTo ==
    ASSUME IInv, NEW i \in Ids, NEW pc \in Phase \ {"unused", "loading", "queued"},
           To(i, pc), att[i].pc # "unused"
    PROVE  StepsTo(i, pc)
<1>. DEFINE k == [att[i] EXCEPT !.pc = pc]
<1>1. k \in Attempt /\ k.pc = pc /\ k.kind = att[i].kind /\ k.of = att[i].of
      /\ k.ask = att[i].ask
  BY AttemptFacts DEF Attempt
<1>2. att' = [att EXCEPT ![i] = k]
  BY DEF To
<1>. HIDE DEF k
<1>. QED
  BY <1>1, <1>2, Facts DEF StepsTo

LEMMA Releases ==
    ASSUME IInv, NEW i \in Ids, att' = Release(i)
    PROVE  \/ att' = att /\ att[i].pc # "registered"
           \/ att[i].pc = "registered" /\ StepsTo(i, "releasing")
<1>1. CASE att[i].pc = "registered"
  <2>1. To(i, "releasing")
    BY <1>1 DEF Release, Registered, To
  <2>. QED
    BY <1>1, <2>1, GoesTo DEF Phase
<1>2. CASE att[i].pc # "registered"
  BY <1>2 DEF Release, Registered
<1>. QED
  BY <1>1, <1>2

LEMMA AttemptsStep ==
    ASSUME IInv, NEW i \in Ids, NEW pc, StepsTo(i, pc),
           \A t \in Tabs : tab[t].is # "unused" => tab'[t].is # "unused"
    PROVE  Attempts'
<1>. SUFFICES ASSUME NEW j \in Ids
              PROVE  /\ att'[j].pc # "unused" =>
                            /\ att'[j].kind # "none"
                            /\ \A k \in Ids : k < j => att'[k].pc # "unused"
                     /\ att'[j].pc = "unused" => att'[j].kind = "none"
                     /\ att'[j].kind = "shell" =>
                            att'[j].of \in Tabs /\ tab'[att'[j].of].is # "unused"
                     /\ att'[j].kind = "exec" => att'[j].of \in Ids
                     /\ att'[j].pc = "loading" => att'[j].kind = "shell"
                     /\ att'[j].pc = "queued" => att'[j].kind = "exec"
                     /\ att'[j].ask => att'[j].kind = "shell"
  BY DEF Attempts
<1>1. \A k \in Ids : att'[k].pc # "unused" <=> att[k].pc # "unused"
  BY DEF StepsTo
<1>2. att'[j].kind = att[j].kind /\ att'[j].of = att[j].of /\ att'[j].ask = att[j].ask
  BY DEF StepsTo
<1>3. att'[j].pc \in {"loading", "queued"} => att'[j] = att[j]
  BY DEF StepsTo
<1>. QED
  BY <1>1, <1>2, <1>3 DEF IInv, Attempts

LEMMA TodosStep ==
    ASSUME IInv, NEW i \in Ids, NEW pc, StepsTo(i, pc),
           \A p \in Ids, call \in Closers : job'[p][call].todo \subseteq job[p][call].todo
    PROVE  Todos'
<1>1. \A j \in Ids : att'[j].kind = att[j].kind
  BY DEF StepsTo
<1>2. \A p \in Ids, call \in Closers : job[p][call].todo \subseteq Ids
  <2>. SUFFICES ASSUME NEW p \in Ids, NEW call \in Closers PROVE job[p][call].todo \subseteq Ids
    OBVIOUS
  <2>1. job[p][call] \in Job
    BY Facts
  <2>. QED
    BY <2>1 DEF Job
<1>. QED
  BY <1>1, <1>2 DEF IInv, Todos

LEMMA PromptStep ==
    ASSUME IInv, NEW i \in Ids, NEW pc, StepsTo(i, pc), att[i].pc # "prompting",
           prompt' = prompt
    PROVE  Prompted'
BY Facts DEF IInv, Prompted, StepsTo

(* A tab that is not touched still fits.                                   *)
LEMMA TabFitsStep ==
    ASSUME IInv, NEW i \in Ids, NEW pc, StepsTo(i, pc), NEW t \in Tabs, tab'[t] = tab[t],
           att[i].pc \in Ended => pc \in Ended,
           att[i].pc = "registered" /\ pc # "registered" => att[i].kind = "exec"
    PROVE  TabFits(t, tab'[t], att')
<1>1. TabFits(t, tab[t], att) /\ tab[t] \in Tab
  BY TabFacts
<1>2. \A j \in Ids : att'[j].kind = att[j].kind /\ att'[j].of = att[j].of
  BY DEF StepsTo
<1>3. \A j \in Ids : att[j].pc \in Ended => att'[j].pc \in Ended
  BY DEF StepsTo
<1>4. tab[t].state = "online" => tab[t].is = "open"
  BY <1>1 DEF TabFits
<1>5. tab[t].is = "open" /\ att[tab[t].session].pc = "registered"
          => att'[tab[t].session].pc = "registered"
  BY <1>1 DEF TabFits, StepsTo
<1>. QED
  BY <1>1, <1>2, <1>3, <1>4, <1>5 DEF TabFits

LEMMA TabsStep ==
    ASSUME IInv, NEW i \in Ids, NEW pc, StepsTo(i, pc), tab' = tab,
           att[i].pc \in Ended => pc \in Ended,
           att[i].pc = "registered" /\ pc # "registered" => att[i].kind = "exec"
    PROVE  TabsFit'
BY TabFitsStep DEF TabsFit

(* What updateTabState does to the tabs.                                   *)
LEMMA Shows ==
    ASSUME IInv, NEW i \in Ids, NEW state \in {"connecting", "online", "error"},
           TabShows(i, state)
    PROVE  /\ tab' \in [Tabs -> Tab]
           /\ \A t \in Tabs :
                /\ tab'[t].is = tab[t].is /\ tab'[t].session = tab[t].session
                /\ tab'[t].overlapped = tab[t].overlapped
                /\ IF att[i].kind = "shell" /\ att[i].of = t /\ tab[t].is = "open"
                   THEN tab'[t].state = state ELSE tab'[t] = tab[t]
<1>1. CASE att[i].kind = "shell" /\ tab[att[i].of].is = "open"
  <2>. DEFINE u == att[i].of
              x == [tab[u] EXCEPT !.state = state]
  <2>1. u \in Tabs
    BY <1>1, AttemptFacts
  <2>2. tab[u] \in Tab
    BY <2>1, Facts
  <2>3. /\ x \in Tab /\ x.state = state /\ x.is = tab[u].is
        /\ x.session = tab[u].session /\ x.overlapped = tab[u].overlapped
    BY <2>2 DEF Tab
  <2>4. tab' = [tab EXCEPT ![u] = x]
    BY <1>1 DEF TabShows
  <2>. HIDE DEF x
  <2>5. tab' \in [Tabs -> Tab] /\ tab'[u] = x /\ \A t \in Tabs \ {u} : tab'[t] = tab[t]
    BY <2>1, <2>3, <2>4, Facts
  <2>. QED
    BY <1>1, <2>3, <2>5
<1>2. CASE ~(att[i].kind = "shell" /\ tab[att[i].of].is = "open")
  BY <1>2, Facts DEF TabShows
<1>. QED
  BY <1>1, <1>2

(* An attempt that is not at its result shows its progress.                *)
LEMMA TabsShow ==
    ASSUME IInv, NEW i \in Ids, NEW pc, StepsTo(i, pc), att[i].pc \notin Ended,
           NEW state \in {"connecting", "error"}, TabShows(i, state)
    PROVE  TabsFit' /\ tab' \in [Tabs -> Tab] /\ \A t \in Tabs : tab'[t].is = tab[t].is
<1>. SUFFICES ASSUME NEW t \in Tabs PROVE TabFits(t, tab'[t], att')
  BY Shows DEF TabsFit
<1>1. CASE tab'[t] = tab[t]
  BY <1>1, TabFitsStep DEF Ended
<1>2. CASE tab'[t] # tab[t]
  <2>1. /\ tab'[t].state = state /\ tab[t].is = "open" /\ tab'[t].is = "open"
        /\ tab'[t].session = tab[t].session /\ tab'[t].overlapped = tab[t].overlapped
    BY <1>2, Shows
  <2>2. TabFits(t, tab[t], att)
    BY TabFacts
  <2>3. \A j \in Ids : att'[j].kind = att[j].kind /\ att'[j].of = att[j].of
    BY DEF StepsTo
  <2>4. \A j \in Ids : att[j].pc \in Ended => att'[j].pc \in Ended
    BY DEF StepsTo
  <2>. QED
    BY <2>1, <2>2, <2>3, <2>4 DEF TabFits
<1>. QED
  BY <1>1, <1>2

LEMMA KeptStep ==
    ASSUME IInv, NEW i \in Ids, NEW pc, StepsTo(i, pc), password' \in {password, 0},
           att[i].pc \in {"registered", "releasing"} <=> pc \in {"registered", "releasing"}
    PROVE  Kept'
<1>1. Held(att') = Held(att)
  BY DEF Held, StepsTo
<1>2. Cardinality(Held(att)) \in Nat
  BY SessionIds DEF Held
<1>. QED
  BY <1>1, <1>2 DEF IInv, Kept

LEMMA QueuesStep ==
    ASSUME IInv, NEW i \in Ids, NEW pc, StepsTo(i, pc),
           (pc # "dead" /\ att[i].pc \notin {"queued", "dead"}) \/ att[i].kind # "exec",
           lock' = lock, cut' = cut
    PROVE  Queues'
<1>1. SameCommands(att, att')
  BY DEF SameCommands, StepsTo
<1>2. \A p \in Ids : Queue(att, p, lock[p], cut[p]) /\ lock[p] \in Ids \cup {0} /\ cut[p] \in Nat
  BY Facts DEF IInv, Queues
<1>. QED
  BY <1>1, <1>2, QueueSame DEF Queues

LEMMA QueuesEnd ==
    ASSUME IInv, NEW i \in Ids, StepsTo(i, "dead"), att[i].pc \notin {"queued", "dead"},
           Unlocked(i), cut' = cut
    PROVE  Queues' /\ lock' \in [Ids -> Ids \cup {0}]
<1>1. lock' \in [Ids -> Ids \cup {0}]
  BY Facts, AttemptFacts DEF Unlocked
<1>2. \A p \in Ids : lock'[p] = IF att[i].kind = "exec" /\ att[i].of = p /\ lock[p] = i
                                THEN 0 ELSE lock[p]
  BY Facts, AttemptFacts DEF Unlocked
<1>3. ASSUME NEW p \in Ids PROVE Queue(att', p, lock'[p], cut'[p])
  <2>1. Queue(att, p, lock[p], cut[p]) /\ lock[p] \in Ids \cup {0} /\ cut[p] \in Nat
    BY Facts DEF IInv, Queues
  <2>2. /\ att \in [Ids -> Attempt] /\ att' \in [Ids -> Attempt]
        /\ \A j \in Ids \ {i} : att'[j] = att[j]
        /\ att'[i].kind = att[i].kind /\ att'[i].of = att[i].of
        /\ att[i].pc \notin {"unused", "queued", "dead"} /\ att'[i].pc = "dead"
    BY Facts DEF StepsTo
  <2>3. Queue(att', p, IF att[i].kind = "exec" /\ att[i].of = p /\ lock[p] = i
                       THEN 0 ELSE lock[p], cut[p])
    BY <2>1, <2>2, QueueEnds
  <2>. QED
    BY <1>2, <2>3
<1>. QED
  BY <1>1, <1>3 DEF Queues

(* A new attempt i begins, and perhaps a registered shell is released.     *)
Begins(i) ==
    /\ i \in Fresh /\ att' \in [Ids -> Attempt]
    /\ att'[i].kind \in {"shell", "exec"}
    /\ att'[i].kind = "shell" =>
           /\ att'[i].of \in Tabs /\ tab'[att'[i].of].is # "unused"
           /\ att'[i].pc \in {"loading", "known"}
    /\ att'[i].kind = "exec" => att'[i].of \in Ids /\ att'[i].pc \in {"queued", "known"}
                                 /\ ~att'[i].ask
    /\ \A j \in Ids \ {i} :
           \/ att'[j] = att[j]
           \/ /\ att[j].pc = "registered" /\ att'[j].pc = "releasing"
              /\ att'[j].kind = att[j].kind /\ att'[j].of = att[j].of
              /\ att'[j].ask = att[j].ask

LEMMA FreshFacts ==
    ASSUME IInv, NEW i \in Fresh
    PROVE  /\ i \in Ids /\ att[i].pc = "unused" /\ att[i].kind = "none"
           /\ \A k \in Ids : att[k].pc # "unused" <=> k < i
<1>1. i \in Ids /\ att[i].pc = "unused" /\ \A k \in 1..(i - 1) : att[k].pc # "unused"
  BY DEF Fresh
<1>2. ASSUME NEW k \in Ids, k < i PROVE att[k].pc # "unused"
  <2>1. k \in 1..(i - 1)
    BY <1>1, <1>2, SessionIds DEF Ids
  <2>. QED
    BY <1>1, <2>1
<1>3. ASSUME NEW k \in Ids, att[k].pc # "unused" PROVE k < i
  <2>1. k \in Nat /\ i \in Nat /\ k # i /\ ~(i < k)
    BY <1>1, <1>3, SessionIds DEF IInv, Attempts
  <2>. QED
    BY <2>1
<1>. QED
  BY <1>1, <1>2, <1>3, AttemptFacts

LEMMA BeginsKeeps ==
    ASSUME IInv, NEW i \in Ids, Begins(i), prompt' = prompt, password' = password,
           \A p \in Ids, call \in Closers : job'[p][call].todo = job[p][call].todo,
           \A t \in Tabs : tab[t].is # "unused" => tab'[t].is # "unused"
    PROVE  Attempts' /\ Prompted' /\ Todos' /\ Kept'
<1>1. /\ att[i].pc = "unused" /\ att[i].kind = "none"
      /\ \A k \in Ids : att[k].pc # "unused" <=> k < i
  BY FreshFacts DEF Begins
<1>2. \A j \in Ids \ {i} : /\ att'[j].kind = att[j].kind /\ att'[j].of = att[j].of
                           /\ att'[j].ask = att[j].ask
                           /\ att'[j].pc = "unused" <=> att[j].pc = "unused"
                           /\ att'[j].pc \in {"loading", "queued", "prompting"}
                                  => att'[j].pc = att[j].pc
                           /\ att'[j].pc = "prompting" <=> att[j].pc = "prompting"
  BY DEF Begins
<1>3. Attempts'
  <2>. SUFFICES ASSUME NEW j \in Ids
                PROVE  /\ att'[j].pc # "unused" =>
                              /\ att'[j].kind # "none"
                              /\ \A k \in Ids : k < j => att'[k].pc # "unused"
                       /\ att'[j].pc = "unused" => att'[j].kind = "none"
                       /\ att'[j].kind = "shell" =>
                              att'[j].of \in Tabs /\ tab'[att'[j].of].is # "unused"
                       /\ att'[j].kind = "exec" => att'[j].of \in Ids
                       /\ att'[j].pc = "loading" => att'[j].kind = "shell"
                       /\ att'[j].pc = "queued" => att'[j].kind = "exec"
                       /\ att'[j].ask => att'[j].kind = "shell"
    BY DEF Attempts
  <2>1. CASE j = i
    <3>1. \A k \in Ids : k < i => k # i /\ att'[k].pc # "unused"
      BY <1>1, <1>2, SessionIds
    <3>. QED
      BY <2>1, <3>1 DEF Begins
  <2>2. CASE j # i
    <3>1. att[j].pc # "unused" => \A k \in Ids : k < j => k # i /\ att'[k].pc # "unused"
      <4>. SUFFICES ASSUME att[j].pc # "unused", NEW k \in Ids, k < j
                    PROVE  k # i /\ att'[k].pc # "unused"
        OBVIOUS
      <4>1. k \in Nat /\ j \in Nat /\ i \in Nat /\ j < i
        BY <1>1, SessionIds
      <4>2. k < i /\ k # i
        BY <4>1
      <4>. QED
        BY <1>1, <1>2, <4>2
    <3>. QED
      BY <2>2, <3>1, <1>2 DEF IInv, Attempts
  <2>. QED
    BY <2>1, <2>2
<1>4. Prompted'
  BY <1>1, <1>2, Facts DEF IInv, Prompted
<1>5. Todos'
  <2>1. \A p \in Ids, call \in Closers : job[p][call].todo \subseteq Ids
    <3>. SUFFICES ASSUME NEW p \in Ids, NEW call \in Closers PROVE job[p][call].todo \subseteq Ids
      OBVIOUS
    <3>1. job[p][call] \in Job
      BY Facts
    <3>. QED
      BY <3>1 DEF Job
  <2>. QED
    BY <1>1, <1>2, <2>1 DEF IInv, Todos
<1>6. Kept'
  <2>1. Held(att') = Held(att)
    BY <1>1 DEF Held, Begins
  <2>. QED
    BY <2>1 DEF IInv, Kept
<1>. QED
  BY <1>3, <1>4, <1>5, <1>6

(* The queues do not see shells.                                           *)
LEMMA ShellBegins ==
    ASSUME IInv, NEW i \in Ids, Begins(i), att'[i].kind = "shell", lock' = lock, cut' = cut
    PROVE  Queues'
<1>1. SameCommands(att, att')
  BY FreshFacts DEF SameCommands, Begins
<1>2. \A p \in Ids : Queue(att, p, lock[p], cut[p]) /\ lock[p] \in Ids \cup {0} /\ cut[p] \in Nat
  BY Facts DEF IInv, Queues
<1>. QED
  BY <1>1, <1>2, QueueSame DEF Queues

(* Tabs other than the one of the new attempt still fit.                   *)
LEMMA TabElsewhere ==
    ASSUME IInv, NEW i \in Ids, Begins(i), NEW t \in Tabs, tab'[t] = tab[t],
           att'[i].kind = "shell" => att'[i].of # t,
           \A j \in Ids \ {i} : att'[j] # att[j] => att[j].kind = "shell" /\ att[j].of # t
    PROVE  TabFits(t, tab'[t], att')
<1>1. TabFits(t, tab[t], att) /\ tab[t] \in Tab
  BY TabFacts
<1>2. att[i].kind = "none"
  BY FreshFacts DEF Begins
<1>3. tab[t].is = "open" => /\ tab[t].session \in Ids \ {i}
                            /\ att'[tab[t].session] = att[tab[t].session]
  BY <1>1, <1>2 DEF TabFits
<1>4. \A j \in Ids : att'[j].kind = "shell" /\ att'[j].of = t
          => att'[j] = att[j] /\ att[j].kind = "shell"
  BY DEF Begins
<1>5. tab[t].state = "online" => tab[t].is = "open"
  BY <1>1 DEF TabFits
<1>. QED
  BY <1>1, <1>3, <1>4, <1>5 DEF TabFits

-----------------------------------------------------------------------------
(* What the user does                                                      *)

LEMMA AddTabKeeps ==
    ASSUME IInv, NEW t \in Tabs, NEW i \in Ids, AddTab(t, i)
    PROVE  IInv'
<1>1. /\ tab[t].is = "unused" /\ i \in Fresh
      /\ tab' = [tab EXCEPT ![t] = [NoTab EXCEPT !.is = "open", !.session = i,
                                                 !.state = "connecting"]]
      /\ lock' = lock /\ cut' = cut /\ job' = job /\ password' = password
      /\ known' = known /\ prompt' = prompt /\ dialog' = dialog
  BY DEF AddTab
<1>2. PICK pc \in {"loading", "known"}, ask \in BOOLEAN :
        att' = [att EXCEPT ![i] = [Unused EXCEPT !.kind = "shell", !.of = t,
                                                 !.pc = pc, !.ask = ask]]
  BY DEF AddTab
<1>. DEFINE x == [NoTab EXCEPT !.is = "open", !.session = i, !.state = "connecting"]
            k == [Unused EXCEPT !.kind = "shell", !.of = t, !.pc = pc, !.ask = ask]
<1>3. /\ x \in Tab /\ x.is = "open" /\ x.session = i /\ x.state = "connecting"
      /\ k \in Attempt /\ k.kind = "shell" /\ k.of = t /\ k.pc = pc
  BY DEF NoTab, Unused, Tab, Attempt, Phase
<1>4. tab' = [tab EXCEPT ![t] = x] /\ att' = [att EXCEPT ![i] = k]
  BY <1>1, <1>2
<1>. HIDE DEF x, k
<1>5. /\ tab' \in [Tabs -> Tab] /\ tab'[t] = x /\ \A u \in Tabs \ {t} : tab'[u] = tab[u]
      /\ att' \in [Ids -> Attempt] /\ att'[i] = k /\ \A j \in Ids \ {i} : att'[j] = att[j]
  BY <1>3, <1>4, Facts
<1>6. Begins(i)
  BY <1>1, <1>3, <1>5 DEF Begins
<1>7. Attempts' /\ Prompted' /\ Todos' /\ Kept' /\ Queues'
  <2>1. \A u \in Tabs : tab[u].is # "unused" => tab'[u].is # "unused"
    BY <1>1, <1>5
  <2>. QED
    BY <1>1, <1>3, <1>5, <1>6, <2>1, BeginsKeeps, ShellBegins
<1>8. ASSUME NEW u \in Tabs PROVE TabFits(u, tab'[u], att')
  <2>1. CASE u = t
    <3>1. \A j \in Ids : att'[j].kind = "shell" /\ att'[j].of = t => j = i
      BY <1>1, <1>5, AttemptFacts
    <3>. QED
      BY <1>3, <1>5, <2>1, <3>1 DEF TabFits
  <2>2. CASE u # t
    BY <1>3, <1>5, <1>6, <2>2, TabElsewhere
  <2>. QED
    BY <2>1, <2>2
<1>9. Types'
  BY <1>1, <1>5, Facts DEF Types
<1>. QED
  BY <1>7, <1>8, <1>9 DEF IInv, TabsFit

(* A job of a session is updated in its phase.                             *)
LEMMA JobMoves ==
    ASSUME IInv, NEW p \in Ids, job' = [job EXCEPT ![p]["closeSsh"].pc = "shell"]
    PROVE  /\ job' \in [Ids -> [Closers -> Job]]
           /\ \A q \in Ids, call \in Closers : job'[q][call].todo = job[q][call].todo
<1>. DEFINE x == [job[p]["closeSsh"] EXCEPT !.pc = "shell"]
            y == [job[p] EXCEPT !["closeSsh"] = x]
<1>1. job[p] \in [Closers -> Job] /\ "closeSsh" \in Closers
  BY Facts DEF Closers
<1>2. x \in Job /\ x.todo = job[p]["closeSsh"].todo
  <2>1. job[p]["closeSsh"] \in Job
    BY <1>1
  <2>. QED
    BY <2>1 DEF Job
<1>3. job' = [job EXCEPT ![p] = y]
  OBVIOUS
<1>. HIDE DEF x
<1>4. y \in [Closers -> Job] /\ \A call \in Closers : y[call].todo = job[p][call].todo
  BY <1>1, <1>2
<1>. HIDE DEF y
<1>. QED
  BY ZenonT(60), <1>3, <1>4, Facts

LEMMA ReconnectTabKeeps ==
    ASSUME IInv, NEW t \in Tabs, NEW i \in Ids, ReconnectTab(t, i)
    PROVE  IInv'
<1>. DEFINE s == tab[t].session
            x == [tab[t] EXCEPT !.session = i, !.state = "connecting",
                     !.overlapped = @ \/ \E k \in Shell(t) :
                         att[k].pc \notin {"registered", "releasing", "dead"}]
            n == [Unused EXCEPT !.kind = "shell", !.of = t, !.pc = "known"]
<1>1. /\ tab[t].is = "open" /\ i \in Fresh
      /\ lock' = lock /\ cut' = cut /\ password' = password
      /\ known' = known /\ prompt' = prompt /\ dialog' = dialog
      /\ att' = [Release(s) EXCEPT ![i] = n]
      /\ job' = [job EXCEPT ![s]["closeSsh"].pc = "shell"]
  BY DEF ReconnectTab
<1>2. /\ s \in Ids /\ att[s].kind = "shell" /\ att[s].of = t /\ s # i
      /\ tab[t] \in Tab
  BY <1>1, TabFacts, FreshFacts DEF TabFits
<1>3. tab' = [tab EXCEPT ![t] = x]
  BY DEF ReconnectTab
<1>4. /\ x \in Tab /\ x.is = "open" /\ x.session = i /\ x.state = "connecting"
      /\ ~x.overlapped => \A k \in Shell(t) : att[k].pc \in Ended
  BY <1>1, <1>2 DEF Tab, Ended
<1>5. n \in Attempt /\ n.kind = "shell" /\ n.of = t /\ n.pc = "known"
  BY DEF Unused, Attempt, Phase
<1>6. /\ Release(s) \in [Ids -> Attempt]
      /\ \A j \in Ids : \/ Release(s)[j] = att[j]
                        \/ /\ j = s /\ att[j].pc = "registered"
                           /\ Release(s)[j].pc = "releasing"
                           /\ Release(s)[j].kind = att[j].kind /\ Release(s)[j].of = att[j].of
                           /\ Release(s)[j].ask = att[j].ask
  <2>1. CASE att[s].pc = "registered"
    <3>. DEFINE k == [att[s] EXCEPT !.pc = "releasing"]
    <3>1. /\ k \in Attempt /\ k.pc = "releasing" /\ k.kind = att[s].kind
          /\ k.of = att[s].of /\ k.ask = att[s].ask
      BY <1>2, AttemptFacts DEF Attempt, Phase
    <3>2. Release(s) = [att EXCEPT ![s] = k]
      BY <2>1, <1>2 DEF Release, Registered
    <3>. HIDE DEF k
    <3>. QED
      BY <1>2, <2>1, <3>1, <3>2, Facts
  <2>2. CASE att[s].pc # "registered"
    BY <2>2, Facts DEF Release, Registered
  <2>. QED
    BY <2>1, <2>2
<1>. HIDE DEF x, n, s
<1>7. /\ att' \in [Ids -> Attempt] /\ att'[i] = n
      /\ \A j \in Ids \ {i} :
            \/ att'[j] = att[j]
            \/ /\ j = s /\ att[j].pc = "registered" /\ att'[j].pc = "releasing"
               /\ att'[j].kind = att[j].kind /\ att'[j].of = att[j].of
              /\ att'[j].ask = att[j].ask
  BY <1>1, <1>5, <1>6
<1>8. tab' \in [Tabs -> Tab] /\ tab'[t] = x /\ \A u \in Tabs \ {t} : tab'[u] = tab[u]
  BY <1>3, <1>4, Facts
<1>9. Begins(i)
  BY <1>1, <1>4, <1>5, <1>7, <1>8 DEF Begins
<1>10. /\ job' \in [Ids -> [Closers -> Job]]
       /\ \A q \in Ids, call \in Closers : job'[q][call].todo = job[q][call].todo
  BY <1>1, <1>2, JobMoves
<1>11. Attempts' /\ Prompted' /\ Todos' /\ Kept' /\ Queues'
  <2>1. \A u \in Tabs : tab[u].is # "unused" => tab'[u].is # "unused"
    BY <1>1, <1>4, <1>8
  <2>. QED
    BY <1>1, <1>5, <1>7, <1>9, <1>10, <2>1, BeginsKeeps, ShellBegins
<1>12. ASSUME NEW u \in Tabs PROVE TabFits(u, tab'[u], att')
  <2>1. CASE u = t
    <3>1. ~x.overlapped => \A j \in Ids :
              att'[j].kind = "shell" /\ att'[j].of = t /\ j # i => att'[j].pc \in Ended
      <4>. SUFFICES ASSUME ~x.overlapped, NEW j \in Ids, att'[j].kind = "shell",
                           att'[j].of = t, j # i
                    PROVE  att'[j].pc \in Ended
        OBVIOUS
      <4>1. j \in Shell(t)
        BY <1>7 DEF Shell
      <4>. QED
        BY <1>4, <1>7, <4>1 DEF Ended
    <3>. QED
      BY <1>4, <1>5, <1>7, <1>8, <2>1, <3>1 DEF TabFits
  <2>2. CASE u # t
    <3>1. \A j \in Ids \ {i} : att'[j] # att[j] => att[j].kind = "shell" /\ att[j].of # u
      BY <1>2, <1>7, <2>2
    <3>. QED
      BY <1>5, <1>7, <1>8, <1>9, <2>2, <3>1, TabElsewhere
  <2>. QED
    BY <2>1, <2>2
<1>13. Types'
  BY <1>1, <1>7, <1>8, <1>10, Facts DEF Types
<1>. QED
  BY <1>11, <1>12, <1>13 DEF IInv, TabsFit

LEMMA CloseTabKeeps ==
    ASSUME IInv, NEW t \in Tabs, CloseTab(t)
    PROVE  IInv'
<1>. DEFINE s == tab[t].session
            x == [NoTab EXCEPT !.is = "closed"]
<1>1. /\ tab[t].is = "open" /\ att' = Release(s)
      /\ lock' = lock /\ cut' = cut /\ password' = password
      /\ known' = known /\ prompt' = prompt /\ dialog' = dialog
      /\ job' = [job EXCEPT ![s]["closeSsh"].pc = "shell"]
      /\ tab' = [tab EXCEPT ![t] = x]
  BY DEF CloseTab
<1>2. s \in Ids /\ att[s].kind = "shell" /\ att[s].of = t
  BY <1>1, TabFacts DEF TabFits
<1>3. x \in Tab /\ x.is = "closed" /\ x.state = "idle"
  BY DEF NoTab, Tab
<1>. HIDE DEF x, s
<1>4. tab' \in [Tabs -> Tab] /\ tab'[t] = x /\ \A u \in Tabs \ {t} : tab'[u] = tab[u]
  BY <1>1, <1>3, Facts
<1>5. /\ job' \in [Ids -> [Closers -> Job]]
      /\ \A q \in Ids, call \in Closers : job'[q][call].todo = job[q][call].todo
  BY <1>1, <1>2, JobMoves
<1>6. TabFits(t, tab'[t], att')
  BY <1>3, <1>4 DEF TabFits
<1>7. \A u \in Tabs : tab[u].is # "unused" => tab'[u].is # "unused"
  BY <1>1, <1>3, <1>4
<1>8. CASE att' = att
  <2>1. Attempts' /\ Prompted' /\ Todos' /\ Kept' /\ Queues'
    BY <1>1, <1>5, <1>7, <1>8 DEF IInv, Attempts, Prompted, Todos, Kept, Queues
  <2>2. TabsFit'
    BY <1>4, <1>6, <1>8, TabFacts DEF TabsFit
  <2>. QED
    BY <1>1, <1>4, <1>5, <1>8, <2>1, <2>2, Facts DEF IInv, Types
<1>9. CASE att[s].pc = "registered" /\ StepsTo(s, "releasing")
  <2>1. Attempts' /\ Prompted' /\ Todos' /\ Kept' /\ Queues'
    <3>1. Attempts'
      BY <1>2, <1>7, <1>9, AttemptsStep
    <3>2. Prompted'
      BY <1>1, <1>2, <1>9, PromptStep
    <3>3. Todos'
      BY <1>2, <1>5, <1>9, TodosStep
    <3>4. Kept'
      BY <1>1, <1>2, <1>9, KeptStep
    <3>5. Queues'
      BY <1>1, <1>2, <1>9, QueuesStep
    <3>. QED
      BY <3>1, <3>2, <3>3, <3>4, <3>5
  <2>2. ASSUME NEW u \in Tabs \ {t} PROVE TabFits(u, tab'[u], att')
    <3>1. TabFits(u, tab[u], att) /\ tab[u] \in Tab /\ tab'[u] = tab[u]
      BY <1>4, TabFacts
    <3>2. \A j \in Ids : /\ att'[j].kind = att[j].kind /\ att'[j].of = att[j].of
                         /\ j # s => att'[j] = att[j]
      BY <1>9 DEF StepsTo
    <3>3. tab[u].is = "open" => tab[u].session \in Ids /\ tab[u].session # s
      BY <1>2, <3>1 DEF TabFits
    <3>4. tab[u].state = "online" => tab[u].is = "open"
      BY <3>1 DEF TabFits
    <3>5. \A j \in Ids : att[j].kind = "shell" /\ att[j].of = u => att'[j] = att[j]
      BY <1>2, <3>2
    <3>. QED
      BY <3>1, <3>2, <3>3, <3>4, <3>5 DEF TabFits
  <2>3. att' \in [Ids -> Attempt]
    BY <1>9 DEF StepsTo
  <2>. QED
    BY <1>1, <1>4, <1>5, <1>6, <2>1, <2>2, <2>3, Facts DEF IInv, Types, TabsFit
<1>. QED
  BY <1>1, <1>2, <1>8, <1>9, Releases

LEMMA DialogClosesKeeps ==
    ASSUME IInv, DialogCloses
    PROVE  IInv'
BY DEF IInv, DialogCloses, Types, Attempts, Prompted, Todos, TabsFit, Kept, Queues

-----------------------------------------------------------------------------
(* What the workers and the connections do                                 *)

LEMMA CredentialLoadedKeeps ==
    ASSUME IInv, NEW i \in Ids, CredentialLoaded(i)
    PROVE  IInv'
<1>1. /\ att[i].pc = "loading" /\ TabShows(i, "connecting")
      /\ To(i, "known") \/ To(i, "dead")
      /\ lock' = lock /\ cut' = cut /\ job' = job /\ password' = password
      /\ known' = known /\ prompt' = prompt /\ dialog' = dialog
  BY DEF CredentialLoaded
<1>2. PICK pc \in {"known", "dead"} : StepsTo(i, pc)
  BY <1>1, GoesTo DEF Phase
<1>3. att[i].kind = "shell"
  BY <1>1, AttemptFacts
<1>4. TabsFit' /\ tab' \in [Tabs -> Tab] /\ \A t \in Tabs : tab'[t].is = tab[t].is
  BY <1>1, <1>2, TabsShow DEF Ended
<1>5. Attempts' /\ Todos' /\ Prompted' /\ Kept' /\ Queues'
  BY <1>1, <1>2, <1>3, <1>4, AttemptsStep, TodosStep, PromptStep, KeptStep, QueuesStep
<1>6. Types'
  BY <1>1, <1>2, <1>4, Facts DEF Types, StepsTo
<1>. QED
  BY <1>4, <1>5, <1>6 DEF IInv

LEMMA WorkerStartsKeeps ==
    ASSUME IInv, NEW i \in Ids, WorkerStarts(i)
    PROVE  IInv'
<1>1. /\ att[i].pc = "known" /\ TabShows(i, "connecting")
      /\ att' = [att EXCEPT ![i].pc = "connecting", ![i].known = known]
      /\ lock' = lock /\ cut' = cut /\ job' = job /\ password' = password
      /\ known' = known /\ prompt' = prompt /\ dialog' = dialog
  BY DEF WorkerStarts
<1>. DEFINE k == [att[i] EXCEPT !.pc = "connecting", !.known = known]
<1>2. /\ k \in Attempt /\ k.pc = "connecting" /\ k.kind = att[i].kind
      /\ k.of = att[i].of /\ k.ask = att[i].ask
  BY AttemptFacts, Facts DEF Attempt, Phase
<1>3. att' = [att EXCEPT ![i] = k]
  BY <1>1
<1>. HIDE DEF k
<1>4. StepsTo(i, "connecting")
  BY <1>1, <1>2, <1>3, Facts DEF StepsTo, Phase
<1>5. TabsFit' /\ tab' \in [Tabs -> Tab] /\ \A t \in Tabs : tab'[t].is = tab[t].is
  BY <1>1, <1>4, TabsShow DEF Ended
<1>6. Attempts' /\ Todos' /\ Prompted' /\ Kept' /\ Queues'
  BY <1>1, <1>4, <1>5, AttemptsStep, TodosStep, PromptStep, KeptStep, QueuesStep
<1>7. Types'
  BY <1>1, <1>4, <1>5, Facts DEF Types, StepsTo
<1>. QED
  BY <1>5, <1>6, <1>7 DEF IInv

LEMMA WorkerAsksKeeps ==
    ASSUME IInv, NEW i \in Ids, WorkerAsks(i)
    PROVE  IInv'
<1>1. /\ att[i].pc = "connecting" /\ tab' = tab
      /\ lock' = lock /\ cut' = cut /\ job' = job /\ password' = password
      /\ known' = known /\ dialog' = dialog
      /\ \/ prompt = 0 /\ prompt' = i /\ To(i, "prompting")
         \/ prompt # 0 /\ To(i, "unanswered") /\ prompt' = prompt
  BY DEF WorkerAsks
<1>2. PICK pc \in {"prompting", "unanswered"} :
        /\ StepsTo(i, pc)
        /\ \/ prompt' = i /\ pc = "prompting"
           \/ prompt' = prompt
  BY <1>1, GoesTo DEF Phase
<1>3. TabsFit'
  BY <1>1, <1>2, TabsStep DEF Ended
<1>4. Attempts' /\ Todos' /\ Kept' /\ Queues'
  BY <1>1, <1>2, AttemptsStep, TodosStep, KeptStep, QueuesStep
<1>5. Prompted'
  <2>1. CASE prompt' = prompt
    BY <1>1, <1>2, <2>1, PromptStep
  <2>2. CASE prompt' = i /\ pc = "prompting"
    BY <1>2, <2>2 DEF Prompted, StepsTo
  <2>. QED
    BY <1>2, <2>1, <2>2
<1>6. Types'
  BY <1>1, <1>2, Facts DEF Types, StepsTo
<1>. QED
  BY <1>3, <1>4, <1>5, <1>6 DEF IInv

LEMMA AnswerKeeps ==
    ASSUME IInv, NEW accepted \in BOOLEAN, Answer(accepted)
    PROVE  IInv'
<1>1. /\ prompt # 0 /\ prompt' = 0 /\ tab' = tab
      /\ lock' = lock /\ cut' = cut /\ job' = job /\ password' = password
      /\ dialog' = dialog /\ known' \in {TRUE, known}
      /\ To(prompt, "trusted") \/ To(prompt, "refused")
  BY DEF Answer
<1>2. prompt \in Ids /\ att[prompt].pc = "prompting"
  BY <1>1, Facts DEF IInv, Prompted
<1>3. PICK pc \in {"trusted", "refused"} : StepsTo(prompt, pc)
  BY <1>1, <1>2, GoesTo DEF Phase
<1>4. TabsFit'
  BY <1>1, <1>2, <1>3, TabsStep DEF Ended
<1>5. Attempts' /\ Todos' /\ Kept' /\ Queues'
  BY <1>1, <1>2, <1>3, AttemptsStep, TodosStep, KeptStep, QueuesStep
<1>6. Prompted'
  BY <1>1 DEF Prompted
<1>7. Types'
  BY <1>1, <1>3, Facts DEF Types, StepsTo
<1>. QED
  BY <1>4, <1>5, <1>6, <1>7 DEF IInv

LEMMA WorkerOnlineKeeps ==
    ASSUME IInv, NEW i \in Ids, WorkerOnline(i)
    PROVE  IInv'
<1>1. /\ att[i].pc \in {"trusted", "connecting"} /\ TabShows(i, "online")
      /\ To(i, "registered") /\ password' = password + 1
      /\ lock' = lock /\ cut' = cut /\ job' = job
      /\ known' = known /\ prompt' = prompt /\ dialog' \in {dialog, {}}
  BY DEF WorkerOnline
<1>2. StepsTo(i, "registered")
  BY <1>1, GoesTo DEF Phase
<1>3. tab' \in [Tabs -> Tab] /\ \A t \in Tabs : tab'[t].is = tab[t].is
  BY <1>1, Shows
<1>4. ASSUME NEW t \in Tabs PROVE TabFits(t, tab'[t], att')
  <2>1. CASE tab'[t] = tab[t]
    BY <1>1, <1>2, <2>1, TabFitsStep DEF Ended
  <2>2. CASE tab'[t] # tab[t]
    <3>1. /\ tab[t].is = "open" /\ tab'[t].is = "open"
          /\ tab'[t].session = tab[t].session /\ tab'[t].overlapped = tab[t].overlapped
          /\ att[i].kind = "shell" /\ att[i].of = t
      BY <1>1, <2>2, Shows
    <3>2. TabFits(t, tab[t], att)
      BY TabFacts
    <3>3. \A j \in Ids : att'[j].kind = att[j].kind /\ att'[j].of = att[j].of
      BY <1>2 DEF StepsTo
    <3>4. \A j \in Ids : att[j].pc \in Ended => att'[j].pc \in Ended
      BY <1>2 DEF StepsTo, Ended
    <3>5. ~tab[t].overlapped => tab[t].session = i
      BY <1>1, <3>1, <3>2 DEF TabFits, Ended
    <3>6. att'[i].pc = "registered"
      BY <1>2 DEF StepsTo
    <3>. QED
      BY <3>1, <3>2, <3>3, <3>4, <3>5, <3>6 DEF TabFits
  <2>. QED
    BY <2>1, <2>2
<1>5. Kept'
  <2>1. Held(att') = Held(att) \cup {i} /\ i \notin Held(att)
    BY <1>1, <1>2 DEF Held, StepsTo
  <2>2. IsFiniteSet(Held(att)) /\ Cardinality(Held(att)) \in Nat
    BY SessionIds DEF Held
  <2>3. Cardinality(Held(att')) = Cardinality(Held(att)) + 1
    BY <2>1, <2>2, FS_AddElement
  <2>. QED
    BY <1>1, <2>2, <2>3, Facts DEF IInv, Kept
<1>6. Attempts' /\ Todos' /\ Prompted' /\ Queues'
  BY <1>1, <1>2, <1>3, AttemptsStep, TodosStep, PromptStep, QueuesStep
<1>7. Types'
  BY <1>1, <1>2, <1>3, Facts DEF Types, StepsTo
<1>. QED
  BY <1>4, <1>5, <1>6, <1>7 DEF IInv, TabsFit

LEMMA WorkerFailsKeeps ==
    ASSUME IInv, NEW i \in Ids, WorkerFails(i)
    PROVE  IInv'
<1>1. /\ att[i].pc \in {"connecting", "trusted", "refused"} /\ TabShows(i, "error")
      /\ To(i, "failing") /\ password' = 0
      /\ lock' = lock /\ cut' = cut /\ job' = job
      /\ known' = known /\ prompt' = prompt /\ dialog' = dialog
  BY DEF WorkerFails
<1>2. StepsTo(i, "failing")
  BY <1>1, GoesTo DEF Phase
<1>3. TabsFit' /\ tab' \in [Tabs -> Tab] /\ \A t \in Tabs : tab'[t].is = tab[t].is
  BY <1>1, <1>2, TabsShow DEF Ended
<1>4. Attempts' /\ Todos' /\ Prompted' /\ Kept' /\ Queues'
  BY <1>1, <1>2, <1>3, AttemptsStep, TodosStep, PromptStep, KeptStep, QueuesStep
<1>5. Types'
  BY <1>1, <1>2, <1>3, Facts DEF Types, StepsTo
<1>. QED
  BY <1>3, <1>4, <1>5 DEF IInv

LEMMA AttemptThrowsKeeps ==
    ASSUME IInv, NEW i \in Ids, AttemptThrows(i)
    PROVE  IInv'
<1>1. /\ att[i].pc = "failing" /\ TabShows(i, "error")
      /\ To(i, "dead") /\ password' = password /\ Unlocked(i)
      /\ cut' = cut /\ job' = job /\ known' = known /\ prompt' = prompt
      /\ dialog' \in {dialog} \cup IF att[i].ask THEN {{att[i].of}} ELSE {}
  BY DEF AttemptThrows
<1>2. StepsTo(i, "dead")
  BY <1>1, GoesTo DEF Phase
<1>3. TabsFit' /\ tab' \in [Tabs -> Tab] /\ \A t \in Tabs : tab'[t].is = tab[t].is
  BY <1>1, <1>2, TabsShow DEF Ended
<1>4. Attempts' /\ Todos' /\ Prompted' /\ Kept'
  BY <1>1, <1>2, <1>3, AttemptsStep, TodosStep, PromptStep, KeptStep
<1>5. Queues' /\ lock' \in [Ids -> Ids \cup {0}]
  BY <1>1, <1>2, QueuesEnd
<1>6. dialog' \subseteq Tabs
  BY <1>1, Facts, AttemptFacts
<1>7. Types'
  BY <1>1, <1>2, <1>3, <1>5, <1>6, Facts DEF Types, StepsTo
<1>. QED
  BY <1>3, <1>4, <1>5, <1>7 DEF IInv

LEMMA SessionDropsKeeps ==
    ASSUME IInv, NEW i \in Ids, SessionDrops(i)
    PROVE  IInv'
<1>1. /\ TabShows(i, "error") /\ att' = att /\ password' = password
      /\ lock' = lock /\ cut' = cut /\ job' = job
      /\ known' = known /\ prompt' = prompt /\ dialog' = dialog
  BY DEF SessionDrops
<1>2. tab' \in [Tabs -> Tab] /\ \A t \in Tabs : tab'[t].is = tab[t].is
  BY <1>1, Shows
<1>3. ASSUME NEW t \in Tabs PROVE TabFits(t, tab'[t], att')
  <2>1. TabFits(t, tab[t], att)
    BY TabFacts
  <2>2. CASE tab'[t] = tab[t]
    BY <1>1, <2>1, <2>2
  <2>3. CASE tab'[t] # tab[t]
    <3>1. /\ tab[t].is = "open" /\ tab'[t].is = "open" /\ tab'[t].state = "error"
          /\ tab'[t].session = tab[t].session /\ tab'[t].overlapped = tab[t].overlapped
      BY <1>1, <2>3, Shows
    <3>. QED
      BY <1>1, <2>1, <3>1 DEF TabFits
  <2>. QED
    BY <2>2, <2>3
<1>4. Attempts' /\ Prompted' /\ Todos' /\ Kept' /\ Queues'
  BY <1>1, <1>2 DEF IInv, Attempts, Prompted, Todos, Kept, Queues
<1>5. Types'
  BY <1>1, <1>2, Facts DEF Types
<1>. QED
  BY <1>3, <1>4, <1>5 DEF IInv, TabsFit

LEMMA ReleasedKeeps ==
    ASSUME IInv, NEW i \in Ids, Released(i)
    PROVE  IInv'
<1>1. /\ att[i].pc = "releasing" /\ To(i, "dead") /\ Unlocked(i) /\ tab' = tab
      /\ password' = (IF password > 0 THEN password - 1 ELSE 0)
      /\ cut' = cut /\ job' = job /\ known' = known /\ prompt' = prompt
      /\ dialog' = dialog
  BY DEF Released
<1>2. StepsTo(i, "dead")
  BY <1>1, GoesTo DEF Phase
<1>3. TabsFit'
  BY <1>1, <1>2, TabsStep DEF Ended
<1>4. Attempts' /\ Todos' /\ Prompted'
  BY <1>1, <1>2, AttemptsStep, TodosStep, PromptStep
<1>5. Queues' /\ lock' \in [Ids -> Ids \cup {0}]
  BY <1>1, <1>2, QueuesEnd
<1>6. Kept'
  <2>1. Held(att') = Held(att) \ {i} /\ i \in Held(att)
    BY <1>1, <1>2 DEF Held, StepsTo
  <2>2. IsFiniteSet(Held(att)) /\ Cardinality(Held(att)) \in Nat
    BY SessionIds DEF Held
  <2>3. Cardinality(Held(att')) = Cardinality(Held(att)) - 1 /\ Cardinality(Held(att')) \in Nat
    <3>1. Cardinality(Held(att')) = Cardinality(Held(att)) - 1
      BY <2>1, <2>2, FS_RemoveElement
    <3>2. Held(att') \subseteq Ids
      BY DEF Held
    <3>. QED
      BY <3>1, <3>2, SessionIds
  <2>4. password <= Cardinality(Held(att)) /\ password \in Nat
    BY Facts DEF IInv, Kept
  <2>. QED
    BY <1>1, <2>2, <2>3, <2>4 DEF Kept
<1>7. Types'
  BY <1>1, <1>2, <1>5, Facts DEF Types, StepsTo
<1>. QED
  BY <1>3, <1>4, <1>5, <1>6, <1>7 DEF IInv

-----------------------------------------------------------------------------
(* Commands                                                                *)

LEMMA ExecKeeps ==
    ASSUME IInv, NEW p \in Ids, NEW i \in Ids, Exec(p, i)
    PROVE  IInv'
<1>. DEFINE k == [Unused EXCEPT !.kind = "exec", !.of = p,
                                !.pc = IF lock[p] = 0 THEN "known" ELSE "queued"]
<1>1. /\ i \in Fresh /\ att' = [att EXCEPT ![i] = k] /\ lock' = [lock EXCEPT ![p] = i]
      /\ tab' = tab /\ cut' = cut /\ job' = job /\ password' = password
      /\ known' = known /\ prompt' = prompt /\ dialog' = dialog
  BY DEF Exec
<1>2. /\ k \in Attempt /\ k.kind = "exec" /\ k.of = p /\ ~k.ask
      /\ k.pc = (IF lock[p] = 0 THEN "known" ELSE "queued")
  BY DEF Unused, Attempt, Phase
<1>. HIDE DEF k
<1>3. /\ att' \in [Ids -> Attempt] /\ att'[i] = k /\ \A j \in Ids \ {i} : att'[j] = att[j]
      /\ lock' \in [Ids -> Ids \cup {0}] /\ lock'[p] = i
      /\ \A q \in Ids \ {p} : lock'[q] = lock[q]
  BY <1>1, <1>2, Facts
<1>4. Begins(i)
  BY <1>1, <1>2, <1>3 DEF Begins
<1>5. Attempts' /\ Prompted' /\ Todos' /\ Kept'
  BY <1>1, <1>4, BeginsKeeps
<1>6. ASSUME NEW t \in Tabs PROVE TabFits(t, tab'[t], att')
  BY <1>1, <1>2, <1>3, <1>4, TabElsewhere
<1>7. ASSUME NEW q \in Ids PROVE Queue(att', q, lock'[q], cut'[q])
  <2>1. /\ Queue(att, q, lock[q], cut[q]) /\ lock[q] \in Ids \cup {0} /\ cut[q] \in Nat
        /\ att \in [Ids -> Attempt]
    BY Facts DEF IInv, Queues
  <2>2. /\ att[i].kind # "exec"
        /\ \A j \in Commands(att, q) : j < i
    <3>1. att[i].kind = "none" /\ \A j \in Ids : att[j].pc # "unused" => j < i
      BY <1>1, FreshFacts
    <3>2. \A j \in Commands(att, q) : j \in Ids /\ att[j].pc # "unused"
      BY AttemptFacts DEF Commands
    <3>. QED
      BY <3>1, <3>2
  <2>3. CASE q = p
    BY <1>1, <1>2, <1>3, <2>1, <2>2, <2>3, QueueJoins
  <2>4. CASE q # p
    <3>1. Commands(att', q) = Commands(att, q) /\ i \notin Commands(att, q)
      BY <1>2, <1>3, <2>2, <2>4 DEF Commands
    <3>2. \A j \in Commands(att, q) : att'[j] = att[j]
      BY <1>3, <3>1 DEF Commands
    <3>3. \A c, j : Before(att', q, c, j) <=> Before(att, q, c, j)
      BY <3>1 DEF Before
    <3>4. Fronts(att', q) = Fronts(att, q)
      BY <3>1, <3>2, <3>3 DEF Fronts, Before
    <3>. QED
      BY ZenonT(60), <1>1, <1>3, <2>1, <2>4, <3>1, <3>2, <3>3, <3>4 DEF Queue
  <2>. QED
    BY <2>3, <2>4
<1>8. Types'
  BY <1>1, <1>3, Facts DEF Types
<1>. QED
  BY <1>5, <1>6, <1>7, <1>8 DEF IInv, TabsFit, Queues

(* A queued command has its predecessor.                                   *)
LEMMA PredecessorFacts ==
    ASSUME IInv, NEW i \in Ids, att[i].pc = "queued"
    PROVE  /\ att[i].kind = "exec" /\ att[i].of \in Ids /\ Predecessor(i) \in Ids
           /\ Before(att, att[i].of, Predecessor(i), i)
<1>1. att[i].kind = "exec" /\ att[i].of \in Ids
  BY AttemptFacts
<1>. DEFINE p == att[i].of
<1>2. Queue(att, p, lock[p], cut[p]) /\ i \in Commands(att, p)
  BY <1>1 DEF IInv, Queues, Commands
<1>3. PICK k \in Ids : Before(att, p, k, i)
  BY <1>2 DEF Queue
<1>4. Execs(p) = Commands(att, p)
  BY DEF Execs, Commands
<1>5. Predecessor(i) \in Commands(att, p) /\ Before(att, p, Predecessor(i), i)
  BY <1>3, <1>4 DEF Before, Predecessor
<1>. QED
  BY <1>1, <1>5 DEF Commands

LEMMA ExecStartsKeeps ==
    ASSUME IInv, NEW i \in Ids, ExecStarts(i)
    PROVE  IInv'
<1>1. /\ att[i].pc = "queued" /\ att[Predecessor(i)].pc = "dead" /\ To(i, "known")
      /\ tab' = tab /\ lock' = lock /\ cut' = cut /\ job' = job /\ password' = password
      /\ known' = known /\ prompt' = prompt /\ dialog' = dialog
  BY DEF ExecStarts
<1>2. StepsTo(i, "known")
  BY <1>1, GoesTo DEF Phase
<1>3. TabsFit'
  BY <1>1, <1>2, TabsStep DEF Ended
<1>4. Attempts' /\ Todos' /\ Prompted' /\ Kept'
  BY <1>1, <1>2, AttemptsStep, TodosStep, PromptStep, KeptStep
<1>5. ASSUME NEW p \in Ids PROVE Queue(att', p, lock[p], cut[p])
  <2>1. /\ Queue(att, p, lock[p], cut[p]) /\ lock[p] \in Ids \cup {0} /\ cut[p] \in Nat
        /\ att \in [Ids -> Attempt]
    BY Facts DEF IInv, Queues
  <2>2. Predecessor(i) \in Ids /\ Before(att, att[i].of, Predecessor(i), i)
    BY <1>1, PredecessorFacts
  <2>3. /\ att' \in [Ids -> Attempt] /\ \A j \in Ids \ {i} : att'[j] = att[j]
        /\ att'[i].kind = att[i].kind /\ att'[i].of = att[i].of /\ att'[i].pc = "known"
    BY <1>2 DEF StepsTo
  <2>. QED
    BY <1>1, <2>1, <2>2, <2>3, QueueStarts
<1>6. Types'
  BY <1>1, <1>2, Facts DEF Types, StepsTo
<1>. QED
  BY <1>1, <1>3, <1>4, <1>5, <1>6 DEF IInv, Queues

LEMMA ExecDoneKeeps ==
    ASSUME IInv, NEW i \in Ids, ExecDone(i)
    PROVE  IInv'
<1>1. /\ att[i].pc = "registered" /\ att[i].kind = "exec" /\ att' = Release(i)
      /\ tab' = tab /\ lock' = lock /\ cut' = cut /\ job' = job /\ password' = password
      /\ known' = known /\ prompt' = prompt /\ dialog' = dialog
  BY DEF ExecDone
<1>2. StepsTo(i, "releasing")
  BY <1>1, Releases
<1>3. TabsFit'
  BY <1>1, <1>2, TabsStep DEF Ended
<1>4. Attempts' /\ Todos' /\ Prompted' /\ Kept' /\ Queues'
  BY <1>1, <1>2, AttemptsStep, TodosStep, PromptStep, KeptStep, QueuesStep
<1>5. Types'
  BY <1>1, <1>2, Facts DEF Types, StepsTo
<1>. QED
  BY <1>3, <1>4, <1>5 DEF IInv

(* The job of one close call of a session gets a new value.                *)
LEMMA JobSet ==
    ASSUME IInv, NEW p \in Ids, NEW call \in Closers, NEW x \in Job,
           job' = [job EXCEPT ![p][call] = x]
    PROVE  /\ job' \in [Ids -> [Closers -> Job]]
           /\ job'[p][call] = x
           /\ \A q \in Ids, c \in Closers : q # p \/ c # call => job'[q][c] = job[q][c]
<1>. DEFINE y == [job[p] EXCEPT ![call] = x]
<1>1. job[p] \in [Closers -> Job]
  BY Facts
<1>2. /\ y \in [Closers -> Job] /\ y[call] = x
      /\ \A c \in Closers : c # call => y[c] = job[p][c]
  BY <1>1
<1>3. job' = [job EXCEPT ![p] = y]
  OBVIOUS
<1>. HIDE DEF y
<1>4. job' \in [Ids -> [Closers -> Job]] /\ job'[p] = y /\ \A q \in Ids \ {p} : job'[q] = job[q]
  BY <1>2, <1>3, Facts
<1>. QED
  BY <1>2, <1>4

(* Only a job changes: what it still has to close are commands.            *)
LEMMA JobKeeps ==
    ASSUME IInv, NEW p \in Ids, NEW call \in Closers, NEW x \in Job,
           job' = [job EXCEPT ![p][call] = x],
           \A i \in x.todo : att[i].kind = "exec",
           UNCHANGED <<tab, att, lock, cut, password, known, prompt, dialog>>
    PROVE  IInv'
<1>1. /\ job' \in [Ids -> [Closers -> Job]] /\ job'[p][call] = x
      /\ \A q \in Ids, c \in Closers : q # p \/ c # call => job'[q][c] = job[q][c]
  BY ZenonT(60), JobSet
<1>2. Todos'
  <2>. SUFFICES ASSUME NEW q \in Ids, NEW c \in Closers, NEW i \in job'[q][c].todo
                PROVE  att'[i].kind = "exec"
    BY DEF Todos
  <2>1. CASE q = p /\ c = call
    BY <1>1, <2>1
  <2>2. CASE ~(q = p /\ c = call)
    BY <1>1, <2>2 DEF IInv, Todos
  <2>. QED
    BY <2>1, <2>2
<1>. QED
  BY <1>1, <1>2 DEF IInv, Types, Attempts, Prompted, TabsFit, Kept, Queues

LEMMA CloseExecKeeps ==
    ASSUME IInv, NEW p \in Ids, CloseExec(p)
    PROVE  IInv'
<1>. DEFINE x == [pc |-> "execs", todo |-> Execs(p) \cap Registered, on |-> 0]
<1>1. x \in Job /\ \A i \in x.todo : att[i].kind = "exec"
  BY DEF Job, Execs
<1>2. "closeExec" \in Closers
  BY DEF Closers
<1>3. /\ job' = [job EXCEPT ![p]["closeExec"] = x]
      /\ UNCHANGED <<tab, att, lock, cut, password, known, prompt, dialog>>
  BY DEF CloseExec
<1>. HIDE DEF x
<1>. QED
  BY <1>1, <1>2, <1>3, JobKeeps

LEMMA ShellReleasedKeeps ==
    ASSUME IInv, NEW p \in Ids, ShellReleased(p)
    PROVE  IInv'
<1>. DEFINE x == [pc |-> "execs", todo |-> Execs(p) \cap Registered, on |-> 0]
<1>1. x \in Job /\ \A i \in x.todo : att[i].kind = "exec"
  BY DEF Job, Execs
<1>2. "closeSsh" \in Closers
  BY DEF Closers
<1>3. /\ job' = [job EXCEPT ![p]["closeSsh"] = x]
      /\ UNCHANGED <<tab, att, lock, cut, password, known, prompt, dialog>>
  BY DEF ShellReleased
<1>. HIDE DEF x
<1>. QED
  BY <1>1, <1>2, <1>3, JobKeeps

LEMMA ReleaseNextKeeps ==
    ASSUME IInv, NEW p \in Ids, NEW call \in Closers, ReleaseNext(p, call)
    PROVE  IInv'
<1>1. PICK i \in job[p][call].todo :
        /\ att' = Release(i)
        /\ job' = [job EXCEPT ![p][call].todo = @ \ {i},
                              ![p][call].on = IF i \in Registered THEN i ELSE 0]
  BY DEF ReleaseNext
<1>2. /\ tab' = tab /\ lock' = lock /\ cut' = cut /\ password' = password
      /\ known' = known /\ prompt' = prompt /\ dialog' = dialog
  BY DEF ReleaseNext
<1>. DEFINE x == [job[p][call] EXCEPT !.todo = @ \ {i},
                                      !.on = IF i \in Registered THEN i ELSE 0]
<1>3. job[p] \in [Closers -> Job] /\ job[p][call] \in Job
  BY Facts
<1>4. i \in Ids /\ att[i].kind = "exec"
  BY <1>3 DEF IInv, Todos, Job
<1>5. x \in Job /\ x.todo = job[p][call].todo \ {i}
  BY <1>3, <1>4 DEF Job
<1>6. job' = [job EXCEPT ![p][call] = x]
  BY <1>1
<1>. HIDE DEF x
<1>7. /\ job' \in [Ids -> [Closers -> Job]]
      /\ \A q \in Ids, c \in Closers : job'[q][c].todo \subseteq job[q][c].todo
  <2>1. x \in Job
    BY <1>5
  <2>2. /\ job' \in [Ids -> [Closers -> Job]] /\ job'[p][call] = x
        /\ \A q \in Ids, c \in Closers : q # p \/ c # call => job'[q][c] = job[q][c]
    BY ZenonT(60), <1>6, <2>1, JobSet
  <2>3. ASSUME NEW q \in Ids, NEW c \in Closers
        PROVE  job'[q][c].todo \subseteq job[q][c].todo
    <3>1. CASE q = p /\ c = call
      BY <1>5, <2>2, <3>1
    <3>2. CASE q # p \/ c # call
      BY <2>2, <3>2
    <3>. QED
      BY <3>1, <3>2
  <2>. QED
    BY <2>2, <2>3
<1>8. CASE att' = att
  <2>1. Todos'
    BY <1>7, <1>8 DEF IInv, Todos
  <2>. QED
    BY <1>2, <1>7, <1>8, <2>1 DEF IInv, Types, Attempts, Prompted, TabsFit, Kept, Queues
<1>9. CASE att[i].pc = "registered" /\ StepsTo(i, "releasing")
  <2>1. TabsFit'
    BY <1>2, <1>4, <1>9, TabsStep DEF Ended
  <2>2. Attempts' /\ Todos' /\ Prompted' /\ Kept' /\ Queues'
    BY <1>2, <1>4, <1>7, <1>9, AttemptsStep, TodosStep, PromptStep, KeptStep, QueuesStep
  <2>3. Types'
    BY <1>2, <1>7, <1>9, Facts DEF Types, StepsTo
  <2>. QED
    BY <2>1, <2>2, <2>3 DEF IInv
<1>. QED
  BY <1>1, <1>4, <1>8, <1>9, Releases

LEMMA LockDeletedKeeps ==
    ASSUME IInv, NEW p \in Ids, NEW call \in Closers, LockDeleted(p, call)
    PROVE  IInv'
<1>1. /\ lock' = [lock EXCEPT ![p] = 0]
      /\ cut' = IF lock[p] # 0 THEN [cut EXCEPT ![p] = @ + 1] ELSE cut
      /\ job' = [job EXCEPT ![p][call] = NoJob]
      /\ UNCHANGED <<tab, att, password, known, prompt, dialog>>
  BY DEF LockDeleted
<1>2. NoJob \in Job /\ NoJob.todo = {}
  BY DEF NoJob, Job
<1>3. /\ job' \in [Ids -> [Closers -> Job]] /\ job'[p][call] = NoJob
      /\ \A q \in Ids, c \in Closers : q # p \/ c # call => job'[q][c] = job[q][c]
  <2>1. NoJob \in Job
    BY <1>2
  <2>2. job' = [job EXCEPT ![p][call] = NoJob]
    BY <1>1
  <2>. QED
    BY ZenonT(60), <2>1, <2>2, JobSet
<1>4. Todos'
  <2>. SUFFICES ASSUME NEW q \in Ids, NEW c \in Closers, NEW i \in job'[q][c].todo
                PROVE  att'[i].kind = "exec"
    BY DEF Todos
  <2>1. CASE q = p /\ c = call
    BY <1>2, <1>3, <2>1
  <2>2. CASE ~(q = p /\ c = call)
    BY <1>1, <1>3, <2>2 DEF IInv, Todos
  <2>. QED
    BY <2>1, <2>2
<1>5. /\ lock' \in [Ids -> Ids \cup {0}] /\ cut' \in [Ids -> Nat]
      /\ \A q \in Ids \ {p} : lock'[q] = lock[q] /\ cut'[q] = cut[q]
      /\ lock'[p] = 0 /\ cut'[p] = IF lock[p] # 0 THEN cut[p] + 1 ELSE cut[p]
  BY <1>1, Facts
<1>6. ASSUME NEW q \in Ids PROVE Queue(att, q, lock'[q], cut'[q])
  <2>1. Queue(att, q, lock[q], cut[q]) /\ lock[q] \in Ids \cup {0} /\ cut[q] \in Nat
    BY Facts DEF IInv, Queues
  <2>2. CASE q = p
    BY <1>5, <2>1, <2>2, QueueCut
  <2>3. CASE q # p
    BY <1>5, <2>1, <2>3
  <2>. QED
    BY <2>2, <2>3
<1>. QED
  BY <1>1, <1>3, <1>4, <1>5, <1>6
     DEF IInv, Types, Attempts, Prompted, TabsFit, Kept, Queues

-----------------------------------------------------------------------------
(* The invariant                                                           *)

LEMMA InitHolds == Init => IInv
<1>. SUFFICES ASSUME Init PROVE IInv
  OBVIOUS
<1>1. NoTab \in Tab /\ NoTab.is = "unused" /\ NoTab.state = "idle"
      /\ Unused \in Attempt /\ Unused.pc = "unused" /\ Unused.kind = "none" /\ ~Unused.ask
      /\ NoJob \in Job /\ NoJob.todo = {}
  BY DEF NoTab, Tab, Unused, Attempt, Phase, NoJob, Job
<1>2. /\ tab \in [Tabs -> Tab] /\ \A t \in Tabs : tab[t] = NoTab
      /\ att \in [Ids -> Attempt] /\ \A i \in Ids : att[i] = Unused
      /\ lock \in [Ids -> Ids \cup {0}] /\ \A i \in Ids : lock[i] = 0
      /\ cut \in [Ids -> Nat] /\ \A i \in Ids : cut[i] = 0
  BY <1>1 DEF Init
<1>3. /\ job \in [Ids -> [Closers -> Job]]
      /\ \A p \in Ids, call \in Closers : job[p][call] = NoJob
  BY <1>1 DEF Init, Closers
<1>4. Types
  BY <1>2, <1>3, SessionAssumption DEF Types, Init
<1>5. Attempts /\ Prompted /\ Todos
  BY <1>1, <1>2, <1>3 DEF Attempts, Prompted, Todos, Init
<1>6. TabsFit
  BY <1>1, <1>2 DEF TabsFit, TabFits
<1>7. Kept
  <2>1. Cardinality(Held(att)) \in Nat
    BY SessionIds DEF Held
  <2>. QED
    BY <2>1 DEF Kept, Init
<1>8. Queues
  <2>. SUFFICES ASSUME NEW p \in Ids PROVE Queue(att, p, lock[p], cut[p])
    BY DEF Queues
  <2>1. Commands(att, p) = {}
    BY <1>1, <1>2 DEF Commands
  <2>2. Fronts(att, p) = {}
    BY <2>1 DEF Fronts
  <2>3. Cardinality(Fronts(att, p)) = 0
    BY <2>2, FS_EmptySet
  <2>. QED
    BY <1>2, <2>1, <2>3 DEF Queue
<1>. QED
  BY <1>4, <1>5, <1>6, <1>7, <1>8 DEF IInv

LEMMA NextKeeps == IInv /\ [Next]_vars => IInv'
<1>. SUFFICES ASSUME IInv, [Next]_vars PROVE IInv'
  OBVIOUS
<1>1. CASE UserNext
  BY <1>1, AddTabKeeps, ReconnectTabKeeps, CloseTabKeeps, DialogClosesKeeps, ExecKeeps,
     CloseExecKeeps DEF UserNext
<1>2. CASE AnswerNext
  BY <1>2, AnswerKeeps DEF AnswerNext
<1>3. ASSUME NEW i \in Ids, AttemptNext(i) PROVE IInv'
  BY <1>3, CredentialLoadedKeeps, WorkerStartsKeeps, WorkerAsksKeeps, WorkerOnlineKeeps,
     WorkerFailsKeeps, AttemptThrowsKeeps, ReleasedKeeps, ExecStartsKeeps, ExecDoneKeeps
     DEF AttemptNext
<1>4. ASSUME NEW p \in Ids, CloseNext(p) PROVE IInv'
  BY <1>4, ShellReleasedKeeps, ReleaseNextKeeps, LockDeletedKeeps DEF CloseNext, Closers
<1>5. ASSUME NEW i \in Ids, SessionDrops(i) PROVE IInv'
  BY <1>5, SessionDropsKeeps
<1>6. CASE UNCHANGED vars
  BY <1>6 DEF vars, IInv, Types, Attempts, Prompted, Todos, TabsFit, Kept, Queues
<1>. QED
  BY <1>1, <1>2, <1>3, <1>4, <1>5, <1>6 DEF Next

(* The tabs, the attempts, the password and the queues agree, always.      *)
THEOREM SessionsInvariant == Spec => []IInv
<1>. QED
  BY InitHolds, NextKeeps, PTL DEF Spec

(* The variables keep their types.                                         *)
THEOREM TypesKept == Spec => []TypeOK
<1>1. IInv => TypeOK
  <2>. SUFFICES ASSUME IInv PROVE TypeOK
    OBVIOUS
  <2>1. Ids \cup {0} = 0..MaxSessions
    BY SessionIds DEF Ids
  <2>2. ASSUME NEW p \in Ids, NEW call \in {"closeSsh", "closeExec"}
        PROVE  /\ job[p][call].pc \in {"none", "shell", "execs"}
               /\ job[p][call].todo \subseteq Ids /\ job[p][call].on \in 0..MaxSessions
    <3>1. job[p][call] \in Job
      BY Facts DEF Closers
    <3>. QED
      BY <2>1, <3>1 DEF Job
  <2>3. password \in 0..MaxSessions
    <3>1. Held(att) \subseteq Ids
      BY DEF Held
    <3>2. Cardinality(Held(att)) <= Cardinality(Ids) /\ Cardinality(Ids) \in Nat
          /\ Cardinality(Held(att)) \in Nat
      BY <3>1, CardinalityMonotone, SessionIds
    <3>3. Cardinality(Ids) = MaxSessions
      BY SessionIds, FS_Interval DEF Ids
    <3>. QED
      BY <3>2, <3>3, Facts DEF IInv, Kept
  <2>4. \A i \in Ids :
            /\ att[i].kind \in {"none", "shell", "exec"}
            /\ att[i].kind = "shell" => att[i].of \in Tabs
            /\ att[i].kind = "exec" => att[i].of \in Ids
            /\ att[i].known \in BOOLEAN /\ att[i].ask \in BOOLEAN /\ att[i].pc \in Phase
    BY AttemptFacts
  <2>. QED
    BY <2>1, <2>2, <2>3, <2>4, Facts DEF TypeOK, Tab, Phase
<1>. QED
  BY <1>1, SessionsInvariant, PTL

(* The password of a host is in memory for no more sessions than it has,   *)
(* whichever attempts fail and sessions are closed in between.             *)
THEOREM PasswordsAreOwned == Spec => []NoOrphanPassword
<1>1. IInv => NoOrphanPassword
  BY DEF IInv, Kept, Held, NoOrphanPassword
<1>. QED
  BY <1>1, SessionsInvariant, PTL

(* A tab shown as online has a registered session, unless two attempts for *)
(* it overlapped.                                                          *)
THEOREM OnlineTabsHaveSessions == Spec => []OnlineHasSession
<1>1. IInv => OnlineHasSession
  <2>. SUFFICES ASSUME IInv, NEW t \in Tabs, tab[t].state = "online", ~tab[t].overlapped
                PROVE  tab[t].session \in Registered
    BY DEF OnlineHasSession
  <2>1. TabFits(t, tab[t], att)
    BY TabFacts
  <2>. QED
    BY <2>1 DEF TabFits, Registered
<1>. QED
  BY <1>1, SessionsInvariant, PTL

(* The commands of a session run one at a time, and each deletion of a     *)
(* lock that was held lets at most one more run beside them.               *)
THEOREM CommandsAreQueued == Spec => []ExecsQueued
<1>1. IInv => ExecsQueued
  <2>. SUFFICES ASSUME IInv, NEW p \in Ids
                PROVE  Cardinality({i \in Execs(p) : att[i].pc \notin {"queued", "dead"}})
                           <= 1 + cut[p]
    BY DEF ExecsQueued
  <2>1. Queue(att, p, lock[p], cut[p]) /\ lock[p] \in Ids \cup {0} /\ cut[p] \in Nat
    BY Facts DEF IInv, Queues
  <2>2. Execs(p) = Commands(att, p)
    BY DEF Execs, Commands
  <2>. QED
    BY <2>1, <2>2, QueueBound
<1>. QED
  BY <1>1, SessionsInvariant, PTL
=============================================================================
