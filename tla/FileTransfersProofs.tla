------------------------- MODULE FileTransfersProofs -------------------------
(***************************************************************************)
(* Theorems about FileTransfers for any number of tasks, targets and       *)
(* retries, files of any length and any concurrency.                       *)
(***************************************************************************)
EXTENDS FileTransfers, FiniteSetTheorems, TLAPS

USE TransferAssumption

-----------------------------------------------------------------------------
(* The inductive invariant                                                 *)

States == {"none", "queued", "running", "completed", "failed", "cancelled"}
Places == {"idle", "stat", "chunk", "check", "commit", "remove", "rename", "committed",
           "cleanup"}
Errors == {"none", "error", "cancelled"}
Task == [state : States, pc : Places, place : Nat, target : Targets \cup {"none"},
         sent : Nat, run : 0..MaxRuns, aborted : BOOLEAN, error : Errors]

Entered(tasks) == {t \in Tasks : tasks[t].state # "none"}
Waiting(tasks) == {t \in Tasks : tasks[t].state = "queued"}
Busy(tasks) == {t \in Tasks : tasks[t].state = "running"}

(* What the state of a task says of the rest of its record.                *)
Consistent(x) ==
    /\ x.state = "running" <=> x.pc # "idle"
    /\ x.state = "running" => x.run > 0
    /\ x.state = "queued" => x.run < MaxRuns
    /\ x.state = "none" => x.target = "none" /\ x.run = 0
    /\ x.state # "none" => x.target \in Targets

(* The queue and its count of running tasks agree, and the order in which  *)
(* tasks were entered is total.                                            *)
QueueOK(tasks, busy) ==
    /\ tasks \in [Tasks -> Task]
    /\ \A t \in Tasks : Consistent(tasks[t])
    /\ IsFiniteSet(Entered(tasks))
    /\ \A t \in Entered(tasks) : tasks[t].place <= Cardinality(Entered(tasks))
    /\ \A t, u \in Entered(tasks) : tasks[t].place = tasks[u].place => t = u
    /\ busy = Cardinality(Busy(tasks))

(* The temporary files of t, given its record x, the server's files fs and *)
(* the names ns that errors have given.                                    *)
TempOK(t, x, fs, ns) ==
    /\ \A k \in 1..MaxRuns :
        /\ k > x.run => <<t, k>> \notin DOMAIN fs
        /\ <<t, k>> \in DOMAIN fs /\ ~(x.state = "running" /\ x.run = k) => <<t, k>> \in ns
    /\ x.pc \in {"stat", "committed"} => <<t, x.run>> \notin DOMAIN fs
    /\ x.pc = "stat" => x.sent = 0
    /\ x.pc = "chunk" =>
        /\ IF Size[t] = 0 THEN x.sent = 0 ELSE x.sent < Size[t]
        /\ IF x.sent = 0 THEN <<t, x.run>> \notin DOMAIN fs
           ELSE <<t, x.run>> \in DOMAIN fs /\ fs[<<t, x.run>>] = Copied(t, x.sent)
    /\ x.pc \in {"check", "commit", "remove", "rename"} =>
        <<t, x.run>> \in DOMAIN fs /\ fs[<<t, x.run>>] = Copied(t, Size[t])

Temps == \A t \in Tasks : TempOK(t, task[t], files, named)

(* A target is removed only where the server has no posix-rename.          *)
Plain == \A t \in Tasks : task[t].pc \in {"remove", "rename"} => ~atomic

(* The types of what the queue leaves alone.                               *)
Stored ==
    /\ DOMAIN files \subseteq Targets \cup (Tasks \X (1..MaxRuns))
    /\ \A p \in DOMAIN files : files[p] \in Seq(Tasks \cup {"old"})
    /\ link \in {"up", "down", "gone"}
    /\ named \subseteq Tasks \X (1..MaxRuns) /\ atomic \in BOOLEAN

IInv == /\ QueueOK(task, running) /\ limit \in 1..MaxLimit /\ Stored
        /\ Temps /\ Plain /\ TargetIsComplete

(* A step that starts a task leaves no more running than the limit.        *)
StartsWithin ==
    (\E t \in Tasks : task'[t].run > task[t].run) =>
        Cardinality({t \in Tasks : task'[t].state = "running"}) <= limit'

-----------------------------------------------------------------------------
(* Updates of a task's record                                              *)

LEMMA TaskUpdates ==
    ASSUME NEW x \in Task
    PROVE  /\ \A v \in States : [x EXCEPT !.state = v] \in Task
           /\ \A v \in Places : [x EXCEPT !.pc = v] \in Task
           /\ \A v \in Nat : [x EXCEPT !.place = v] \in Task
           /\ \A v \in Targets \cup {"none"} : [x EXCEPT !.target = v] \in Task
           /\ \A v \in Nat : [x EXCEPT !.sent = v] \in Task
           /\ \A v \in 0..MaxRuns : [x EXCEPT !.run = v] \in Task
           /\ \A v \in BOOLEAN : [x EXCEPT !.aborted = v] \in Task
           /\ \A v \in Errors : [x EXCEPT !.error = v] \in Task
BY DEF Task, States, Places, Errors

Rest(x, y) == y.place = x.place /\ y.target = x.target

(* A waiting task x is started as y.                                       *)
Starts(x, y) ==
    /\ x.state = "queued" /\ y.state = "running"
    /\ y.pc = "stat" /\ y.sent = 0 /\ y.run = x.run + 1
    /\ Rest(x, y)

LEMMA StartEffect ==
    ASSUME NEW x \in Task, x.state = "queued", x.run < MaxRuns
    PROVE  /\ [x EXCEPT !.state = "running", !.pc = "stat", !.run = @ + 1, !.sent = 0] \in Task
           /\ Starts(x, [x EXCEPT !.state = "running", !.pc = "stat", !.run = @ + 1, !.sent = 0])
<1>. DEFINE y == [x EXCEPT !.state = "running", !.pc = "stat", !.run = @ + 1, !.sent = 0]
            a == [x EXCEPT !.state = "running"]
            b == [a EXCEPT !.pc = "stat"]
            c == [b EXCEPT !.run = @ + 1]
<1>1. "running" \in States /\ "stat" \in Places /\ 0 \in Nat /\ x.run + 1 \in 0..MaxRuns
  BY DEF States, Places, Task
<1>2. y = [c EXCEPT !.sent = 0]
  OBVIOUS
<1>3. Starts(x, y)
  BY DEF Starts, Rest, Task
<1>4. a \in Task /\ a.run = x.run
  BY <1>1, TaskUpdates DEF Task
<1>. HIDE DEF a
<1>5. b \in Task /\ b.run = x.run
  BY <1>1, <1>4, TaskUpdates DEF Task
<1>. HIDE DEF b
<1>6. c \in Task
  BY <1>1, <1>5, TaskUpdates
<1>. HIDE DEF c
<1>7. y \in Task
  BY <1>1, <1>2, <1>6, TaskUpdates
<1>. QED
  BY <1>3, <1>7

(* A record changes in one, two or three fields at once.                   *)
LEMMA MoreUpdates ==
    ASSUME NEW x \in Task
    PROVE  /\ \A v \in States, b \in BOOLEAN :
                  [[x EXCEPT !.state = v] EXCEPT !.aborted = b] \in Task
           /\ \A v \in Places, n \in Nat :
                  [[x EXCEPT !.pc = v] EXCEPT !.sent = n] \in Task
           /\ \A v \in Places, n \in Nat, e \in Errors :
                  [[[x EXCEPT !.pc = v] EXCEPT !.sent = n] EXCEPT !.error = e] \in Task
           /\ \A v \in States, p \in Places, e \in Errors :
                  [[[x EXCEPT !.state = v] EXCEPT !.pc = p] EXCEPT !.error = e] \in Task
           /\ \A v \in States, n \in Nat, p \in Targets :
                  [[[x EXCEPT !.state = v] EXCEPT !.place = n] EXCEPT !.target = p] \in Task
<1>1. ASSUME NEW v \in States, NEW b \in BOOLEAN
      PROVE  [[x EXCEPT !.state = v] EXCEPT !.aborted = b] \in Task
  <2>. DEFINE y == [x EXCEPT !.state = v]
  <2>1. y \in Task
    BY TaskUpdates
  <2>. HIDE DEF y
  <2>2. [y EXCEPT !.aborted = b] \in Task
    BY <2>1, TaskUpdates
  <2>. QED
    BY <2>2 DEF y
<1>2. ASSUME NEW v \in Places, NEW n \in Nat
      PROVE  [[x EXCEPT !.pc = v] EXCEPT !.sent = n] \in Task
  <2>. DEFINE y == [x EXCEPT !.pc = v]
  <2>1. y \in Task
    BY TaskUpdates
  <2>. HIDE DEF y
  <2>2. [y EXCEPT !.sent = n] \in Task
    BY <2>1, TaskUpdates
  <2>. QED
    BY <2>2 DEF y
<1>3. ASSUME NEW v \in Places, NEW n \in Nat, NEW e \in Errors
      PROVE  [[[x EXCEPT !.pc = v] EXCEPT !.sent = n] EXCEPT !.error = e] \in Task
  <2>. DEFINE y == [[x EXCEPT !.pc = v] EXCEPT !.sent = n]
  <2>1. y \in Task
    BY <1>2
  <2>. HIDE DEF y
  <2>2. [y EXCEPT !.error = e] \in Task
    BY <2>1, TaskUpdates
  <2>. QED
    BY <2>2 DEF y
<1>4. ASSUME NEW v \in States, NEW p \in Places, NEW e \in Errors
      PROVE  [[[x EXCEPT !.state = v] EXCEPT !.pc = p] EXCEPT !.error = e] \in Task
  <2>. DEFINE y == [x EXCEPT !.state = v]
              z == [y EXCEPT !.pc = p]
  <2>1. y \in Task
    BY TaskUpdates
  <2>. HIDE DEF y
  <2>2. z \in Task
    BY <2>1, TaskUpdates
  <2>. HIDE DEF z
  <2>3. [z EXCEPT !.error = e] \in Task
    BY <2>2, TaskUpdates
  <2>. QED
    BY <2>3 DEF y, z
<1>5. ASSUME NEW v \in States, NEW n \in Nat, NEW p \in Targets
      PROVE  [[[x EXCEPT !.state = v] EXCEPT !.place = n] EXCEPT !.target = p] \in Task
  <2>. DEFINE y == [x EXCEPT !.state = v]
              z == [y EXCEPT !.place = n]
  <2>1. y \in Task
    BY TaskUpdates
  <2>. HIDE DEF y
  <2>2. z \in Task
    BY <2>1, TaskUpdates
  <2>. HIDE DEF z
  <2>3. [z EXCEPT !.target = p] \in Task
    BY <2>2, TaskUpdates
  <2>. QED
    BY <2>3 DEF y, z
<1>. QED
  BY <1>1, <1>2, <1>3, <1>4, <1>5

-----------------------------------------------------------------------------
(* The queue                                                               *)

Ahead(tasks, t) == {u \in Waiting(tasks) : tasks[u].place < tasks[t].place}
Started(tasks, room) == {t \in Waiting(tasks) : Cardinality(Ahead(tasks, t)) < room}

(* The tasks that pump starts are no more than there is room for: each has *)
(* another number of tasks ahead of it.                                    *)
LEMMA StartedFit ==
    ASSUME NEW tasks \in [Tasks -> Task], IsFiniteSet(Waiting(tasks)), NEW room \in Int,
           \A t, u \in Waiting(tasks) : tasks[t].place = tasks[u].place => t = u
    PROVE  /\ IsFiniteSet(Started(tasks, room))
           /\ Started(tasks, room) # {} => Cardinality(Started(tasks, room)) <= room
<1>. DEFINE S == Started(tasks, room)
            W == Waiting(tasks)
            rank == [t \in S |-> Cardinality(Ahead(tasks, t))]
<1>1. S \subseteq W /\ W \subseteq Tasks
  BY DEF Started, Waiting
<1>2. \A t \in Tasks : tasks[t].place \in Nat
  BY DEF Task
<1>3. \A t \in S : /\ Ahead(tasks, t) \in SUBSET W /\ IsFiniteSet(Ahead(tasks, t))
                   /\ Cardinality(Ahead(tasks, t)) \in Nat
  BY <1>1, FS_Subset, FS_CardinalityType DEF Ahead
<1>4. \A t \in S : Cardinality(Ahead(tasks, t)) \in 0..(room - 1)
  BY <1>3 DEF Started
<1>5. ASSUME NEW t \in S, NEW u \in S, tasks[t].place < tasks[u].place
      PROVE  Cardinality(Ahead(tasks, t)) # Cardinality(Ahead(tasks, u))
  <2>1. tasks[t].place \in Nat /\ tasks[u].place \in Nat
    BY <1>1, <1>2
  <2>2. Ahead(tasks, t) \subseteq Ahead(tasks, u)
    BY <1>1, <1>2, <1>5, <2>1 DEF Ahead
  <2>3. t \in Ahead(tasks, u) /\ t \notin Ahead(tasks, t)
    BY <1>1, <1>5, <2>1 DEF Ahead
  <2>. QED
    BY <1>3, <2>2, <2>3, FS_Subset
<1>6. \A t, u \in S : rank[t] = rank[u] => t = u
  <2>. SUFFICES ASSUME NEW t \in S, NEW u \in S, rank[t] = rank[u], t # u
                PROVE  FALSE
    OBVIOUS
  <2>1. tasks[t].place # tasks[u].place
    BY <1>1
  <2>2. tasks[t].place < tasks[u].place \/ tasks[u].place < tasks[t].place
    BY <1>1, <1>2, <2>1
  <2>. QED
    BY <1>5, <2>2
<1>7. rank \in [S -> 0..(room - 1)]
  BY <1>4
<1>8. rank \in Injection(S, 0..(room - 1))
  BY <1>6, <1>7 DEF Injection, IsInjective
<1>9. /\ IsFiniteSet(0..(room - 1))
      /\ Cardinality(0..(room - 1)) = IF 0 > room - 1 THEN 0 ELSE room - 1 - 0 + 1
  BY FS_Interval
<1>10. IsFiniteSet(S) /\ Cardinality(S) <= Cardinality(0..(room - 1))
  BY <1>8, <1>9, FS_Injection
<1>11. ASSUME S # {} PROVE room >= 1
  BY <1>4, <1>11
<1>. QED
  BY <1>9, <1>10, <1>11

(* What a call of pump does to each task and to the count.                 *)
PumpsTo(tasks, most) ==
    /\ QueueOK(task', running')
    /\ \A t \in Tasks : Starts(tasks[t], task'[t]) \/ task'[t] = tasks[t]
    /\ (\E t \in Tasks : task'[t] # tasks[t]) => running' <= most

LEMMA PumpEffect ==
    ASSUME NEW tasks, NEW busy, NEW most \in Nat, QueueOK(tasks, busy),
           Pump(tasks, busy, most)
    PROVE  PumpsTo(tasks, most)
<1>. DEFINE room == most - busy
            S == Started(tasks, room)
            W == Waiting(tasks)
            E == Entered(tasks)
            B == Busy(tasks)
            Start(x) == [x EXCEPT !.state = "running", !.pc = "stat", !.run = @ + 1, !.sent = 0]
<1>1. /\ tasks \in [Tasks -> Task] /\ \A t \in Tasks : Consistent(tasks[t])
      /\ IsFiniteSet(E) /\ busy = Cardinality(B)
      /\ \A t \in E : tasks[t].place <= Cardinality(E)
      /\ \A t, u \in E : tasks[t].place = tasks[u].place => t = u
  BY DEF QueueOK
<1>2. W \subseteq E /\ B \subseteq E
  BY DEF Waiting, Busy, Entered
<1>3. IsFiniteSet(W) /\ IsFiniteSet(B) /\ busy \in Nat
  BY <1>1, <1>2, FS_Subset, FS_CardinalityType
<1>4. /\ running' = busy + Cardinality(S)
      /\ task' = [t \in Tasks |-> IF t \in S THEN Start(tasks[t]) ELSE tasks[t]]
  BY DEF Pump, Started, Ahead, Waiting
<1>5. IsFiniteSet(S) /\ (S # {} => Cardinality(S) <= room)
  BY <1>1, <1>2, <1>3, StartedFit
<1>6. \A t \in S : t \in Tasks /\ tasks[t].state = "queued" /\ tasks[t].run < MaxRuns
  BY <1>1 DEF Started, Waiting, Consistent
<1>7. \A t \in S : Start(tasks[t]) \in Task /\ Starts(tasks[t], Start(tasks[t]))
  BY <1>1, <1>6, StartEffect
<1>. HIDE DEF Start, S
<1>8. task' \in [Tasks -> Task]
  BY <1>1, <1>4, <1>7
<1>9. /\ \A t \in S : Starts(tasks[t], task'[t])
      /\ \A t \in Tasks : t \notin S => task'[t] = tasks[t]
  BY <1>4, <1>6, <1>7
<1>10. Entered(task') = E
  BY <1>1, <1>6, <1>9 DEF Entered, Starts
<1>11. \A t \in Tasks : Consistent(task'[t])
  BY <1>1, <1>6, <1>9 DEF Consistent, Starts, Rest, Task
<1>12. \A t \in Tasks : task'[t].place = tasks[t].place
  BY <1>9 DEF Starts, Rest
<1>13. Busy(task') = B \cup S /\ B \cap S = {}
  BY <1>6, <1>9 DEF Busy, Starts
<1>14. Cardinality(Busy(task')) = busy + Cardinality(S)
  <2>1. Cardinality(B \cup S) = Cardinality(B) + Cardinality(S) - Cardinality(B \cap S)
    BY <1>3, <1>5, FS_Union
  <2>2. Cardinality(B \cap S) = 0 /\ Cardinality(S) \in Nat
    BY <1>5, <1>13, FS_EmptySet, FS_CardinalityType
  <2>. QED
    BY <1>1, <1>3, <1>13, <2>1, <2>2
<1>15. QueueOK(task', running')
  <2>1. IsFiniteSet(Entered(task')) /\ running' = Cardinality(Busy(task'))
    BY <1>1, <1>4, <1>10, <1>14
  <2>2. E \subseteq Tasks
    BY DEF Entered
  <2>. HIDE DEF E
  <2>3. \A t \in Entered(task') : task'[t].place <= Cardinality(Entered(task'))
    BY <1>1, <1>10, <1>12, <2>2
  <2>4. \A t, u \in Entered(task') : task'[t].place = task'[u].place => t = u
    BY <1>1, <1>10, <1>12, <2>2
  <2>. QED
    BY <1>8, <1>11, <2>1, <2>3, <2>4 DEF QueueOK
<1>16. ASSUME \E t \in Tasks : task'[t] # tasks[t]
       PROVE  running' <= most
  <2>1. S # {}
    BY <1>9, <1>16
  <2>. QED
    BY <1>3, <1>4, <1>5, <2>1, FS_CardinalityType
<1>. QED
  BY <1>9, <1>15, <1>16 DEF PumpsTo

(* A started task has a temporary name that no file has.                   *)
LEMMA StartKeepsTemp ==
    ASSUME NEW t \in Tasks, NEW x \in Task, NEW y \in Task, NEW fs, NEW ns,
           Starts(x, y), TempOK(t, x, fs, ns)
    PROVE  TempOK(t, y, fs, ns)
BY DEF TempOK, Starts, Task

-----------------------------------------------------------------------------
(* Steps and the files they touch                                          *)

(* No temporary file but that of the run of t is touched.                  *)
OnlyOwn(t) ==
    \A p \in Tasks \X (1..MaxRuns) : p # <<t, task[t].run>> =>
        /\ p \in DOMAIN files' <=> p \in DOMAIN files
        /\ p \in DOMAIN files => files'[p] = files[p]

TargetsSame ==
    \A p \in Targets : /\ p \in DOMAIN files' <=> p \in DOMAIN files
                       /\ p \in DOMAIN files => files'[p] = files[p]

LEMMA SameFiles ==
    ASSUME files' = files
    PROVE  TargetsSame /\ \A t \in Tasks : OnlyOwn(t)
BY DEF TargetsSame, OnlyOwn

LEMMA OwnPath ==
    ASSUME NEW t \in Tasks, task[t] \in Task, Consistent(task[t]), task[t].pc # "idle"
    PROVE  /\ Temporary(t) = <<t, task[t].run>> /\ task[t].run \in 1..MaxRuns
           /\ Temporary(t) \in Tasks \X (1..MaxRuns) /\ Temporary(t) \notin Targets
           /\ task[t].target \in Targets /\ task[t].state = "running"
<1>1. task[t].run \in 1..MaxRuns
  BY DEF Task, Consistent
<1>2. Temporary(t) \in Tasks \X (1..MaxRuns)
  BY <1>1 DEF Temporary
<1>3. Temporary(t) \notin Targets
  BY <1>2
<1>. QED
  BY <1>1, <1>2, <1>3 DEF Temporary, Consistent

(* What writing, removing and renaming a temporary file do to the server.  *)
LEMMA WrittenEffect ==
    ASSUME Stored, NEW t \in Tasks, task[t] \in Task, Consistent(task[t]), task[t].pc # "idle",
           NEW data \in Seq(Tasks), Written(Temporary(t), data)
    PROVE  /\ OnlyOwn(t) /\ TargetsSame
           /\ Temporary(t) \in DOMAIN files' /\ files'[Temporary(t)] = data
           /\ DOMAIN files' \subseteq Targets \cup (Tasks \X (1..MaxRuns))
           /\ \A p \in DOMAIN files' : files'[p] \in Seq(Tasks \cup {"old"})
<1>1. /\ DOMAIN files' = DOMAIN files \cup {Temporary(t)}
      /\ \A p \in DOMAIN files' : files'[p] = IF p = Temporary(t) THEN data ELSE files[p]
  BY DEF Written
<1>2. data \in Seq(Tasks \cup {"old"})
  OBVIOUS
<1>. QED
  BY <1>1, <1>2, OwnPath DEF OnlyOwn, TargetsSame, Stored

LEMMA RemovedEffect ==
    ASSUME Stored, NEW t \in Tasks, task[t] \in Task, Consistent(task[t]), task[t].pc # "idle",
           NEW path \in DOMAIN files, Removed(path)
    PROVE  /\ path = Temporary(t) => OnlyOwn(t) /\ TargetsSame
           /\ path \in Targets => \A u \in Tasks : OnlyOwn(u)
           /\ path \notin DOMAIN files'
           /\ \A p \in DOMAIN files' : p \in DOMAIN files /\ files'[p] = files[p]
           /\ DOMAIN files' \subseteq Targets \cup (Tasks \X (1..MaxRuns))
           /\ \A p \in DOMAIN files' : files'[p] \in Seq(Tasks \cup {"old"})
<1>1. /\ DOMAIN files' = DOMAIN files \ {path}
      /\ \A p \in DOMAIN files' : files'[p] = files[p]
  BY DEF Removed, Restrict
<1>. QED
  BY <1>1, OwnPath DEF OnlyOwn, TargetsSame, Stored

LEMMA RenamedEffect ==
    ASSUME Stored, NEW t \in Tasks, task[t] \in Task, Consistent(task[t]), task[t].pc # "idle",
           Temporary(t) \in DOMAIN files, Renamed(Temporary(t), task[t].target)
    PROVE  /\ OnlyOwn(t) /\ Temporary(t) \notin DOMAIN files'
           /\ task[t].target \in DOMAIN files'
           /\ files'[task[t].target] = files[Temporary(t)]
           /\ \A p \in Targets : p # task[t].target =>
                  /\ p \in DOMAIN files' <=> p \in DOMAIN files
                  /\ p \in DOMAIN files => files'[p] = files[p]
           /\ DOMAIN files' \subseteq Targets \cup (Tasks \X (1..MaxRuns))
           /\ \A p \in DOMAIN files' : files'[p] \in Seq(Tasks \cup {"old"})
<1>1. /\ DOMAIN files' = (DOMAIN files \ {Temporary(t)}) \cup {task[t].target}
      /\ \A p \in DOMAIN files' :
             files'[p] = IF p = task[t].target THEN files[Temporary(t)] ELSE files[p]
  BY DEF Renamed
<1>. QED
  BY <1>1, OwnPath DEF OnlyOwn, Stored

(* The temporary files of another task stay as they are.                   *)
LEMMA OthersKeepTemp ==
    ASSUME NEW t \in Tasks, NEW u \in Tasks, u # t, NEW x \in Task, Consistent(x),
           TempOK(u, x, files, named), OnlyOwn(t), named \subseteq named'
    PROVE  TempOK(u, x, files', named')
<1>1. \A k \in 1..MaxRuns : /\ <<u, k>> \in DOMAIN files' <=> <<u, k>> \in DOMAIN files
                            /\ <<u, k>> \in DOMAIN files => files'[<<u, k>>] = files[<<u, k>>]
  BY DEF OnlyOwn
<1>2. x.pc # "idle" => x.run \in 1..MaxRuns
  BY DEF Consistent, Task
<1>. QED
  BY <1>1, <1>2 DEF TempOK

LEMMA TargetsKept ==
    ASSUME TargetIsComplete, TargetsSame, atomic' = atomic,
           \A u \in Tasks : task[u].target = "none" \/ task'[u].target = task[u].target
    PROVE  TargetIsComplete'
BY DEF TargetIsComplete, TargetsSame

-----------------------------------------------------------------------------
(* A step of transferFile that leaves the task running                     *)

Moves(t) ==
    /\ task' \in [Tasks -> Task] /\ running' = running
    /\ \A u \in Tasks : u # t => task'[u] = task[u]
    /\ task[t].pc # "idle" /\ task'[t].pc # "idle"
    /\ task'[t].state = task[t].state /\ task'[t].run = task[t].run
    /\ Rest(task[t], task'[t])

LEMMA MovesKeeps ==
    ASSUME IInv, NEW t \in Tasks, Moves(t), OnlyOwn(t), UNCHANGED <<limit, named, atomic>>,
           Stored', TempOK(t, task'[t], files', named), TargetIsComplete',
           task'[t].pc \in {"remove", "rename"} => ~atomic
    PROVE  IInv' /\ StartsWithin
<1>1. /\ QueueOK(task, running) /\ limit \in 1..MaxLimit /\ Temps /\ Plain
      /\ \A u \in Tasks : task[u] \in Task /\ Consistent(task[u])
  BY DEF IInv, QueueOK
<1>2. \A u \in Tasks : Consistent(task'[u])
  BY <1>1 DEF Moves, Rest, Consistent
<1>3. \A u \in Tasks : task'[u].state = task[u].state /\ task'[u].place = task[u].place
  BY DEF Moves, Rest
<1>4. Entered(task') = Entered(task) /\ Busy(task') = Busy(task)
  BY <1>3 DEF Entered, Busy
<1>5. QueueOK(task', running')
  <2>1. Entered(task) \subseteq Tasks
    BY DEF Entered
  <2>. QED
    BY <1>1, <1>2, <1>3, <1>4, <2>1 DEF QueueOK, Moves
<1>6. Temps'
  <2>1. ASSUME NEW u \in Tasks, u # t PROVE TempOK(u, task'[u], files', named')
    BY <1>1, <2>1, OthersKeepTemp DEF Temps, Moves
  <2>. QED
    BY <2>1 DEF Temps
<1>7. Plain'
  BY <1>1 DEF Plain, Moves
<1>8. StartsWithin
  <2>1. \A u \in Tasks : task'[u].run = task[u].run /\ task[u].run \in Int
    BY <1>1 DEF Moves, Task
  <2>. QED
    BY <2>1 DEF StartsWithin
<1>. QED
  BY <1>1, <1>5, <1>6, <1>7, <1>8 DEF IInv

(* The kinds of such a step.                                               *)
LEMMA ContinuesEffect ==
    ASSUME QueueOK(task, running), NEW t \in Tasks, task[t].pc # "idle",
           NEW pc \in Places \ {"idle"}, Continues(t, pc)
    PROVE  Moves(t) /\ task'[t].pc = pc /\ task'[t].sent = task[t].sent
<1>1. task \in [Tasks -> Task]
  BY DEF QueueOK
<1>2. [task[t] EXCEPT !.pc = pc] \in Task
  BY <1>1, TaskUpdates
<1>3. /\ task' \in [Tasks -> Task] /\ task'[t] = [task[t] EXCEPT !.pc = pc]
      /\ \A u \in Tasks : u # t => task'[u] = task[u]
  BY <1>1, <1>2 DEF Continues
<1>4. /\ task'[t].pc = pc /\ task'[t].sent = task[t].sent
      /\ task'[t].state = task[t].state /\ task'[t].run = task[t].run
      /\ Rest(task[t], task'[t])
  BY <1>1, <1>3 DEF Task, Rest
<1>. QED
  BY <1>3, <1>4 DEF Moves, Continues

LEMMA ThrowsEffect ==
    ASSUME QueueOK(task, running), NEW t \in Tasks, task[t].pc # "idle",
           NEW e \in Errors, Throws(t, e)
    PROVE  Moves(t) /\ task'[t].pc = "cleanup"
<1>1. task \in [Tasks -> Task] /\ "cleanup" \in Places /\ 0 \in Nat
  BY DEF QueueOK, Places
<1>2. [[[task[t] EXCEPT !.pc = "cleanup"] EXCEPT !.sent = 0] EXCEPT !.error = e] \in Task
  BY <1>1, MoreUpdates
<1>3. /\ task'[t] = [[[task[t] EXCEPT !.pc = "cleanup"] EXCEPT !.sent = 0] EXCEPT !.error = e]
      /\ task' \in [Tasks -> Task]
      /\ \A u \in Tasks : u # t => task'[u] = task[u]
  BY <1>1, <1>2 DEF Throws
<1>4. /\ task'[t].pc = "cleanup"
      /\ task'[t].state = task[t].state /\ task'[t].run = task[t].run
      /\ Rest(task[t], task'[t])
  BY <1>1, <1>3 DEF Task, Rest
<1>. QED
  BY <1>3, <1>4 DEF Moves, Throws

LEMMA SentEffect ==
    ASSUME QueueOK(task, running), NEW t \in Tasks, task[t].pc # "idle",
           NEW pc \in Places \ {"idle"}, NEW sent \in Nat, running' = running,
           task' = [task EXCEPT ![t].sent = sent, ![t].pc = pc]
    PROVE  Moves(t) /\ task'[t].pc = pc /\ task'[t].sent = sent
<1>1. task \in [Tasks -> Task]
  BY DEF QueueOK
<1>2. [[task[t] EXCEPT !.pc = pc] EXCEPT !.sent = sent] \in Task
  BY <1>1, MoreUpdates
<1>3. /\ task'[t] = [[task[t] EXCEPT !.pc = pc] EXCEPT !.sent = sent]
      /\ \A u \in Tasks : u # t => task'[u] = task[u]
  BY <1>1
<1>4. task' \in [Tasks -> Task]
  BY <1>1, <1>2, <1>3
<1>5. /\ task'[t].pc = pc /\ task'[t].sent = sent
      /\ task'[t].state = task[t].state /\ task'[t].run = task[t].run
      /\ Rest(task[t], task'[t])
  BY <1>1, <1>3 DEF Task, Rest
<1>. QED
  BY <1>3, <1>4, <1>5 DEF Moves

-----------------------------------------------------------------------------
(* The actions of a running task                                           *)

(* A running task of a state in which the invariant holds.                 *)
LEMMA Facts ==
    ASSUME IInv, NEW t \in Tasks
    PROVE  /\ QueueOK(task, running) /\ Stored /\ TargetIsComplete
           /\ task[t] \in Task /\ Consistent(task[t]) /\ TempOK(t, task[t], files, named)
           /\ task[t].pc \in {"remove", "rename"} => ~atomic
BY DEF IInv, QueueOK, Temps, Plain

(* A step that leaves the server's files alone and goes to where the       *)
(* temporary file is still what it should be.                              *)
LEMMA GoesOn ==
    ASSUME IInv, NEW t \in Tasks, Moves(t), files' = files,
           UNCHANGED <<limit, named, atomic>>, link' \in {"up", "down", "gone"},
           TempOK(t, task'[t], files, named),
           task'[t].pc \in {"remove", "rename"} => ~atomic
    PROVE  IInv' /\ StartsWithin
<1>1. Stored'
  BY Facts DEF Stored
<1>2. OnlyOwn(t) /\ TargetsSame
  BY SameFiles
<1>3. TargetIsComplete'
  <2>1. \A u \in Tasks : task'[u].target = task[u].target
    BY DEF Moves, Rest
  <2>. QED
    BY <1>2, <2>1, Facts, TargetsKept
<1>. QED
  BY <1>1, <1>2, <1>3, MovesKeeps

LEMMA LinkKept ==
    ASSUME IInv
    PROVE  link \in {"up", "down", "gone"}
BY DEF IInv, Stored

LEMMA SourceStatKeeps ==
    ASSUME IInv, NEW t \in Tasks, SourceStat(t)
    PROVE  IInv' /\ StartsWithin
<1>1. Moves(t) /\ task'[t].pc = "chunk" /\ task'[t].sent = task[t].sent
  BY Facts, ContinuesEffect DEF SourceStat, At, Places
<1>2. TempOK(t, task'[t], files, named)
  BY <1>1, Facts DEF TempOK, Moves, SourceStat, At
<1>. QED
  BY <1>1, <1>2, GoesOn, LinkKept DEF SourceStat, Quiet, Continues

LEMMA AbortedKeeps ==
    ASSUME IInv, NEW t \in Tasks, Aborted(t)
    PROVE  IInv' /\ StartsWithin
<1>1. Moves(t) /\ task'[t].pc = "cleanup"
  BY Facts, ThrowsEffect DEF Aborted, At, Errors
<1>2. TempOK(t, task'[t], files, named)
  BY <1>1, Facts DEF TempOK, Moves
<1>. QED
  BY <1>1, <1>2, GoesOn, LinkKept DEF Aborted, Quiet

LEMMA ValidateKeeps ==
    ASSUME IInv, NEW t \in Tasks, Validate(t)
    PROVE  IInv' /\ StartsWithin
<1>1. task \in [Tasks -> Task] /\ task' = [task EXCEPT ![t].pc = "commit", ![t].sent = 0]
  BY Facts DEF Validate, QueueOK
<1>2. task' = [task EXCEPT ![t].sent = 0, ![t].pc = "commit"]
  <2>1. \A x \in Task : [[x EXCEPT !.pc = "commit"] EXCEPT !.sent = 0]
                            = [[x EXCEPT !.sent = 0] EXCEPT !.pc = "commit"]
    BY DEF Task
  <2>. QED
    BY <1>1, <2>1
<1>3. Moves(t) /\ task'[t].pc = "commit"
  BY <1>2, Facts, SentEffect DEF Validate, At, Places
<1>4. TempOK(t, task'[t], files, named)
  BY <1>3, Facts DEF TempOK, Moves, Validate, At
<1>. QED
  BY <1>3, <1>4, GoesOn, LinkKept DEF Validate, Quiet

LEMMA StatFailsKeeps ==
    ASSUME IInv, NEW t \in Tasks, StatFails(t)
    PROVE  IInv' /\ StartsWithin
<1>1. Moves(t) /\ task'[t].pc = "rename"
  BY Facts, ContinuesEffect DEF StatFails, At, Places
<1>2. TempOK(t, task'[t], files, named)
  BY <1>1, Facts DEF TempOK, Moves, StatFails, At
<1>. QED
  BY <1>1, <1>2, GoesOn, LinkKept DEF StatFails, Quiet, Continues

(* The temporary file is written: its data are those of TempOK.            *)
LEMMA WritesOn ==
    ASSUME IInv, NEW t \in Tasks, Moves(t), UNCHANGED <<limit, named, atomic>>,
           link' \in {"up", "down", "gone"},
           NEW data \in Seq(Tasks), Written(Temporary(t), data),
           TempOK(t, task'[t], files', named),
           task'[t].pc \notin {"remove", "rename"}
    PROVE  IInv' /\ StartsWithin
<1>1. task[t].pc # "idle"
  BY DEF Moves
<1>2. /\ OnlyOwn(t) /\ TargetsSame
      /\ DOMAIN files' \subseteq Targets \cup (Tasks \X (1..MaxRuns))
      /\ \A p \in DOMAIN files' : files'[p] \in Seq(Tasks \cup {"old"})
  BY <1>1, Facts, WrittenEffect
<1>3. Stored'
  BY <1>2, Facts DEF Stored
<1>4. TargetIsComplete'
  <2>1. \A u \in Tasks : task'[u].target = task[u].target
    BY DEF Moves, Rest
  <2>. QED
    BY <1>2, <2>1, Facts, TargetsKept
<1>. QED
  BY <1>2, <1>3, <1>4, MovesKeeps

(* A file in which t has written its first chunks.                         *)
LEMMA CopiedSeq ==
    ASSUME NEW t \in Tasks, NEW n \in Nat
    PROVE  /\ Copied(t, n) \in Seq(Tasks) /\ Len(Copied(t, n)) = n
           /\ \A i \in 1..n : Copied(t, n)[i] = t
BY DEF Copied

LEMMA EmptyCopied ==
    ASSUME NEW t \in Tasks
    PROVE  <<>> = Copied(t, 0) /\ <<>> \in Seq(Tasks)
BY DEF Copied

(* Writing a file's temporary keeps what TempOK says of the other runs.    *)
LEMMA WriteTemp ==
    ASSUME IInv, NEW t \in Tasks, Moves(t), NEW data \in Seq(Tasks),
           Written(Temporary(t), data),
           \/ task'[t].pc = "cleanup"
           \/ task'[t].pc = "check" /\ data = Copied(t, Size[t])
           \/ /\ task'[t].pc = "chunk" /\ Size[t] # 0
              /\ task'[t].sent \in 1..(Size[t] - 1) /\ data = Copied(t, task'[t].sent)
    PROVE  TempOK(t, task'[t], files', named)
<1>1. task[t].pc # "idle"
  BY DEF Moves
<1>2. /\ OnlyOwn(t) /\ Temporary(t) \in DOMAIN files' /\ files'[Temporary(t)] = data
      /\ Temporary(t) = <<t, task[t].run>>
      /\ task[t].run \in 1..MaxRuns /\ task[t].state = "running"
  BY <1>1, Facts, WrittenEffect, OwnPath
<1>3. \A k \in 1..MaxRuns : k # task[t].run =>
         (<<t, k>> \in DOMAIN files' <=> <<t, k>> \in DOMAIN files)
  BY <1>2 DEF OnlyOwn
<1>. QED
  BY <1>2, <1>3, Facts DEF TempOK, Moves

LEMMA WriteEmptyKeeps ==
    ASSUME IInv, NEW t \in Tasks, WriteEmpty(t)
    PROVE  IInv' /\ StartsWithin
<1>1. Moves(t) /\ task'[t].pc \in {"check", "cleanup"} /\ link' \in {"up", "down", "gone"}
  BY Facts, ContinuesEffect, ThrowsEffect, LinkKept
     DEF WriteEmpty, Replied, At, Places, Errors, Continues
<1>2. Written(Temporary(t), <<>>) /\ Size[t] = 0
  BY DEF WriteEmpty
<1>3. TempOK(t, task'[t], files', named)
  BY <1>1, <1>2, EmptyCopied, WriteTemp
<1>. QED
  BY <1>1, <1>2, <1>3, EmptyCopied, WritesOn DEF WriteEmpty, Quiet

LEMMA WriteChunkKeeps ==
    ASSUME IInv, NEW t \in Tasks, WriteChunk(t)
    PROVE  IInv' /\ StartsWithin
<1>. DEFINE next == task[t].sent + 1
            data == Data(Temporary(t))
            chunks == [i \in 1..next |-> IF i < next /\ i <= Len(data) THEN data[i] ELSE t]
<1>1. task[t].pc = "chunk" /\ task[t].sent \in Nat /\ task[t].sent < Size[t] /\ Size[t] \in Nat
  BY Facts DEF WriteChunk, At, Task, TempOK
<1>2. \A i \in 1..next : i < next /\ i <= Len(data) => data[i] = t
  <2>1. CASE task[t].sent = 0
    BY <2>1
  <2>2. CASE task[t].sent # 0
    <3>1. data = Copied(t, task[t].sent)
      BY <1>1, <2>2, Facts DEF Data, Exists, TempOK, Temporary
    <3>. DEFINE n == task[t].sent
    <3>. HIDE DEF data, n
    <3>2. n \in Nat
      BY <1>1 DEF n
    <3>3. Len(Copied(t, n)) = n /\ \A i \in 1..n : Copied(t, n)[i] = t
      BY <3>2, CopiedSeq
    <3>. QED
      BY <3>1, <3>2, <3>3 DEF n
  <2>. QED
    BY <2>1, <2>2
<1>3. chunks = Copied(t, next) /\ next \in 1..Size[t]
  BY <1>1, <1>2 DEF Copied
<1>4. chunks \in Seq(Tasks)
  BY <1>1, <1>3, CopiedSeq
<1>5. Written(Temporary(t), chunks)
  BY DEF WriteChunk
<1>. HIDE DEF chunks
<1>6. /\ Moves(t) /\ link' \in {"up", "down", "gone"}
      /\ \/ task'[t].pc = "cleanup"
         \/ task'[t].pc = "check" /\ next = Size[t]
         \/ task'[t].pc = "chunk" /\ next < Size[t] /\ task'[t].sent = next
  <2>1. CASE Throws(t, "error") /\ link' = "down"
    BY <1>1, <2>1, Facts, ThrowsEffect DEF Errors
  <2>2. CASE /\ task' = [task EXCEPT ![t].sent = next,
                             ![t].pc = IF next = Size[t] THEN "check" ELSE "chunk"]
             /\ UNCHANGED <<running, link>>
    <3>. DEFINE pc == IF next = Size[t] THEN "check" ELSE "chunk"
    <3>1. pc \in Places \ {"idle"} /\ next \in Nat
      BY <1>1 DEF Places
    <3>. HIDE DEF pc, next
    <3>2. Moves(t) /\ task'[t].pc = pc /\ task'[t].sent = next
      BY ZenonT(60), <1>1, <2>2, <3>1, Facts, SentEffect DEF pc
    <3>. QED
      BY <1>1, <1>3, <2>2, <3>2, LinkKept DEF pc, next
  <2>. QED
    BY <2>1, <2>2 DEF WriteChunk
<1>7. TempOK(t, task'[t], files', named)
  BY <1>1, <1>3, <1>4, <1>5, <1>6, WriteTemp
<1>. QED
  BY <1>4, <1>5, <1>6, <1>7, WritesOn DEF WriteChunk, Quiet

(* A temporary file takes the place of its target.                         *)
LEMMA RenameKeeps ==
    ASSUME IInv, NEW t \in Tasks, At(t, "commit") \/ At(t, "rename"),
           Temporary(t) \in DOMAIN files, Renamed(Temporary(t), task[t].target),
           Replied(t, "committed"), Quiet
    PROVE  IInv' /\ StartsWithin
<1>1. Moves(t) /\ task'[t].pc \in {"committed", "cleanup"} /\ link' \in {"up", "down", "gone"}
  BY Facts, ContinuesEffect, ThrowsEffect, LinkKept DEF Replied, At, Places, Errors, Continues
<1>2. task[t].pc # "idle"
  BY DEF At
<1>3. /\ OnlyOwn(t) /\ Temporary(t) \notin DOMAIN files'
      /\ task[t].target \in DOMAIN files'
      /\ files'[task[t].target] = files[Temporary(t)]
      /\ \A p \in Targets : p # task[t].target =>
             /\ p \in DOMAIN files' <=> p \in DOMAIN files
             /\ p \in DOMAIN files => files'[p] = files[p]
      /\ DOMAIN files' \subseteq Targets \cup (Tasks \X (1..MaxRuns))
      /\ \A p \in DOMAIN files' : files'[p] \in Seq(Tasks \cup {"old"})
  BY <1>2, Facts, RenamedEffect
<1>4. /\ Temporary(t) = <<t, task[t].run>> /\ task[t].run \in 1..MaxRuns
      /\ task[t].state = "running"
  BY <1>2, Facts, OwnPath
<1>5. Stored'
  BY <1>1, <1>3, Facts DEF Stored, Quiet
<1>6. files[Temporary(t)] = Copied(t, Size[t])
  BY <1>4, Facts DEF TempOK, At
<1>7. TempOK(t, task'[t], files', named)
  <2>1. \A k \in 1..MaxRuns : <<t, k>> \in DOMAIN files' => <<t, k>> \in DOMAIN files
    BY <1>3, <1>4 DEF OnlyOwn
  <2>2. TempOK(t, task[t], files, named)
    BY Facts
  <2>3. task'[t].run = task[t].run /\ task'[t].state = "running"
    BY <1>1, <1>4 DEF Moves
  <2>. HIDE DEF Temporary
  <2>. QED
    BY <1>1, <1>3, <1>4, <2>1, <2>2, <2>3 DEF TempOK
<1>8. TargetIsComplete'
  <2>1. \A u \in Tasks : task'[u].target = task[u].target
    BY <1>1 DEF Moves, Rest
  <2>. QED
    BY SMTT(30), <1>3, <1>6, <2>1, Facts DEF TargetIsComplete, Quiet
<1>. QED
  BY <1>1, <1>3, <1>5, <1>7, <1>8, MovesKeeps DEF Quiet

LEMMA CommitKeeps ==
    ASSUME IInv, NEW t \in Tasks, Commit(t)
    PROVE  IInv' /\ StartsWithin
<1>1. CASE atomic
  BY <1>1, RenameKeeps DEF Commit, Exists
<1>2. CASE ~atomic
  <2>. DEFINE pc == IF Exists(task[t].target) THEN "remove" ELSE "rename"
  <2>1. pc \in Places \ {"idle"} /\ pc \in {"remove", "rename"}
    BY DEF Places
  <2>2. Continues(t, pc) /\ files' = files
    BY <1>2 DEF Commit
  <2>. HIDE DEF pc
  <2>3. Moves(t) /\ task'[t].pc = pc
    BY <2>1, <2>2, Facts, ContinuesEffect DEF Commit, At
  <2>4. TempOK(t, task'[t], files, named)
    BY <2>1, <2>3, Facts DEF TempOK, Moves, Commit, At
  <2>. QED
    BY <1>2, <2>2, <2>3, <2>4, GoesOn, LinkKept DEF Commit, Quiet, Continues
<1>. QED
  BY <1>1, <1>2

LEMMA RenameTemporaryKeeps ==
    ASSUME IInv, NEW t \in Tasks, RenameTemporary(t)
    PROVE  IInv' /\ StartsWithin
BY RenameKeeps DEF RenameTemporary, Exists

LEMMA RemoveTargetKeeps ==
    ASSUME IInv, NEW t \in Tasks, RemoveTarget(t)
    PROVE  IInv' /\ StartsWithin
<1>1. Moves(t) /\ task'[t].pc \in {"rename", "cleanup"} /\ link' \in {"up", "down", "gone"}
  BY Facts, ContinuesEffect, ThrowsEffect, LinkKept
     DEF RemoveTarget, Replied, At, Places, Errors, Continues
<1>2. task[t].pc = "remove" /\ task[t].pc # "idle" /\ ~atomic
  BY Facts DEF RemoveTarget, At
<1>3. /\ Temporary(t) = <<t, task[t].run>> /\ task[t].run \in 1..MaxRuns
      /\ task[t].state = "running" /\ task[t].target \in Targets
      /\ Temporary(t) \notin Targets
  BY <1>2, Facts, OwnPath
<1>4. /\ OnlyOwn(t)
      /\ \A p \in DOMAIN files' : p \in DOMAIN files /\ files'[p] = files[p]
      /\ DOMAIN files' \subseteq Targets \cup (Tasks \X (1..MaxRuns))
      /\ \A p \in DOMAIN files' : files'[p] \in Seq(Tasks \cup {"old"})
      /\ DOMAIN files' = DOMAIN files \ {task[t].target}
  BY <1>2, <1>3, Facts, RemovedEffect DEF RemoveTarget, Exists, Removed, Restrict
<1>5. Stored'
  BY <1>1, <1>4, Facts DEF Stored, RemoveTarget, Quiet
<1>6. TempOK(t, task'[t], files', named)
  <2>1. \A k \in 1..MaxRuns : <<t, k>> \in DOMAIN files' => <<t, k>> \in DOMAIN files
    BY <1>4
  <2>2. <<t, task[t].run>> \in DOMAIN files' /\ files'[<<t, task[t].run>>] = Copied(t, Size[t])
    BY <1>2, <1>3, <1>4, Facts DEF TempOK
  <2>. QED
    BY <1>1, <1>3, <2>1, <2>2, Facts DEF TempOK, Moves
<1>7. TargetIsComplete'
  <2>1. \A u \in Tasks : task'[u].target = task[u].target
    BY <1>1 DEF Moves, Rest
  <2>. QED
    BY <1>2, <1>4, <2>1, Facts DEF TargetIsComplete, RemoveTarget, Quiet
<1>. QED
  BY <1>1, <1>2, <1>4, <1>5, <1>6, <1>7, MovesKeeps DEF RemoveTarget, Quiet

LEMMA RequestFailsKeeps ==
    ASSUME IInv, NEW t \in Tasks, RequestFails(t)
    PROVE  IInv' /\ StartsWithin
<1>1. Moves(t) /\ task'[t].pc = "cleanup" /\ link' \in {"up", "down", "gone"}
  BY Facts, ThrowsEffect, LinkKept DEF RequestFails, At, Errors
<1>2. CASE files' = files
  <2>1. TempOK(t, task'[t], files, named)
    BY <1>1, Facts DEF TempOK, Moves
  <2>. QED
    BY <1>1, <1>2, <2>1, GoesOn DEF RequestFails, Quiet
<1>3. CASE Written(Temporary(t), <<>>)
  <2>1. TempOK(t, task'[t], files', named)
    BY <1>1, <1>3, EmptyCopied, WriteTemp
  <2>. QED
    BY <1>1, <1>3, <2>1, EmptyCopied, WritesOn DEF RequestFails, Quiet
<1>. QED
  BY <1>2, <1>3 DEF RequestFails

-----------------------------------------------------------------------------
(* The actions of the queue                                                *)

(* A call of pump, with the tasks and the count that it is given.          *)
LEMMA PumpKeeps ==
    ASSUME IInv, NEW tasks, NEW busy, QueueOK(tasks, busy), Pump(tasks, busy, limit'),
           limit' \in 1..MaxLimit, Stored', TargetsSame, atomic' = atomic,
           \A t \in Tasks : /\ TempOK(t, tasks[t], files', named')
                            /\ tasks[t].pc \in {"remove", "rename"} => ~atomic
                            /\ tasks[t].run = task[t].run
                            /\ task[t].target \in {"none", tasks[t].target}
    PROVE  IInv' /\ StartsWithin
<1>1. PumpsTo(tasks, limit')
  <2>1. limit' \in Nat
    OBVIOUS
  <2>. QED
    BY <2>1, PumpEffect
<1>2. /\ QueueOK(task', running')
      /\ \A t \in Tasks : Starts(tasks[t], task'[t]) \/ task'[t] = tasks[t]
      /\ (\E t \in Tasks : task'[t] # tasks[t]) => running' <= limit'
  BY <1>1 DEF PumpsTo
<1>3. \A t \in Tasks : tasks[t] \in Task /\ task'[t] \in Task
  BY <1>2 DEF QueueOK
<1>4. \A t \in Tasks : TempOK(t, task'[t], files', named')
  BY <1>2, <1>3, StartKeepsTemp
<1>5. \A t \in Tasks : task'[t].pc \in {"remove", "rename"} => ~atomic
  BY <1>2 DEF Starts
<1>6. TargetIsComplete'
  <2>1. \A t \in Tasks : task[t].target = "none" \/ task'[t].target = task[t].target
    BY <1>2 DEF Starts, Rest
  <2>. QED
    BY <2>1, Facts, TargetsKept DEF IInv
<1>7. StartsWithin
  <2>1. ASSUME NEW t \in Tasks, task'[t].run > task[t].run PROVE running' <= limit'
    <3>1. task'[t] # tasks[t]
      BY <1>3, <2>1 DEF Task
    <3>. QED
      BY <1>2, <3>1
  <2>2. running' = Cardinality({t \in Tasks : task'[t].state = "running"})
    BY <1>2 DEF QueueOK, Busy
  <2>. QED
    BY <2>1, <2>2 DEF StartsWithin
<1>8. Temps' /\ Plain'
  BY <1>4, <1>5 DEF Temps, Plain
<1>. QED
  BY <1>2, <1>6, <1>7, <1>8 DEF IInv

(* The task t leaves the running ones.                                     *)
Done(t, state) ==
    [task EXCEPT ![t].state = state, ![t].pc = "idle", ![t].error = "none"]

LEMMA DoneEffect ==
    ASSUME QueueOK(task, running), NEW t \in Tasks, task[t].pc # "idle",
           NEW state \in {"completed", "failed", "cancelled"}
    PROVE  /\ QueueOK(Done(t, state), running - 1)
           /\ Done(t, state)[t].state = state /\ Done(t, state)[t].pc = "idle"
           /\ Done(t, state)[t].run = task[t].run /\ Rest(task[t], Done(t, state)[t])
           /\ \A u \in Tasks : u # t => Done(t, state)[u] = task[u]
<1>. DEFINE x == [[[task[t] EXCEPT !.state = state] EXCEPT !.pc = "idle"] EXCEPT !.error = "none"]
            d == Done(t, state)
<1>1. /\ task \in [Tasks -> Task] /\ Consistent(task[t])
      /\ state \in States /\ "idle" \in Places /\ "none" \in Errors
  BY DEF QueueOK, States, Places, Errors
<1>2. x \in Task
  BY <1>1, MoreUpdates
<1>3. d \in [Tasks -> Task] /\ d[t] = x /\ \A u \in Tasks : u # t => d[u] = task[u]
  BY <1>1, <1>2 DEF Done
<1>4. /\ x.state = state /\ x.pc = "idle" /\ x.run = task[t].run
      /\ Rest(task[t], x)
  BY <1>1 DEF Task, Rest
<1>. HIDE DEF d, x
<1>5. task[t].state = "running"
  BY <1>1 DEF Consistent
<1>6. Entered(d) = Entered(task) /\ Entered(task) \subseteq Tasks
  BY <1>3, <1>4, <1>5 DEF Entered
<1>7. Busy(d) = Busy(task) \ {t} /\ t \in Busy(task) /\ Busy(task) \subseteq Entered(task)
  BY <1>3, <1>4, <1>5 DEF Busy, Entered
<1>8. Cardinality(Busy(d)) = running - 1
  <2>1. IsFiniteSet(Busy(task))
    BY <1>7, FS_Subset DEF QueueOK
  <2>. QED
    BY ZenonT(60), <1>7, <2>1, FS_RemoveElement DEF QueueOK
<1>9. \A u \in Tasks : Consistent(d[u]) /\ d[u].place = task[u].place
  BY <1>1, <1>3, <1>4, <1>5 DEF QueueOK, Consistent, Rest
<1>10. QueueOK(d, running - 1)
  BY <1>3, <1>6, <1>8, <1>9 DEF QueueOK
<1>. QED
  BY <1>3, <1>4, <1>10 DEF d

LEMMA SettlesKeeps ==
    ASSUME IInv, NEW t \in Tasks, task[t].pc # "idle",
           NEW state \in {"completed", "failed", "cancelled"}, Settles(t, state),
           OnlyOwn(t), TargetsSame, UNCHANGED <<limit, atomic>>, Stored',
           named \subseteq named', named' \subseteq named \cup {Temporary(t)},
           Temporary(t) \in DOMAIN files' => Temporary(t) \in named'
    PROVE  IInv' /\ StartsWithin
<1>. DEFINE d == Done(t, state)
<1>1. Pump(d, running - 1, limit') /\ limit' \in 1..MaxLimit
  BY DEF Settles, Done, IInv
<1>2. /\ QueueOK(d, running - 1)
      /\ d[t].state = state /\ d[t].pc = "idle" /\ d[t].run = task[t].run
      /\ Rest(task[t], d[t])
      /\ \A u \in Tasks : u # t => d[u] = task[u]
  BY Facts, DoneEffect
<1>3. /\ Temporary(t) = <<t, task[t].run>> /\ task[t].run \in 1..MaxRuns
      /\ task[t].state = "running"
  BY Facts, OwnPath
<1>. HIDE DEF d
<1>4. TempOK(t, d[t], files', named')
  <2>1. \A k \in 1..MaxRuns : k # task[t].run =>
           (<<t, k>> \in DOMAIN files' <=> <<t, k>> \in DOMAIN files)
    BY <1>3 DEF OnlyOwn
  <2>2. d[t].run \in Int
    BY <1>2, <1>3
  <2>. QED
    BY <1>2, <1>3, <2>1, <2>2, Facts DEF TempOK
<1>5. \A u \in Tasks : u # t => TempOK(u, d[u], files', named')
  BY <1>2, Facts, OthersKeepTemp
<1>6. \A u \in Tasks : /\ d[u].pc \in {"remove", "rename"} => ~atomic
                       /\ d[u].run = task[u].run
                       /\ task[u].target \in {"none", d[u].target}
  BY <1>2, Facts DEF Rest
<1>. QED
  BY <1>1, <1>2, <1>4, <1>5, <1>6, PumpKeeps

LEMMA SourceStatFailsKeeps ==
    ASSUME IInv, NEW t \in Tasks, SourceStatFails(t)
    PROVE  IInv' /\ StartsWithin
<1>1. Temporary(t) \notin DOMAIN files' /\ task[t].pc # "idle" /\ files' = files
  BY Facts DEF SourceStatFails, At, TempOK, Temporary
<1>2. Stored'
  BY <1>1, Facts DEF Stored, SourceStatFails, Quiet
<1>. QED
  BY <1>1, <1>2, SameFiles, SettlesKeeps DEF SourceStatFails, Quiet

LEMMA CompletesKeeps ==
    ASSUME IInv, NEW t \in Tasks, Completes(t)
    PROVE  IInv' /\ StartsWithin
<1>1. Temporary(t) \notin DOMAIN files' /\ task[t].pc # "idle" /\ files' = files
  BY Facts DEF Completes, At, TempOK, Temporary
<1>2. Stored'
  BY <1>1, Facts DEF Stored, Completes, Quiet
<1>. QED
  BY <1>1, <1>2, SameFiles, SettlesKeeps DEF Completes, Quiet

LEMMA CleansUpKeeps ==
    ASSUME IInv, NEW t \in Tasks, CleansUp(t)
    PROVE  IInv' /\ StartsWithin
<1>. DEFINE state == IF task[t].error = "cancelled" \/ task[t].aborted
                     THEN "cancelled" ELSE "failed"
<1>1. task[t].pc # "idle"
  BY DEF CleansUp, At
<1>2. /\ OnlyOwn(t) /\ TargetsSame /\ Temporary(t) \notin DOMAIN files'
      /\ DOMAIN files' \subseteq Targets \cup (Tasks \X (1..MaxRuns))
      /\ \A p \in DOMAIN files' : files'[p] \in Seq(Tasks \cup {"old"})
  BY <1>1, Facts, RemovedEffect DEF CleansUp, Exists
<1>3. Stored'
  BY <1>2, Facts DEF Stored, CleansUp, Quiet
<1>4. Settles(t, state) /\ state \in {"completed", "failed", "cancelled"}
  BY DEF CleansUp
<1>. HIDE DEF state
<1>. QED
  BY <1>1, <1>2, <1>3, <1>4, SettlesKeeps DEF CleansUp, Quiet

LEMMA CleanupFailsKeeps ==
    ASSUME IInv, NEW t \in Tasks, CleanupFails(t)
    PROVE  IInv' /\ StartsWithin
<1>. DEFINE state == IF task[t].error = "cancelled" THEN "cancelled" ELSE "failed"
<1>1. task[t].pc # "idle"
  BY DEF CleanupFails, At
<1>2. Temporary(t) \in Tasks \X (1..MaxRuns)
  BY <1>1, Facts, OwnPath
<1>3. Stored'
  BY <1>2, Facts DEF Stored, CleanupFails
<1>4. Settles(t, state) /\ state \in {"completed", "failed", "cancelled"}
  BY DEF CleanupFails
<1>. HIDE DEF state
<1>. QED
  BY <1>1, <1>3, <1>4, SameFiles, SettlesKeeps DEF CleanupFails

(* A task is entered behind the others.                                    *)
LEMMA EnqueueKeeps ==
    ASSUME IInv, NEW t \in Tasks, NEW target \in Targets, Enqueue(t, target)
    PROVE  IInv' /\ StartsWithin
<1>. DEFINE place == 1 + Cardinality({u \in Tasks : task[u].state # "none"})
            x == [NoTask EXCEPT !.state = "queued", !.place = place, !.target = target]
            tasks == [task EXCEPT ![t] = x]
<1>1. /\ QueueOK(task, running) /\ task \in [Tasks -> Task]
      /\ IsFiniteSet(Entered(task)) /\ running = Cardinality(Busy(task))
      /\ \A u \in Tasks : Consistent(task[u])
  BY Facts DEF QueueOK
<1>2. place = 1 + Cardinality(Entered(task)) /\ Cardinality(Entered(task)) \in Nat
  BY <1>1, FS_CardinalityType DEF Entered
<1>. HIDE DEF place
<1>3. NoTask \in Task
  BY DEF NoTask, Task, States, Places, Errors
<1>4. x \in Task
  <2>1. "queued" \in States /\ place \in Nat
    BY <1>2 DEF States
  <2>2. x = [[[NoTask EXCEPT !.state = "queued"] EXCEPT !.place = place] EXCEPT !.target = target]
    OBVIOUS
  <2>. HIDE DEF x
  <2>. QED
    BY <1>3, <2>1, <2>2, MoreUpdates
<1>5. /\ x.state = "queued" /\ x.pc = "idle" /\ x.place = place /\ x.target = target
      /\ x.run = 0
  BY DEF NoTask
<1>6. Pump(tasks, running, limit) /\ task[t].state = "none"
  BY DEF Enqueue, place
<1>. HIDE DEF x
<1>7. tasks \in [Tasks -> Task] /\ tasks[t] = x /\ \A u \in Tasks : u # t => tasks[u] = task[u]
  BY <1>1, <1>4
<1>. HIDE DEF tasks
<1>8. task[t].target = "none" /\ task[t].run = 0
  BY <1>1, <1>6 DEF Consistent
<1>9. QueueOK(tasks, running)
  <2>1. Busy(tasks) = Busy(task)
    BY <1>5, <1>6, <1>7 DEF Busy
  <2>2. Entered(tasks) = Entered(task) \cup {t} /\ t \notin Entered(task)
    BY <1>5, <1>6, <1>7 DEF Entered
  <2>3. IsFiniteSet(Entered(tasks)) /\ Cardinality(Entered(tasks)) = place
    BY <1>1, <1>2, <2>2, FS_AddElement
  <2>4. Entered(task) \subseteq Tasks
    BY DEF Entered
  <2>5. \A u \in Entered(task) : tasks[u].place = task[u].place /\ task[u].place < place
                                 /\ task[u].place \in Nat
    BY <1>1, <1>2, <1>7, <2>2, <2>4 DEF QueueOK, Task
  <2>6. \A u \in Entered(tasks) : tasks[u].place <= Cardinality(Entered(tasks))
    BY <1>2, <1>5, <1>7, <2>2, <2>3, <2>5
  <2>7. \A u, w \in Entered(tasks) : tasks[u].place = tasks[w].place => u = w
    BY <1>1, <1>2, <1>5, <1>7, <2>2, <2>5 DEF QueueOK
  <2>8. \A u \in Tasks : Consistent(tasks[u])
    BY <1>1, <1>5, <1>7 DEF Consistent
  <2>. QED
    BY <1>1, <1>7, <2>1, <2>3, <2>6, <2>7, <2>8 DEF QueueOK
<1>10. TempOK(t, tasks[t], files, named)
  BY <1>5, <1>6, <1>7, <1>8, Facts DEF TempOK
<1>11. \A u \in Tasks : /\ TempOK(u, tasks[u], files, named)
                        /\ tasks[u].pc \in {"remove", "rename"} => ~atomic
                        /\ tasks[u].run = task[u].run
                        /\ task[u].target \in {"none", tasks[u].target}
  BY <1>5, <1>7, <1>8, <1>10, Facts
<1>12. UNCHANGED <<limit, files, link, atomic, named>>
  BY DEF Enqueue
<1>13. Stored' /\ TargetsSame /\ limit' \in 1..MaxLimit
  BY <1>12, Facts, SameFiles DEF Stored, IInv
<1>. QED
  BY <1>6, <1>9, <1>11, <1>12, <1>13, PumpKeeps

LEMMA RetryKeeps ==
    ASSUME IInv, NEW t \in Tasks, Retry(t)
    PROVE  IInv' /\ StartsWithin
<1>. DEFINE x == [[task[t] EXCEPT !.state = "queued"] EXCEPT !.aborted = FALSE]
            tasks == [task EXCEPT ![t].state = "queued", ![t].aborted = FALSE]
<1>1. /\ QueueOK(task, running) /\ task \in [Tasks -> Task]
      /\ \A u \in Tasks : Consistent(task[u])
  BY Facts DEF QueueOK
<1>2. /\ Pump(tasks, running, limit) /\ task[t].state \in {"failed", "cancelled"}
      /\ task[t].run < MaxRuns /\ UNCHANGED <<limit, files, link, atomic, named>>
  BY DEF Retry
<1>3. x \in Task
  <2>1. "queued" \in States /\ FALSE \in BOOLEAN
    BY DEF States
  <2>. QED
    BY <1>1, <2>1, MoreUpdates
<1>4. /\ x.state = "queued" /\ x.pc = task[t].pc /\ x.run = task[t].run
      /\ Rest(task[t], x)
  BY <1>1 DEF Task, Rest
<1>5. tasks \in [Tasks -> Task] /\ tasks[t] = x /\ \A u \in Tasks : u # t => tasks[u] = task[u]
  BY <1>1, <1>3
<1>. HIDE DEF x, tasks
<1>6. QueueOK(tasks, running)
  <2>1. Busy(tasks) = Busy(task) /\ Entered(tasks) = Entered(task)
    BY <1>2, <1>4, <1>5 DEF Busy, Entered
  <2>2. \A u \in Tasks : Consistent(tasks[u]) /\ tasks[u].place = task[u].place
    BY <1>1, <1>2, <1>4, <1>5 DEF Consistent, Rest
  <2>3. Entered(task) \subseteq Tasks
    BY DEF Entered
  <2>. QED
    BY <1>1, <1>5, <2>1, <2>2, <2>3 DEF QueueOK
<1>7. task[t].pc = "idle"
  BY <1>1, <1>2 DEF Consistent
<1>8. TempOK(t, tasks[t], files, named)
  BY <1>2, <1>4, <1>5, <1>7, Facts DEF TempOK
<1>9. \A u \in Tasks : /\ TempOK(u, tasks[u], files, named)
                       /\ tasks[u].pc \in {"remove", "rename"} => ~atomic
                       /\ tasks[u].run = task[u].run
                       /\ task[u].target \in {"none", tasks[u].target}
  BY <1>4, <1>5, <1>7, <1>8, Facts DEF Rest
<1>10. Stored' /\ TargetsSame /\ limit' \in 1..MaxLimit
  BY <1>2, Facts, SameFiles DEF Stored, IInv
<1>. QED
  BY <1>2, <1>6, <1>9, <1>10, PumpKeeps

LEMMA SetConcurrencyKeeps ==
    ASSUME IInv, NEW n \in 1..MaxLimit, SetConcurrency(n)
    PROVE  IInv' /\ StartsWithin
<1>1. /\ Pump(task, running, limit') /\ limit' \in 1..MaxLimit
      /\ UNCHANGED <<files, link, atomic, named>>
  BY DEF SetConcurrency
<1>2. \A u \in Tasks : /\ TempOK(u, task[u], files', named')
                       /\ task[u].pc \in {"remove", "rename"} => ~atomic
                       /\ task[u].run = task[u].run
                       /\ task[u].target \in {"none", task[u].target}
  BY <1>1, Facts
<1>3. Stored' /\ TargetsSame /\ QueueOK(task, running)
  BY <1>1, SameFiles DEF Stored, IInv
<1>. QED
  BY <1>1, <1>2, <1>3, PumpKeeps

LEMMA CancelKeeps ==
    ASSUME IInv, NEW t \in Tasks, Cancel(t)
    PROVE  IInv' /\ StartsWithin
<1>. DEFINE state == IF task[t].state = "queued" THEN "cancelled" ELSE task[t].state
            x == [[task[t] EXCEPT !.state = state] EXCEPT !.aborted = TRUE]
<1>1. /\ QueueOK(task, running) /\ task \in [Tasks -> Task]
      /\ \A u \in Tasks : Consistent(task[u])
  BY Facts DEF QueueOK
<1>2. /\ task[t].state \in {"queued", "running"}
      /\ UNCHANGED <<running, limit, files, link, atomic, named>>
  BY DEF Cancel
<1>3. state \in States /\ (state = "running" <=> task[t].state = "running")
      /\ state \notin {"none", "queued"}
  BY <1>2 DEF States
<1>4. x \in Task
  <2>. HIDE DEF state
  <2>. QED
    BY <1>1, <1>3, MoreUpdates
<1>5. task' = [task EXCEPT ![t] = x]
  <2>1. \A y \in Task, v \in States : [[y EXCEPT !.aborted = TRUE] EXCEPT !.state = v]
                               = [[y EXCEPT !.state = v] EXCEPT !.aborted = TRUE]
    BY DEF Task
  <2>2. task' = [task EXCEPT ![t] = [[task[t] EXCEPT !.aborted = TRUE] EXCEPT !.state = state]]
    BY <1>1 DEF Cancel, Task
  <2>. QED
    BY <1>1, <1>3, <2>1, <2>2
<1>6. /\ x.state = state /\ x.pc = task[t].pc /\ x.run = task[t].run /\ x.sent = task[t].sent
      /\ Rest(task[t], x)
  BY <1>1 DEF Task, Rest
<1>. HIDE DEF x, state
<1>7. task' \in [Tasks -> Task] /\ task'[t] = x /\ \A u \in Tasks : u # t => task'[u] = task[u]
  BY <1>1, <1>4, <1>5
<1>8. QueueOK(task', running')
  <2>1. Busy(task') = Busy(task) /\ Entered(task') = Entered(task)
    BY <1>2, <1>3, <1>6, <1>7 DEF Busy, Entered
  <2>2. \A u \in Tasks : Consistent(task'[u]) /\ task'[u].place = task[u].place
    BY <1>1, <1>2, <1>3, <1>6, <1>7 DEF Consistent, Rest
  <2>3. Entered(task) \subseteq Tasks
    BY DEF Entered
  <2>. QED
    BY <1>1, <1>2, <1>7, <2>1, <2>2, <2>3 DEF QueueOK
<1>9. TempOK(t, task'[t], files, named)
  BY <1>2, <1>3, <1>6, <1>7, Facts DEF TempOK
<1>10. Temps' /\ Plain'
  BY <1>2, <1>6, <1>7, <1>9, Facts DEF Temps, Plain
<1>11. TargetIsComplete'
  <2>1. \A u \in Tasks : task'[u].target = task[u].target
    BY <1>6, <1>7 DEF Rest
  <2>. QED
    BY <1>2, <2>1, Facts, SameFiles, TargetsKept
<1>12. StartsWithin
  <2>1. \A u \in Tasks : task'[u].run = task[u].run /\ task[u].run \in Int
    BY <1>1, <1>6, <1>7 DEF Task
  <2>. QED
    BY <2>1 DEF StartsWithin
<1>. QED
  BY <1>2, <1>8, <1>10, <1>11, <1>12 DEF IInv, Stored

-----------------------------------------------------------------------------
(* The theorems                                                            *)

LEMMA InitHolds == Init => IInv
<1>. SUFFICES ASSUME Init PROVE IInv
  OBVIOUS
<1>1. NoTask \in Task /\ \A t \in Tasks : task[t] = NoTask
  BY DEF Init, NoTask, Task, States, Places, Errors
<1>2. Entered(task) = {} /\ Busy(task) = {}
  BY <1>1 DEF Entered, Busy, NoTask
<1>3. QueueOK(task, running)
  <2>1. \A t \in Tasks : Consistent(task[t])
    BY <1>1 DEF Consistent, NoTask
  <2>2. IsFiniteSet({}) /\ Cardinality({}) = 0
    BY FS_EmptySet
  <2>. QED
    BY <1>1, <1>2, <2>1, <2>2 DEF Init, QueueOK
<1>4. Stored /\ limit \in 1..MaxLimit
  BY DEF Init, Stored
<1>5. Temps
  BY <1>1 DEF Init, Temps, TempOK, NoTask
<1>6. Plain
  BY <1>1 DEF Plain, NoTask
<1>7. TargetIsComplete
  BY DEF Init, TargetIsComplete
<1>. QED
  BY <1>3, <1>4, <1>5, <1>6, <1>7 DEF IInv

LEMMA StutterKeeps ==
    ASSUME IInv, UNCHANGED <<task, running, limit, files, atomic, named>>,
           link' \in {"up", "down", "gone"}
    PROVE  IInv' /\ StartsWithin
<1>1. \A t \in Tasks : task'[t].run = task[t].run /\ task[t].run \in Int
  BY Facts DEF Task
<1>2. StartsWithin
  BY <1>1 DEF StartsWithin
<1>. QED
  BY <1>2, Facts DEF IInv, Stored, Temps, Plain, TargetIsComplete

LEMMA NextKeeps == IInv /\ [Next]_vars => IInv' /\ StartsWithin
<1>. SUFFICES ASSUME IInv, [Next]_vars PROVE IInv' /\ StartsWithin
  OBVIOUS
<1>1. CASE UserNext
  BY <1>1, EnqueueKeeps, CancelKeeps, RetryKeeps, SetConcurrencyKeeps DEF UserNext
<1>2. CASE LinkFails \/ TabCloses
  BY <1>2, StutterKeeps DEF LinkFails, TabCloses
<1>3. CASE \E t \in Tasks : TransferNext(t)
  <2>1. PICK t \in Tasks : TransferNext(t)
    BY <1>3
  <2>. QED
    BY <2>1, SourceStatKeeps, SourceStatFailsKeeps, AbortedKeeps, WriteEmptyKeeps,
       WriteChunkKeeps, ValidateKeeps, CommitKeeps, StatFailsKeeps, RemoveTargetKeeps,
       RenameTemporaryKeeps, CompletesKeeps, RequestFailsKeeps, CleansUpKeeps,
       CleanupFailsKeeps DEF TransferNext
<1>4. CASE UNCHANGED vars
  BY <1>4, StutterKeeps, LinkKept DEF vars
<1>. QED
  BY <1>1, <1>2, <1>3, <1>4 DEF Next

(* The queue, its count and the files on the server stay in step whatever  *)
(* is cancelled, retried or fails.                                         *)
THEOREM TransferInvariant == Spec => []IInv
BY InitHolds, NextKeeps, PTL DEF Spec

(* The variables keep their types, for any number of tasks; the count of   *)
(* running tasks never becomes negative.                                   *)
THEOREM TypesKept == Spec => []TypeOK
<1>1. ASSUME IInv PROVE TypeOK
  <2>1. task \in [Tasks -> Task] /\ running \in Nat
    <3>1. Busy(task) \subseteq Entered(task)
      BY DEF Busy, Entered
    <3>2. IsFiniteSet(Busy(task))
      BY <1>1, <3>1, FS_Subset DEF IInv, QueueOK
    <3>. QED
      BY <1>1, <3>2, FS_CardinalityType DEF IInv, QueueOK
  <2>. QED
    BY <1>1, <2>1 DEF IInv, Stored, TypeOK, Task, States, Places, Errors
<1>. QED
  BY <1>1, TransferInvariant, PTL

(* However transfers to a target interleave, are cancelled, retried or     *)
(* fail, a file at a target path is the old one or a whole copy, and with  *)
(* the rename extension a file that was there never goes away.             *)
THEOREM TargetsAreComplete == Spec => []TargetIsComplete
<1>1. IInv => TargetIsComplete
  BY DEF IInv
<1>. QED
  BY <1>1, TransferInvariant, PTL

(* Every temporary file that outlives its run was named in an error.       *)
THEOREM LeftoversAreNamed == Spec => []LeftoversNamed
<1>1. IInv => LeftoversNamed
  BY DEF IInv, Temps, TempOK, LeftoversNamed, Exists
<1>. QED
  BY <1>1, TransferInvariant, PTL

(* A task is started only within the limit then in force, for any number   *)
(* of waiting, cancelled and retried tasks and any change of the limit.    *)
THEOREM LimitIsKept == Spec => LimitKept
<1>1. StartsWithin => [(\E t \in Tasks : task'[t].run > task[t].run) =>
           Cardinality({t \in Tasks : task'[t].state = "running"}) <= limit']_vars
  BY DEF StartsWithin
<1>. QED
  BY <1>1, TransferInvariant, NextKeeps, PTL DEF Spec, LimitKept
=============================================================================
