--------------------------- MODULE FileTransfers ---------------------------
(***************************************************************************)
(* Copying files to a server (transfer.ts, transfer-runtime.ts): the queue *)
(* of transfers and, for each of them, transferFile, which writes a        *)
(* temporary file beside its target, validates it and puts it in place.    *)
(*                                                                         *)
(* A transfer copies one regular file, given by its number of chunks; a    *)
(* chunk is known by the task that wrote it.  All targets are on one SFTP  *)
(* session.  A check of the signal and the request that follows it are one *)
(* step, since nothing but that check reads the signal.                    *)
(***************************************************************************)
EXTENDS Integers, Sequences, FiniteSets, Functions

CONSTANTS
    Tasks,     \* calls of enqueueTransfer
    Targets,   \* paths of target files
    Existing,  \* those that exist at first
    Supports,  \* what backend.supports may say of posix-rename
    Size,      \* the number of chunks in the file each task copies
    MaxLimit,  \* the largest concurrency a user may set
    MaxRuns,   \* bound: runs of a task, retries included
    Retried,   \* bound: the tasks that may be retried
    MayClose   \* bound: the file tab may be closed during a transfer

ASSUME TransferAssumption ==
    /\ Existing \subseteq Targets /\ Retried \subseteq Tasks
    /\ Supports \subseteq BOOLEAN /\ MayClose \in BOOLEAN
    /\ \A t \in Tasks : Size[t] \in Nat
    /\ MaxLimit \in Nat \ {0} /\ MaxRuns \in Nat \ {0}
    \* a temporary name, with its random part, is nobody's target
    /\ Targets \cap (Tasks \X (1..MaxRuns)) = {} /\ "none" \notin Targets

VARIABLES
    task,      \* the queue's items with their snapshots and running calls
    running,   \* TransferQueue.running
    limit,     \* TransferQueue.concurrency
    files,     \* the server: a function from the paths that exist
    link,      \* "up", "down": requests fail, "gone": nobody answers them
    atomic,    \* backend.supports says that posix-rename is there
    named      \* history: temporary files named in an error's orphanPath

vars == <<task, running, limit, files, link, atomic, named>>

NoTask == [state |-> "none", pc |-> "idle", place |-> 0, target |-> "none",
           sent |-> 0, run |-> 0, aborted |-> FALSE, error |-> "none"]

Init ==
    /\ task = [t \in Tasks |-> NoTask]
    /\ running = 0 /\ limit \in 1..MaxLimit
    /\ files = [p \in Existing |-> <<"old">>]
    /\ link = "up" /\ named = {} /\ atomic \in Supports

-----------------------------------------------------------------------------
(* TransferQueue                                                           *)

(* pump: the first queued tasks start while there is room for them.        *)
Pump(tasks, busy, most) ==
    LET waiting == {t \in Tasks : tasks[t].state = "queued"}
        Ahead(t) == {u \in waiting : tasks[u].place < tasks[t].place}
        started == {t \in waiting : Cardinality(Ahead(t)) < most - busy}
    IN  /\ running' = busy + Cardinality(started)
        /\ task' = [t \in Tasks |->
                       IF t \in started
                       THEN [tasks[t] EXCEPT !.state = "running", !.pc = "stat",
                                             !.run = @ + 1, !.sent = 0]
                       ELSE tasks[t]]

Enqueue(t, target) ==
    /\ task[t].state = "none"
    /\ LET place == 1 + Cardinality({u \in Tasks : task[u].state # "none"}) IN
       Pump([task EXCEPT ![t] = [NoTask EXCEPT !.state = "queued", !.place = place,
                                     !.target = target]],
            running, limit)
    /\ UNCHANGED <<limit, files, link, atomic, named>>

(* Mutation: cancelling gives up the slot of a task that is still running. *)
CancelFreesSlot(t) ==
    /\ task[t].state \in {"queued", "running"} /\ ~task[t].aborted
    /\ task' = [task EXCEPT ![t].aborted = TRUE,
                            ![t].state = IF @ = "queued" THEN "cancelled" ELSE @]
    /\ running' = IF task[t].state = "running" THEN running - 1 ELSE running
    /\ UNCHANGED <<limit, files, link, atomic, named>>

(* A running task only has its signal aborted.                             *)
Cancel(t) ==
    /\ task[t].state \in {"queued", "running"} /\ ~task[t].aborted
    /\ task' = [task EXCEPT ![t].aborted = TRUE,
                            ![t].state = IF @ = "queued" THEN "cancelled" ELSE @]
    /\ UNCHANGED <<running, limit, files, link, atomic, named>>

Retry(t) ==
    /\ task[t].state \in {"failed", "cancelled"}
    /\ t \in Retried /\ task[t].run < MaxRuns
    /\ Pump([task EXCEPT ![t].state = "queued", ![t].aborted = FALSE], running, limit)
    /\ UNCHANGED <<limit, files, link, atomic, named>>

SetConcurrency(n) ==
    /\ limit' = n
    /\ Pump(task, running, n)
    /\ UNCHANGED <<files, link, atomic, named>>

(* Mutation: the next task is not started.                                 *)
SettlesOnly(t, state) ==
    /\ task' = [task EXCEPT ![t].state = state, ![t].pc = "idle", ![t].error = "none"]
    /\ running' = running - 1

(* run() is over: its result is recorded and the next task started.        *)
Settles(t, state) ==
    Pump([task EXCEPT ![t].state = state, ![t].pc = "idle", ![t].error = "none"],
         running - 1, limit)

-----------------------------------------------------------------------------
(* transferFile                                                            *)

(* Mutation: transfers to one target share their temporary file.           *)
SharedTemporary(t) == <<CHOOSE u \in Tasks : task[u].target = task[t].target, 1>>

(* Every run makes up its own temporary name.                              *)
Temporary(t) == <<t, task[t].run>>

Exists(path) == path \in DOMAIN files

Written(path, data) ==
    files' = [p \in DOMAIN files \cup {path} |-> IF p = path THEN data ELSE files[p]]

Removed(path) == files' = Restrict(files, DOMAIN files \ {path})

Renamed(from, to) ==
    files' = [p \in (DOMAIN files \ {from}) \cup {to} |->
                 IF p = to THEN files[from] ELSE files[p]]

At(t, pc) == task[t].pc = pc

Continues(t, pc) ==
    task' = [task EXCEPT ![t].pc = pc] /\ UNCHANGED <<running, link>>

(* Inside the try block an error leads to the removal of the temporary.    *)
Throws(t, error) ==
    task' = [task EXCEPT ![t].pc = "cleanup", ![t].sent = 0, ![t].error = error] /\ UNCHANGED running

(* A request has taken effect; its reply may be lost with the connection.  *)
Replied(t, pc) ==
    \/ Continues(t, pc)
    \/ Throws(t, "error") /\ link' = "down"

Quiet == UNCHANGED <<limit, atomic, named>>

(* The source is a regular file.                                           *)
SourceStat(t) ==
    /\ At(t, "stat")
    /\ Continues(t, "chunk")
    /\ Quiet /\ UNCHANGED files

(* This error is thrown before the try block.                              *)
SourceStatFails(t) ==
    /\ At(t, "stat")
    /\ Settles(t, "failed")
    /\ Quiet /\ UNCHANGED <<files, link>>

(* assertNotCancelled, before each chunk and before the validation.        *)
Aborted(t) ==
    /\ task[t].aborted
    /\ At(t, "check") \/ (At(t, "chunk") /\ Size[t] > 0)
    /\ Throws(t, "cancelled")
    /\ Quiet /\ UNCHANGED <<files, link>>

(* An empty file is written at once, another one chunk by chunk.           *)
WriteEmpty(t) ==
    /\ At(t, "chunk") /\ Size[t] = 0
    /\ link = "up"
    /\ Written(Temporary(t), <<>>)
    /\ Replied(t, "check")
    /\ Quiet

Data(path) == IF Exists(path) THEN files[path] ELSE <<>>

WriteChunk(t) ==
    /\ At(t, "chunk") /\ Size[t] > 0 /\ ~task[t].aborted
    /\ link = "up"
    /\ LET data == Data(Temporary(t))
           next == task[t].sent + 1
       IN  /\ Written(Temporary(t), [i \in 1..next |->
                                        IF i < next /\ i <= Len(data) THEN data[i] ELSE t])
           /\ \/ /\ task' = [task EXCEPT ![t].sent = next,
                     ![t].pc = IF next = Size[t] THEN "check" ELSE "chunk"]
                 /\ UNCHANGED <<running, link>>
              \/ Throws(t, "error") /\ link' = "down"
    /\ Quiet

(* The temporary file has the source's size; its metadata are set or not.  *)
Validate(t) ==
    /\ At(t, "check") /\ ~task[t].aborted
    /\ link = "up"
    /\ Exists(Temporary(t)) /\ Len(files[Temporary(t)]) = Size[t]
    /\ task' = [task EXCEPT ![t].pc = "commit", ![t].sent = 0]
    /\ Quiet /\ UNCHANGED <<running, files, link>>

(* commitTemporary, with posix-rename and without.                         *)
Commit(t) ==
    /\ At(t, "commit") /\ link = "up"
    /\ \/ /\ atomic
          /\ Exists(Temporary(t))
          /\ Renamed(Temporary(t), task[t].target)
          /\ Replied(t, "committed")
       \/ /\ ~atomic
          /\ Continues(t, IF Exists(task[t].target) THEN "remove" ELSE "rename")
          /\ UNCHANGED files
    /\ Quiet

(* stat(target) fails: the target is taken to be absent.                   *)
StatFails(t) ==
    /\ At(t, "commit") /\ ~atomic /\ link # "gone"
    /\ Continues(t, "rename")
    /\ Quiet /\ UNCHANGED files

RemoveTarget(t) ==
    /\ At(t, "remove") /\ link = "up"
    /\ Exists(task[t].target)
    /\ Removed(task[t].target)
    /\ Replied(t, "rename")
    /\ Quiet

(* A server of SFTP version 3 renames to no path that exists.              *)
RenameTemporary(t) ==
    /\ At(t, "rename") /\ link = "up"
    /\ Exists(Temporary(t)) /\ ~Exists(task[t].target)
    /\ Renamed(Temporary(t), task[t].target)
    /\ Replied(t, "committed")
    /\ Quiet

Completes(t) ==
    /\ At(t, "committed")
    /\ Settles(t, "completed")
    /\ Quiet /\ UNCHANGED <<files, link>>

(* A request of the try block fails; a write may have left an empty file.  *)
RequestFails(t) ==
    /\ link # "gone"
    /\ \/ /\ At(t, "chunk") /\ (Size[t] > 0 => ~task[t].aborted)
          /\ \/ UNCHANGED files
             \/ link = "up" /\ ~Exists(Temporary(t)) /\ Written(Temporary(t), <<>>)
       \/ /\ \/ At(t, "check") /\ ~task[t].aborted
             \/ At(t, "commit") /\ atomic
             \/ At(t, "remove") \/ At(t, "rename")
          /\ UNCHANGED files
    /\ Throws(t, "error")
    /\ Quiet /\ UNCHANGED link

(* bestEffortRemove works: the first error is thrown again.                *)
CleansUp(t) ==
    /\ At(t, "cleanup") /\ link = "up"
    /\ Exists(Temporary(t))
    /\ Removed(Temporary(t))
    /\ Settles(t, IF task[t].error = "cancelled" \/ task[t].aborted
                  THEN "cancelled" ELSE "failed")
    /\ UNCHANGED link /\ Quiet

(* Mutation: nobody is told about the temporary file.                      *)
CleanupFailsQuietly(t) ==
    /\ At(t, "cleanup") /\ link # "gone"
    /\ Settles(t, IF task[t].error = "cancelled" THEN "cancelled" ELSE "failed")
    /\ UNCHANGED <<limit, files, link, atomic, named>>

(* It does not: a TransferCancelledError or a TransferOrphanError names    *)
(* the temporary file, which may not even exist.                           *)
CleanupFails(t) ==
    /\ At(t, "cleanup") /\ link # "gone"
    /\ named' = named \cup {Temporary(t)}
    /\ Settles(t, IF task[t].error = "cancelled" THEN "cancelled" ELSE "failed")
    /\ UNCHANGED <<limit, files, link, atomic>>

-----------------------------------------------------------------------------
LinkFails ==
    /\ link = "up"
    /\ link' = "down"
    /\ UNCHANGED <<task, running, limit, files, atomic, named>>

(* closeFileTabSession terminates the worker; requests stay unanswered.    *)
TabCloses ==
    /\ MayClose /\ link # "gone"
    /\ link' = "gone"
    /\ UNCHANGED <<task, running, limit, files, atomic, named>>

UserNext ==
    \/ \E t \in Tasks : \/ \E p \in Targets : Enqueue(t, p)
                        \/ Cancel(t) \/ Retry(t)
    \/ \E n \in 1..MaxLimit : SetConcurrency(n)

TransferNext(t) ==
    \/ SourceStat(t) \/ SourceStatFails(t)
    \/ Aborted(t) \/ WriteEmpty(t) \/ WriteChunk(t) \/ Validate(t)
    \/ Commit(t) \/ StatFails(t) \/ RemoveTarget(t) \/ RenameTemporary(t)
    \/ Completes(t) \/ RequestFails(t) \/ CleansUp(t) \/ CleanupFails(t)

Next == UserNext \/ LinkFails \/ TabCloses \/ \E t \in Tasks : TransferNext(t)

Spec == Init /\ [][Next]_vars

(* Requests are answered, one way or the other, while there is a worker.   *)
FairSpec == Spec /\ \A t \in Tasks : WF_vars(TransferNext(t))

-----------------------------------------------------------------------------
(* Properties                                                              *)

(* Every variable keeps its type; the count of running tasks stays         *)
(* non-negative.                                                           *)
TypeOK ==
    /\ task \in [Tasks ->
           [state : {"none", "queued", "running", "completed", "failed", "cancelled"},
            pc : {"idle", "stat", "chunk", "check", "commit", "remove", "rename", "committed",
                  "cleanup"},
            place : Nat, target : Targets \cup {"none"},
            sent : Nat, run : 0..MaxRuns,
            aborted : BOOLEAN, error : {"none", "error", "cancelled"}]]
    /\ running \in Nat /\ limit \in 1..MaxLimit
    /\ DOMAIN files \subseteq Targets \cup (Tasks \X (1..MaxRuns))
    /\ \A p \in DOMAIN files : files[p] \in Seq(Tasks \cup {"old"})
    /\ link \in {"up", "down", "gone"}
    /\ named \subseteq Tasks \X (1..MaxRuns) /\ atomic \in BOOLEAN

(* A task starts only while fewer than the configured number are running,  *)
(* although tasks are cancelled and retried and the limit may be lowered   *)
(* under the running ones: the queue's own count follows the tasks.        *)
LimitKept ==
    [][(\E t \in Tasks : task'[t].run > task[t].run) =>
           Cardinality({t \in Tasks : task'[t].state = "running"}) <= limit']_vars

(* The first n chunks of the file that task t copies.                      *)
Copied(t, n) == [i \in 1..n |-> t]

(* A file at a target path is the old one or one that a single transfer    *)
(* has written from its first chunk to its last, whatever fails or is      *)
(* cancelled and whoever writes to the same target; and when every commit  *)
(* used the rename extension, a file that was there still is.              *)
TargetIsComplete ==
    /\ \A p \in Targets \cap DOMAIN files :
           \/ p \in Existing /\ files[p] = <<"old">>
           \/ \E t \in Tasks : task[t].target = p /\ files[p] = Copied(t, Size[t])
    /\ atomic => Existing \subseteq DOMAIN files

(* A temporary file that no run is using any more has been named in the    *)
(* error of the run that left it.                                          *)
LeftoversNamed ==
    \A t \in Tasks, k \in 1..MaxRuns :
        Exists(<<t, k>>) /\ ~(task[t].state = "running" /\ task[t].run = k) =>
            <<t, k>> \in named

(* Every task that was enqueued leaves the queue, one way or the other,    *)
(* unless its session's worker is terminated under it.                     *)
TasksEnd ==
    \A t \in Tasks : task[t].state \in {"queued", "running"}
                         ~> task[t].state \notin {"queued", "running"} \/ link = "gone"
=============================================================================
