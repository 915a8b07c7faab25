---------------------------- MODULE SshSessions ----------------------------
(***************************************************************************)
(* Terminal tabs and the SSH connections behind them (ws.ts, ssh.ts, the   *)
(* SSH worker and its client, hostKey.ts), for tabs of one host.           *)
(*                                                                         *)
(* Every connection attempt has its own session id, and the variable att   *)
(* follows it from startTab or exec() through its worker to its end.  A    *)
(* callback of an attempt names its tab, not its session: it reads         *)
(* reactiveTab.sessionId when it runs, so it reaches whatever session the  *)
(* tab has by then.  The handling of one worker message, with every        *)
(* promise continuation it resumes, is one step.                           *)
(***************************************************************************)
EXTENDS Integers, FiniteSets

CONSTANTS
    Tabs,         \* terminal tabs; a closed tab does not come back
    MaxSessions,  \* bound: session ids, shell and exec together
    KnownAtStart  \* the host's key is in the known-hosts store at first

ASSUME SessionAssumption == MaxSessions \in Nat /\ KnownAtStart \in BOOLEAN

VARIABLES
    tab,       \* store.tabs
    att,       \* the attempt, worker and session of each session id
    lock,      \* execLocks: the last exec queued for a session, 0 for none
    cut,       \* history: how often closeExec deleted a live lock
    job,       \* closeSsh and closeExec calls under way, per session
    password,  \* hostPasswords: its session count, 0 when there is no entry
    known,     \* the known-hosts store has the host's key
    prompt,    \* hostKey.ts: the attempt whose prompt is shown, 0 for none
    dialog     \* the tab the login dialog is open for, as a set

vars == <<tab, att, lock, cut, job, password, known, prompt, dialog>>

Ids == 1..MaxSessions

NoTab == [is |-> "unused", session |-> 0, state |-> "idle", overlapped |-> FALSE]
Unused == [kind |-> "none", of |-> 0, pc |-> "unused", known |-> FALSE,
           ask |-> FALSE]
NoJob == [pc |-> "none", todo |-> {}, on |-> 0]

Init ==
    /\ tab = [t \in Tabs |-> NoTab]
    /\ att = [i \in Ids |-> Unused]
    /\ lock = [i \in Ids |-> 0] /\ cut = [i \in Ids |-> 0]
    /\ job = [i \in Ids |-> [call \in {"closeSsh", "closeExec"} |-> NoJob]]
    /\ password = 0 /\ known = KnownAtStart /\ prompt = 0 /\ dialog = {}

-----------------------------------------------------------------------------
Shell(t) == {i \in Ids : att[i].kind = "shell" /\ att[i].of = t}
Execs(p) == {i \in Ids : att[i].kind = "exec" /\ att[i].of = p}

(* The keys of the map "sessions".                                         *)
Registered == {i \in Ids : att[i].pc = "registered"}

Fresh == {i \in Ids : att[i].pc = "unused" /\ \A k \in 1..(i - 1) : att[k].pc # "unused"}

To(i, pc) == att' = [att EXCEPT ![i].pc = pc]

(* updateTabState as the callbacks of attempt i call it.                   *)
TabShows(i, state) ==
    tab' = IF att[i].kind = "shell" /\ tab[att[i].of].is = "open"
           THEN [tab EXCEPT ![att[i].of].state = state] ELSE tab

(* connectHost and the host form start a tab that may ask for a password   *)
(* (allowLoginDialog), the login dialog one that does not.  Tabs are       *)
(* interchangeable: the new one is the first unused one.                   *)
AddTab(t, i) ==
    /\ tab[t].is = "unused" /\ t = CHOOSE u \in Tabs : tab[u].is = "unused"
    /\ i \in Fresh
    /\ tab' = [tab EXCEPT ![t] = [NoTab EXCEPT !.is = "open", !.session = i,
                                              !.state = "connecting"]]
    /\ \E pc \in {"loading", "known"}, ask \in BOOLEAN :
           /\ pc = "loading" => ask
           /\ att' = [att EXCEPT ![i] = [Unused EXCEPT !.kind = "shell", !.of = t,
                                                      !.pc = pc, !.ask = ask]]
    /\ UNCHANGED <<lock, cut, job, password, known, prompt, dialog>>

(* startTab, given no password, has looked one up: the tab may be gone.    *)
CredentialLoaded(i) ==
    /\ att[i].pc = "loading"
    /\ IF tab[att[i].of].is = "open" THEN To(i, "known") ELSE To(i, "dead")
    /\ TabShows(i, "connecting")
    /\ UNCHANGED <<lock, cut, job, password, known, prompt, dialog>>

(* releaseSession up to its await: only a registered session is released.  *)
Release(i) == IF i \in Registered THEN [att EXCEPT ![i].pc = "releasing"] ELSE att

(* reconnectTab, from the login dialog: the old session is closed and the  *)
(* tab gets a new one.  The dialog stays open until a session of the host  *)
(* is online, so this may be repeated while an attempt is under way.       *)
ReconnectTab(t, i) ==
    /\ t \in dialog
    /\ tab[t].is = "open"
    /\ i \in Fresh
    /\ tab' = [tab EXCEPT ![t].session = i, ![t].state = "connecting",
                          ![t].overlapped = @ \/ \E k \in Shell(t) :
                              att[k].pc \notin {"registered", "releasing", "dead"}]
    /\ att' = [Release(tab[t].session) EXCEPT
                   ![i] = [Unused EXCEPT !.kind = "shell", !.of = t, !.pc = "known"]]
    /\ job' = [job EXCEPT ![tab[t].session]["closeSsh"].pc = "shell"]
    /\ UNCHANGED <<lock, cut, password, known, prompt, dialog>>

(* The user closes the login dialog, or opens it for a new tab.            *)
DialogCloses ==
    /\ dialog # {}
    /\ dialog' = {}
    /\ UNCHANGED <<tab, att, lock, cut, job, password, known, prompt>>

(* closeTabs for one terminal tab.                                         *)
CloseTab(t) ==
    /\ tab[t].is = "open"
    /\ tab' = [tab EXCEPT ![t] = [NoTab EXCEPT !.is = "closed"]]
    /\ att' = Release(tab[t].session)
    /\ job' = [job EXCEPT ![tab[t].session]["closeSsh"].pc = "shell"]
    /\ UNCHANGED <<lock, cut, password, known, prompt, dialog>>

-----------------------------------------------------------------------------
(* connectWorker                                                           *)

(* readKnownHost returns; the worker is started and reports "connecting".  *)
WorkerStarts(i) ==
    /\ att[i].pc = "known"
    /\ att' = [att EXCEPT ![i].pc = "connecting", ![i].known = known]
    /\ TabShows(i, "connecting")
    /\ UNCHANGED <<lock, cut, job, password, known, prompt, dialog>>

(* The worker waits for a decision on the host's key.  There is one        *)
(* prompt; while it is taken requestHostKeyApproval rejects, and nobody    *)
(* answers this worker.                                                    *)
WorkerAsks(i) ==
    /\ att[i].pc = "connecting" /\ ~att[i].known
    /\ \/ prompt = 0 /\ prompt' = i /\ To(i, "prompting")
       \/ prompt # 0 /\ To(i, "unanswered") /\ UNCHANGED prompt
    /\ UNCHANGED <<tab, lock, cut, job, password, known, dialog>>

(* respondHostKeyApproval; saveKnownHost may fail, the worker goes on.     *)
Answer(accepted) ==
    /\ prompt # 0
    /\ prompt' = 0
    /\ To(prompt, IF accepted THEN "trusted" ELSE "refused")
    /\ known' \in IF accepted THEN {TRUE, known} ELSE {known}
    /\ UNCHANGED <<tab, lock, cut, job, password, dialog>>

(* The worker is online: the session is registered and its password kept.  *)
WorkerOnline(i) ==
    /\ att[i].pc = "trusted" \/ (att[i].pc = "connecting" /\ att[i].known)
    /\ To(i, "registered")
    /\ password' = password + 1
    /\ TabShows(i, "online")
    /\ dialog' = IF att[i].kind = "shell" THEN {} ELSE dialog
    /\ UNCHANGED <<lock, cut, job, known, prompt>>

(* The worker reports an error while connecting: the password is forgotten *)
(* and worker.close awaited.                                               *)
WorkerFails(i) ==
    /\ att[i].pc \in {"connecting", "trusted", "refused"}
    /\ To(i, "failing")
    /\ password' = 0
    /\ TabShows(i, "error")
    /\ UNCHANGED <<lock, cut, job, known, prompt, dialog>>

(* exec() and startTab end: a lock that is still theirs is removed.        *)
Unlocked(i) ==
    lock' = IF att[i].kind = "exec" /\ lock[att[i].of] = i
            THEN [lock EXCEPT ![att[i].of] = 0] ELSE lock

(* The error leaves connectWorker; startTab's catch shows it on the tab    *)
(* and, when it is one of authentication, may open the login dialog.       *)
AttemptThrows(i) ==
    /\ att[i].pc = "failing"
    /\ To(i, "dead")
    /\ TabShows(i, "error")
    /\ dialog' \in {dialog} \cup IF att[i].ask THEN {{att[i].of}} ELSE {}
    /\ Unlocked(i)
    /\ UNCHANGED <<cut, job, password, known, prompt>>

(* Mutation: a lost session is given up without a word to its tab.         *)
SessionDropsQuietly(i) ==
    /\ att[i].pc = "registered" /\ att[i].kind = "shell"
    /\ att' = Release(i)
    /\ UNCHANGED <<tab, lock, cut, job, password, known, prompt, dialog>>

(* A registered shell loses its connection: it stays registered.           *)
SessionDrops(i) ==
    /\ att[i].pc = "registered" /\ att[i].kind = "shell"
    /\ TabShows(i, "error")
    /\ UNCHANGED <<att, lock, cut, job, password, known, prompt, dialog>>

(* Mutation: the count is not lowered.                                     *)
ReleasedCounted(i) ==
    /\ att[i].pc = "releasing"
    /\ To(i, "dead")
    /\ Unlocked(i)
    /\ UNCHANGED <<tab, cut, job, password, known, prompt, dialog>>

(* worker.close is over: the rest of releaseSession, and of exec().        *)
Released(i) ==
    /\ att[i].pc = "releasing"
    /\ To(i, "dead")
    /\ password' = IF password > 0 THEN password - 1 ELSE 0
    /\ Unlocked(i)
    /\ UNCHANGED <<tab, cut, job, known, prompt, dialog>>

-----------------------------------------------------------------------------
(* exec() and closeExec()                                                  *)

(* Mutation: an exec does not wait for the one before it.                  *)
ExecUnqueued(p, i) ==
    /\ p \in Registered /\ att[p].kind = "shell"
    /\ i \in Fresh
    /\ att' = [att EXCEPT ![i] = [Unused EXCEPT !.kind = "exec", !.of = p, !.pc = "known"]]
    /\ lock' = [lock EXCEPT ![p] = i]
    /\ UNCHANGED <<tab, cut, job, password, known, prompt, dialog>>

(* exec(): it waits for the lock of its session, if there is one.  A       *)
(* queued exec remembers its predecessor by its id: the last one queued.   *)
Exec(p, i) ==
    /\ p \in Registered /\ att[p].kind = "shell"
    /\ i \in Fresh
    /\ att' = [att EXCEPT ![i] = [Unused EXCEPT !.kind = "exec", !.of = p,
                                     !.pc = IF lock[p] = 0 THEN "known" ELSE "queued"]]
    /\ lock' = [lock EXCEPT ![p] = i]
    /\ UNCHANGED <<tab, cut, job, password, known, prompt, dialog>>

Predecessor(i) ==
    CHOOSE k \in Execs(att[i].of) :
        k < i /\ \A j \in Execs(att[i].of) : j < i => j <= k

ExecStarts(i) ==
    /\ att[i].pc = "queued"
    /\ att[Predecessor(i)].pc = "dead"
    /\ To(i, "known")
    /\ UNCHANGED <<tab, lock, cut, job, password, known, prompt, dialog>>

(* Mutation: the session of a finished exec is kept.                       *)
ExecDoneKept(i) ==
    /\ att[i].pc = "registered" /\ att[i].kind = "exec"
    /\ UNCHANGED vars

(* The command has ended, or the worker reported an error: finally.        *)
ExecDone(i) ==
    /\ att[i].pc = "registered" /\ att[i].kind = "exec"
    /\ att' = Release(i)
    /\ UNCHANGED <<tab, lock, cut, job, password, known, prompt, dialog>>

(* closeExec, when the telemetry probe of a session has come to nothing:   *)
(* a snapshot of the session's exec sessions.                              *)
CloseExec(p) ==
    /\ \E i \in Execs(p) : att[i].pc = "dead"
    /\ job[p]["closeExec"] = NoJob
    /\ job' = [job EXCEPT ![p]["closeExec"] =
                  [pc |-> "execs", todo |-> Execs(p) \cap Registered, on |-> 0]]
    /\ UNCHANGED <<tab, att, lock, cut, password, known, prompt, dialog>>

(* closeSsh goes on to closeExec when the shell's session is released.     *)
ShellReleased(p) ==
    /\ job[p]["closeSsh"].pc = "shell"
    /\ att[p].pc # "releasing"
    /\ job' = [job EXCEPT ![p]["closeSsh"] =
                  [pc |-> "execs", todo |-> Execs(p) \cap Registered, on |-> 0]]
    /\ UNCHANGED <<tab, att, lock, cut, password, known, prompt, dialog>>

(* The loop in closeExec awaits the release of its last session, "on".     *)
Awaited(p, call) ==
    \A i \in Ids : job[p][call].on = i => att[i].pc # "releasing"

ReleaseNext(p, call) ==
    /\ job[p][call].pc = "execs"
    /\ Awaited(p, call)
    /\ \E i \in job[p][call].todo :
           /\ \A k \in job[p][call].todo : i <= k
           /\ att' = Release(i)
           /\ job' = [job EXCEPT ![p][call].todo = @ \ {i},
                                 ![p][call].on = IF i \in Registered THEN i ELSE 0]
    /\ UNCHANGED <<tab, lock, cut, password, known, prompt, dialog>>

(* The loop is over: the lock is deleted, whoever holds it.                *)
LockDeleted(p, call) ==
    /\ job[p][call].pc = "execs" /\ job[p][call].todo = {}
    /\ Awaited(p, call)
    /\ lock' = [lock EXCEPT ![p] = 0]
    /\ cut' = IF lock[p] # 0 THEN [cut EXCEPT ![p] = @ + 1] ELSE cut
    /\ job' = [job EXCEPT ![p][call] = NoJob]
    /\ UNCHANGED <<tab, att, password, known, prompt, dialog>>

-----------------------------------------------------------------------------
UserNext ==
    \/ \E t \in Tabs, i \in Ids : AddTab(t, i) \/ ReconnectTab(t, i)
    \/ \E t \in Tabs : CloseTab(t)
    \/ DialogCloses
    \/ \E p, i \in Ids : Exec(p, i)
    \/ \E p \in Ids : CloseExec(p)

AnswerNext == \E accepted \in BOOLEAN : Answer(accepted)

AttemptNext(i) ==
    \/ CredentialLoaded(i) \/ WorkerStarts(i)
    \/ WorkerAsks(i) \/ WorkerOnline(i) \/ WorkerFails(i) \/ AttemptThrows(i)
    \/ Released(i) \/ ExecStarts(i) \/ ExecDone(i)

CloseNext(p) ==
    \/ ShellReleased(p)
    \/ \E call \in {"closeSsh", "closeExec"} : ReleaseNext(p, call) \/ LockDeleted(p, call)

Next ==
    \/ UserNext \/ AnswerNext
    \/ \E i \in Ids : AttemptNext(i) \/ CloseNext(i) \/ SessionDrops(i)

Spec == Init /\ [][Next]_vars

(* Workers report a result, commands end, timers fire and the user answers *)
(* the prompt on the screen.                                               *)
FairSpec ==
    /\ Spec
    /\ WF_vars(AnswerNext)
    /\ \A i \in Ids : WF_vars(AttemptNext(i)) /\ WF_vars(CloseNext(i))

-----------------------------------------------------------------------------
(* Properties                                                              *)

(* Every variable keeps its type; the password's count stays non-negative. *)
TypeOK ==
    /\ tab \in [Tabs -> [is : {"unused", "open", "closed"}, session : 0..MaxSessions,
                         state : {"idle", "connecting", "online", "error"},
                         overlapped : BOOLEAN]]
    /\ \A i \in Ids :
        /\ att[i].kind \in {"none", "shell", "exec"}
        /\ att[i].kind = "shell" => att[i].of \in Tabs
        /\ att[i].kind = "exec" => att[i].of \in Ids
        /\ att[i].known \in BOOLEAN /\ att[i].ask \in BOOLEAN
        /\ att[i].pc \in {"unused", "loading", "queued", "known",
               "connecting", "prompting", "unanswered", "trusted", "refused",
               "registered", "failing", "releasing", "dead"}
    /\ lock \in [Ids -> 0..MaxSessions]
    /\ \A p \in Ids, call \in {"closeSsh", "closeExec"} :
           /\ job[p][call].pc \in {"none", "shell", "execs"}
           /\ job[p][call].todo \subseteq Ids /\ job[p][call].on \in 0..MaxSessions
    /\ password \in 0..MaxSessions
    /\ known \in BOOLEAN /\ prompt \in 0..MaxSessions /\ dialog \subseteq Tabs

(* The password of a host is kept no longer than the host has sessions,    *)
(* although failures delete it and releases lower the count of others.     *)
NoOrphanPassword ==
    password <= Cardinality({i \in Ids : att[i].pc \in {"registered", "releasing"}})

(* A tab shown as online has a registered session, unless two attempts     *)
(* for it overlapped (then a callback of the old one may speak for the     *)
(* new one).                                                               *)
OnlineHasSession ==
    \A t \in Tabs : tab[t].state = "online" /\ ~tab[t].overlapped =>
        tab[t].session \in Registered

(* The commands of a session run one after the other; deleting a lock that *)
(* is held lets one more run beside them.                                  *)
ExecsQueued ==
    \A p \in Ids :
        Cardinality({i \in Execs(p) : att[i].pc \notin {"queued", "dead"}}) <= 1 + cut[p]

(* Every connection attempt comes to a result and every command to its     *)
(* end, whatever is closed meanwhile and whichever prompts are shown,      *)
(* unless a worker was left without an answer about the host's key.        *)
AttemptsEnd ==
    \A i \in Ids :
        att[i].pc # "unused" ~>
            \/ att[i].pc = "dead"
            \/ att[i].kind = "shell" /\ att[i].pc = "registered"
            \/ \E k \in Ids : att[k].pc = "unanswered"
=============================================================================
