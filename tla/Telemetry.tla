------------------------------ MODULE Telemetry ------------------------------
(***************************************************************************)
(* The metrics of the active terminal (telemetry.ts): a poll asks the host *)
(* whether it is Linux, then samples it, and sets a timer for the next     *)
(* one.  Polls of an older generation, which live no more, may still be    *)
(* under way.  Of the four metrics, CPU usage is modelled: its value       *)
(* depends on the sample before.  The worker answers the commands of a     *)
(* session in their order; any of them may fail.                           *)
(***************************************************************************)
EXTENDS Tabs, Integers, Functions

VARIABLES
    polls,    \* polls that wait for an answer, oldest first
    timer,    \* session of the next poll, or 0
    known,    \* telemetrySessions: what is known of each session
    watched,  \* what the watcher has seen of its sources
    counters, \* /proc/stat of the hosts
    refused   \* history: sessions of which a probe said that they are not Linux

telemetryVars == <<polls, timer, known, watched, counters, refused>>

Active == store.active["terminal"]

ActiveTab == Tab(store, Active)

(* The sources of startTelemetryService's watch.                           *)
Sources == <<store.connected, store.view, store.panelOpen, Active, ActiveTab.session, ActiveTab.state>>

(* No sample, as the last one or as an answer; no value of a metric.       *)
NoSample == [total |-> 0, idle |-> 0]
Missing == -1

Unknown == [supported |-> "unknown", last |-> NoSample]

TelemetryInit ==
    /\ polls = <<>> /\ timer = 0 /\ known = <<>> /\ refused = {} /\ watched = Sources
    /\ counters = [total |-> 2, idle |-> 1]

TelemetryStill == watched = Sources

CanPoll(n) ==
    /\ store.connected /\ store.view = "shell" /\ store.panelOpen
    /\ n = ActiveTab.session /\ ActiveTab.state = "online"

-----------------------------------------------------------------------------
(* Samples                                                                 *)

Usage(total, idle) == IF total = 0 THEN 0 ELSE 100 - (idle * 100) \div total

(* parseCpu, metric                                                        *)
ParseCpu(now, last) ==
    IF now = NoSample THEN Missing
    ELSE IF last = NoSample THEN Usage(now.total, now.idle)
    ELSE Usage(now.total - last.total, now.idle - last.idle)

-----------------------------------------------------------------------------
(* Polling.  A poll's session record is the one in known, or one that was  *)
(* deleted from it, of which the poll has the sample before.               *)

Clear(s, ts) ==
    /\ store' = [s EXCEPT !.telemetry = NoTelemetry]
    /\ term' = [t \in Terminals |-> IF t \in ts THEN [term[t] EXCEPT !.telemetry = NoTelemetry] ELSE term[t]]

(* clearActiveTelemetry: of the tab that is active now.                    *)
ClearActive == Clear(store, {Active})

Keep == UNCHANGED <<store, term>>

Knows(n) == IF n \in DOMAIN known THEN known[n] ELSE Unknown

Poll(n, pc) == [session |-> n, live |-> TRUE, own |-> TRUE, last |-> NoSample, pc |-> pc]

(* The beginning of poll, with what waits for answers already.             *)
Begin(n, waiting, sessions0) ==
    /\ known' = [m \in DOMAIN sessions0 \cup {n} |-> IF m \in DOMAIN sessions0 THEN sessions0[m] ELSE Unknown]
    /\ polls' = CASE known'[n].supported = "no" -> waiting
                  [] known'[n].supported = "yes" -> Append(waiting, Poll(n, "sampling"))
                  [] OTHER -> Append(waiting, Poll(n, "probing"))
    /\ timer' = 0

(* stopPolling: a new generation.                                          *)
Stale(ps) == [i \in DOMAIN ps |-> [ps[i] EXCEPT !.live = FALSE]]

(* pruneTelemetrySessions                                                  *)
Prune(ss) == Restrict(ss, DOMAIN ss \cap {Tab(store, t).session : t \in Terminals})

(* Polls whose record is deleted keep it to themselves.                    *)
Orphans(ps, gone) ==
    [i \in DOMAIN ps |-> IF ps[i].own /\ ps[i].session \in gone
                         THEN [ps[i] EXCEPT !.own = FALSE, !.last = Knows(ps[i].session).last] ELSE ps[i]]

(* reconcile                                                               *)
Reconcile ==
    /\ watched # Sources /\ watched' = Sources
    /\ LET n == ActiveTab.session
           kept == Prune(known)
           waiting == Orphans(Stale(polls), DOMAIN known \ DOMAIN kept)
       IN  IF CanPoll(n)
           THEN /\ Begin(n, waiting, kept)
                /\ Clear(store, IF known'[n].supported = "no" THEN {Active} ELSE {})
           ELSE /\ known' = kept /\ polls' = waiting /\ timer' = 0 /\ Clear(store, {})
    /\ UNCHANGED <<counters, refused, used, sessions>>

TimerFires ==
    /\ timer # 0
    /\ IF CanPoll(timer)
       THEN /\ Begin(timer, polls, known)
            /\ IF known'[timer].supported = "no" THEN ClearActive ELSE Keep
       ELSE timer' = 0 /\ Keep /\ UNCHANGED <<polls, known>>
    /\ UNCHANGED <<watched, counters, refused, used, sessions>>

(* The worker answers the oldest command of a session.                     *)
Answers(i, pc) ==
    /\ polls[i].pc = pc
    /\ \A j \in 1 .. i - 1 : polls[j].session # polls[i].session \/ polls[j].pc = "closing"

Continues(i) == polls[i].live /\ CanPoll(polls[i].session)

Done(i) == polls' = RemoveAt(polls, i)

(* The end of poll, which sets the timer.                                  *)
SetTimer(i) == timer' = IF Continues(i) THEN polls[i].session ELSE timer

Learns(i, field, value) ==
    IF polls[i].own
    THEN [known EXCEPT ![polls[i].session] =
             IF field = "supported" THEN [@ EXCEPT !.supported = value] ELSE [@ EXCEPT !.last = value]]
    ELSE known

ProbeSaysYes(i) ==
    /\ Answers(i, "probing") /\ known' = Learns(i, "supported", "yes")
    /\ IF Continues(i) THEN polls' = Append(RemoveAt(polls, i), [polls[i] EXCEPT !.pc = "sampling"])
                       ELSE Done(i)
    /\ Keep /\ UNCHANGED <<timer, watched, counters, refused, used, sessions>>

(* Not Linux: closeExec before anything else.                              *)
ProbeSaysNo(i) ==
    /\ Answers(i, "probing") /\ known' = Learns(i, "supported", "no")
    /\ polls' = [polls EXCEPT ![i].pc = "closing"] /\ refused' = refused \cup {polls[i].session}
    /\ Keep /\ UNCHANGED <<timer, watched, counters, used, sessions>>

ExecClosed(i) ==
    /\ polls[i].pc = "closing" /\ Done(i)
    /\ IF polls[i].live THEN ClearActive ELSE Keep
    /\ UNCHANGED <<timer, known, watched, counters, refused, used, sessions>>

(* Mutation: a late sample is shown.                                       *)
ShownAlways(i) == TRUE

(* The generation and canPoll after a sample.                              *)
Shown(i) == Continues(i)

(* The counters have grown meanwhile, or cannot be read.                   *)
SampleArrives(i, busy, idle, readable) ==
    /\ Answers(i, "sampling") /\ Done(i)
    /\ counters' = [total |-> counters.total + busy + idle, idle |-> counters.idle + idle]
    /\ LET n    == polls[i].session
           now  == IF readable THEN counters' ELSE NoSample
           last == IF polls[i].own THEN known[n].last ELSE polls[i].last
           sample == [session |-> n, cpu |-> ParseCpu(now, last)]
       IN  /\ known' = Learns(i, "last", now)
           /\ IF Shown(i)
              THEN term' = [term EXCEPT ![Active].telemetry = sample] /\ store' = [store EXCEPT !.telemetry = sample]
              ELSE Keep
           /\ SetTimer(i)
    /\ UNCHANGED <<watched, refused, used, sessions>>

(* After an error the host is asked again.                                 *)
Retries(i) == SetTimer(i)

(* exec or closeExec throws.                                               *)
PollFails(i) ==
    /\ polls[i].pc = "closing" \/ Answers(i, polls[i].pc)
    /\ polls' = RemoveAt(Orphans(polls, {polls[i].session}), i)
    /\ known' = Restrict(known, DOMAIN known \ {polls[i].session})
    /\ IF polls[i].live THEN ClearActive ELSE Keep
    /\ Retries(i)
    /\ UNCHANGED <<watched, counters, refused, used, sessions>>

PollAnswered ==
    \E i \in DOMAIN polls :
        \/ ProbeSaysYes(i) \/ ProbeSaysNo(i) \/ ExecClosed(i) \/ PollFails(i)
        \/ \E busy, idle \in 0 .. 1, readable \in BOOLEAN : SampleArrives(i, busy, idle, readable)

(* The user closes the panel, or the Node's socket opens or closes.        *)
TogglePanel == store' = [store EXCEPT !.panelOpen = ~@] /\ UNCHANGED <<term, used, sessions, telemetryVars>>

NodeChanges == store' = [store EXCEPT !.connected = ~@] /\ UNCHANGED <<term, used, sessions, telemetryVars>>

-----------------------------------------------------------------------------
Live(ps) == {i \in DOMAIN ps : ps[i].live}

(* What the panel shows was sampled in the session that the active tab has *)
(* now, while it is online, and is a percentage; and as long as that       *)
(* session can be polled and its host was never said not to be Linux,      *)
(* exactly one poll or timer goes on, never two.                           *)
MetricsFollow ==
    /\ Cardinality(Live(polls)) + (IF timer = 0 THEN 0 ELSE 1) <= 1
    /\ TelemetryStill =>
         /\ store.telemetry # NoTelemetry =>
              /\ store.telemetry.session = ActiveTab.session /\ ActiveTab.state = "online"
              /\ store.telemetry.cpu \in 0 .. 100 \cup {Missing}
         /\ CanPoll(ActiveTab.session) /\ ActiveTab.session \notin refused =>
              timer # 0 \/ Live(polls) # {}
=============================================================================
