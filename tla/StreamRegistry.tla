--------------------------- MODULE StreamRegistry ---------------------------
(***************************************************************************)
(* The streams of one authenticated connection of the Node: opening them   *)
(* in tasks of their own (_open_transport), the table self.streams, what   *)
(* the UDP pump does with datagrams and credit, closing by the run loop or *)
(* by a pump, and the end of the connection.  TransportStream follows the  *)
(* bytes of one TCP stream; here a TCP pump only ends or fails.            *)
(*                                                                         *)
(* A stream object is named by the request that opens it, so the entry of  *)
(* an id in the table may turn out to be another request's stream.  The    *)
(* client is any client: it may open an id twice, or several ids at once.  *)
(***************************************************************************)
EXTENDS Integers, FiniteSets, Sequences

CONSTANTS
    Opens,          \* transport_open_request messages; each is sent once
    UdpOpens,       \* those with transport "udp"
    Ids,            \* stream ids a client uses; id 0 and bad targets are refused alike
    MaxStreams,     \* MAX_STREAMS_PER_CLIENT
    InitialCredit,  \* INITIAL_CREDIT_BYTES
    QueueSize,      \* maxsize of the datagram queue
    Datagrams,      \* bound: datagrams that arrive for a stream
    LateResult      \* asyncio.wait_for returns the result of a connection that
                    \* completed before its task was cancelled (Python 3.11)

None == "none"

ASSUME RegistryAssumption ==
    /\ UdpOpens \subseteq Opens /\ None \notin Opens \cup Ids
    /\ MaxStreams \in Nat \ {0} /\ InitialCredit \in Nat \ {0}
    /\ QueueSize \in Nat \ {0} /\ Datagrams \in Nat /\ LateResult \in BOOLEAN

VARIABLES
    conn,    \* "up", "cut" (sends raise, the loop has not noticed) or "ended" (self.closed)
    loop,    \* where ClientConnection.run is, and the stream it closes
    todo,    \* the streams the finally clause has still to close
    req,     \* the opening task of each request and the id it names
    table,   \* self.streams
    str,     \* TransportStream: its socket, closed flag, pump and closer
    udp,     \* UdpStream: queue, datagram held, credit, and what the client has
    told,    \* the answer to each request, and whether its end was announced
    clash,   \* history: ids opened again before their first stream ended
    raced    \* history: two requests were under way at once

vars == <<conn, loop, todo, req, table, str, udp, told, clash, raced>>

Reading == [at |-> "read", on |-> None]
NewStream == [sock |-> "none", closed |-> FALSE, pump |-> "none", closer |-> None]
NewUdp == [queue |-> <<>>, held |-> 0, credit |-> InitialCredit, woken |-> FALSE,
           unacked |-> 0, arrived |-> 0]

Init ==
    /\ conn = "up" /\ loop = Reading /\ todo = {}
    /\ req = [o \in Opens |-> [pc |-> "unsent", id |-> None]]
    /\ table = [i \in Ids |-> None]
    /\ str = [o \in Opens |-> NewStream] /\ udp = [o \in UdpOpens |-> NewUdp]
    /\ told = [o \in Opens |-> [answer |-> "none", ended |-> FALSE]]
    /\ clash = {} /\ raced = FALSE

-----------------------------------------------------------------------------
Live == {i \in Ids : table[i] # None}
Opening == {o \in Opens : req[o].pc \in {"spawned", "connecting", "connected", "opening"}}

(* From the client's side the id of o is taken until it is told otherwise. *)
Outstanding(o) ==
    req[o].pc # "unsent" /\ told[o].answer # "error" /\ ~told[o].ended

To(o, pc) == req' = [req EXCEPT ![o].pc = pc]

(* send_error of an opening task: on a dead socket it raises and the task  *)
(* ends with nothing said.                                                 *)
Refuse(o) ==
    /\ To(o, "dead")
    /\ told' = IF conn = "up" THEN [told EXCEPT ![o].answer = "error"] ELSE told

-----------------------------------------------------------------------------
(* The run loop reads a transport_open_request and spawns its task.        *)
SpawnOpen(o, i) ==
    /\ loop = Reading /\ req[o].pc = "unsent"
    /\ req' = [req EXCEPT ![o] = [pc |-> "spawned", id |-> i]]
    /\ clash' = clash \cup {j \in {i} : \E p \in Opens : req[p].id = i /\ Outstanding(p)}
    /\ raced' = (raced \/ Opening # {})
    /\ UNCHANGED <<conn, loop, todo, table, str, udp, told>>

(* _open_transport up to its first await.                                  *)
CheckOpen(o) ==
    /\ req[o].pc = "spawned"
    /\ IF req[o].id \in Live \/ Cardinality(Live) >= MaxStreams
       THEN Refuse(o)
       ELSE To(o, "connecting") /\ UNCHANGED told
    /\ UNCHANGED <<conn, loop, todo, table, str, udp, clash, raced>>

(* The connection is made; the task has not run yet.                       *)
Connects(o) ==
    /\ req[o].pc = "connecting"
    /\ To(o, "connected")
    /\ str' = [str EXCEPT ![o].sock = "open"]
    /\ UNCHANGED <<conn, loop, todo, table, udp, told, clash, raced>>

(* It is refused, or CONNECT_TIMEOUT_SECONDS have passed.                  *)
ConnectFails(o) ==
    /\ req[o].pc = "connecting"
    /\ Refuse(o)
    /\ UNCHANGED <<conn, loop, todo, table, str, udp, clash, raced>>

(* The task resumes and enters its stream, over any stream of that id.     *)
Register(o) ==
    /\ req[o].pc = "connected"
    /\ To(o, "opening")
    /\ table' = [table EXCEPT ![req[o].id] = o]
    /\ UNCHANGED <<conn, loop, todo, str, udp, told, clash, raced>>

(* send() of the opened event, then start().  A dead socket raises; after  *)
(* the end of the connection send() does nothing and the pump starts.      *)
Opened(o) ==
    /\ req[o].pc = "opening"
    /\ IF conn = "cut"
       THEN To(o, "dead") /\ UNCHANGED <<str, told>>
       ELSE /\ To(o, "open")
            /\ str' = [str EXCEPT ![o].pump = "wait"]
            /\ told' = IF conn = "up" THEN [told EXCEPT ![o].answer = "opened"] ELSE told
    /\ UNCHANGED <<conn, loop, todo, table, udp, clash, raced>>

-----------------------------------------------------------------------------
(* Mutation: a pump that ends marks its stream closed and closes nothing.  *)
ClosesOnly(o, who, pump) ==
    [str EXCEPT ![o].closed = TRUE, ![o].pump = pump,
                ![o].closer = IF who = "pump" THEN None ELSE who]

(* TransportStream.close: closing begins by marking the stream closed.     *)
Closes(o, who, pump) ==
    [str EXCEPT ![o].closed = TRUE, ![o].closer = who, ![o].pump = pump]

(* The TCP pump reads EOF, or the UDP or TCP pump fails: it closes its own *)
(* stream.  While the socket is dead its error report raises as well and   *)
(* the task ends with the exception.                                       *)
PumpEnds(o) ==
    /\ str[o].pump \in {"wait", "hold"} /\ ~str[o].closed
    /\ str' = Closes(o, "pump", "closing")
    /\ UNCHANGED <<conn, loop, todo, req, table, udp, told, clash, raced>>

PumpRaises(o) ==
    /\ str[o].pump \in {"wait", "hold"} /\ ~str[o].closed
    /\ conn = "cut"
    /\ str' = [str EXCEPT ![o].pump = "raised"]
    /\ UNCHANGED <<conn, loop, todo, req, table, udp, told, clash, raced>>

(* Mutation: the opening tasks are left to themselves.                     *)
CancelledNone == req

(* The end of run(): every opening task is cancelled, the streams listed.  *)
(* A task not started yet never runs.  One that awaits send() has entered  *)
(* its stream, which is in the list.                                       *)
Cancelled ==
    [o \in Opens |->
        IF o \in Opening /\ ~(LateResult /\ req[o].pc = "connected")
        THEN [req[o] EXCEPT !.pc = "dead"] ELSE req[o]]

RunFinally ==
    /\ conn' = "ended"
    /\ loop' = [at |-> "final", on |-> None]
    /\ todo' = {table[i] : i \in Live}
    /\ req' = Cancelled

(* A connection whose task was cancelled is dropped by asyncio.            *)
Dropped(s) ==
    [o \in Opens |->
        IF req[o].pc = "connected" /\ req'[o].pc = "dead"
        THEN [s[o] EXCEPT !.sock = "shut"] ELSE s[o]]

(* The loop reads a close request: a pump is cancelled and awaited first.  *)
(* One that has failed re-raises here, and reporting that raises too.      *)
LoopCloses(i) ==
    /\ loop = Reading /\ table[i] # None
    /\ LET o == table[i] IN
       /\ ~str[o].closed
       /\ IF str[o].pump = "raised"
          THEN RunFinally /\ str' = Dropped([str EXCEPT ![o].closed = TRUE])
          ELSE /\ str' = Closes(o, "loop", "done")
               /\ loop' = [at |-> "transport", on |-> o]
               /\ UNCHANGED <<conn, todo, req>>
    /\ UNCHANGED <<table, udp, told, clash, raced>>

(* Mutation: the entry of a stream that ended by itself is left behind.    *)
PoppedByLoop(o) ==
    IF str[o].closer = "pump" THEN table ELSE [table EXCEPT ![req[o].id] = None]

(* _close_transport returns; the entry of the id goes, whosever it is, and *)
(* the client is told.  That raises on a dead socket: a pump then ends, the *)
(* run loop goes to its finally clause.                                    *)
Popped(o) == [table EXCEPT ![req[o].id] = None]

CloseFinishes(o) ==
    /\ str[o].closer # None
    /\ LET shut == [str EXCEPT ![o].sock = "shut", ![o].closer = None, ![o].pump = "done"] IN
       /\ table' = Popped(o)
       /\ told' = IF conn = "up" THEN [told EXCEPT ![o].ended = TRUE] ELSE told
       /\ \/ str[o].closer = "pump" /\ str' = shut /\ UNCHANGED <<conn, loop, todo, req>>
          \/ /\ str[o].closer = "loop" /\ conn = "up"
             /\ str' = shut /\ loop' = Reading
             /\ UNCHANGED <<conn, todo, req>>
          \/ /\ str[o].closer = "loop" /\ conn = "ended"
             /\ str' = shut /\ loop' = [at |-> "final", on |-> None]
             /\ UNCHANGED <<conn, todo, req>>
          \/ /\ str[o].closer = "loop" /\ conn = "cut"
             /\ conn' = "ended" /\ loop' = [at |-> "final", on |-> None]
             /\ todo' = {table'[i] : i \in {j \in Ids : table'[j] # None}}
             /\ req' = Cancelled /\ str' = Dropped(shut)
    /\ UNCHANGED <<udp, clash, raced>>

(* The page goes away.                                                     *)
SocketCut ==
    /\ conn = "up"
    /\ conn' = "cut"
    /\ UNCHANGED <<loop, todo, req, table, str, udp, told, clash, raced>>

LoopEnds ==
    /\ conn = "cut" /\ loop = Reading
    /\ RunFinally /\ str' = Dropped(str)
    /\ UNCHANGED <<table, udp, told, clash, raced>>

(* One round of the finally clause.  A stream that is closing is skipped;  *)
(* a pump that has failed re-raises and the others are left as they are.   *)
FinalCloses(o) ==
    /\ loop.at = "final" /\ o \in todo
    /\ todo' = todo \ {o}
    /\ \/ str[o].closed /\ UNCHANGED <<str, loop>>
       \/ /\ ~str[o].closed /\ str[o].pump = "raised"
          /\ str' = [str EXCEPT ![o].closed = TRUE]
          /\ loop' = [at |-> "down", on |-> None]
       \/ /\ ~str[o].closed /\ str[o].pump # "raised"
          /\ str' = Closes(o, "loop", "done")
          /\ loop' = [at |-> "transport", on |-> o]
    /\ UNCHANGED <<conn, req, table, udp, told, clash, raced>>

FinalDone ==
    /\ loop.at = "final" /\ todo = {}
    /\ loop' = [at |-> "down", on |-> None]
    /\ UNCHANGED <<conn, todo, req, table, str, udp, told, clash, raced>>

-----------------------------------------------------------------------------
(* UDP.  A datagram is its size.  datagram_received drops what the queue   *)
(* has no room for.                                                        *)
DatagramArrives(o, size) ==
    /\ str[o].sock = "open" /\ req[o].pc \in {"opening", "open"}
    /\ udp[o].arrived < Datagrams
    /\ udp' = [udp EXCEPT ![o].arrived = @ + 1,
                          ![o].queue = IF Len(@) < QueueSize THEN Append(@, size) ELSE @]
    /\ UNCHANGED <<conn, loop, todo, req, table, str, told, clash, raced>>

(* What _take_output_credit and the send after it do for a datagram.       *)
Charge(u, size) == [u EXCEPT !.credit = @ - size, !.unacked = @ + size, !.held = 0]

UdpSends(o, u, size) ==
    /\ udp' = [udp EXCEPT ![o] = Charge(u, size)]
    /\ str' = [str EXCEPT ![o].pump = IF conn = "cut" THEN "raised" ELSE "wait"]

(* The pump takes a datagram, and waits when its credit does not cover it. *)
UdpTakes(o) ==
    /\ str[o].pump = "wait" /\ ~str[o].closed /\ udp[o].queue # <<>>
    /\ LET size == Head(udp[o].queue)
           u == [udp[o] EXCEPT !.queue = Tail(@)] IN
       IF udp[o].credit >= size
       THEN UdpSends(o, u, size)
       ELSE /\ udp' = [udp EXCEPT ![o] = [u EXCEPT !.held = size, !.woken = FALSE]]
            /\ str' = [str EXCEPT ![o].pump = "hold"]
    /\ UNCHANGED <<conn, loop, todo, req, table, told, clash, raced>>

(* It is notified and tests again.                                         *)
UdpResumes(o) ==
    /\ str[o].pump = "hold" /\ udp[o].woken /\ ~str[o].closed
    /\ IF udp[o].credit >= udp[o].held
       THEN UdpSends(o, [udp[o] EXCEPT !.woken = FALSE], udp[o].held)
       ELSE udp' = [udp EXCEPT ![o].woken = FALSE] /\ UNCHANGED str
    /\ UNCHANGED <<conn, loop, todo, req, table, told, clash, raced>>

(* Mutation: the waiting pump is not notified when it had some credit left. *)
GrantQuietly(i, amount) ==
    /\ loop = Reading /\ table[i] \in UdpOpens
    /\ amount \in 1..udp[table[i]].unacked
    /\ udp' = [udp EXCEPT ![table[i]].credit = @ + amount,
                          ![table[i]].unacked = @ - amount,
                          ![table[i]].woken = udp[table[i]].credit = 0]
    /\ UNCHANGED <<conn, loop, todo, req, table, str, told, clash, raced>>

(* The loop reads a credit for what the client has taken: the request that *)
(* opened the stream is the client's, the entry of the id gets the credit. *)
Grant(i, amount) ==
    /\ loop = Reading /\ table[i] \in UdpOpens
    /\ amount \in 1..udp[table[i]].unacked
    /\ udp' = [udp EXCEPT ![table[i]].credit = @ + amount,
                          ![table[i]].unacked = @ - amount,
                          ![table[i]].woken = TRUE]
    /\ UNCHANGED <<conn, loop, todo, req, table, str, told, clash, raced>>

-----------------------------------------------------------------------------
OpenNext ==
    \E o \in Opens :
        \/ \E i \in Ids : SpawnOpen(o, i)
        \/ CheckOpen(o) \/ Connects(o) \/ ConnectFails(o)
        \/ Register(o) \/ Opened(o)

CloseNext ==
    \/ \E o \in Opens : PumpEnds(o) \/ PumpRaises(o) \/ CloseFinishes(o) \/ FinalCloses(o)
    \/ \E i \in Ids : LoopCloses(i)
    \/ SocketCut \/ LoopEnds \/ FinalDone

UdpNext ==
    \/ \E o \in UdpOpens :
           UdpTakes(o) \/ UdpResumes(o) \/ \E size \in 1..2 : DatagramArrives(o, size)
    \/ \E i \in Ids, amount \in 1..InitialCredit : Grant(i, amount)

Next == OpenNext \/ CloseNext \/ UdpNext

Spec == Init /\ [][Next]_vars

(* Tasks that can run do run, a connection is made, refused or times out,  *)
(* a transport that closes is closed at last, and the loop reads on.       *)
Fairness ==
    /\ \A o \in Opens :
        /\ WF_vars(CheckOpen(o)) /\ WF_vars(ConnectFails(o))
        /\ WF_vars(Register(o)) /\ WF_vars(Opened(o))
        /\ WF_vars(CloseFinishes(o)) /\ WF_vars(FinalCloses(o))
    /\ \A o \in UdpOpens : WF_vars(UdpTakes(o)) /\ WF_vars(UdpResumes(o))
    /\ WF_vars(LoopEnds) /\ WF_vars(FinalDone)

FairSpec == Spec /\ Fairness

-----------------------------------------------------------------------------
TypeOK ==
    /\ conn \in {"up", "cut", "ended"}
    /\ loop \in [at : {"read", "transport", "final", "down"}, on : Opens \cup {None}]
    /\ todo \subseteq Opens
    /\ req \in [Opens -> [pc : {"unsent", "spawned", "connecting", "connected",
                                "opening", "open", "dead"}, id : Ids \cup {None}]]
    /\ table \in [Ids -> Opens \cup {None}]
    /\ str \in [Opens -> [sock : {"none", "open", "shut"}, closed : BOOLEAN,
                          pump : {"none", "wait", "hold", "closing", "raised", "done"},
                          closer : {None, "loop", "pump"}]]
    /\ \A o \in UdpOpens :
           /\ udp[o].credit \in 0..InitialCredit /\ udp[o].unacked \in 0..InitialCredit
           /\ Len(udp[o].queue) <= QueueSize
    /\ told \in [Opens -> [answer : {"none", "opened", "error"}, ended : BOOLEAN]]
    /\ clash \subseteq Ids /\ raced \in BOOLEAN

(* A client that opens one stream at a time never holds more streams than  *)
(* MAX_STREAMS_PER_CLIENT, whatever closes meanwhile.                      *)
LimitKept == ~raced => Cardinality(Live) <= MaxStreams

(* An id that the client reuses only after it was told of the end has one  *)
(* live stream at most, which is the one in the table: data, credit and    *)
(* close requests reach the stream they were meant for.                    *)
OneOwner ==
    \A i \in Ids \ clash :
        /\ \A o \in Opens :
               (req[o].id = i /\ str[o].sock = "open" /\ req[o].pc \in {"opening", "open"})
                   => table[i] = o
        /\ table[i] # None => str[table[i]].sock = "open"

(* A stream that the client was told is open is in the table until it      *)
(* closes.                                                                 *)
OpenedIsServed ==
    \A o \in Opens :
        (told[o].answer = "opened" /\ ~told[o].ended /\ req[o].id \notin clash)
            => table[req[o].id] = o \/ str[o].closed

(* What the client names reaches its stream: the limit is kept, an id has  *)
(* one owner, and what is sent on a stream announced as open is never      *)
(* answered "stream_not_found".                                            *)
StreamsOwned == LimitKept /\ OneOwner /\ OpenedIsServed

(* When run() has ended no task goes on to connect, and no connection to a *)
(* target is left open, except those being closed by their pump, one that  *)
(* a cancelled task still received, those whose id was opened again, and   *)
(* whatever was to be closed after a pump that had failed.                 *)
EndClosesStreams ==
    loop.at = "down" =>
        \A o \in Opens :
            /\ req[o].pc \notin {"spawned", "connecting"}
            /\ str[o].sock = "open" =>
                \/ str[o].closer = "pump"
                \/ LateResult /\ ~str[o].closed
                \/ req[o].id \in clash
                \/ \E p \in Opens : str[p].pump = "raised"

(* A datagram never waits for credit that is there.                        *)
UdpNoLostWakeup ==
    \A o \in UdpOpens :
        (str[o].pump = "hold" /\ udp[o].credit >= udp[o].held) => udp[o].woken

(* The credit of a UDP stream and what the client has not yet returned are *)
(* the initial credit, however the datagrams waited.                       *)
UdpCreditKept ==
    \A o \in UdpOpens : udp[o].credit + udp[o].unacked = InitialCredit

(* Credit returned by the client is neither lost nor overlooked by a       *)
(* datagram that waits for it.                                             *)
UdpCreditCounts == UdpNoLostWakeup /\ UdpCreditKept

(* The README's promise for a page that is refreshed, without exceptions.  *)
RefreshClosesStreams ==
    loop.at = "down" =>
        \A o \in Opens : str[o].sock = "open" => str[o].closer = "pump"

(* Every request is answered, unless the connection ends first.            *)
OpensAnswered ==
    \A o \in Opens :
        req[o].pc = "spawned" ~> (told[o].answer # "none" \/ conn # "up")

(* A close that has begun ends with the connection to the target closed,   *)
(* unless the pump it waited for had failed.                               *)
ClosesEnd ==
    \A o \in Opens :
        str[o].closed ~> (str[o].sock = "shut" \/ str[o].pump = "raised")

(* Nothing the client asks for stays without a result: neither an open nor *)
(* a close, from whichever side it comes.                                  *)
RequestsEnd == OpensAnswered /\ ClosesEnd
=============================================================================
