------------------------ MODULE StreamRegistryProofs ------------------------
(***************************************************************************)
(* Theorems about StreamRegistry for any number of requests, ids and       *)
(* streams, any credit and any size of the datagram queue.                 *)
(***************************************************************************)
EXTENDS StreamRegistry, FiniteSetTheorems, TLAPS

USE RegistryAssumption

-----------------------------------------------------------------------------
(* The inductive invariant                                                 *)

Udp == [queue : Seq(1..2), held : 0..2, credit : 0..InitialCredit,
        woken : BOOLEAN, unacked : 0..InitialCredit, arrived : Nat]

Types == TypeOK /\ udp \in [UdpOpens -> Udp]

Blank(s) == s.sock = "none" /\ ~s.closed /\ s.pump = "none" /\ s.closer = None
Fresh(s) == s.sock = "open" /\ ~s.closed /\ s.pump = "none" /\ s.closer = None

(* What the place of an opening task says of its stream.                   *)
Phases ==
    \A o \in Opens :
        /\ req[o].pc \in {"unsent", "spawned", "connecting"} => Blank(str[o])
        /\ req[o].pc = "connected" => Fresh(str[o])
        /\ req[o].pc \in {"opening", "open"} => str[o].sock # "none"
        /\ req[o].pc # "open" => str[o].pump \in {"none", "done"}
        /\ req[o].pc # "unsent" => req[o].id \in Ids
        /\ str[o].sock = "none" => ~str[o].closed
        /\ str[o].sock = "shut" => str[o].closed \/ req[o].pc = "dead"

(* A stream that is closing has a closer until its socket is shut, unless  *)
(* the pump it waited for had failed; the run loop closes one at a time.   *)
Closings ==
    /\ \A o \in Opens :
        /\ str[o].closer # None =>
               str[o].sock = "open" /\ str[o].closed /\ str[o].pump # "raised"
        /\ str[o].closed /\ str[o].sock = "open" =>
               str[o].closer # None \/ str[o].pump = "raised"
        /\ str[o].closer = "loop" => loop = [at |-> "transport", on |-> o]
    /\ loop.at \in {"final", "down"} => conn = "ended"
    /\ loop.at = "read" => conn # "ended" /\ loop = Reading

(* What the client has been told follows the task and the stream.          *)
Answers ==
    \A o \in Opens :
        /\ told[o].answer = "opened" => req[o].pc = "open"
        /\ told[o].answer = "error" => req[o].pc = "dead" /\ str[o].sock = "none"
        /\ told[o].ended => str[o].sock = "shut"

(* An entry of the table is a stream with that id whose socket is open.    *)
Entries ==
    /\ \A i \in Live : LET o == table[i] IN
           /\ req[o].id = i /\ str[o].sock = "open"
           /\ req[o].pc \in {"opening", "open", "dead"}
    /\ \A o \in todo : /\ req[o].pc \in {"open", "dead"}
                       /\ str[o].sock = "open" \/ str[o].closed

(* An id that was not opened twice belongs to one request at most, and its *)
(* stream is in the table from its registration until its socket is shut.  *)
Owners ==
    \A o \in Opens : (Outstanding(o) /\ req[o].id \notin clash) =>
        /\ \A p \in Opens : Outstanding(p) /\ req[p].id = req[o].id => p = o
        /\ str[o].sock = "open" /\ req[o].pc # "connected" => table[req[o].id] = o

(* A stream open after the end is still to be closed or one of the         *)
(* exceptions of EndClosesStreams.                                         *)
Endings ==
    /\ conn = "ended" =>
        \A o \in Opens :
            /\ req[o].pc \notin {"spawned", "connecting"}
            /\ str[o].sock = "open" =>
                \/ o \in todo
                \/ str[o].closer # None
                \/ LateResult /\ ~str[o].closed
                \/ req[o].id \in clash
                \/ \E p \in Opens : str[p].pump = "raised"
    /\ loop.at = "down" => todo = {} \/ \E p \in Opens : str[p].pump = "raised"

(* While one request at a time is under way, one that has passed its check *)
(* still finds the room it saw.                                            *)
Room ==
    /\ IsFiniteSet(Live)
    /\ ~raced =>
        /\ \A o, p \in Opening : o = p
        /\ Cardinality(Live) <= MaxStreams
        /\ \A o \in Opens : req[o].pc \in {"connecting", "connected"} =>
               Cardinality(Live) < MaxStreams

Wakeups ==
    \A o \in UdpOpens :
        /\ udp[o].credit + udp[o].unacked = InitialCredit
        /\ str[o].pump = "hold" => udp[o].held # 0 /\ (udp[o].credit >= udp[o].held => udp[o].woken)

IInv == /\ Types /\ Phases /\ Closings /\ Answers /\ Entries
        /\ Owners /\ Endings /\ Room /\ Wakeups

-----------------------------------------------------------------------------
(* What the actions do to the record of a request or a stream              *)

Request == [pc : {"unsent", "spawned", "connecting", "connected", "opening", "open", "dead"},
            id : Ids \cup {None}]
Stream == [sock : {"none", "open", "shut"}, closed : BOOLEAN,
           pump : {"none", "wait", "hold", "closing", "raised", "done"},
           closer : {None, "loop", "pump"}]
Answer == [answer : {"none", "opened", "error"}, ended : BOOLEAN]

LEMMA RecordTypes ==
    Types => /\ req \in [Opens -> Request] /\ str \in [Opens -> Stream]
             /\ told \in [Opens -> Answer] /\ udp \in [UdpOpens -> Udp]
             /\ table \in [Ids -> Opens \cup {None}]
BY DEF Types, TypeOK, Request, Stream, Answer

(* The task of o goes to pc.                                               *)
LEMMA ToEffect ==
    ASSUME Types, NEW o \in Opens,
           NEW pc \in {"connecting", "connected", "opening", "open", "dead"}, To(o, pc)
    PROVE  /\ req' \in [Opens -> Request]
           /\ req'[o].pc = pc
           /\ \A p \in Opens : req'[p].id = req[p].id /\ (p # o => req'[p] = req[p])
<1>1. req \in [Opens -> Request]
  BY RecordTypes
<1>. QED
  BY <1>1 DEF To, Request

LEMMA RefuseEffect ==
    ASSUME Types, NEW o \in Opens, Refuse(o)
    PROVE  /\ req' \in [Opens -> Request]
           /\ req'[o].pc = "dead"
           /\ \A p \in Opens : req'[p].id = req[p].id /\ (p # o => req'[p] = req[p])
           /\ told' \in [Opens -> Answer]
           /\ told'[o].answer \in {told[o].answer, "error"}
           /\ \A p \in Opens : told'[p].ended = told[p].ended /\ (p # o => told'[p] = told[p])
<1>1. told \in [Opens -> Answer]
  BY RecordTypes
<1>. QED
  BY <1>1, ToEffect DEF Refuse, Answer

(* A pump takes another step.                                              *)
LEMMA PumpEffect ==
    ASSUME Types, NEW o \in Opens, NEW pump \in {"wait", "hold", "raised"},
           str' = [str EXCEPT ![o].pump = pump]
    PROVE  /\ str' \in [Opens -> Stream]
           /\ str'[o].pump = pump
           /\ \A p \in Opens : /\ str'[p].sock = str[p].sock /\ str'[p].closed = str[p].closed
                               /\ str'[p].closer = str[p].closer
                               /\ p # o => str'[p] = str[p]
<1>1. str \in [Opens -> Stream]
  BY RecordTypes
<1>. QED
  BY <1>1 DEF Stream

ClosedBy(o, who, pump) ==
    /\ str' \in [Opens -> Stream]
    /\ str'[o].closed /\ str'[o].closer = who /\ str'[o].pump = pump
    /\ \A p \in Opens : str'[p].sock = str[p].sock /\ (p # o => str'[p] = str[p])

LEMMA ClosesEffect ==
    ASSUME Types, NEW o \in Opens, NEW who \in {"loop", "pump"},
           NEW pump \in {"closing", "done"}, str' = Closes(o, who, pump)
    PROVE  ClosedBy(o, who, pump)
<1>1. str \in [Opens -> Stream]
  BY RecordTypes
<1>. QED
  BY ZenonT(60), <1>1 DEF ClosedBy, Closes, Stream

(* The end of run(): tasks end and their connections are shut.             *)
LEMMA CancelledEffect ==
    ASSUME Types, req' = Cancelled
    PROVE  /\ req' \in [Opens -> Request]
           /\ \A p \in Opens :
                /\ req'[p].id = req[p].id
                /\ p \in Opening /\ ~(LateResult /\ req[p].pc = "connected") =>
                       req'[p].pc = "dead"
                /\ ~(p \in Opening /\ ~(LateResult /\ req[p].pc = "connected")) =>
                       req'[p] = req[p]
<1>1. req \in [Opens -> Request]
  BY RecordTypes
<1>. QED
  BY <1>1 DEF Cancelled, Request

LEMMA DroppedEffect ==
    ASSUME NEW s \in [Opens -> Stream], str' = Dropped(s)
    PROVE  /\ str' \in [Opens -> Stream]
           /\ \A p \in Opens :
                /\ req[p].pc = "connected" /\ req'[p].pc = "dead" =>
                       /\ str'[p].sock = "shut" /\ str'[p].closed = s[p].closed
                       /\ str'[p].pump = s[p].pump /\ str'[p].closer = s[p].closer
                /\ ~(req[p].pc = "connected" /\ req'[p].pc = "dead") => str'[p] = s[p]
BY DEF Dropped, Stream

(* A connection is made.                                                   *)
LEMMA ConnectsEffect ==
    ASSUME Types, NEW o \in Opens, Connects(o)
    PROVE  /\ str' \in [Opens -> Stream]
           /\ str'[o].sock = "open"
           /\ \A p \in Opens : /\ str'[p].closed = str[p].closed /\ str'[p].pump = str[p].pump
                               /\ str'[p].closer = str[p].closer
                               /\ p # o => str'[p] = str[p]
<1>1. str \in [Opens -> Stream]
  BY RecordTypes
<1>. QED
  BY <1>1 DEF Connects, Stream

(* The client is told that a stream is open, or that it has ended.         *)
LEMMA OpenedEffect ==
    ASSUME Types, NEW o \in Opens, told' = [told EXCEPT ![o].answer = "opened"]
    PROVE  /\ told' \in [Opens -> Answer]
           /\ told'[o].answer = "opened"
           /\ \A p \in Opens : told'[p].ended = told[p].ended /\ (p # o => told'[p] = told[p])
<1>1. told \in [Opens -> Answer]
  BY RecordTypes
<1>. QED
  BY <1>1 DEF Answer

LEMMA EndedEffect ==
    ASSUME Types, NEW o \in Opens, told' = [told EXCEPT ![o].ended = TRUE]
    PROVE  /\ told' \in [Opens -> Answer]
           /\ told'[o].ended
           /\ \A p \in Opens : told'[p].answer = told[p].answer /\ (p # o => told'[p] = told[p])
<1>1. told \in [Opens -> Answer]
  BY RecordTypes
<1>. QED
  BY <1>1 DEF Answer

(* A step of the UDP pump of o: it has sent a datagram, or it holds one    *)
(* that its credit does not cover.                                         *)
UdpMoves(o) ==
    /\ udp' \in [UdpOpens -> Udp] /\ str' \in [Opens -> Stream]
    /\ udp'[o].credit + udp'[o].unacked = InitialCredit
    /\ Len(udp'[o].queue) <= QueueSize
    /\ str'[o].pump \in {"wait", "hold", "raised"}
    /\ conn # "cut" => str'[o].pump # "raised"
    /\ str'[o].pump = "hold" => udp'[o].held # 0 /\ udp'[o].credit < udp'[o].held
    /\ \A p \in UdpOpens : p # o => udp'[p] = udp[p]
    /\ \A p \in Opens : /\ str'[p].sock = str[p].sock /\ str'[p].closed = str[p].closed
                        /\ str'[p].closer = str[p].closer
                        /\ p # o => str'[p] = str[p]

LEMMA UdpUpdates ==
    ASSUME NEW u \in Udp
    PROVE  /\ \A c \in 0..InitialCredit : [u EXCEPT !.credit = c] \in Udp
           /\ \A c \in 0..InitialCredit : [u EXCEPT !.unacked = c] \in Udp
           /\ \A size \in 0..2 : [u EXCEPT !.held = size] \in Udp
           /\ \A q \in Seq(1..2) : [u EXCEPT !.queue = q] \in Udp
           /\ \A b \in BOOLEAN : [u EXCEPT !.woken = b] \in Udp
           /\ \A n \in Nat : [u EXCEPT !.arrived = n] \in Udp
BY DEF Udp

LEMMA ChargeEffect ==
    ASSUME NEW u \in Udp, NEW size \in 1..2, u.credit >= size,
           u.credit + u.unacked = InitialCredit
    PROVE  /\ Charge(u, size) \in Udp
           /\ Charge(u, size).credit + Charge(u, size).unacked = InitialCredit
           /\ Charge(u, size).queue = u.queue
<1>. DEFINE v == [u EXCEPT !.credit = @ - size]
            w == [v EXCEPT !.unacked = @ + size]
<1>1. u.credit - size \in 0..InitialCredit /\ u.unacked + size \in 0..InitialCredit
  BY DEF Udp
<1>2. v \in Udp
  BY <1>1, UdpUpdates
<1>3. v.credit = u.credit - size /\ v.unacked = u.unacked /\ v.queue = u.queue
  BY DEF Udp
<1>4. Charge(u, size) = [w EXCEPT !.held = 0]
  BY DEF Charge
<1>. HIDE DEF v
<1>5. w \in Udp
  BY <1>1, <1>2, <1>3, UdpUpdates
<1>6. w.credit = u.credit - size /\ w.unacked = u.unacked + size /\ w.queue = u.queue
  BY <1>2, <1>3 DEF Udp
<1>. HIDE DEF w
<1>7. /\ Charge(u, size) \in Udp
      /\ Charge(u, size).credit = w.credit /\ Charge(u, size).unacked = w.unacked
      /\ Charge(u, size).queue = w.queue
  <2>1. 0 \in 0..2
    OBVIOUS
  <2>2. [w EXCEPT !.held = 0] \in Udp
    BY <1>5, <2>1, UdpUpdates
  <2>. QED
    BY <1>4, <1>5, <2>2 DEF Udp
<1>8. u.credit \in Int /\ u.unacked \in Int
  BY DEF Udp
<1>. QED
  BY <1>6, <1>7, <1>8

LEMMA UdpSendsEffect ==
    ASSUME Types, NEW o \in UdpOpens, NEW u \in Udp, NEW size \in 1..2,
           u.credit + u.unacked = InitialCredit, u.credit >= size,
           Len(u.queue) <= QueueSize, UdpSends(o, u, size)
    PROVE  UdpMoves(o)
<1>1. udp \in [UdpOpens -> Udp] /\ o \in Opens
  BY RecordTypes
<1>2. /\ udp' \in [UdpOpens -> Udp]
      /\ udp'[o] = Charge(u, size)
      /\ \A p \in UdpOpens : p # o => udp'[p] = udp[p]
  BY <1>1, ChargeEffect DEF UdpSends
<1>3. /\ udp'[o].credit + udp'[o].unacked = InitialCredit
      /\ Len(udp'[o].queue) <= QueueSize
  BY <1>2, ChargeEffect
<1>. DEFINE pump == IF conn = "cut" THEN "raised" ELSE "wait"
<1>4. pump \in {"wait", "hold", "raised"} /\ str' = [str EXCEPT ![o].pump = pump]
  BY DEF UdpSends
<1>. HIDE DEF pump
<1>5. /\ str' \in [Opens -> Stream] /\ str'[o].pump = pump
      /\ \A p \in Opens : /\ str'[p].sock = str[p].sock /\ str'[p].closed = str[p].closed
                          /\ str'[p].closer = str[p].closer
                          /\ p # o => str'[p] = str[p]
  BY <1>1, <1>4, PumpEffect
<1>6. pump \in {"wait", "raised"} /\ (conn # "cut" => pump = "wait")
  BY DEF pump
<1>. QED
  BY <1>2, <1>3, <1>5, <1>6 DEF UdpMoves

LEMMA UdpTakesEffect ==
    ASSUME Types, Wakeups, NEW o \in UdpOpens, UdpTakes(o)
    PROVE  UdpMoves(o)
<1>. DEFINE size == Head(udp[o].queue)
            u == [udp[o] EXCEPT !.queue = Tail(@)]
            v == [u EXCEPT !.held = size]
<1>1. udp \in [UdpOpens -> Udp] /\ udp[o] \in Udp /\ o \in Opens
  BY RecordTypes
<1>2. /\ size \in 1..2 /\ Tail(udp[o].queue) \in Seq(1..2)
      /\ Len(Tail(udp[o].queue)) <= QueueSize
  <2>1. udp[o].queue \in Seq(1..2) /\ udp[o].queue # <<>> /\ Len(udp[o].queue) <= QueueSize
    BY <1>1 DEF UdpTakes, Udp, Types, TypeOK
  <2>. QED
    BY <2>1
<1>3. u \in Udp
  BY <1>1, <1>2, UdpUpdates
<1>4. /\ u.credit = udp[o].credit /\ u.unacked = udp[o].unacked
      /\ Len(u.queue) <= QueueSize
  BY <1>1, <1>2 DEF Udp
<1>5. u.credit + u.unacked = InitialCredit
  BY <1>4 DEF Wakeups
<1>6. CASE udp[o].credit >= size
  <2>1. UdpSends(o, u, size)
    BY <1>6 DEF UdpTakes
  <2>. HIDE DEF u, size
  <2>. QED
    BY <1>2, <1>3, <1>4, <1>5, <1>6, <2>1, UdpSendsEffect
<1>7. CASE ~(udp[o].credit >= size)
  <2>1. /\ udp' = [udp EXCEPT ![o] = [v EXCEPT !.woken = FALSE]]
        /\ str' = [str EXCEPT ![o].pump = "hold"]
    BY <1>7 DEF UdpTakes
  <2>. HIDE DEF u, size
  <2>2. v \in Udp
    <3>1. size \in 0..2
      BY <1>2
    <3>. QED
      BY <1>3, <3>1, UdpUpdates
  <2>3. v.held = size /\ v.credit = u.credit /\ v.unacked = u.unacked /\ v.queue = u.queue
    BY <1>3 DEF Udp
  <2>. HIDE DEF v
  <2>4. [v EXCEPT !.woken = FALSE] \in Udp
    BY <2>2, UdpUpdates
  <2>5. /\ udp' \in [UdpOpens -> Udp] /\ udp'[o] = [v EXCEPT !.woken = FALSE]
        /\ \A p \in UdpOpens : p # o => udp'[p] = udp[p]
    BY <1>1, <2>1, <2>4
  <2>6. /\ udp'[o].credit = u.credit /\ udp'[o].unacked = u.unacked
        /\ udp'[o].held = size /\ udp'[o].queue = u.queue
    BY <2>2, <2>3, <2>5 DEF Udp
  <2>7. u.credit \in Int /\ u.credit < size
    BY <1>2, <1>3, <1>4, <1>7 DEF Udp
  <2>8. /\ str' \in [Opens -> Stream] /\ str'[o].pump = "hold"
        /\ \A p \in Opens : /\ str'[p].sock = str[p].sock /\ str'[p].closed = str[p].closed
                            /\ str'[p].closer = str[p].closer
                            /\ p # o => str'[p] = str[p]
    BY <1>1, <2>1, PumpEffect
  <2>9. udp'[o].held # 0 /\ udp'[o].credit < udp'[o].held
        /\ udp'[o].credit + udp'[o].unacked = InitialCredit
    BY <1>2, <1>5, <2>6, <2>7
  <2>. QED
    BY <1>4, <2>5, <2>6, <2>8, <2>9 DEF UdpMoves
<1>. QED
  BY <1>6, <1>7

LEMMA UdpResumesEffect ==
    ASSUME Types, Wakeups, NEW o \in UdpOpens, UdpResumes(o)
    PROVE  UdpMoves(o)
<1>. DEFINE u == [udp[o] EXCEPT !.woken = FALSE]
<1>1. udp \in [UdpOpens -> Udp] /\ udp[o] \in Udp /\ o \in Opens
      /\ str \in [Opens -> Stream]
  BY RecordTypes
<1>2. u \in Udp
  BY <1>1, UdpUpdates
<1>3. /\ u.credit = udp[o].credit /\ u.unacked = udp[o].unacked
      /\ u.held = udp[o].held /\ Len(u.queue) <= QueueSize
  BY <1>1 DEF Udp, Types, TypeOK
<1>4. u.credit + u.unacked = InitialCredit /\ udp[o].held \in 1..2
  BY <1>1, <1>3 DEF Wakeups, Udp, UdpResumes
<1>5. CASE udp[o].credit >= udp[o].held
  <2>1. UdpSends(o, u, udp[o].held)
    BY <1>5 DEF UdpResumes
  <2>. HIDE DEF u
  <2>. QED
    BY <1>2, <1>3, <1>4, <1>5, <2>1, UdpSendsEffect
<1>6. CASE ~(udp[o].credit >= udp[o].held)
  <2>1. udp' = [udp EXCEPT ![o] = u] /\ str' = str /\ str[o].pump = "hold"
    BY <1>6 DEF UdpResumes
  <2>. HIDE DEF u
  <2>2. /\ udp' \in [UdpOpens -> Udp] /\ udp'[o] = u
        /\ \A p \in UdpOpens : p # o => udp'[p] = udp[p]
    BY <1>1, <1>2, <2>1
  <2>3. u.credit < u.held /\ u.held # 0
    BY <1>2, <1>3, <1>4, <1>6 DEF Udp
  <2>. QED
    BY <1>1, <1>3, <1>4, <2>1, <2>2, <2>3 DEF UdpMoves
<1>. QED
  BY <1>5, <1>6

(* run() ends, with the streams as they are in s.                          *)
Ends(s) ==
    /\ conn' = "ended" /\ loop' = [at |-> "final", on |-> None]
    /\ req' \in [Opens -> Request] /\ str' \in [Opens -> Stream]
    /\ \A p \in Opens :
        /\ req'[p].id = req[p].id
        /\ req[p].pc \in {"spawned", "connecting", "opening"} =>
               req'[p].pc = "dead" /\ str'[p] = s[p]
        /\ req[p].pc \in {"unsent", "open", "dead"} => req'[p] = req[p] /\ str'[p] = s[p]
        /\ req[p].pc = "connected" =>
               \/ LateResult /\ req'[p] = req[p] /\ str'[p] = s[p]
               \/ /\ req'[p].pc = "dead" /\ str'[p].sock = "shut"
                  /\ str'[p].closed = s[p].closed /\ str'[p].pump = s[p].pump
                  /\ str'[p].closer = s[p].closer

LEMMA EndsEffect ==
    ASSUME Types, NEW s \in [Opens -> Stream], conn' = "ended",
           loop' = [at |-> "final", on |-> None], req' = Cancelled, str' = Dropped(s)
    PROVE  Ends(s)
<1>1. req \in [Opens -> Request]
  BY RecordTypes
<1>. QED
  BY <1>1, CancelledEffect, DroppedEffect DEF Ends, Opening, Request

(* The stream of o is shut, in the course of the run or with its end.      *)
ShutOf(o, s) ==
    /\ s \in [Opens -> Stream]
    /\ s[o].sock = "shut" /\ s[o].closer = None /\ s[o].pump = "done"
    /\ \A p \in Opens : s[p].closed = str[p].closed /\ (p # o => s[p] = str[p])

LEMMA ShutEffect ==
    ASSUME Types, NEW o \in Opens
    PROVE  ShutOf(o, [str EXCEPT ![o].sock = "shut", ![o].closer = None, ![o].pump = "done"])
<1>1. str \in [Opens -> Stream]
  BY RecordTypes
<1>. QED
  BY ZenonT(60), <1>1 DEF ShutOf, Stream

Shuts(o) ==
    /\ UNCHANGED <<udp, clash, raced>>
    /\ str[o].closer # None /\ table' = [table EXCEPT ![req[o].id] = None]
    /\ told' \in [Opens -> Answer]
    /\ conn = "up" => told'[o].ended
    /\ \A p \in Opens : told'[p].answer = told[p].answer /\ (p # o => told'[p] = told[p])

LEMMA CloseFinishesEffect ==
    ASSUME Types, NEW o \in Opens, CloseFinishes(o)
    PROVE  /\ Shuts(o)
           /\ \/ /\ ShutOf(o, str') /\ UNCHANGED <<conn, todo, req>>
                 /\ \/ str[o].closer = "pump" /\ loop' = loop
                    \/ str[o].closer = "loop" /\ conn = "up" /\ loop' = Reading
                    \/ /\ str[o].closer = "loop" /\ conn = "ended"
                       /\ loop' = [at |-> "final", on |-> None]
              \/ /\ str[o].closer = "loop" /\ conn = "cut"
                 /\ todo' = {table'[i] : i \in {j \in Ids : table'[j] # None}}
                 /\ \E s \in [Opens -> Stream] : ShutOf(o, s) /\ Ends(s)
<1>. DEFINE shut == [str EXCEPT ![o].sock = "shut", ![o].closer = None, ![o].pump = "done"]
<1>1. ShutOf(o, shut)
  BY ShutEffect
<1>. HIDE DEF shut
<1>2. told \in [Opens -> Answer]
  BY RecordTypes
<1>3. Shuts(o)
  <2>1. CASE conn = "up"
    BY <2>1, EndedEffect DEF CloseFinishes, Popped, Shuts
  <2>2. CASE conn # "up"
    BY <1>2, <2>2 DEF CloseFinishes, Popped, Shuts
  <2>. QED
    BY <2>1, <2>2
<1>4. \/ str' = shut /\ UNCHANGED <<conn, todo, req>>
         /\ \/ str[o].closer = "pump" /\ loop' = loop
            \/ str[o].closer = "loop" /\ conn = "up" /\ loop' = Reading
            \/ /\ str[o].closer = "loop" /\ conn = "ended"
               /\ loop' = [at |-> "final", on |-> None]
      \/ /\ str[o].closer = "loop" /\ conn = "cut"
         /\ todo' = {table'[i] : i \in {j \in Ids : table'[j] # None}}
         /\ conn' = "ended" /\ loop' = [at |-> "final", on |-> None]
         /\ req' = Cancelled /\ str' = Dropped(shut)
  BY DEF CloseFinishes, shut
<1>5. ASSUME str[o].closer = "loop", conn = "cut",
             conn' = "ended", loop' = [at |-> "final", on |-> None],
             req' = Cancelled, str' = Dropped(shut)
      PROVE  \E s \in [Opens -> Stream] : ShutOf(o, s) /\ Ends(s)
  <2>1. shut \in [Opens -> Stream]
    BY <1>1 DEF ShutOf
  <2>2. Ends(shut)
    BY <1>5, <2>1, EndsEffect
  <2>. QED
    BY <1>1, <2>1, <2>2
<1>. QED
  BY <1>1, <1>3, <1>4, <1>5

(* A pump had failed when the loop comes to close its stream.              *)
Marked(o, s) ==
    /\ s \in [Opens -> Stream]
    /\ s[o].closed /\ str[o].pump = "raised"
    /\ \A p \in Opens : /\ s[p].sock = str[p].sock /\ s[p].pump = str[p].pump
                        /\ s[p].closer = str[p].closer
                        /\ p # o => s[p] = str[p]

LEMMA MarkEffect ==
    ASSUME Types, NEW o \in Opens, str[o].pump = "raised"
    PROVE  Marked(o, [str EXCEPT ![o].closed = TRUE])
<1>1. str \in [Opens -> Stream]
  BY RecordTypes
<1>. QED
  BY <1>1 DEF Marked, Stream

LEMMA LoopClosesEffect ==
    ASSUME Types, NEW i \in Ids, LoopCloses(i)
    PROVE  LET o == table[i] IN
           /\ o \in Opens /\ loop = Reading /\ ~str[o].closed
           /\ UNCHANGED <<table, udp, told, clash, raced>>
           /\ \/ /\ ClosedBy(o, "loop", "done") /\ str[o].pump # "raised"
                 /\ loop' = [at |-> "transport", on |-> o] /\ UNCHANGED <<conn, todo, req>>
              \/ /\ todo' = {table[j] : j \in Live}
                 /\ \E s \in [Opens -> Stream] : Marked(o, s) /\ Ends(s)
<1>. DEFINE o == table[i]
            s == [str EXCEPT ![o].closed = TRUE]
<1>1. /\ o \in Opens /\ loop = Reading /\ ~str[o].closed
      /\ UNCHANGED <<table, udp, told, clash, raced>>
  BY RecordTypes DEF LoopCloses
<1>2. CASE str[o].pump = "raised"
  <2>1. /\ conn' = "ended" /\ loop' = [at |-> "final", on |-> None]
        /\ todo' = {table[j] : j \in Live}
        /\ req' = Cancelled /\ str' = Dropped(s)
    BY <1>2 DEF LoopCloses, RunFinally
  <2>. HIDE DEF o
  <2>2. Marked(o, s)
    BY <1>1, <1>2, MarkEffect
  <2>. HIDE DEF s
  <2>3. s \in [Opens -> Stream]
    BY <2>2 DEF Marked
  <2>4. Ends(s)
    BY <2>1, <2>3, EndsEffect
  <2>. QED
    BY <1>1, <2>1, <2>2, <2>3, <2>4 DEF o
<1>3. CASE str[o].pump # "raised"
  <2>1. /\ str' = Closes(o, "loop", "done") /\ UNCHANGED <<conn, todo, req>>
        /\ loop' = [at |-> "transport", on |-> o]
    BY <1>3 DEF LoopCloses
  <2>. HIDE DEF o
  <2>2. ClosedBy(o, "loop", "done")
    BY <1>1, <2>1, ClosesEffect
  <2>. QED
    BY <1>1, <1>3, <2>1, <2>2 DEF o
<1>. QED
  BY <1>2, <1>3

LEMMA LoopEndsEffect ==
    ASSUME Types, LoopEnds
    PROVE  Ends(str) /\ todo' = {table[j] : j \in Live}
BY RecordTypes, EndsEffect DEF LoopEnds, RunFinally

LEMMA FinalClosesEffect ==
    ASSUME Types, NEW o \in Opens, FinalCloses(o)
    PROVE  /\ loop.at = "final" /\ o \in todo /\ todo' = todo \ {o}
           /\ UNCHANGED <<conn, req, table, udp, told, clash, raced>>
           /\ \/ str[o].closed /\ UNCHANGED <<str, loop>>
              \/ /\ ~str[o].closed /\ Marked(o, str')
                 /\ loop' = [at |-> "down", on |-> None]
              \/ /\ ~str[o].closed /\ str[o].pump # "raised" /\ ClosedBy(o, "loop", "done")
                 /\ loop' = [at |-> "transport", on |-> o]
BY ClosesEffect, MarkEffect DEF FinalCloses

(* Datagrams and credit change nothing but the queue and the credit.       *)
LEMMA DatagramArrivesEffect ==
    ASSUME Types, NEW o \in UdpOpens, NEW size \in 1..2, DatagramArrives(o, size)
    PROVE  /\ udp' \in [UdpOpens -> Udp]
           /\ Len(udp'[o].queue) <= QueueSize
           /\ udp'[o].credit = udp[o].credit /\ udp'[o].unacked = udp[o].unacked
           /\ udp'[o].held = udp[o].held /\ udp'[o].woken = udp[o].woken
           /\ \A p \in UdpOpens : p # o => udp'[p] = udp[p]
<1>. DEFINE u == [udp[o] EXCEPT !.arrived = @ + 1]
            q == IF Len(udp[o].queue) < QueueSize THEN Append(udp[o].queue, size)
                 ELSE udp[o].queue
            v == [u EXCEPT !.queue = q]
<1>1. udp \in [UdpOpens -> Udp] /\ udp[o] \in Udp
  BY RecordTypes
<1>2. udp[o].queue \in Seq(1..2) /\ udp[o].arrived + 1 \in Nat
  BY <1>1 DEF Udp
<1>3. q \in Seq(1..2) /\ Len(q) <= QueueSize
  <2>1. Len(udp[o].queue) <= QueueSize
    BY DEF Types, TypeOK
  <2>. QED
    BY <1>2, <2>1
<1>4. u \in Udp
  BY <1>1, <1>2, UdpUpdates
<1>5. /\ u.queue = udp[o].queue /\ u.credit = udp[o].credit
      /\ u.unacked = udp[o].unacked /\ u.held = udp[o].held
      /\ u.woken = udp[o].woken
  BY <1>1 DEF Udp
<1>6. udp' = [udp EXCEPT ![o] = v]
  BY <1>5 DEF DatagramArrives
<1>. HIDE DEF u, q
<1>7. v \in Udp
  BY <1>3, <1>4, UdpUpdates
<1>8. /\ v.queue = q /\ v.credit = u.credit /\ v.unacked = u.unacked
      /\ v.held = u.held /\ v.woken = u.woken
  BY <1>4 DEF Udp
<1>. HIDE DEF v
<1>. QED
  BY <1>1, <1>3, <1>5, <1>6, <1>7, <1>8

LEMMA GrantEffect ==
    ASSUME Types, Wakeups, NEW i \in Ids, NEW amount \in 1..InitialCredit, Grant(i, amount)
    PROVE  LET o == table[i] IN
           /\ o \in UdpOpens
           /\ udp' \in [UdpOpens -> Udp]
           /\ udp'[o].credit + udp'[o].unacked = InitialCredit
           /\ udp'[o].woken /\ udp'[o].held = udp[o].held
           /\ udp'[o].queue = udp[o].queue
           /\ \A p \in UdpOpens : p # o => udp'[p] = udp[p]
<1>. DEFINE o == table[i]
            u == [udp[o] EXCEPT !.credit = @ + amount]
            v == [u EXCEPT !.unacked = @ - amount]
            w == [v EXCEPT !.woken = TRUE]
<1>1. /\ o \in UdpOpens /\ amount \in 1..udp[o].unacked
      /\ udp' = [udp EXCEPT ![o] = w]
  BY DEF Grant
<1>. HIDE DEF o
<1>2. udp \in [UdpOpens -> Udp] /\ udp[o] \in Udp
  BY <1>1, RecordTypes
<1>3. /\ udp[o].credit + udp[o].unacked = InitialCredit
      /\ udp[o].credit \in 0..InitialCredit /\ udp[o].unacked \in 0..InitialCredit
  BY <1>1, <1>2 DEF Wakeups, Udp
<1>4. udp[o].credit + amount \in 0..InitialCredit /\ udp[o].unacked - amount \in 0..InitialCredit
  BY <1>1, <1>3
<1>5. u \in Udp
  BY <1>2, <1>4, UdpUpdates
<1>6. /\ u.credit = udp[o].credit + amount /\ u.unacked = udp[o].unacked
      /\ u.held = udp[o].held /\ u.queue = udp[o].queue
  BY <1>2 DEF Udp
<1>. HIDE DEF u
<1>7. v \in Udp
  BY <1>4, <1>5, <1>6, UdpUpdates
<1>8. /\ v.credit = u.credit /\ v.unacked = u.unacked - amount
      /\ v.held = u.held /\ v.queue = u.queue
  BY <1>5 DEF Udp
<1>. HIDE DEF v
<1>9. w \in Udp
  BY <1>7, UdpUpdates
<1>10. /\ w.credit = v.credit /\ w.unacked = v.unacked /\ w.woken
       /\ w.held = v.held /\ w.queue = v.queue
  BY <1>7 DEF Udp
<1>. HIDE DEF w
<1>11. /\ udp' \in [UdpOpens -> Udp] /\ udp'[o] = w
       /\ \A p \in UdpOpens : p # o => udp'[p] = udp[p]
  BY <1>1, <1>2, <1>9
<1>12. w.credit + w.unacked = InitialCredit
  BY <1>1, <1>3, <1>6, <1>8, <1>10
<1>. QED
  BY <1>1, <1>6, <1>8, <1>10, <1>11, <1>12 DEF o


-----------------------------------------------------------------------------
(* Every action keeps the invariant                                        *)

(* A step that registers no stream and lets no task past its check.        *)
LEMMA RoomKept ==
    ASSUME Room, raced' = raced, Live' \subseteq Live, Opening' \subseteq Opening,
           \A o \in Opens : req'[o].pc \in {"connecting", "connected"} =>
                                req[o].pc \in {"connecting", "connected"}
    PROVE  Room'
<1>1. IsFiniteSet(Live)
  BY DEF Room
<1>2. IsFiniteSet(Live') /\ Cardinality(Live') <= Cardinality(Live)
  BY <1>1, FS_Subset
<1>3. Cardinality(Live') \in Nat /\ Cardinality(Live) \in Nat
  BY <1>1, <1>2, FS_CardinalityType
<1>. HIDE DEF Live, Opening
<1>. QED
  BY <1>2, <1>3 DEF Room

LEMMA SpawnOpenKeeps ==
    ASSUME IInv, NEW o \in Opens, NEW i \in Ids, SpawnOpen(o, i)
    PROVE  IInv'
<1>0. /\ Types /\ Phases /\ Closings /\ Answers /\ Entries /\ Owners
      /\ Endings /\ Room /\ Wakeups
      /\ todo \subseteq Opens /\ table \in [Ids -> Opens \cup {None}]
  BY DEF IInv, Types, TypeOK
<1>1. /\ loop = Reading /\ req[o].pc = "unsent" /\ req' \in [Opens -> Request]
      /\ req'[o].pc = "spawned" /\ req'[o].id = i
      /\ \A p \in Opens : p # o => req'[p] = req[p]
      /\ clash' = clash \cup {j \in {i} : \E p \in Opens : req[p].id = i /\ Outstanding(p)}
      /\ raced' = (raced \/ Opening # {})
      /\ UNCHANGED <<conn, loop, todo, table, str, udp, told>>
  BY <1>0, RecordTypes DEF SpawnOpen, Request
<1>2. Types'
  BY <1>0, <1>1 DEF Types, TypeOK, Request, Answer, Stream
<1>3. Phases'
  BY <1>0, <1>1 DEF Phases, Blank, Fresh
<1>4. Closings'
  BY <1>0, <1>1 DEF Closings, Reading, None, Phases, Blank
<1>5. Answers'
  BY <1>0, <1>1 DEF Answers, Phases, Blank, Fresh, Answer
<1>6. Entries'
  BY <1>0, <1>1 DEF Entries, Live, Phases, Blank
<1>7. Owners'
  <2>1. ~Outstanding(o) /\ told[o].answer # "error" /\ ~told[o].ended /\ str[o].sock = "none"
    BY <1>0, <1>1 DEF Outstanding, Answers, Phases, Blank
  <2>2. \A p \in Opens : p # o => (Outstanding(p)' <=> Outstanding(p))
    BY <1>1 DEF Outstanding
  <2>3. clash \subseteq clash'
    BY <1>1
  <2>4. \A p \in Opens : Outstanding(p) /\ req[p].id = i => i \in clash'
    BY <1>1
  <2>. QED
    BY <1>0, <1>1, <2>1, <2>2, <2>3, <2>4 DEF Owners
<1>8. Endings'
  BY <1>0, <1>1 DEF Endings, Closings, Reading
<1>9. Room'
  <2>1. Live' = Live
    BY <1>1 DEF Live
  <2>2. raced' \/ (~raced /\ Opening = {})
    BY <1>1
  <2>3. Opening = {} => \A p \in Opening' : p = o
    BY <1>1 DEF Opening
  <2>4. Opening = {} => \A p \in Opens : req'[p].pc \notin {"connecting", "connected"}
    BY <1>1 DEF Opening
  <2>. HIDE DEF Live, Opening
  <2>. QED
    BY <1>0, <2>1, <2>2, <2>3, <2>4 DEF Room
<1>10. Wakeups'
  BY <1>0, <1>1 DEF Wakeups
<1>. QED
  BY <1>2, <1>3, <1>4, <1>5, <1>6, <1>7, <1>8, <1>9, <1>10 DEF IInv

LEMMA CheckOpenKeeps ==
    ASSUME IInv, NEW o \in Opens, CheckOpen(o)
    PROVE  IInv'
<1>0. /\ Types /\ Phases /\ Closings /\ Answers /\ Entries /\ Owners
      /\ Endings /\ Room /\ Wakeups
      /\ todo \subseteq Opens /\ table \in [Ids -> Opens \cup {None}]
  BY DEF IInv, Types, TypeOK
<1>1. /\ req[o].pc = "spawned" /\ req' \in [Opens -> Request]
      /\ req'[o].pc \in {"dead", "connecting"}
      /\ req'[o].pc = "connecting" => ~(Cardinality(Live) >= MaxStreams) /\ told' = told
      /\ \A p \in Opens : req'[p].id = req[p].id /\ (p # o => req'[p] = req[p])
      /\ told' \in [Opens -> Answer]
      /\ told'[o].answer \in {told[o].answer, "error"}
      /\ \A p \in Opens : told'[p].ended = told[p].ended /\ (p # o => told'[p] = told[p])
      /\ UNCHANGED <<conn, loop, todo, table, str, udp, clash, raced>>
  BY <1>0, ToEffect, RefuseEffect, RecordTypes DEF CheckOpen
<1>2. Types'
  BY <1>0, <1>1 DEF Types, TypeOK, Request, Answer, Stream
<1>3. Phases'
  BY <1>0, <1>1 DEF Phases, Blank, Fresh
<1>4. Closings'
  BY <1>0, <1>1 DEF Closings, Reading, None, Phases, Blank
<1>5. Answers'
  BY <1>0, <1>1 DEF Answers, Phases, Blank, Fresh, Answer
<1>6. Entries'
  BY <1>0, <1>1 DEF Entries, Live
<1>7. Owners'
  BY <1>0, <1>1 DEF Owners, Outstanding, Answers, Phases, Blank, Fresh
<1>8. Endings'
  BY <1>0, <1>1 DEF Endings, Closings, Reading
<1>9. Room'
  <2>1. Live' = Live
    BY <1>1 DEF Live
  <2>2. Opening' \subseteq Opening /\ o \in Opening
    BY <1>1 DEF Opening
  <2>3. \A p \in Opens : p # o /\ req[p].pc \in {"connecting", "connected"} => p \in Opening
    BY DEF Opening
  <2>4. Cardinality(Live) \in Nat
    BY <1>0, FS_CardinalityType DEF Room
  <2>. HIDE DEF Live, Opening
  <2>. QED
    BY <1>0, <1>1, <2>1, <2>2, <2>3, <2>4 DEF Room
<1>10. Wakeups'
  BY <1>0, <1>1 DEF Wakeups
<1>. QED
  BY <1>2, <1>3, <1>4, <1>5, <1>6, <1>7, <1>8, <1>9, <1>10 DEF IInv

LEMMA ConnectsKeeps ==
    ASSUME IInv, NEW o \in Opens, Connects(o)
    PROVE  IInv'
<1>0. /\ Types /\ Phases /\ Closings /\ Answers /\ Entries /\ Owners
      /\ Endings /\ Room /\ Wakeups
      /\ todo \subseteq Opens /\ table \in [Ids -> Opens \cup {None}]
  BY DEF IInv, Types, TypeOK
<1>1. /\ req[o].pc = "connecting"
      /\ req' \in [Opens -> Request] /\ req'[o].pc = "connected"
      /\ \A p \in Opens : req'[p].id = req[p].id /\ (p # o => req'[p] = req[p])
      /\ str' \in [Opens -> Stream] /\ str'[o].sock = "open"
      /\ \A p \in Opens : /\ str'[p].closed = str[p].closed /\ str'[p].pump = str[p].pump
                          /\ str'[p].closer = str[p].closer
                          /\ p # o => str'[p] = str[p]
      /\ UNCHANGED <<conn, loop, todo, table, udp, told, clash, raced>>
  BY <1>0, ToEffect, ConnectsEffect DEF Connects
<1>2. Types'
  BY <1>0, <1>1 DEF Types, TypeOK, Request, Answer, Stream
<1>3. Phases'
  BY <1>0, <1>1 DEF Phases, Blank, Fresh
<1>4. Closings'
  BY <1>0, <1>1 DEF Closings, Reading, None, Phases, Blank
<1>5. Answers'
  BY <1>0, <1>1 DEF Answers, Phases, Blank, Fresh, Answer
<1>6. Entries'
  BY <1>0, <1>1 DEF Entries, Live
<1>7. Owners'
  BY <1>0, <1>1 DEF Owners, Outstanding, Answers, Phases, Blank, Fresh
<1>8. Endings'
  BY <1>0, <1>1 DEF Endings, Closings, Reading
<1>9. Room'
  <2>1. Live' \subseteq Live
    BY <1>0, <1>1 DEF Live
  <2>2. Opening' \subseteq Opening
    BY <1>0, <1>1 DEF Opening
  <2>3. \A q \in Opens : req'[q].pc \in {"connecting", "connected"} =>
                           req[q].pc \in {"connecting", "connected"}
    BY <1>0, <1>1
  <2>. QED
    BY <1>0, <1>1, <2>1, <2>2, <2>3, RoomKept
<1>10. Wakeups'
  BY <1>0, <1>1 DEF Wakeups
<1>. QED
  BY <1>2, <1>3, <1>4, <1>5, <1>6, <1>7, <1>8, <1>9, <1>10 DEF IInv

LEMMA ConnectFailsKeeps ==
    ASSUME IInv, NEW o \in Opens, ConnectFails(o)
    PROVE  IInv'
<1>0. /\ Types /\ Phases /\ Closings /\ Answers /\ Entries /\ Owners
      /\ Endings /\ Room /\ Wakeups
      /\ todo \subseteq Opens /\ table \in [Ids -> Opens \cup {None}]
  BY DEF IInv, Types, TypeOK
<1>1. /\ req[o].pc = "connecting" /\ req' \in [Opens -> Request] /\ req'[o].pc = "dead"
      /\ \A p \in Opens : req'[p].id = req[p].id /\ (p # o => req'[p] = req[p])
      /\ told' \in [Opens -> Answer]
      /\ told'[o].answer \in {told[o].answer, "error"}
      /\ \A p \in Opens : told'[p].ended = told[p].ended /\ (p # o => told'[p] = told[p])
      /\ UNCHANGED <<conn, loop, todo, table, str, udp, clash, raced>>
  BY <1>0, RefuseEffect DEF ConnectFails
<1>2. Types'
  BY <1>0, <1>1 DEF Types, TypeOK, Request, Answer, Stream
<1>3. Phases'
  BY <1>0, <1>1 DEF Phases, Blank, Fresh
<1>4. Closings'
  BY <1>0, <1>1 DEF Closings, Reading, None, Phases, Blank
<1>5. Answers'
  BY <1>0, <1>1 DEF Answers, Phases, Blank, Fresh, Answer
<1>6. Entries'
  BY <1>0, <1>1 DEF Entries, Live
<1>7. Owners'
  BY <1>0, <1>1 DEF Owners, Outstanding, Answers, Phases, Blank, Fresh
<1>8. Endings'
  BY <1>0, <1>1 DEF Endings, Closings, Reading
<1>9. Room'
  <2>1. Live' \subseteq Live
    BY <1>0, <1>1 DEF Live
  <2>2. Opening' \subseteq Opening
    BY <1>0, <1>1 DEF Opening
  <2>3. \A q \in Opens : req'[q].pc \in {"connecting", "connected"} =>
                           req[q].pc \in {"connecting", "connected"}
    BY <1>0, <1>1
  <2>. QED
    BY <1>0, <1>1, <2>1, <2>2, <2>3, RoomKept
<1>10. Wakeups'
  BY <1>0, <1>1 DEF Wakeups
<1>. QED
  BY <1>2, <1>3, <1>4, <1>5, <1>6, <1>7, <1>8, <1>9, <1>10 DEF IInv

LEMMA RegisterKeeps ==
    ASSUME IInv, NEW o \in Opens, Register(o)
    PROVE  IInv'
<1>0. /\ Types /\ Phases /\ Closings /\ Answers /\ Entries /\ Owners
      /\ Endings /\ Room /\ Wakeups
      /\ todo \subseteq Opens /\ table \in [Ids -> Opens \cup {None}]
  BY DEF IInv, Types, TypeOK
<1>1. /\ req[o].pc = "connected" /\ req[o].id \in Ids /\ Fresh(str[o])
      /\ req' \in [Opens -> Request] /\ req'[o].pc = "opening"
      /\ \A p \in Opens : req'[p].id = req[p].id /\ (p # o => req'[p] = req[p])
      /\ table' \in [Ids -> Opens \cup {None}] /\ table'[req[o].id] = o
      /\ \A i \in Ids : i # req[o].id => table'[i] = table[i]
      /\ UNCHANGED <<conn, loop, todo, str, udp, told, clash, raced>>
  BY <1>0, ToEffect, RecordTypes DEF Register, Phases
<1>2. Types'
  BY <1>0, <1>1 DEF Types, TypeOK, Request, Answer, Stream
<1>3. Phases'
  BY <1>0, <1>1 DEF Phases, Blank, Fresh
<1>4. Closings'
  BY <1>0, <1>1 DEF Closings, Reading, None, Phases, Blank
<1>5. Answers'
  BY <1>0, <1>1 DEF Answers, Phases, Blank, Fresh, Answer
<1>6. Entries'
  BY <1>0, <1>1 DEF Entries, Live, Fresh, Phases
<1>7. Owners'
  <2>1. Outstanding(o)
    BY <1>0, <1>1 DEF Outstanding, Answers, Fresh
  <2>2. \A p \in Opens : Outstanding(p)' <=> Outstanding(p)
    BY <1>1 DEF Outstanding
  <2>3. \A p \in Opens : Outstanding(p) => req[p].id \in Ids
    BY <1>0 DEF Outstanding, Phases
  <2>. QED
    BY <1>0, <1>1, <2>1, <2>2, <2>3 DEF Owners
<1>8. Endings'
  BY <1>0, <1>1 DEF Endings, Closings, Reading
<1>9. Room'
  <2>1. Live' = Live \cup {req[o].id}
    BY <1>1 DEF Live
  <2>2. IsFiniteSet(Live)
    BY <1>0 DEF Room
  <2>3. /\ IsFiniteSet(Live') /\ Cardinality(Live) \in Nat /\ Cardinality(Live') \in Nat
        /\ Cardinality(Live') <= Cardinality(Live) + 1
    <3>. HIDE DEF Live
    <3>1. /\ IsFiniteSet(Live \cup {req[o].id})
          /\ \/ Cardinality(Live \cup {req[o].id}) = Cardinality(Live)
             \/ Cardinality(Live \cup {req[o].id}) = Cardinality(Live) + 1
      BY <2>2, FS_AddElement
    <3>2. Cardinality(Live) \in Nat
      BY <2>2, FS_CardinalityType
    <3>. QED
      BY <2>1, <3>1, <3>2
  <2>4. Opening' = Opening /\ o \in Opening
    BY <1>1 DEF Opening
  <2>5. \A p \in Opens : req[p].pc \in {"connecting", "connected"} => p \in Opening
    BY DEF Opening
  <2>. HIDE DEF Live, Opening
  <2>. QED
    BY <1>0, <1>1, <2>3, <2>4, <2>5 DEF Room
<1>10. Wakeups'
  BY <1>0, <1>1 DEF Wakeups
<1>. QED
  BY <1>2, <1>3, <1>4, <1>5, <1>6, <1>7, <1>8, <1>9, <1>10 DEF IInv

LEMMA OpenedKeeps ==
    ASSUME IInv, NEW o \in Opens, Opened(o)
    PROVE  IInv'
<1>0. /\ Types /\ Phases /\ Closings /\ Answers /\ Entries /\ Owners
      /\ Endings /\ Room /\ Wakeups
      /\ todo \subseteq Opens /\ table \in [Ids -> Opens \cup {None}]
  BY DEF IInv, Types, TypeOK
<1>1. /\ req[o].pc = "opening"
      /\ req' \in [Opens -> Request] /\ req'[o].pc \in {"open", "dead"}
      /\ \A p \in Opens : req'[p].id = req[p].id /\ (p # o => req'[p] = req[p])
      /\ told' \in [Opens -> Answer]
      /\ \/ told'[o].answer = told[o].answer
         \/ told'[o].answer = "opened" /\ req'[o].pc = "open"
      /\ \A p \in Opens : told'[p].ended = told[p].ended /\ (p # o => told'[p] = told[p])
      /\ str' \in [Opens -> Stream]
      /\ \/ str' = str
         \/ str'[o].pump = "wait" /\ req'[o].pc = "open"
      /\ \A p \in Opens : /\ str'[p].sock = str[p].sock /\ str'[p].closed = str[p].closed
                          /\ str'[p].closer = str[p].closer
                          /\ p # o => str'[p] = str[p]
      /\ UNCHANGED <<conn, loop, todo, table, udp, clash, raced>>
  BY <1>0, ToEffect, PumpEffect, OpenedEffect, RecordTypes DEF Opened
<1>2. Types'
  BY <1>0, <1>1 DEF Types, TypeOK, Request, Answer, Stream
<1>3. Phases'
  BY <1>0, <1>1 DEF Phases, Blank, Fresh
<1>4. Closings'
  BY <1>0, <1>1 DEF Closings, Reading, None, Phases, Blank
<1>5. Answers'
  BY <1>0, <1>1 DEF Answers, Phases, Blank, Fresh, Answer
<1>6. Entries'
  BY SMTT(30), <1>0, <1>1 DEF Entries, Live
<1>7. Owners'
  BY <1>0, <1>1 DEF Owners, Outstanding, Answers, Phases, Blank, Fresh
<1>8. Endings'
  <2>1. str[o].pump # "raised"
    BY <1>0, <1>1 DEF Phases
  <2>2. \A p \in Opens : str[p].pump = "raised" => str'[p].pump = "raised"
    BY <1>1, <2>1
  <2>. QED
    BY <1>0, <1>1, <2>2 DEF Endings
<1>9. Room'
  <2>1. Live' \subseteq Live
    BY <1>0, <1>1 DEF Live
  <2>2. Opening' \subseteq Opening
    BY <1>0, <1>1 DEF Opening
  <2>3. \A q \in Opens : req'[q].pc \in {"connecting", "connected"} =>
                           req[q].pc \in {"connecting", "connected"}
    BY <1>0, <1>1
  <2>. QED
    BY <1>0, <1>1, <2>1, <2>2, <2>3, RoomKept
<1>10. Wakeups'
  BY <1>0, <1>1 DEF Wakeups
<1>. QED
  BY <1>2, <1>3, <1>4, <1>5, <1>6, <1>7, <1>8, <1>9, <1>10 DEF IInv

LEMMA PumpEndsKeeps ==
    ASSUME IInv, NEW o \in Opens, PumpEnds(o)
    PROVE  IInv'
<1>0. /\ Types /\ Phases /\ Closings /\ Answers /\ Entries /\ Owners
      /\ Endings /\ Room /\ Wakeups
      /\ todo \subseteq Opens /\ table \in [Ids -> Opens \cup {None}]
  BY DEF IInv, Types, TypeOK
<1>1. /\ str[o].pump \in {"wait", "hold"} /\ ~str[o].closed /\ ClosedBy(o, "pump", "closing")
      /\ req[o].pc = "open" /\ str[o].sock = "open"
      /\ UNCHANGED <<conn, loop, todo, req, table, udp, told, clash, raced>>
  <2>1. str[o] \in Stream
    BY <1>0, RecordTypes
  <2>. QED
    BY <1>0, <2>1, ClosesEffect DEF PumpEnds, Phases, Stream
<1>2. Types'
  BY <1>0, <1>1 DEF Types, TypeOK, Request, Answer, Stream, ClosedBy
<1>3. Phases'
  BY <1>0, <1>1 DEF Phases, Blank, Fresh, ClosedBy
<1>4. Closings'
  BY <1>0, <1>1 DEF Closings, Reading, None, Phases, Blank, ClosedBy
<1>5. Answers'
  BY <1>0, <1>1 DEF Answers, Phases, Blank, Fresh, Answer, ClosedBy
<1>6. Entries'
  BY <1>0, <1>1 DEF Entries, Live, ClosedBy
<1>7. Owners'
  BY <1>0, <1>1 DEF Owners, Outstanding, Answers, Phases, Blank, Fresh, ClosedBy
<1>8. Endings'
  <2>1. \A p \in Opens : str[p].pump = "raised" => str'[p].pump = "raised"
    BY <1>1 DEF ClosedBy
  <2>2. str'[o].closer # None
    BY <1>1 DEF ClosedBy, None
  <2>. QED
    BY <1>0, <1>1, <2>1, <2>2 DEF Endings, ClosedBy
<1>9. Room'
  <2>1. Live' \subseteq Live
    BY <1>0, <1>1 DEF Live
  <2>2. Opening' \subseteq Opening
    BY <1>0, <1>1 DEF Opening
  <2>3. \A q \in Opens : req'[q].pc \in {"connecting", "connected"} =>
                           req[q].pc \in {"connecting", "connected"}
    BY <1>0, <1>1
  <2>. QED
    BY <1>0, <1>1, <2>1, <2>2, <2>3, RoomKept
<1>10. Wakeups'
  BY <1>0, <1>1 DEF Wakeups, ClosedBy
<1>. QED
  BY <1>2, <1>3, <1>4, <1>5, <1>6, <1>7, <1>8, <1>9, <1>10 DEF IInv

LEMMA PumpRaisesKeeps ==
    ASSUME IInv, NEW o \in Opens, PumpRaises(o)
    PROVE  IInv'
<1>0. /\ Types /\ Phases /\ Closings /\ Answers /\ Entries /\ Owners
      /\ Endings /\ Room /\ Wakeups
      /\ todo \subseteq Opens /\ table \in [Ids -> Opens \cup {None}]
  BY DEF IInv, Types, TypeOK
<1>1. /\ str[o].pump \in {"wait", "hold"} /\ ~str[o].closed /\ conn = "cut"
      /\ str' \in [Opens -> Stream] /\ str'[o].pump = "raised" /\ req[o].pc = "open"
      /\ \A p \in Opens : /\ str'[p].sock = str[p].sock /\ str'[p].closed = str[p].closed
                          /\ str'[p].closer = str[p].closer
                          /\ p # o => str'[p] = str[p]
      /\ UNCHANGED <<conn, loop, todo, req, table, udp, told, clash, raced>>
  BY <1>0, PumpEffect DEF PumpRaises, Phases
<1>2. Types'
  BY <1>0, <1>1 DEF Types, TypeOK, Request, Answer, Stream
<1>3. Phases'
  BY <1>0, <1>1 DEF Phases, Blank, Fresh
<1>4. Closings'
  BY <1>0, <1>1 DEF Closings, Reading, None, Phases, Blank
<1>5. Answers'
  BY <1>0, <1>1 DEF Answers, Phases, Blank, Fresh, Answer
<1>6. Entries'
  BY <1>0, <1>1 DEF Entries, Live
<1>7. Owners'
  BY <1>0, <1>1 DEF Owners, Outstanding, Answers, Phases, Blank, Fresh
<1>8. Endings'
  BY <1>0, <1>1 DEF Endings, Closings, Reading
<1>9. Room'
  <2>1. Live' \subseteq Live
    BY <1>0, <1>1 DEF Live
  <2>2. Opening' \subseteq Opening
    BY <1>0, <1>1 DEF Opening
  <2>3. \A q \in Opens : req'[q].pc \in {"connecting", "connected"} =>
                           req[q].pc \in {"connecting", "connected"}
    BY <1>0, <1>1
  <2>. QED
    BY <1>0, <1>1, <2>1, <2>2, <2>3, RoomKept
<1>10. Wakeups'
  BY <1>0, <1>1 DEF Wakeups
<1>. QED
  BY <1>2, <1>3, <1>4, <1>5, <1>6, <1>7, <1>8, <1>9, <1>10 DEF IInv

(* The UDP pump of o sends its datagram or goes on waiting.                *)
LEMMA UdpMovesKeeps ==
    ASSUME IInv, NEW o \in UdpOpens, UdpMoves(o),
           str[o].pump \in {"wait", "hold"}, ~str[o].closed,
           UNCHANGED <<conn, loop, todo, req, table, told, clash, raced>>
    PROVE  IInv'
<1>0. /\ Types /\ Phases /\ Closings /\ Answers /\ Entries /\ Owners
      /\ Endings /\ Room /\ Wakeups
      /\ todo \subseteq Opens /\ table \in [Ids -> Opens \cup {None}]
  BY DEF IInv, Types, TypeOK
<1>1. /\ o \in Opens /\ req[o].pc = "open"
      /\ UNCHANGED <<conn, loop, todo, req, table, told, clash, raced>>
      /\ udp' \in [UdpOpens -> Udp] /\ str' \in [Opens -> Stream]
      /\ udp'[o].credit + udp'[o].unacked = InitialCredit
      /\ Len(udp'[o].queue) <= QueueSize
      /\ str'[o].pump \in {"wait", "hold", "raised"}
      /\ conn # "cut" => str'[o].pump # "raised"
      /\ str'[o].pump = "hold" => udp'[o].held # 0 /\ udp'[o].credit < udp'[o].held
      /\ \A p \in UdpOpens : p # o => udp'[p] = udp[p]
      /\ \A p \in Opens : /\ str'[p].sock = str[p].sock /\ str'[p].closed = str[p].closed
                          /\ str'[p].closer = str[p].closer
                          /\ p # o => str'[p] = str[p]
  BY <1>0 DEF UdpMoves, Phases
<1>2. Types'
  BY ZenonT(60), <1>0, <1>1 DEF Types, TypeOK, Request, Answer, Stream, Udp
<1>3. Phases'
  BY <1>0, <1>1 DEF Phases, Blank, Fresh
<1>4. Closings'
  BY <1>0, <1>1 DEF Closings, Reading, None, Phases, Blank
<1>5. Answers'
  BY <1>0, <1>1 DEF Answers, Phases, Blank, Fresh, Answer
<1>6. Entries'
  BY <1>0, <1>1 DEF Entries, Live
<1>7. Owners'
  BY <1>0, <1>1 DEF Owners, Outstanding, Answers, Phases, Blank, Fresh
<1>8. Endings'
  <2>1. \A p \in Opens : str[p].pump = "raised" => str'[p].pump = "raised"
    BY <1>1
  <2>. QED
    BY <1>0, <1>1, <2>1 DEF Endings
<1>9. Room'
  <2>1. Live' \subseteq Live
    BY <1>0, <1>1 DEF Live
  <2>2. Opening' \subseteq Opening
    BY <1>0, <1>1 DEF Opening
  <2>3. \A q \in Opens : req'[q].pc \in {"connecting", "connected"} =>
                           req[q].pc \in {"connecting", "connected"}
    BY <1>0, <1>1
  <2>. QED
    BY <1>0, <1>1, <2>1, <2>2, <2>3, RoomKept
<1>10. Wakeups'
  <2>1. udp'[o].credit \in Int /\ udp'[o].held \in Int
    BY <1>1 DEF Udp
  <2>. QED
    BY <1>0, <1>1, <2>1 DEF Wakeups
<1>. QED
  BY <1>2, <1>3, <1>4, <1>5, <1>6, <1>7, <1>8, <1>9, <1>10 DEF IInv


LEMMA UdpTakesKeeps ==
    ASSUME IInv, NEW o \in UdpOpens, UdpTakes(o)
    PROVE  IInv'
BY UdpTakesEffect, UdpMovesKeeps DEF UdpTakes, IInv

LEMMA UdpResumesKeeps ==
    ASSUME IInv, NEW o \in UdpOpens, UdpResumes(o)
    PROVE  IInv'
BY UdpResumesEffect, UdpMovesKeeps DEF UdpResumes, IInv

LEMMA DatagramArrivesKeeps ==
    ASSUME IInv, NEW o \in UdpOpens, NEW size \in 1..2, DatagramArrives(o, size)
    PROVE  IInv'
<1>0. /\ Types /\ Phases /\ Closings /\ Answers /\ Entries /\ Owners
      /\ Endings /\ Room /\ Wakeups
      /\ todo \subseteq Opens /\ table \in [Ids -> Opens \cup {None}]
  BY DEF IInv, Types, TypeOK
<1>1. /\ udp' \in [UdpOpens -> Udp]
      /\ Len(udp'[o].queue) <= QueueSize
      /\ udp'[o].credit = udp[o].credit /\ udp'[o].unacked = udp[o].unacked
      /\ udp'[o].held = udp[o].held /\ udp'[o].woken = udp[o].woken
      /\ \A p \in UdpOpens : p # o => udp'[p] = udp[p]
      /\ UNCHANGED <<conn, loop, todo, req, table, str, told, clash, raced>>
  BY <1>0, DatagramArrivesEffect DEF DatagramArrives
<1>2. Types'
  BY <1>0, <1>1 DEF Types, TypeOK, Request, Answer, Stream
<1>3. Phases'
  BY <1>0, <1>1 DEF Phases, Blank, Fresh
<1>4. Closings'
  BY <1>0, <1>1 DEF Closings, Reading, None, Phases, Blank
<1>5. Answers'
  BY <1>0, <1>1 DEF Answers, Phases, Blank, Fresh, Answer
<1>6. Entries'
  BY <1>0, <1>1 DEF Entries, Live
<1>7. Owners'
  BY <1>0, <1>1 DEF Owners, Outstanding, Answers, Phases, Blank, Fresh
<1>8. Endings'
  BY <1>0, <1>1 DEF Endings, Closings, Reading
<1>9. Room'
  <2>1. Live' \subseteq Live
    BY <1>0, <1>1 DEF Live
  <2>2. Opening' \subseteq Opening
    BY <1>0, <1>1 DEF Opening
  <2>3. \A q \in Opens : req'[q].pc \in {"connecting", "connected"} =>
                           req[q].pc \in {"connecting", "connected"}
    BY <1>0, <1>1
  <2>. QED
    BY <1>0, <1>1, <2>1, <2>2, <2>3, RoomKept
<1>10. Wakeups'
  BY <1>0, <1>1 DEF Wakeups
<1>. QED
  BY <1>2, <1>3, <1>4, <1>5, <1>6, <1>7, <1>8, <1>9, <1>10 DEF IInv

LEMMA GrantKeeps ==
    ASSUME IInv, NEW i \in Ids, NEW amount \in 1..InitialCredit, Grant(i, amount)
    PROVE  IInv'
<1>0. /\ Types /\ Phases /\ Closings /\ Answers /\ Entries /\ Owners
      /\ Endings /\ Room /\ Wakeups
      /\ todo \subseteq Opens /\ table \in [Ids -> Opens \cup {None}]
  BY DEF IInv, Types, TypeOK
<1>1. /\ table[i] \in UdpOpens
      /\ udp' \in [UdpOpens -> Udp]
      /\ udp'[table[i]].credit + udp'[table[i]].unacked = InitialCredit
      /\ udp'[table[i]].woken /\ udp'[table[i]].held = udp[table[i]].held
      /\ udp'[table[i]].queue = udp[table[i]].queue
      /\ \A p \in UdpOpens : p # table[i] => udp'[p] = udp[p]
      /\ UNCHANGED <<conn, loop, todo, req, table, str, told, clash, raced>>
  BY <1>0, GrantEffect DEF Grant
<1>2. Types'
  BY <1>0, <1>1 DEF Types, TypeOK, Request, Answer, Stream, Udp
<1>3. Phases'
  BY <1>0, <1>1 DEF Phases, Blank, Fresh
<1>4. Closings'
  BY <1>0, <1>1 DEF Closings, Reading, None, Phases, Blank
<1>5. Answers'
  BY <1>0, <1>1 DEF Answers, Phases, Blank, Fresh, Answer
<1>6. Entries'
  BY <1>0, <1>1 DEF Entries, Live
<1>7. Owners'
  BY <1>0, <1>1 DEF Owners, Outstanding, Answers, Phases, Blank, Fresh
<1>8. Endings'
  BY <1>0, <1>1 DEF Endings, Closings, Reading
<1>9. Room'
  <2>1. Live' \subseteq Live
    BY <1>0, <1>1 DEF Live
  <2>2. Opening' \subseteq Opening
    BY <1>0, <1>1 DEF Opening
  <2>3. \A q \in Opens : req'[q].pc \in {"connecting", "connected"} =>
                           req[q].pc \in {"connecting", "connected"}
    BY <1>0, <1>1
  <2>. QED
    BY <1>0, <1>1, <2>1, <2>2, <2>3, RoomKept
<1>10. Wakeups'
  BY <1>0, <1>1 DEF Wakeups
<1>. QED
  BY <1>2, <1>3, <1>4, <1>5, <1>6, <1>7, <1>8, <1>9, <1>10 DEF IInv

LEMMA SocketCutKeeps ==
    ASSUME IInv, SocketCut
    PROVE  IInv'
<1>0. /\ Types /\ Phases /\ Closings /\ Answers /\ Entries /\ Owners
      /\ Endings /\ Room /\ Wakeups
      /\ todo \subseteq Opens /\ table \in [Ids -> Opens \cup {None}]
  BY DEF IInv, Types, TypeOK
<1>1. /\ conn = "up" /\ conn' = "cut"
      /\ UNCHANGED <<loop, todo, req, table, str, udp, told, clash, raced>>
  BY DEF SocketCut
<1>2. Types'
  BY <1>0, <1>1 DEF Types, TypeOK, Request, Answer, Stream
<1>3. Phases'
  BY <1>0, <1>1 DEF Phases, Blank, Fresh
<1>4. Closings'
  BY <1>0, <1>1 DEF Closings, Reading, None, Phases, Blank
<1>5. Answers'
  BY <1>0, <1>1 DEF Answers, Phases, Blank, Fresh, Answer
<1>6. Entries'
  BY <1>0, <1>1 DEF Entries, Live
<1>7. Owners'
  BY <1>0, <1>1 DEF Owners, Outstanding, Answers, Phases, Blank, Fresh
<1>8. Endings'
  BY <1>0, <1>1 DEF Endings, Closings, Reading
<1>9. Room'
  <2>1. Live' \subseteq Live
    BY <1>0, <1>1 DEF Live
  <2>2. Opening' \subseteq Opening
    BY <1>0, <1>1 DEF Opening
  <2>3. \A q \in Opens : req'[q].pc \in {"connecting", "connected"} =>
                           req[q].pc \in {"connecting", "connected"}
    BY <1>0, <1>1
  <2>. QED
    BY <1>0, <1>1, <2>1, <2>2, <2>3, RoomKept
<1>10. Wakeups'
  BY <1>0, <1>1 DEF Wakeups
<1>. QED
  BY <1>2, <1>3, <1>4, <1>5, <1>6, <1>7, <1>8, <1>9, <1>10 DEF IInv

LEMMA FinalDoneKeeps ==
    ASSUME IInv, FinalDone
    PROVE  IInv'
<1>0. /\ Types /\ Phases /\ Closings /\ Answers /\ Entries /\ Owners
      /\ Endings /\ Room /\ Wakeups
      /\ todo \subseteq Opens /\ table \in [Ids -> Opens \cup {None}]
  BY DEF IInv, Types, TypeOK
<1>1. /\ loop.at = "final" /\ todo = {} /\ loop' = [at |-> "down", on |-> None]
      /\ \A o \in Opens : str[o].closer # "loop"
      /\ UNCHANGED <<conn, todo, req, table, str, udp, told, clash, raced>>
  BY <1>0 DEF FinalDone, Closings
<1>2. Types'
  BY <1>0, <1>1 DEF Types, TypeOK, Request, Answer, Stream
<1>3. Phases'
  BY <1>0, <1>1 DEF Phases, Blank, Fresh
<1>4. Closings'
  BY <1>0, <1>1 DEF Closings, Reading, None, Phases, Blank
<1>5. Answers'
  BY <1>0, <1>1 DEF Answers, Phases, Blank, Fresh, Answer
<1>6. Entries'
  BY <1>0, <1>1 DEF Entries, Live
<1>7. Owners'
  BY <1>0, <1>1 DEF Owners, Outstanding, Answers, Phases, Blank, Fresh
<1>8. Endings'
  BY <1>0, <1>1 DEF Endings, Closings, Reading
<1>9. Room'
  <2>1. Live' \subseteq Live
    BY <1>0, <1>1 DEF Live
  <2>2. Opening' \subseteq Opening
    BY <1>0, <1>1 DEF Opening
  <2>3. \A q \in Opens : req'[q].pc \in {"connecting", "connected"} =>
                           req[q].pc \in {"connecting", "connected"}
    BY <1>0, <1>1
  <2>. QED
    BY <1>0, <1>1, <2>1, <2>2, <2>3, RoomKept
<1>10. Wakeups'
  BY <1>0, <1>1 DEF Wakeups
<1>. QED
  BY <1>2, <1>3, <1>4, <1>5, <1>6, <1>7, <1>8, <1>9, <1>10 DEF IInv


(* What the end of run() leaves of the tasks and streams.                  *)
LEMMA EndsFacts ==
    ASSUME req \in [Opens -> Request], NEW s, Ends(s)
    PROVE  \A p \in Opens :
              /\ str'[p].closer = s[p].closer /\ str'[p].pump = s[p].pump
              /\ str'[p].closed = s[p].closed
              /\ \/ str'[p].sock = s[p].sock
                 \/ req[p].pc = "connected" /\ str'[p].sock = "shut"
              /\ req'[p].id = req[p].id
              /\ req'[p].pc \in {"unsent", "connected", "open", "dead"}
              /\ req[p].pc = "connected" \/ str'[p] = s[p]
BY DEF Ends, Request

LEMMA LoopEndsKeeps ==
    ASSUME IInv, LoopEnds
    PROVE  IInv'
<1>0. /\ Types /\ Phases /\ Closings /\ Answers /\ Entries /\ Owners
      /\ Endings /\ Room /\ Wakeups
      /\ todo \subseteq Opens /\ table \in [Ids -> Opens \cup {None}]
  BY DEF IInv, Types, TypeOK
<1>1. /\ loop = Reading /\ Ends(str) /\ todo' = {table[j] : j \in Live}
      /\ \A p \in Opens : str[p].closer # "loop"
      /\ str \in [Opens -> Stream] /\ req \in [Opens -> Request]
      /\ UNCHANGED <<table, udp, told, clash, raced>>
  BY <1>0, LoopEndsEffect, RecordTypes DEF LoopEnds, Closings, Reading
<1>2. Types'
  <2>1. loop' \in [at : {"read", "transport", "final", "down"}, on : Opens \cup {None}]
    BY <1>1 DEF Ends
  <2>2. todo' \subseteq Opens
    BY <1>0, <1>1 DEF Live
  <2>. QED
    BY <1>0, <1>1, <2>1, <2>2 DEF Types, TypeOK, Ends, Request, Stream
<1>3. Phases'
  BY <1>0, <1>1 DEF Phases, Blank, Fresh, Ends, Request
<1>4. Closings'
  <2>1. loop'.at = "final" /\ conn' = "ended"
    BY <1>1 DEF Ends
  <2>2. ASSUME NEW p \in Opens
        PROVE  /\ str'[p].closer # None =>
                      str'[p].sock = "open" /\ str'[p].closed /\ str'[p].pump # "raised"
               /\ str'[p].closed /\ str'[p].sock = "open" =>
                      str'[p].closer # None \/ str'[p].pump = "raised"
               /\ str'[p].closer # "loop"
    <3>1. /\ str'[p].closer = str[p].closer /\ str'[p].pump = str[p].pump
          /\ str'[p].closed = str[p].closed
      BY <1>1, EndsFacts
    <3>2. CASE req[p].pc = "connected"
      <4>1. Fresh(str[p])
        BY <1>0, <1>1, <3>2 DEF Phases
      <4>. QED
        BY <3>1, <4>1 DEF Fresh, None
    <3>3. CASE req[p].pc # "connected"
      <4>1. str'[p] = str[p]
        BY <1>1, <3>3, EndsFacts
      <4>. QED
        BY <1>0, <1>1, <4>1 DEF Closings
    <3>. QED
      BY <3>2, <3>3
  <2>. QED
    BY <2>1, <2>2 DEF Closings
<1>5. Answers'
  BY <1>0, <1>1 DEF Answers, Phases, Blank, Fresh, Answer, Ends, Request
<1>6. Entries'
  <2>1. \A i \in Live : /\ req'[table[i]].id = i /\ str'[table[i]].sock = "open"
                         /\ req'[table[i]].pc \in {"open", "dead"}
    BY <1>0, <1>1 DEF Entries, Live, Ends, Request
  <2>2. \A p \in todo' : \E i \in Live : p = table[i]
    BY <1>1
  <2>. QED
    BY <1>1, <2>1, <2>2 DEF Entries, Live
<1>7. Owners'
  BY <1>0, <1>1 DEF Owners, Outstanding, Answers, Phases, Blank, Fresh, Ends, Request
<1>8. Endings'
  <2>1. ASSUME NEW p \in Opens, str'[p].sock = "open"
        PROVE  \/ p \in todo'
               \/ LateResult /\ ~str'[p].closed
               \/ req'[p].id \in clash'
    <3>1. str[p].sock = "open" /\ str'[p] = str[p]
      BY <1>1, <2>1 DEF Ends, Request
    <3>2. Outstanding(p)
      BY <1>0, <3>1 DEF Outstanding, Answers, Phases, Blank
    <3>3. CASE req[p].pc = "connected"
      BY <1>0, <1>1, <2>1, <3>1, <3>3 DEF Ends, Phases, Fresh
    <3>4. CASE req[p].pc # "connected"
      <4>1. req[p].id \in Ids
        BY <1>0, <3>2 DEF Phases, Outstanding
      <4>2. req[p].id \in clash \/ table[req[p].id] = p
        BY <1>0, <3>1, <3>2, <3>4 DEF Owners
      <4>. QED
        BY <1>1, <4>1, <4>2 DEF Live, Ends
    <3>. QED
      BY <3>3, <3>4
  <2>2. \A p \in Opens : req'[p].pc \notin {"spawned", "connecting"}
    BY <1>1 DEF Ends, Request
  <2>. QED
    BY <1>1, <2>1, <2>2 DEF Endings, Ends
<1>9. Room'
  <2>1. Live' \subseteq Live
    BY <1>0, <1>1 DEF Live
  <2>2. Opening' \subseteq Opening
    BY <1>0, <1>1 DEF Opening, Ends, Request
  <2>3. \A q \in Opens : req'[q].pc \in {"connecting", "connected"} =>
                           req[q].pc \in {"connecting", "connected"}
    BY <1>0, <1>1 DEF Ends, Request
  <2>. QED
    BY <1>0, <1>1, <2>1, <2>2, <2>3, RoomKept DEF Ends, Request
<1>10. Wakeups'
  BY <1>0, <1>1 DEF Wakeups, Ends, Request
<1>. QED
  BY <1>2, <1>3, <1>4, <1>5, <1>6, <1>7, <1>8, <1>9, <1>10 DEF IInv

(* run() ends as the loop closes the stream o of a pump that has failed.     *)
LEMMA FailedCloseKeeps ==
    ASSUME IInv, NEW o \in Opens, NEW s, Marked(o, s), Ends(s), loop = Reading, ~str[o].closed,
           todo' = {table[j] : j \in Live}, UNCHANGED <<table, udp, told, clash, raced>>
    PROVE  IInv'
<1>0. /\ Types /\ Phases /\ Closings /\ Answers /\ Entries /\ Owners
      /\ Endings /\ Room /\ Wakeups
      /\ todo \subseteq Opens /\ table \in [Ids -> Opens \cup {None}]
  BY DEF IInv, Types, TypeOK
<1>1. /\ loop = Reading /\ Ends(s) /\ todo' = {table[j] : j \in Live}
      /\ \A p \in Opens : str[p].closer # "loop"
      /\ s \in [Opens -> Stream] /\ req \in [Opens -> Request] /\ str \in [Opens -> Stream]
      /\ s[o].closed /\ str[o].pump = "raised" /\ str[o].sock = "open" /\ req[o].pc = "open"
      /\ s[o].sock = "open" /\ s[o].pump = "raised" /\ s[o].closer = str[o].closer
      /\ \A p \in Opens : p # o => s[p] = str[p]
      /\ UNCHANGED <<table, udp, told, clash, raced>>
  BY ZenonT(60), <1>0, RecordTypes DEF Marked, Closings, Phases, Reading, Stream
<1>2. Types'
  <2>1. loop' \in [at : {"read", "transport", "final", "down"}, on : Opens \cup {None}]
    BY <1>1 DEF Ends
  <2>2. todo' \subseteq Opens
    BY <1>0, <1>1 DEF Live
  <2>. QED
    BY <1>0, <1>1, <2>1, <2>2 DEF Types, TypeOK, Ends, Request, Stream
<1>3. Phases'
  BY <1>0, <1>1 DEF Phases, Blank, Fresh, Ends, Request
<1>4. Closings'
  <2>1. loop'.at = "final" /\ conn' = "ended"
    BY <1>1 DEF Ends
  <2>2. ASSUME NEW p \in Opens
        PROVE  /\ str'[p].closer # None =>
                      str'[p].sock = "open" /\ str'[p].closed /\ str'[p].pump # "raised"
               /\ str'[p].closed /\ str'[p].sock = "open" =>
                      str'[p].closer # None \/ str'[p].pump = "raised"
               /\ str'[p].closer # "loop"
    <3>1. str'[p].closer = s[p].closer /\ str'[p].pump = s[p].pump /\ str'[p].closed = s[p].closed
      BY <1>1, EndsFacts
    <3>2. CASE req[p].pc = "connected"
      <4>1. s[p] = str[p] /\ Fresh(str[p])
        BY <1>0, <1>1, <3>2 DEF Phases
      <4>. QED
        BY <3>1, <4>1 DEF Fresh, None
    <3>3. CASE req[p].pc # "connected"
      <4>1. str'[p] = s[p]
        BY <1>1, <3>3, EndsFacts
      <4>. QED
        BY <1>0, <1>1, <4>1 DEF Closings
    <3>. QED
      BY <3>2, <3>3
  <2>. QED
    BY <2>1, <2>2 DEF Closings
<1>5. Answers'
  BY <1>0, <1>1 DEF Answers, Phases, Blank, Fresh, Answer, Ends, Request
<1>6. Entries'
  <2>1. \A i \in Live : /\ req'[table[i]].id = i /\ str'[table[i]].sock = "open"
                         /\ req'[table[i]].pc \in {"open", "dead"}
    BY <1>0, <1>1 DEF Entries, Live, Ends, Request
  <2>2. \A p \in todo' : \E i \in Live : p = table[i]
    BY <1>1
  <2>. QED
    BY <1>1, <2>1, <2>2 DEF Entries, Live
<1>7. Owners'
  BY <1>0, <1>1 DEF Owners, Outstanding, Answers, Phases, Blank, Fresh, Ends, Request
<1>8. Endings'
  <2>1. str'[o].pump = "raised"
    BY <1>1 DEF Ends
  <2>2. \A p \in Opens : req'[p].pc \notin {"spawned", "connecting"}
    BY <1>1 DEF Ends, Request
  <2>. QED
    BY <1>1, <2>1, <2>2 DEF Endings, Ends
<1>9. Room'
  <2>1. Live' \subseteq Live
    BY <1>0, <1>1 DEF Live
  <2>2. Opening' \subseteq Opening
    BY <1>0, <1>1 DEF Opening, Ends, Request
  <2>3. \A q \in Opens : req'[q].pc \in {"connecting", "connected"} =>
                           req[q].pc \in {"connecting", "connected"}
    BY <1>0, <1>1 DEF Ends, Request
  <2>. QED
    BY <1>0, <1>1, <2>1, <2>2, <2>3, RoomKept DEF Ends, Request
<1>10. Wakeups'
  BY <1>0, <1>1 DEF Wakeups, Ends, Request
<1>. QED
  BY <1>2, <1>3, <1>4, <1>5, <1>6, <1>7, <1>8, <1>9, <1>10 DEF IInv

(* The loop begins to close the stream o.                                   *)
LEMMA LoopBeginsKeeps ==
    ASSUME IInv, NEW o \in Opens, ClosedBy(o, "loop", "done"), ~str[o].closed,
           str[o].sock = "open", req[o].pc \in {"open", "opening", "dead"},
           conn # "ended" \/ loop.at = "final",
           loop.at \in {"read", "final"}, loop' = [at |-> "transport", on |-> o],
           str[o].pump # "raised", todo' \subseteq todo, todo \subseteq todo' \cup {o},
           UNCHANGED <<conn, req, table, udp, told, clash, raced>>
    PROVE  IInv'
<1>0. /\ Types /\ Phases /\ Closings /\ Answers /\ Entries /\ Owners
      /\ Endings /\ Room /\ Wakeups
      /\ todo \subseteq Opens /\ table \in [Ids -> Opens \cup {None}]
  BY DEF IInv, Types, TypeOK
<1>1. /\ ClosedBy(o, "loop", "done") /\ ~str[o].closed /\ str[o].pump # "raised"
      /\ str[o].sock = "open" /\ loop.at \in {"read", "final"}
      /\ req[o].pc \in {"open", "opening", "dead"}
      /\ \A p \in Opens : str[p].closer # "loop"
      /\ loop' = [at |-> "transport", on |-> o]
      /\ todo' \subseteq todo /\ todo \subseteq todo' \cup {o}
      /\ UNCHANGED <<conn, req, table, udp, told, clash, raced>>
  BY <1>0 DEF Closings
<1>2. Types'
  BY <1>0, <1>1 DEF Types, TypeOK, Request, Answer, Stream, ClosedBy
<1>3. Phases'
  BY <1>0, <1>1 DEF Phases, Blank, Fresh, ClosedBy
<1>4. Closings'
  BY <1>0, <1>1 DEF Closings, Reading, None, Phases, Blank, ClosedBy
<1>5. Answers'
  BY <1>0, <1>1 DEF Answers, Phases, Blank, Fresh, Answer, ClosedBy
<1>6. Entries'
  BY <1>0, <1>1 DEF Entries, Live, ClosedBy
<1>7. Owners'
  BY <1>0, <1>1 DEF Owners, Outstanding, Answers, Phases, Blank, Fresh, ClosedBy
<1>8. Endings'
  <2>1. \A p \in Opens : str[p].pump = "raised" => str'[p].pump = "raised"
    BY <1>1 DEF ClosedBy
  <2>2. str'[o].closer # None
    BY <1>1 DEF ClosedBy, None
  <2>. QED
    BY <1>0, <1>1, <2>1, <2>2 DEF Endings, ClosedBy
<1>9. Room'
  <2>1. Live' \subseteq Live
    BY <1>0, <1>1 DEF Live
  <2>2. Opening' \subseteq Opening
    BY <1>0, <1>1 DEF Opening
  <2>3. \A q \in Opens : req'[q].pc \in {"connecting", "connected"} =>
                           req[q].pc \in {"connecting", "connected"}
    BY <1>0, <1>1
  <2>. QED
    BY <1>0, <1>1, <2>1, <2>2, <2>3, RoomKept
<1>10. Wakeups'
  BY <1>0, <1>1 DEF Wakeups, ClosedBy
<1>. QED
  BY <1>2, <1>3, <1>4, <1>5, <1>6, <1>7, <1>8, <1>9, <1>10 DEF IInv


LEMMA LoopClosesKeeps ==
    ASSUME IInv, NEW i \in Ids, LoopCloses(i)
    PROVE  IInv'
<1>1. Types /\ Entries /\ Closings
  BY DEF IInv
<1>. DEFINE o == table[i]
<1>2. i \in Live
  BY DEF LoopCloses, Live
<1>3. /\ str[o].sock = "open" /\ req[o].pc \in {"opening", "open", "dead"}
      /\ conn # "ended" /\ loop.at = "read"
  BY <1>1, <1>2 DEF Entries, Closings, LoopCloses, Reading
<1>. QED
  BY <1>1, <1>3, LoopClosesEffect, FailedCloseKeeps, LoopBeginsKeeps

(* The stream of o is shut and run() goes on.                               *)
LEMMA ShutKeeps ==
    ASSUME IInv, NEW o \in Opens, Shuts(o), ShutOf(o, str'), UNCHANGED <<conn, todo, req>>,
           \/ str[o].closer = "pump" /\ loop' = loop
           \/ str[o].closer = "loop" /\ conn = "up" /\ loop' = Reading
           \/ /\ str[o].closer = "loop" /\ conn = "ended"
              /\ loop' = [at |-> "final", on |-> None]
    PROVE  IInv'
<1>0. /\ Types /\ Phases /\ Closings /\ Answers /\ Entries /\ Owners
      /\ Endings /\ Room /\ Wakeups
      /\ todo \subseteq Opens /\ table \in [Ids -> Opens \cup {None}]
  BY DEF IInv, Types, TypeOK
<1>1. /\ Shuts(o) /\ ShutOf(o, str') /\ UNCHANGED <<conn, todo, req>>
      /\ \/ str[o].closer = "pump" /\ loop' = loop
         \/ str[o].closer = "loop" /\ conn = "up" /\ loop' = Reading
         \/ /\ str[o].closer = "loop" /\ conn = "ended"
            /\ loop' = [at |-> "final", on |-> None]
      /\ str[o].closed /\ str[o].sock = "open" /\ str[o].pump # "raised"
      /\ req[o].pc \in {"open", "opening", "dead"} /\ req[o].id \in Ids
      /\ \A p \in Opens : str[p].closer = "loop" => loop = [at |-> "transport", on |-> p]
      /\ table' \in [Ids -> Opens \cup {None}] /\ table'[req[o].id] = None
      /\ \A i \in Ids : i # req[o].id => table'[i] = table[i]
  <2>1. req[o].pc \notin {"unsent", "spawned", "connecting", "connected"}
    BY <1>0 DEF Shuts, Phases, Blank, Fresh
  <2>2. req[o].pc \in {"open", "opening", "dead"}
    BY <1>0, <2>1, RecordTypes DEF Request
  <2>. QED
    BY <1>0, <2>2 DEF Shuts, Closings, Phases
<1>2. Types'
  BY <1>0, <1>1 DEF Types, TypeOK, Request, Answer, Stream, ShutOf, Shuts, Reading
<1>3. Phases'
  BY <1>0, <1>1 DEF Phases, Blank, Fresh, ShutOf, Shuts
<1>4. Closings'
  BY <1>0, <1>1 DEF Closings, Reading, None, Phases, Blank, ShutOf, Shuts
<1>5. Answers'
  BY <1>0, <1>1 DEF Answers, Phases, Blank, Fresh, Answer, ShutOf, Shuts
<1>6. Entries'
  BY <1>0, <1>1 DEF Entries, Live, ShutOf, Shuts
<1>7. Owners'
  BY <1>0, <1>1 DEF Owners, Outstanding, Answers, Phases, Blank, Fresh, ShutOf, Shuts
<1>8. Endings'
  BY <1>0, <1>1 DEF Endings, Closings, Reading, ShutOf, Shuts
<1>9. Room'
  <2>1. Live' \subseteq Live
    BY <1>0, <1>1 DEF Live, ShutOf, Shuts
  <2>2. Opening' \subseteq Opening
    BY <1>0, <1>1 DEF Opening, ShutOf, Shuts
  <2>3. \A q \in Opens : req'[q].pc \in {"connecting", "connected"} =>
                           req[q].pc \in {"connecting", "connected"}
    BY <1>0, <1>1 DEF Shuts
  <2>. QED
    BY <1>0, <1>1, <2>1, <2>2, <2>3, RoomKept DEF Shuts
<1>10. Wakeups'
  BY <1>0, <1>1 DEF Wakeups, ShutOf, Shuts
<1>. QED
  BY <1>2, <1>3, <1>4, <1>5, <1>6, <1>7, <1>8, <1>9, <1>10 DEF IInv

(* The stream of o is shut and run() ends, the socket being dead.            *)
LEMMA ShutEndsKeeps ==
    ASSUME IInv, NEW o \in Opens, NEW s, Shuts(o), ShutOf(o, s), Ends(s),
           str[o].closer = "loop", conn = "cut",
           todo' = {table'[i] : i \in {j \in Ids : table'[j] # None}}
    PROVE  IInv'
<1>0. /\ Types /\ Phases /\ Closings /\ Answers /\ Entries /\ Owners
      /\ Endings /\ Room /\ Wakeups
      /\ todo \subseteq Opens /\ table \in [Ids -> Opens \cup {None}]
  BY DEF IInv, Types, TypeOK
<1>1. /\ Shuts(o) /\ ShutOf(o, s) /\ Ends(s) /\ str[o].closer = "loop" /\ conn = "cut"
      /\ todo' = {table'[i] : i \in Live'}
      /\ str[o].closed /\ str[o].sock = "open" /\ str[o].pump # "raised"
      /\ req[o].pc \in {"open", "opening", "dead"} /\ req[o].id \in Ids
      /\ \A p \in Opens : s[p].closer # "loop"
      /\ str \in [Opens -> Stream] /\ req \in [Opens -> Request]
      /\ table' \in [Ids -> Opens \cup {None}] /\ table'[req[o].id] = None
      /\ \A i \in Ids : i # req[o].id => table'[i] = table[i]
  <2>1. req[o].pc \notin {"unsent", "spawned", "connecting", "connected"}
    BY <1>0 DEF Shuts, Phases, Blank, Fresh
  <2>2. req[o].pc \in {"open", "opening", "dead"}
    BY <1>0, <2>1, RecordTypes DEF Request
  <2>3. \A p \in Opens : s[p].closer # "loop"
    BY <1>0 DEF Closings, ShutOf, None
  <2>. QED
    BY <1>0, <2>2, <2>3, RecordTypes DEF Shuts, Closings, Phases, Live
<1>2. Types'
  BY <1>0, <1>1 DEF Types, TypeOK, Request, Answer, Stream, ShutOf, Shuts, Ends, Request
<1>3. Phases'
  BY <1>0, <1>1 DEF Phases, Blank, Fresh, ShutOf, Shuts, Ends, Request
<1>4. Closings'
  <2>1. loop'.at = "final" /\ conn' = "ended"
    BY <1>1 DEF Ends
  <2>2. ASSUME NEW p \in Opens
        PROVE  /\ str'[p].closer # None =>
                      str'[p].sock = "open" /\ str'[p].closed /\ str'[p].pump # "raised"
               /\ str'[p].closed /\ str'[p].sock = "open" =>
                      str'[p].closer # None \/ str'[p].pump = "raised"
               /\ str'[p].closer # "loop"
    <3>1. str'[p].closer = s[p].closer /\ str'[p].pump = s[p].pump /\ str'[p].closed = s[p].closed
      BY <1>1, EndsFacts
    <3>2. CASE req[p].pc = "connected"
      <4>1. s[p] = str[p] /\ Fresh(str[p])
        BY <1>0, <1>1, <3>2 DEF Phases, ShutOf
      <4>. QED
        BY <3>1, <4>1 DEF Fresh, None
    <3>3. CASE req[p].pc # "connected"
      <4>1. str'[p] = s[p]
        BY <1>1, <3>3, EndsFacts
      <4>. QED
        BY <1>0, <1>1, <4>1 DEF Closings, ShutOf
    <3>. QED
      BY <3>2, <3>3
  <2>. QED
    BY <2>1, <2>2 DEF Closings
<1>5. Answers'
  BY <1>0, <1>1 DEF Answers, Phases, Blank, Fresh, Answer, ShutOf, Shuts, Ends, Request
<1>6. Entries'
  <2>1. \A i \in Live' : /\ req'[table'[i]].id = i /\ str'[table'[i]].sock = "open"
                         /\ req'[table'[i]].pc \in {"open", "dead"}
    BY <1>0, <1>1 DEF Entries, Live, Ends, Request, Shuts, ShutOf
  <2>2. \A p \in todo' : \E i \in Live' : p = table'[i]
    BY <1>1
  <2>. QED
    BY <2>1, <2>2 DEF Entries
<1>7. Owners'
  <2>1. Outstanding(o)
    BY <1>0, <1>1 DEF Outstanding, Answers
  <2>2. \A p \in Opens : Outstanding(p)' => Outstanding(p)
    BY <1>0, <1>1 DEF Outstanding, Shuts, Ends, Request, Answers, Phases, Blank
  <2>3. \A p \in Opens : Outstanding(p) => req[p].id \in Ids
    BY <1>0 DEF Outstanding, Phases
  <2>4. \A p \in Opens : /\ req'[p].id = req[p].id
                         /\ str'[p].sock = "open" /\ req'[p].pc # "connected" =>
                                str[p].sock = "open" /\ req[p].pc # "connected" /\ p # o
    BY <1>1 DEF Ends, ShutOf, Request
  <2>5. clash' = clash
    BY <1>1 DEF Shuts
  <2>. QED
    BY <1>0, <1>1, <2>1, <2>2, <2>3, <2>4, <2>5 DEF Owners
<1>8. Endings'
  <2>1. ASSUME NEW p \in Opens, str'[p].sock = "open"
        PROVE  \/ p \in todo'
               \/ LateResult /\ ~str'[p].closed
               \/ req'[p].id \in clash'
    <3>1. p # o /\ str[p].sock = "open" /\ str'[p] = str[p]
      BY <1>1, <2>1 DEF Ends, ShutOf, Request
    <3>2. Outstanding(p) /\ Outstanding(o)
      BY <1>0, <1>1, <3>1 DEF Outstanding, Answers, Phases, Blank
    <3>3. CASE req[p].pc = "connected"
      BY <1>0, <1>1, <2>1, <3>1, <3>3 DEF Ends, Phases, Fresh
    <3>4. CASE req[p].pc # "connected"
      <4>1. req[p].id \in Ids
        BY <1>0, <3>2 DEF Phases, Outstanding
      <4>2. \/ req[p].id \in clash
            \/ table[req[p].id] = p /\ req[p].id # req[o].id
        BY <1>0, <3>1, <3>2, <3>4 DEF Owners
      <4>. QED
        BY <1>1, <4>1, <4>2 DEF Live, Ends, Shuts
    <3>. QED
      BY <3>3, <3>4
  <2>2. \A p \in Opens : req'[p].pc \notin {"spawned", "connecting"}
    BY <1>1 DEF Ends, Request
  <2>3. loop'.at = "final"
    BY <1>1 DEF Ends
  <2>. QED
    BY <1>1, <2>1, <2>2, <2>3 DEF Endings, Ends
<1>9. Room'
  <2>1. Live' \subseteq Live
    BY <1>0, <1>1 DEF Live, ShutOf, Shuts
  <2>2. Opening' \subseteq Opening
    BY <1>0, <1>1 DEF Opening, Ends, Request
  <2>3. \A q \in Opens : req'[q].pc \in {"connecting", "connected"} =>
                           req[q].pc \in {"connecting", "connected"}
    BY <1>0, <1>1 DEF Shuts, Ends, Request
  <2>. QED
    BY <1>0, <1>1, <2>1, <2>2, <2>3, RoomKept DEF Shuts, Ends, Request
<1>10. Wakeups'
  BY <1>0, <1>1 DEF Wakeups, ShutOf, Shuts, Ends, Request
<1>. QED
  BY <1>2, <1>3, <1>4, <1>5, <1>6, <1>7, <1>8, <1>9, <1>10 DEF IInv


LEMMA CloseFinishesKeeps ==
    ASSUME IInv, NEW o \in Opens, CloseFinishes(o)
    PROVE  IInv'
BY CloseFinishesEffect, ShutKeeps, ShutEndsKeeps DEF IInv

(* A round of the finally clause finds the stream o closing or closed.       *)
LEMMA FinalSkipsKeeps ==
    ASSUME IInv, NEW o \in todo, str[o].closed, loop.at = "final", todo' = todo \ {o},
           UNCHANGED <<conn, loop, req, table, str, udp, told, clash, raced>>
    PROVE  IInv'
<1>0. /\ Types /\ Phases /\ Closings /\ Answers /\ Entries /\ Owners
      /\ Endings /\ Room /\ Wakeups
      /\ todo \subseteq Opens /\ table \in [Ids -> Opens \cup {None}]
  BY DEF IInv, Types, TypeOK
<1>1. /\ str[o].closed /\ loop.at = "final" /\ todo' = todo \ {o} /\ o \in Opens
      /\ str[o].sock = "open" => str[o].closer # None \/ str[o].pump = "raised"
      /\ UNCHANGED <<conn, loop, req, table, str, udp, told, clash, raced>>
  BY <1>0 DEF Closings
<1>2. Types'
  BY <1>0, <1>1 DEF Types, TypeOK, Request, Answer, Stream
<1>3. Phases'
  BY <1>0, <1>1 DEF Phases, Blank, Fresh
<1>4. Closings'
  BY <1>0, <1>1 DEF Closings, Reading, None, Phases, Blank
<1>5. Answers'
  BY <1>0, <1>1 DEF Answers, Phases, Blank, Fresh, Answer
<1>6. Entries'
  BY <1>0, <1>1 DEF Entries, Live
<1>7. Owners'
  BY <1>0, <1>1 DEF Owners, Outstanding, Answers, Phases, Blank, Fresh
<1>8. Endings'
  BY <1>0, <1>1 DEF Endings, Closings, Reading
<1>9. Room'
  <2>1. Live' \subseteq Live
    BY <1>0, <1>1 DEF Live
  <2>2. Opening' \subseteq Opening
    BY <1>0, <1>1 DEF Opening
  <2>3. \A q \in Opens : req'[q].pc \in {"connecting", "connected"} =>
                           req[q].pc \in {"connecting", "connected"}
    BY <1>0, <1>1
  <2>. QED
    BY <1>0, <1>1, <2>1, <2>2, <2>3, RoomKept
<1>10. Wakeups'
  BY <1>0, <1>1 DEF Wakeups
<1>. QED
  BY <1>2, <1>3, <1>4, <1>5, <1>6, <1>7, <1>8, <1>9, <1>10 DEF IInv

(* It finds that the pump of o has failed, and ends.                         *)
LEMMA FinalFailsKeeps ==
    ASSUME IInv, NEW o \in todo, ~str[o].closed, Marked(o, str'), loop.at = "final",
           todo' = todo \ {o}, loop' = [at |-> "down", on |-> None],
           UNCHANGED <<conn, req, table, udp, told, clash, raced>>
    PROVE  IInv'
<1>0. /\ Types /\ Phases /\ Closings /\ Answers /\ Entries /\ Owners
      /\ Endings /\ Room /\ Wakeups
      /\ todo \subseteq Opens /\ table \in [Ids -> Opens \cup {None}]
  BY DEF IInv, Types, TypeOK
<1>1. /\ Marked(o, str') /\ loop.at = "final" /\ todo' = todo \ {o} /\ o \in Opens
      /\ loop' = [at |-> "down", on |-> None] /\ str[o].sock = "open" /\ ~str[o].closed
      /\ str'[o].pump = "raised" /\ req[o].pc = "open"
      /\ \A p \in Opens : str[p].closer # "loop"
      /\ UNCHANGED <<conn, req, table, udp, told, clash, raced>>
  BY <1>0, RecordTypes DEF Closings, Entries, Marked, Phases
<1>2. Types'
  BY <1>0, <1>1 DEF Types, TypeOK, Request, Answer, Stream, Marked
<1>3. Phases'
  BY <1>0, <1>1 DEF Phases, Blank, Fresh, Marked
<1>4. Closings'
  BY <1>0, <1>1 DEF Closings, Reading, None, Phases, Blank, Marked
<1>5. Answers'
  BY <1>0, <1>1 DEF Answers, Phases, Blank, Fresh, Answer, Marked
<1>6. Entries'
  BY <1>0, <1>1 DEF Entries, Live, Marked
<1>7. Owners'
  BY <1>0, <1>1 DEF Owners, Outstanding, Answers, Phases, Blank, Fresh, Marked
<1>8. Endings'
  BY <1>0, <1>1 DEF Endings, Closings, Reading, Marked
<1>9. Room'
  <2>1. Live' \subseteq Live
    BY <1>0, <1>1 DEF Live
  <2>2. Opening' \subseteq Opening
    BY <1>0, <1>1 DEF Opening
  <2>3. \A q \in Opens : req'[q].pc \in {"connecting", "connected"} =>
                           req[q].pc \in {"connecting", "connected"}
    BY <1>0, <1>1
  <2>. QED
    BY <1>0, <1>1, <2>1, <2>2, <2>3, RoomKept
<1>10. Wakeups'
  BY <1>0, <1>1 DEF Wakeups, Marked
<1>. QED
  BY <1>2, <1>3, <1>4, <1>5, <1>6, <1>7, <1>8, <1>9, <1>10 DEF IInv


LEMMA FinalClosesKeeps ==
    ASSUME IInv, NEW o \in Opens, FinalCloses(o)
    PROVE  IInv'
<1>1. Types /\ Entries
  BY DEF IInv
<1>2. ~str[o].closed => str[o].sock = "open" /\ req[o].pc \in {"open", "dead"}
  BY <1>1 DEF Entries, FinalCloses
<1>. QED
  BY <1>1, <1>2, FinalClosesEffect, FinalSkipsKeeps, FinalFailsKeeps, LoopBeginsKeeps

LEMMA StutterKeeps ==
    ASSUME IInv, UNCHANGED vars
    PROVE  IInv'
<1>0. /\ Types /\ Phases /\ Closings /\ Answers /\ Entries /\ Owners
      /\ Endings /\ Room /\ Wakeups
      /\ todo \subseteq Opens /\ table \in [Ids -> Opens \cup {None}]
  BY DEF IInv, Types, TypeOK
<1>1. UNCHANGED <<conn, loop, todo, req, table, str, udp, told, clash, raced>>
  BY DEF vars
<1>2. Types'
  BY <1>0, <1>1 DEF Types, TypeOK, Request, Answer, Stream
<1>3. Phases'
  BY <1>0, <1>1 DEF Phases, Blank, Fresh
<1>4. Closings'
  BY <1>0, <1>1 DEF Closings, Reading, None, Phases, Blank
<1>5. Answers'
  BY <1>0, <1>1 DEF Answers, Phases, Blank, Fresh, Answer
<1>6. Entries'
  BY <1>0, <1>1 DEF Entries, Live
<1>7. Owners'
  BY <1>0, <1>1 DEF Owners, Outstanding, Answers, Phases, Blank, Fresh
<1>8. Endings'
  BY <1>0, <1>1 DEF Endings, Closings, Reading
<1>9. Room'
  <2>1. Live' \subseteq Live
    BY <1>0, <1>1 DEF Live
  <2>2. Opening' \subseteq Opening
    BY <1>0, <1>1 DEF Opening
  <2>3. \A q \in Opens : req'[q].pc \in {"connecting", "connected"} =>
                           req[q].pc \in {"connecting", "connected"}
    BY <1>0, <1>1
  <2>. QED
    BY <1>0, <1>1, <2>1, <2>2, <2>3, RoomKept
<1>10. Wakeups'
  BY <1>0, <1>1 DEF Wakeups
<1>. QED
  BY <1>2, <1>3, <1>4, <1>5, <1>6, <1>7, <1>8, <1>9, <1>10 DEF IInv


-----------------------------------------------------------------------------
(* The theorems                                                            *)

LEMMA InitHolds == Init => IInv
<1>. SUFFICES ASSUME Init PROVE IInv
  OBVIOUS
<1>1. 0 \in 0..InitialCredit /\ InitialCredit \in 0..InitialCredit /\ 0 \in 0..2
  OBVIOUS
<1>2. Types
  <2>1. <<>> \in Seq(1..2) /\ Len(<<>>) = 0 /\ 0 \in Nat
    OBVIOUS
  <2>2. NewUdp \in Udp /\ NewUdp.credit = InitialCredit /\ NewUdp.unacked = 0
        /\ NewUdp.queue = <<>>
    BY <1>1, <2>1 DEF NewUdp, Udp
  <2>3. \A o \in UdpOpens : udp[o] = NewUdp
    BY DEF Init
  <2>4. udp \in [UdpOpens -> Udp]
    BY <2>2 DEF Init
  <2>5. \A o \in UdpOpens :
           /\ udp[o].credit \in 0..InitialCredit /\ udp[o].unacked \in 0..InitialCredit
           /\ Len(udp[o].queue) <= QueueSize
    BY <1>1, <2>1, <2>2, <2>3
  <2>. QED
    BY <2>4, <2>5 DEF Init, Types, TypeOK, Reading, NewStream, None
<1>3. Live = {} /\ Opening = {}
  BY DEF Init, Live, Opening
<1>4. Room
  <2>1. IsFiniteSet({}) /\ Cardinality({}) = 0
    BY FS_EmptySet
  <2>. HIDE DEF Live, Opening
  <2>. QED
    BY <1>3, <2>1 DEF Room, Init
<1>5. Wakeups
  BY DEF Init, Wakeups, NewUdp, NewStream
<1>6. Phases /\ Closings /\ Answers
  BY DEF Init, Phases, Closings, Answers, Blank, NewStream, Reading, None
<1>7. Entries /\ Owners /\ Endings
  BY <1>3 DEF Init, Entries, Owners, Endings, Outstanding, Reading
<1>. QED
  BY <1>2, <1>4, <1>5, <1>6, <1>7 DEF IInv

LEMMA NextKeeps == IInv /\ [Next]_vars => IInv'
<1>. SUFFICES ASSUME IInv, [Next]_vars PROVE IInv'
  OBVIOUS
<1>1. CASE OpenNext
  BY <1>1, SpawnOpenKeeps, CheckOpenKeeps, ConnectsKeeps, ConnectFailsKeeps, RegisterKeeps,
     OpenedKeeps DEF OpenNext
<1>2. CASE CloseNext
  BY <1>2, PumpEndsKeeps, PumpRaisesKeeps, CloseFinishesKeeps, FinalClosesKeeps,
     LoopClosesKeeps, SocketCutKeeps, LoopEndsKeeps, FinalDoneKeeps DEF CloseNext
<1>3. CASE UdpNext
  BY <1>3, UdpTakesKeeps, UdpResumesKeeps, DatagramArrivesKeeps, GrantKeeps DEF UdpNext
<1>4. CASE UNCHANGED vars
  BY <1>4, StutterKeeps
<1>. QED
  BY <1>1, <1>2, <1>3, <1>4 DEF Next

(* The table, the tasks and the streams stay in step whatever the client   *)
(* asks for and whenever the page goes away.                               *)
THEOREM RegistryInvariant == Spec => []IInv
BY InitHolds, NextKeeps, PTL DEF Spec

(* The variables keep their types; in particular the credit of a UDP       *)
(* stream stays between 0 and INITIAL_CREDIT_BYTES, and its queue within   *)
(* its size.                                                               *)
THEOREM TypesKept == Spec => []TypeOK
<1>1. IInv => TypeOK
  BY DEF IInv, Types
<1>. QED
  BY <1>1, RegistryInvariant, PTL

(* Whatever requests, closes and failures interleave: a client that has    *)
(* one request under way at a time stays within MAX_STREAMS_PER_CLIENT;    *)
(* an id that is reused only after its end was announced has one live      *)
(* stream, the one in the table; and a stream announced as open is there   *)
(* until it closes.                                                        *)
THEOREM StreamsAreOwned == Spec => []StreamsOwned
<1>1. ASSUME IInv PROVE StreamsOwned
  <2>1. Types /\ Phases /\ Closings /\ Answers /\ Entries /\ Owners /\ Room
    BY <1>1 DEF IInv
  <2>2. LimitKept
    BY <2>1 DEF LimitKept, Room
  <2>3. ASSUME NEW i \in Ids \ clash, NEW o \in Opens, req[o].id = i, str[o].sock = "open",
               req[o].pc \in {"opening", "open"}
        PROVE  table[i] = o
    <3>1. Outstanding(o)
      BY <2>1, <2>3 DEF Outstanding, Answers
    <3>. QED
      BY <2>1, <2>3, <3>1 DEF Owners
  <2>4. OneOwner
    BY <2>1, <2>3 DEF OneOwner, Entries, Live
  <2>5. ASSUME NEW o \in Opens, told[o].answer = "opened", ~told[o].ended,
               req[o].id \notin clash, ~str[o].closed
        PROVE  table[req[o].id] = o
    <3>1. req[o].pc = "open" /\ Outstanding(o)
      BY <2>1, <2>5 DEF Answers, Outstanding
    <3>2. str[o] \in Stream
      BY <2>1, RecordTypes
    <3>3. str[o].sock = "open"
      BY <2>1, <2>5, <3>1, <3>2 DEF Phases, Stream
    <3>. QED
      BY <2>1, <2>5, <3>1, <3>3 DEF Owners
  <2>6. OpenedIsServed
    BY <2>5 DEF OpenedIsServed
  <2>. QED
    BY <2>2, <2>4, <2>6 DEF StreamsOwned
<1>. QED
  BY <1>1, RegistryInvariant, PTL

(* When run() has returned no opening task goes on, and a connection to a  *)
(* target is left open only in the cases EndClosesStreams names.           *)
THEOREM EndLeavesNoStream == Spec => []EndClosesStreams
<1>1. ASSUME IInv PROVE EndClosesStreams
  <2>. SUFFICES ASSUME loop.at = "down", NEW o \in Opens
                PROVE  /\ req[o].pc \notin {"spawned", "connecting"}
                       /\ str[o].sock = "open" =>
                            \/ str[o].closer = "pump"
                            \/ LateResult /\ ~str[o].closed
                            \/ req[o].id \in clash
                            \/ \E p \in Opens : str[p].pump = "raised"
    BY DEF EndClosesStreams
  <2>1. Types /\ Closings /\ Endings
    BY <1>1 DEF IInv
  <2>2. str[o].closer \in {None, "loop", "pump"} /\ str[o].closer # "loop"
    BY <2>1, RecordTypes DEF Closings, Stream
  <2>3. conn = "ended"
    BY <2>1 DEF Closings
  <2>. QED
    BY <2>1, <2>2, <2>3 DEF Endings
<1>. QED
  BY <1>1, RegistryInvariant, PTL

(* However many datagrams of whatever size wait, the credit of a UDP       *)
(* stream and what the client has not returned are INITIAL_CREDIT_BYTES,   *)
(* and no datagram waits for credit that is there without having been      *)
(* notified.                                                               *)
THEOREM UdpCreditIsCounted == Spec => []UdpCreditCounts
<1>1. IInv => UdpCreditCounts
  BY DEF IInv, Wakeups, UdpCreditCounts, UdpNoLostWakeup, UdpCreditKept
<1>. QED
  BY <1>1, RegistryInvariant, PTL

=============================================================================
