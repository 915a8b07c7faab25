------------------------ MODULE NodePairingProofs ------------------------
(***************************************************************************)
(* Proofs about NodePairing: a browser that believes it is paired is       *)
(* trusted by the Node, the Node refuses no proof that answers its own     *)
(* challenge, and every reply finds the call that waits for it, for any    *)
(* number of calls, sockets, devices, crashes and reloads.                 *)
(*                                                                         *)
(* The three hold together, through one invariant of each socket.  What is *)
(* in its two channels and in the memory of the browser and the Node is    *)
(* one handshake: at any time either its begin is on the way, or the       *)
(* challenge is, or a call signs it, or the proof is on the way, or the    *)
(* success, and nothing but refusals travels beside it.                    *)
(***************************************************************************)
EXTENDS NodePairing, TLAPS

Call == [op : {"none", "pair", "connect"},
         pc : {"idle", "keying", "opening", "challenge", "signing", "proof", "saving"},
         dev : Devices, code : Codes, of : Sockets \cup {0}]
Connection == [live : BOOLEAN, pair : Devices, auth : Devices, who : Devices]

Begun == {"pairBegin", "authBegin"}
Proofs == {"pairProof", "authProof"}
Success == {"pairSucceeded", "authSucceeded"}

(* The browser signs the challenge of socket s in call k.                  *)
Signs(k, s) == k.pc = "signing" /\ k.of = s

(* The device whose proof a connection waits for, in pairing or not.       *)
Pending(x, op) == IF op = "pair" THEN x.pair ELSE x.auth

(* m is the request that call k waits on.                                  *)
Asks(m, k) ==
    /\ m.kind \in Begun \cup Proofs
    /\ m.dev = k.dev
    /\ m.kind \in {"pairBegin", "pairProof"} => k.op = "pair"
    /\ m.kind \in {"authBegin", "authProof"} => k.op # "pair"
    /\ m.kind \in Begun => k.pc = "challenge"
    /\ m.kind \in Proofs => k.pc = "proof"

(* m is the reply that call k waits for, from connection x of a Node whose *)
(* trust file is "file".                                                   *)
Answers(m, k, x, file) ==
    /\ m.kind \in {"challenge", "error"} \cup Success
    /\ m.kind = "challenge" => k.pc = "challenge" /\ (x.live => Pending(x, k.op) = k.dev)
    /\ m.kind \in Success => k.pc = "proof" /\ (x.live => x.who = k.dev)
    /\ m.kind = "pairSucceeded" => k.dev \in file
    /\ m.kind = "error" => k.pc \in {"challenge", "proof"}

Asked(u, calls) == \A i \in 1..Len(u) : Asks(u[i], calls[u[i].call])

Answered(d, calls, x, file) ==
    \A i \in 1..Len(d) : Answers(d[i], calls[d[i].call], x, file)

(* No two messages under way on an open socket are of the same call.       *)
Apart(u, d) ==
    /\ \A i, j \in 1..Len(u) : u[i].call = u[j].call => i = j
    /\ \A i, j \in 1..Len(d) : d[i].call = d[j].call => i = j
    /\ \A i \in 1..Len(u), j \in 1..Len(d) : u[i].call # d[j].call

(* Where the handshake of socket s is: on the way up, down or in a call.   *)
OnTheWayUp(s, u) == {i \in 1..Len(u) : u[i].kind \in Begun \/ u[i].of = s}
OnTheWayDown(d) == {i \in 1..Len(d) : d[i].kind \in {"challenge"} \cup Success}
Signing(s, calls) == {c \in Calls : Signs(calls[c], s)}

Single(S) == \A x, y \in S : x = y

OneHandshake(s, u, d, calls) ==
    /\ Single(OnTheWayUp(s, u)) /\ Single(OnTheWayDown(d)) /\ Single(Signing(s, calls))
    /\ OnTheWayUp(s, u) = {} \/ OnTheWayDown(d) = {}
    /\ OnTheWayUp(s, u) = {} \/ Signing(s, calls) = {}
    /\ Signing(s, calls) = {} \/ OnTheWayDown(d) = {}

(* The connection x of socket s still waits for what is signed for it.     *)
StillPending(s, u, calls, x) ==
    /\ \A c \in Signing(s, calls) : Pending(x, calls[c].op) = calls[c].dev
    /\ \A i \in 1..Len(u) : u[i].of = s =>
          /\ u[i].kind = "pairProof" => x.pair = u[i].dev
          /\ u[i].kind = "authProof" => x.auth = u[i].dev

(* Socket s in state w, with messages u and d under way and connection x.  *)
Line(s, w, u, d, calls, x, file) ==
    /\ w # "open" => d = <<>>
    /\ w = "open" => Asked(u, calls) /\ Apart(u, d)
    /\ Answered(d, calls, x, file)
    /\ x.live => OneHandshake(s, u, d, calls) /\ StillPending(s, u, calls, x)

Lines == \A s \in Sockets :
    Line(s, ws[s], up[s], down[s], call, conn[s], trustFile)

(* Only the socket of the NodeClient is not closed, and a new one has no   *)
(* challenge that anybody signs.                                           *)
Current == \A s \in Sockets :
    /\ ws[s] # "closed" => s = sock
    /\ ws[s] = "connecting" => Signing(s, call) = {}

(* Who is paired, or is about to save that it is, is in the trust file.    *)
Trusted ==
    /\ trustFile \subseteq trust
    /\ stored.paired => stored.device \in trustFile
    /\ identity.paired => identity.device \in trustFile
    /\ \A c \in Calls : call[c].pc = "saving" => call[c].dev \in trustFile

Types == TypeOK /\ (~nodeUp => epoch <= MaxCrashes)

IInv == Types /\ Current /\ Lines /\ Trusted

-----------------------------------------------------------------------------
(* Sequences and records                                                   *)

LEMMA HeadTail ==
    ASSUME NEW S, NEW q \in Seq(S), q # <<>>
    PROVE  /\ Head(q) \in S
           /\ Head(q) = q[1]
           /\ Tail(q) \in Seq(S)
           /\ Len(Tail(q)) = Len(q) - 1
           /\ Len(q) \in Nat \ {0}
           /\ \A i \in 1..Len(Tail(q)) : Tail(q)[i] = q[i + 1]
OBVIOUS

LEMMA Appended ==
    ASSUME NEW S, NEW q \in Seq(S), NEW m \in S
    PROVE  /\ Append(q, m) \in Seq(S)
           /\ Len(Append(q, m)) = Len(q) + 1
           /\ Len(q) \in Nat
           /\ \A i \in 1..Len(q) : Append(q, m)[i] = q[i]
           /\ Append(q, m)[Len(q) + 1] = m
OBVIOUS

LEMMA CallsOf ==
    ASSUME NEW q \in Seq(Message), NEW i \in 1..Len(q)
    PROVE  q[i] \in Message /\ q[i].call \in Calls
<1>1. q[i] \in Message
  OBVIOUS
<1>. QED
  BY <1>1 DEF Message

LEMMA EmptySeq == /\ <<>> \in Seq(Message)
                  /\ Len(<<>>) = 0
                  /\ 1..Len(<<>>) = {}
OBVIOUS

-----------------------------------------------------------------------------
(* One socket                                                              *)

(* The browser lets go of the socket: what it signs it goes on signing.    *)
LEMMA LineLeft ==
    ASSUME NEW s \in Sockets, NEW w, NEW u \in Seq(Message), NEW d \in Seq(Message),
           NEW calls \in [Calls -> Call], NEW x \in Connection, NEW file,
           Line(s, w, u, d, calls, x, file),
           NEW after \in [Calls -> Call],
           \A c \in Calls : Signs(after[c], s) => after[c] = calls[c],
           NEW z, z # "open"
    PROVE  Line(s, z, u, <<>>, after, x, file)
<1>1. Answered(<<>>, after, x, file) /\ OnTheWayDown(<<>>) = {}
  BY EmptySeq DEF Answered, OnTheWayDown
<1>2. Signing(s, after) \subseteq Signing(s, calls)
  BY DEF Signing
<1>3. x.live => OneHandshake(s, u, <<>>, after)
  <2>. SUFFICES ASSUME x.live PROVE OneHandshake(s, u, <<>>, after)
    OBVIOUS
  <2>1. OneHandshake(s, u, d, calls)
    BY DEF Line
  <2>. QED
    BY <1>1, <1>2, <2>1 DEF OneHandshake, Single
<1>4. x.live => StillPending(s, u, after, x)
  BY <1>2 DEF Line, StillPending, Signing
<1>. QED
  BY <1>1, <1>3, <1>4 DEF Line

LEMMA LineIgnored ==
    ASSUME NEW s \in Sockets, NEW w, w # "open", NEW u \in Seq(Message),
           NEW d \in Seq(Message),
           NEW calls \in [Calls -> Call], NEW x \in Connection, NEW file,
           Line(s, w, u, d, calls, x, file),
           NEW after \in [Calls -> Call],
           \A c \in Calls : Signs(after[c], s) => after[c] = calls[c]
    PROVE  Line(s, w, u, d, after, x, file)
<1>1. Line(s, w, u, <<>>, after, x, file)
  BY LineLeft
<1>2. d = <<>>
  BY DEF Line
<1>. QED
  BY <1>1, <1>2

(* The Node's trust file grows.                                            *)
LEMMA LineTrusted ==
    ASSUME NEW s \in Sockets, NEW w, NEW u \in Seq(Message), NEW d \in Seq(Message),
           NEW calls \in [Calls -> Call], NEW x \in Connection, NEW file,
           Line(s, w, u, d, calls, x, file), NEW more, file \subseteq more
    PROVE  Line(s, w, u, d, calls, x, more)
<1>1. Answered(d, calls, x, more)
  BY DEF Line, Answered, Answers
<1>. QED
  BY <1>1 DEF Line

(* The Node drops the connection.                                          *)
LEMMA LineDropped ==
    ASSUME NEW s \in Sockets, NEW w, NEW u \in Seq(Message), NEW d \in Seq(Message),
           NEW calls \in [Calls -> Call], NEW x \in Connection, NEW file,
           Line(s, w, u, d, calls, x, file), NEW y, ~y.live
    PROVE  /\ Line(s, w, u, d, calls, y, file)
           /\ Line(s, w, <<>>, d, calls, y, file)
<1>1. Answered(d, calls, y, file)
  BY DEF Line, Answered, Answers
<1>2. w = "open" => Asked(<<>>, calls) /\ Apart(<<>>, d)
  BY EmptySeq DEF Asked, Apart, Line
<1>. QED
  BY <1>1, <1>2 DEF Line

(* The Node takes the first message m and answers it with r, which reaches *)
(* the browser if the socket is open; x becomes y.                         *)
Replies(m, r, x, y, s, more) ==
    /\ r.call = m.call
    /\ r.kind \in {"challenge", "error"} \cup Success
    /\ y.live => x.live
    /\ r.kind = "error" => \/ y = x \/ ~y.live
    /\ r.kind # "error" => m.kind \in Begun \/ m.of = s
    /\ r.kind = "challenge" =>
           /\ m.kind = "pairBegin" => y.pair = m.dev
           /\ m.kind = "authBegin" => y.auth = m.dev
           /\ m.kind \in Begun
    /\ r.kind \in Success => m.kind \in Proofs /\ y.who = m.dev
    /\ r.kind = "pairSucceeded" => m.dev \in more

LEMMA LineHandled ==
    ASSUME NEW s \in Sockets, NEW w, NEW u \in Seq(Message), NEW d \in Seq(Message),
           NEW calls \in [Calls -> Call], NEW x \in Connection, NEW file,
           Line(s, w, u, d, calls, x, file), x.live, u # <<>>,
           NEW r \in Message, NEW y \in Connection, NEW more, file \subseteq more,
           Replies(Head(u), r, x, y, s, more)
    PROVE  Line(s, w, Tail(u), IF w = "open" THEN Append(d, r) ELSE d, calls, y, more)
<1>. DEFINE v == Tail(u)
            e == IF w = "open" THEN Append(d, r) ELSE d
            m == Head(u)
            handshake == m.kind \in Begun \/ m.of = s
<1>1. /\ m \in Message /\ m = u[1] /\ v \in Seq(Message)
      /\ Len(v) = Len(u) - 1 /\ Len(u) \in Nat \ {0}
      /\ \A i \in 1..Len(v) : v[i] = u[i + 1] /\ i + 1 \in 1..Len(u)
      /\ 1 \in 1..Len(u)
  <2>1. v \in Seq(Message) /\ m \in Message /\ m = u[1] /\ Len(v) = Len(u) - 1
        /\ Len(u) \in Nat \ {0}
    BY HeadTail
  <2>2. \A i \in 1..Len(v) : v[i] = u[i + 1]
    BY HeadTail
  <2>. HIDE DEF v
  <2>. QED
    BY <2>1, <2>2
<1>2. /\ w # "open" => e = <<>> /\ d = <<>> /\ Len(e) = 0
      /\ w = "open" =>
            /\ Len(e) = Len(d) + 1 /\ Len(d) \in Nat /\ e[Len(d) + 1] = r
            /\ \A i \in 1..Len(d) : e[i] = d[i]
  BY Appended, EmptySeq DEF Line
<1>. HIDE DEF v, e
<1>13. w = "open" => \A i \in 1..Len(e) :
          \/ i \in 1..Len(d) /\ e[i] = d[i]
          \/ i = Len(d) + 1 /\ e[i] = r
  <2>. SUFFICES ASSUME w = "open", NEW i \in 1..Len(e)
                PROVE  \/ i \in 1..Len(d) /\ e[i] = d[i]
                       \/ i = Len(d) + 1 /\ e[i] = r
    OBVIOUS
  <2>1. CASE i <= Len(d)
    BY <1>2, <2>1
  <2>2. CASE ~(i <= Len(d))
    BY <1>2, <2>2
  <2>. QED
    BY <2>1, <2>2
<1>3. m \in Message /\ m.call \in Calls /\ r.call \in Calls /\ calls[m.call] \in Call
  BY <1>1 DEF Message
<1>. HIDE DEF m
<1>4. w = "open" => Asks(m, calls[m.call])
  BY <1>1 DEF Line, Asked
<1>5. handshake => /\ 1 \in OnTheWayUp(s, u)
                   /\ OnTheWayUp(s, v) = {}
                   /\ OnTheWayDown(d) = {}
                   /\ Signing(s, calls) = {}
  <2>. SUFFICES ASSUME handshake
                PROVE  /\ 1 \in OnTheWayUp(s, u)
                       /\ OnTheWayUp(s, v) = {}
                       /\ OnTheWayDown(d) = {}
                       /\ Signing(s, calls) = {}
    OBVIOUS
  <2>1. 1 \in OnTheWayUp(s, u)
    BY <1>1 DEF OnTheWayUp
  <2>2. \A i \in OnTheWayUp(s, v) : i + 1 \in OnTheWayUp(s, u) /\ i \in Nat \ {0}
    BY <1>1 DEF OnTheWayUp
  <2>3. OneHandshake(s, u, d, calls)
    BY DEF Line
  <2>. QED
    BY <2>1, <2>2, <2>3 DEF OneHandshake, Single
<1>6. \A i \in OnTheWayUp(s, v) : i + 1 \in OnTheWayUp(s, u) /\ i \in Nat
  BY <1>1 DEF OnTheWayUp
<1>7. w = "open" => Asked(v, calls) /\ Apart(v, e)
  <2>. SUFFICES ASSUME w = "open" PROVE Asked(v, calls) /\ Apart(v, e)
    OBVIOUS
  <2>1. Asked(v, calls)
    BY <1>1 DEF Line, Asked
  <2>2. Apart(u, d)
    BY DEF Line
  <2>3. \A i, j \in 1..Len(v) : v[i].call = v[j].call => i = j
    BY <1>1, <2>2 DEF Apart
  <2>4. r.call = u[1].call
    BY <1>1 DEF Replies
  <2>5. \A i \in 1..Len(e) : (i \in 1..Len(d) /\ e[i] = d[i]) \/ (i = Len(d) + 1 /\ e[i] = r)
    BY <1>13
  <2>6. \A i, j \in 1..Len(e) : e[i].call = e[j].call => i = j
    BY SMTT(30), <1>1, <2>2, <2>4, <2>5 DEF Apart
  <2>7. \A i \in 1..Len(v) : v[i].call # u[1].call
    BY <1>1, <2>2 DEF Apart
  <2>8. \A i \in 1..Len(v), j \in 1..Len(e) : v[i].call # e[j].call
    BY <1>1, <2>2, <2>4, <2>5, <2>7 DEF Apart
  <2>. QED
    BY <2>1, <2>3, <2>6, <2>8 DEF Apart
<1>8. \A i \in 1..Len(d) : Answers(d[i], calls[d[i].call], y, more)
  <2>. SUFFICES ASSUME NEW i \in 1..Len(d)
                PROVE  Answers(d[i], calls[d[i].call], y, more)
    OBVIOUS
  <2>1. Answers(d[i], calls[d[i].call], x, file)
    BY DEF Line, Answered
  <2>2. CASE y = x \/ ~y.live
    BY <2>1, <2>2 DEF Answers
  <2>3. CASE y # x /\ y.live
    <3>1. handshake
      BY <2>3 DEF Replies, m, Success
    <3>2. d[i].kind \notin {"challenge"} \cup Success
      BY <3>1, <1>5 DEF OnTheWayDown
    <3>. QED
      BY <2>1, <3>2 DEF Answers, Success
  <2>. QED
    BY <2>2, <2>3
<1>9. w = "open" => Answers(r, calls[r.call], y, more)
  <2>. SUFFICES ASSUME w = "open" PROVE Answers(r, calls[r.call], y, more)
    OBVIOUS
  <2>1. r.call = m.call /\ Asks(m, calls[m.call])
    BY <1>4 DEF Replies, m
  <2>2. Replies(m, r, x, y, s, more)
    BY DEF m
  <2>. QED
    BY <2>1, <2>2 DEF Replies, Answers, Asks, Pending, Success, Begun, Proofs
<1>10. Answered(e, calls, y, more)
  <2>1. w = "open" => \A i \in 1..Len(e) :
            (i \in 1..Len(d) /\ e[i] = d[i]) \/ (i = Len(d) + 1 /\ e[i] = r)
    BY <1>13
  <2>. QED
    BY <1>2, <1>8, <1>9, <2>1 DEF Answered
<1>11. y.live => OneHandshake(s, v, e, calls)
  <2>. SUFFICES ASSUME y.live PROVE OneHandshake(s, v, e, calls)
    OBVIOUS
  <2>1. OneHandshake(s, u, d, calls)
    BY DEF Line
  <2>2. \A i \in OnTheWayDown(e) :
            i \in OnTheWayDown(d) \/ (i = Len(d) + 1 /\ r.kind # "error")
    BY <1>2 DEF OnTheWayDown, Success
  <2>3. CASE handshake
    BY <2>2, <2>3, <1>5, <2>1 DEF OneHandshake, Single
  <2>4. CASE ~handshake
    <3>1. r.kind = "error"
      BY <2>4 DEF Replies, m, Success
    <3>2. OnTheWayDown(e) \subseteq OnTheWayDown(d)
      BY <2>2, <3>1
    <3>3. Single(OnTheWayUp(s, v))
      BY <1>6, <2>1 DEF OneHandshake, Single
    <3>. QED
      BY <3>2, <3>3, <1>6, <2>1 DEF OneHandshake, Single
  <2>. QED
    BY <2>3, <2>4
<1>12. y.live => StillPending(s, v, calls, y)
  <2>. SUFFICES ASSUME y.live PROVE StillPending(s, v, calls, y)
    OBVIOUS
  <2>1. StillPending(s, u, calls, x)
    BY DEF Line
  <2>2. CASE handshake
    BY <2>2, <1>5 DEF StillPending, OnTheWayUp
  <2>3. CASE ~handshake
    <3>1. y = x
      BY <2>3 DEF Replies, m, Success
    <3>2. Signing(s, calls) = Signing(s, calls)
           /\ \A i \in 1..Len(v) : v[i] = u[i + 1] /\ i + 1 \in 1..Len(u)
      BY <1>1
    <3>. QED
      BY <3>1, <3>2, <2>1, SMTT(30) DEF StillPending
  <2>. QED
    BY <2>2, <2>3
<1>. QED
  BY <1>2, <1>7, <1>10, <1>11, <1>12 DEF Line, v, e

(* The browser takes the first message of its socket; the call that it is  *)
(* for signs now if it is a challenge.                                     *)
LEMMA LineReceived ==
    ASSUME NEW s \in Sockets, NEW u \in Seq(Message), NEW d \in Seq(Message),
           NEW calls \in [Calls -> Call], NEW x \in Connection, NEW file,
           Line(s, "open", u, d, calls, x, file), d # <<>>,
           NEW after \in [Calls -> Call],
           \A c \in Calls \ {Head(d).call} : after[c] = calls[c],
           Signs(after[Head(d).call], s) =>
               /\ Head(d).kind = "challenge"
               /\ after[Head(d).call].op = calls[Head(d).call].op
               /\ after[Head(d).call].dev = calls[Head(d).call].dev
    PROVE  Line(s, "open", u, Tail(d), after, x, file)
<1>. DEFINE e == Tail(d)
            c == Head(d).call
<1>1. /\ Head(d) \in Message /\ Head(d) = d[1] /\ e \in Seq(Message)
      /\ Len(e) = Len(d) - 1 /\ Len(d) \in Nat \ {0} /\ 1 \in 1..Len(d)
  BY HeadTail
<1>2. \A i \in 1..Len(e) : e[i] = d[i + 1] /\ i + 1 \in 1..Len(d) /\ i + 1 # 1
  BY HeadTail
<1>3. c \in Calls
  BY <1>1 DEF Message
<1>4. Asked(u, calls) /\ Apart(u, d) /\ Answered(d, calls, x, file)
  BY DEF Line
<1>. HIDE DEF e
<1>5. /\ \A i \in 1..Len(u) : u[i].call \in Calls \ {c}
      /\ \A i \in 1..Len(e) : e[i].call \in Calls \ {c}
  <2>1. \A i \in 1..Len(u) : u[i].call \in Calls
    BY CallsOf
  <2>2. \A i \in 1..Len(e) : e[i].call \in Calls
    BY <1>1, CallsOf
  <2>. QED
    BY <1>1, <1>2, <1>4, <2>1, <2>2 DEF Apart
<1>6. \A b \in Calls \ {c} : after[b] = calls[b]
  OBVIOUS
<1>. HIDE DEF c
<1>7. Asked(u, after)
  BY <1>4, <1>5, <1>6 DEF Asked
<1>8. Apart(u, e)
  <2>1. \A i, j \in 1..Len(e) : e[i].call = e[j].call => i = j
    <3>. SUFFICES ASSUME NEW i \in 1..Len(e), NEW j \in 1..Len(e), e[i].call = e[j].call
                  PROVE  i = j
      OBVIOUS
    <3>1. e[i] = d[i + 1] /\ e[j] = d[j + 1] /\ i + 1 \in 1..Len(d) /\ j + 1 \in 1..Len(d)
      BY <1>2
    <3>2. i + 1 = j + 1
      BY <3>1, <1>4 DEF Apart
    <3>. QED
      BY <3>2
  <2>2. \A i \in 1..Len(u), j \in 1..Len(e) : u[i].call # e[j].call
    BY <1>4, <1>2 DEF Apart
  <2>. QED
    BY <2>1, <2>2, <1>4 DEF Apart
<1>9. Answered(e, after, x, file)
  BY <1>4, <1>5, <1>6, <1>2 DEF Answered
<1>10. Signing(s, after) \subseteq Signing(s, calls) \cup {c}
  BY <1>6 DEF Signing
<1>11. c \in Signing(s, after) => 1 \in OnTheWayDown(d) /\ Head(d).kind = "challenge"
  BY <1>1 DEF Signing, OnTheWayDown, c
<1>12. \A i \in OnTheWayDown(e) : i + 1 \in OnTheWayDown(d) /\ i \in Nat \ {0}
  BY <1>1, <1>2 DEF OnTheWayDown
<1>13. x.live => OneHandshake(s, u, e, after)
  <2>. SUFFICES ASSUME x.live PROVE OneHandshake(s, u, e, after)
    OBVIOUS
  <2>1. OneHandshake(s, u, d, calls)
    BY DEF Line
  <2>2. Single(OnTheWayDown(e))
    BY <1>12, <2>1 DEF OneHandshake, Single
  <2>3. CASE c \in Signing(s, after)
    <3>1. OnTheWayDown(e) = {} /\ Signing(s, calls) = {} /\ OnTheWayUp(s, u) = {}
      BY <2>1, <2>3, <1>11, <1>12 DEF OneHandshake, Single
    <3>. QED
      BY <3>1, <1>10 DEF OneHandshake, Single
  <2>4. CASE c \notin Signing(s, after)
    <3>1. Signing(s, after) \subseteq Signing(s, calls)
      BY <2>4, <1>10
    <3>. QED
      BY <2>1, <2>2, <3>1, <1>12 DEF OneHandshake, Single
  <2>. QED
    BY <2>3, <2>4
<1>14. x.live => StillPending(s, u, after, x)
  <2>. SUFFICES ASSUME x.live PROVE StillPending(s, u, after, x)
    OBVIOUS
  <2>1. StillPending(s, u, calls, x)
    BY DEF Line
  <2>2. \A b \in Signing(s, after) : Pending(x, after[b].op) = after[b].dev
    <3>. SUFFICES ASSUME NEW b \in Signing(s, after)
                  PROVE  Pending(x, after[b].op) = after[b].dev
      OBVIOUS
    <3>1. CASE b = c
      <4>1. after[c].op = calls[c].op /\ after[c].dev = calls[c].dev
        BY <3>1 DEF c, Signing
      <4>2. Answers(d[1], calls[c], x, file) /\ d[1].kind = "challenge"
        BY <1>1, <1>4, <1>11, <3>1 DEF Answered, c
      <4>. QED
        BY <3>1, <4>1, <4>2 DEF Answers, Success
    <3>2. CASE b # c
      <4>1. b \in Signing(s, calls) /\ after[b] = calls[b]
        BY <3>2, <1>6 DEF Signing
      <4>. QED
        BY <4>1, <2>1 DEF StillPending
    <3>. QED
      BY <3>1, <3>2
  <2>. QED
    BY <2>1, <2>2 DEF StillPending
<1>. QED
  BY <1>7, <1>8, <1>9, <1>13, <1>14 DEF Line, e

(* Call c sends the proof it has signed, for this socket or another.       *)
LEMMA LineProven ==
    ASSUME NEW s \in Sockets, NEW u \in Seq(Message), NEW d \in Seq(Message),
           NEW calls \in [Calls -> Call], NEW x \in Connection, NEW file,
           Line(s, "open", u, d, calls, x, file),
           NEW c \in Calls, calls[c].pc = "signing",
           NEW after \in [Calls -> Call],
           \A b \in Calls \ {c} : after[b] = calls[b],
           after[c].pc = "proof", after[c].op = calls[c].op,
           after[c].dev = calls[c].dev,
           NEW m \in Message, m.call = c, m.dev = calls[c].dev, m.of = calls[c].of,
           m.kind = (IF calls[c].op = "pair" THEN "pairProof" ELSE "authProof")
    PROVE  Line(s, "open", Append(u, m), d, after, x, file)
<1>. DEFINE v == Append(u, m)
<1>1. /\ v \in Seq(Message) /\ Len(v) = Len(u) + 1 /\ Len(u) \in Nat
      /\ v[Len(u) + 1] = m /\ \A i \in 1..Len(u) : v[i] = u[i]
  BY Appended
<1>. HIDE DEF v
<1>2. \A i \in 1..Len(v) : (i \in 1..Len(u) /\ v[i] = u[i]) \/ (i = Len(u) + 1 /\ v[i] = m)
  <2>. SUFFICES ASSUME NEW i \in 1..Len(v)
                PROVE  (i \in 1..Len(u) /\ v[i] = u[i]) \/ (i = Len(u) + 1 /\ v[i] = m)
    OBVIOUS
  <2>1. CASE i <= Len(u)
    BY <1>1, <2>1
  <2>2. CASE ~(i <= Len(u))
    BY <1>1, <2>2
  <2>. QED
    BY <2>1, <2>2
<1>3. Asked(u, calls) /\ Apart(u, d) /\ Answered(d, calls, x, file)
  BY DEF Line
<1>4. /\ \A i \in 1..Len(u) : u[i].call \in Calls \ {c}
      /\ \A i \in 1..Len(d) : d[i].call \in Calls \ {c}
  <2>1. \A i \in 1..Len(u) : u[i].call \in Calls
    BY CallsOf
  <2>2. \A i \in 1..Len(d) : d[i].call \in Calls
    BY CallsOf
  <2>3. \A i \in 1..Len(u) : u[i].call # c
    BY <1>3 DEF Asked, Asks, Begun, Proofs
  <2>4. \A i \in 1..Len(d) : d[i].call # c
    BY <1>3 DEF Answered, Answers, Success
  <2>. QED
    BY <2>1, <2>2, <2>3, <2>4
<1>5. Asks(m, after[c])
  BY DEF Asks, Begun, Proofs
<1>6. Asked(v, after)
  BY <1>2, <1>3, <1>4, <1>5 DEF Asked
<1>7. Apart(v, d)
  <2>1. \A i, j \in 1..Len(v) : v[i].call = v[j].call => i = j
    BY <1>2, <1>3, <1>4 DEF Apart
  <2>2. \A i \in 1..Len(v), j \in 1..Len(d) : v[i].call # d[j].call
    BY <1>2, <1>3, <1>4 DEF Apart
  <2>. QED
    BY <2>1, <2>2, <1>3 DEF Apart
<1>8. Answered(d, after, x, file)
  BY <1>3, <1>4 DEF Answered
<1>9. Signing(s, after) = Signing(s, calls) \ {c}
  BY DEF Signing, Signs
<1>10. m.of = s => c \in Signing(s, calls)
  BY DEF Signing, Signs
<1>11. \A i \in OnTheWayUp(s, v) : i \in OnTheWayUp(s, u) \/ (i = Len(u) + 1 /\ m.of = s)
  BY <1>2 DEF OnTheWayUp, Begun
<1>12. x.live => OneHandshake(s, v, d, after)
  <2>. SUFFICES ASSUME x.live PROVE OneHandshake(s, v, d, after)
    OBVIOUS
  <2>1. OneHandshake(s, u, d, calls)
    BY DEF Line
  <2>2. CASE m.of = s
    <3>1. OnTheWayUp(s, u) = {} /\ OnTheWayDown(d) = {} /\ Signing(s, after) = {}
      BY <2>1, <2>2, <1>9, <1>10 DEF OneHandshake, Single
    <3>. QED
      BY <3>1, <1>11 DEF OneHandshake, Single
  <2>3. CASE m.of # s
    <3>1. OnTheWayUp(s, v) \subseteq OnTheWayUp(s, u)
      BY <2>3, <1>11
    <3>. QED
      BY <3>1, <2>1, <1>9 DEF OneHandshake, Single
  <2>. QED
    BY <2>2, <2>3
<1>13. x.live => StillPending(s, v, after, x)
  <2>. SUFFICES ASSUME x.live PROVE StillPending(s, v, after, x)
    OBVIOUS
  <2>1. StillPending(s, u, calls, x)
    BY DEF Line
  <2>2. \A b \in Signing(s, after) : Pending(x, after[b].op) = after[b].dev
    BY <2>1, <1>9 DEF StillPending, Signing
  <2>3. m.of = s => Pending(x, calls[c].op) = m.dev
    BY <2>1, <1>10 DEF StillPending
  <2>. QED
    BY <2>1, <2>2, <2>3, <1>2 DEF StillPending, Pending
<1>. QED
  BY <1>6, <1>7, <1>8, <1>12, <1>13 DEF Line, v

(* A socket opens: the call that waits for it begins its handshake.        *)
LEMMA LineOpened ==
    ASSUME NEW s \in Sockets, s # 0, NEW calls \in [Calls -> Call],
           Signing(s, calls) = {},
           NEW m \in Message, m.kind \in Begun, m.of = 0, Asks(m, calls[m.call]),
           NEW x \in Connection, NEW file
    PROVE  Line(s, "open", <<m>>, <<>>, calls, x, file)
<1>. DEFINE u == <<m>>
<1>1. u \in Seq(Message) /\ Len(u) = 1 /\ \A i \in 1..Len(u) : i = 1 /\ u[i] = m
  OBVIOUS
<1>. HIDE DEF u
<1>2. Asked(u, calls) /\ Apart(u, <<>>)
  BY <1>1, EmptySeq DEF Asked, Apart
<1>3. Answered(<<>>, calls, x, file) /\ OnTheWayDown(<<>>) = {}
  BY EmptySeq DEF Answered, OnTheWayDown
<1>4. Single(OnTheWayUp(s, u))
  BY <1>1 DEF Single, OnTheWayUp
<1>5. OneHandshake(s, u, <<>>, calls)
  BY <1>3, <1>4 DEF OneHandshake, Single
<1>6. StillPending(s, u, calls, x)
  BY <1>1 DEF StillPending
<1>. QED
  BY <1>2, <1>3, <1>5, <1>6 DEF Line, u

-----------------------------------------------------------------------------
(* The types of the variables, and what IInv says of one socket            *)

LEMMA Facts ==
    ASSUME IInv
    PROVE  /\ call \in [Calls -> Call]
           /\ identity \in Identity /\ stored \in Identity
           /\ sock \in Sockets \cup {0} /\ 0 \notin Sockets
           /\ paired \in BOOLEAN /\ nodeConnected \in BOOLEAN /\ timer \in BOOLEAN
           /\ devices \in Devices /\ reloads \in 0..MaxReloads /\ stopped \in BOOLEAN
           /\ ws \in [Sockets -> {"closed", "connecting", "open"}]
           /\ up \in [Sockets -> Seq(Message)] /\ down \in [Sockets -> Seq(Message)]
           /\ nodeUp \in BOOLEAN /\ conn \in [Sockets -> Connection]
           /\ trust \subseteq Devices /\ trustFile \subseteq Devices
           /\ epoch \in 1..(MaxCrashes + 1) /\ MaxCrashes \in Nat
           /\ pinAttempts \in 0..MaxPinAttempts /\ pinExpired \in BOOLEAN
           /\ MaxDevices \in Nat \ {0}
BY BoundAssumption DEF IInv, Types, TypeOK, Call, Connection

LEMMA LineOf ==
    ASSUME IInv, NEW s \in Sockets
    PROVE  /\ Line(s, ws[s], up[s], down[s], call, conn[s], trustFile)
           /\ ws[s] # "closed" => s = sock
           /\ ws[s] = "connecting" => Signing(s, call) = {}
           /\ ws[s] # "open" => down[s] = <<>>
BY DEF IInv, Lines, Current, Line

LEMMA IdleCall == Idle \in Call
<1>1. 0 \in Devices /\ 0 \in Codes
  BY BoundAssumption DEF Devices, Codes
<1>. QED
  BY <1>1 DEF Idle, Call

LEMMA WithoutSome ==
    ASSUME IInv, NEW ended
    PROVE  /\ Without(ended) \in [Calls -> Call]
           /\ \A c \in Calls : Without(ended)[c] = (IF c \in ended THEN Idle ELSE call[c])
BY Facts, IdleCall DEF Without

(* Whatever the browser does that leaves no socket open keeps the lines.   *)
LEMMA LetsGo ==
    ASSUME IInv, call' \in [Calls -> Call],
           \A c \in Calls : call'[c] = call[c] \/ call'[c].pc # "signing",
           \A s \in Sockets : ws'[s] # "open" /\ down'[s] = <<>>,
           up' = up, conn' = conn, trustFile' = trustFile
    PROVE  Lines'
<1>. SUFFICES ASSUME NEW s \in Sockets
              PROVE  Line(s, ws'[s], up'[s], down'[s], call', conn'[s], trustFile')
  BY DEF Lines
<1>1. Line(s, ws[s], up[s], down[s], call, conn[s], trustFile)
  BY LineOf
<1>2. up[s] \in Seq(Message) /\ down[s] \in Seq(Message) /\ conn[s] \in Connection
      /\ call \in [Calls -> Call]
  BY Facts
<1>3. \A c \in Calls : Signs(call'[c], s) => call'[c] = call[c]
  BY DEF Signs
<1>4. Line(s, ws'[s], up[s], <<>>, call', conn[s], trustFile)
  BY <1>1, <1>2, <1>3, LineLeft
<1>. QED
  BY <1>4

(* openSocket: the old socket is let go of, the new one is connecting.     *)
LEMMA Opening ==
    ASSUME IInv, NEW c \in Calls, NEW running \in Call, running.pc = "opening",
           NEW due \in BOOLEAN, OpenSocket(c, running, due),
           up' = up, conn' = conn, trustFile' = trustFile
    PROVE  /\ call' \in [Calls -> Call] /\ sock' \in Sockets \cup {0}
           /\ ws' \in [Sockets -> {"closed", "connecting", "open"}]
           /\ down' \in [Sockets -> Seq(Message)]
           /\ nodeConnected' \in BOOLEAN /\ timer' \in BOOLEAN
           /\ Current' /\ Lines'
           /\ \A b \in Calls : call'[b].pc = "saving" => call'[b] = call[b]
<1>1. PICK s \in Free :
        /\ sock' = s
        /\ ws' = [t \in Sockets |-> IF t = s THEN "connecting"
                                    ELSE IF t = sock THEN "closed" ELSE ws[t]]
  BY DEF OpenSocket
<1>2. /\ s \in Sockets /\ s # sock
      /\ \A b \in Calls : call[b].of # s
  BY <1>1 DEF Free
<1>3. /\ down' = [t \in Sockets |-> IF t = sock THEN <<>> ELSE down[t]]
      /\ call' = [Without(Rejected) EXCEPT ![c] = running]
      /\ nodeConnected' = FALSE
      /\ timer' = (due \/ (paired /\ \E d \in Rejected : call[d].op = "connect"))
  BY DEF OpenSocket
<1>4. /\ call' \in [Calls -> Call]
      /\ call'[c] = running
      /\ \A b \in Calls \ {c} : call'[b] = (IF b \in Rejected THEN Idle ELSE call[b])
  BY <1>3, WithoutSome
<1>5. \A b \in Calls : call'[b] = call[b] \/ call'[b].pc \in {"opening", "idle"}
  BY <1>4 DEF Idle
<1>6. /\ ws' \in [Sockets -> {"closed", "connecting", "open"}]
      /\ down' \in [Sockets -> Seq(Message)]
      /\ \A t \in Sockets : down'[t] = (IF t = sock THEN <<>> ELSE down[t])
      /\ \A t \in Sockets : ws'[t] = (IF t = s THEN "connecting"
                                      ELSE IF t = sock THEN "closed" ELSE ws[t])
  BY <1>1, <1>3, Facts, EmptySeq
<1>7. \A t \in Sockets : /\ ws'[t] # "open" /\ down'[t] = <<>>
                         /\ ws'[t] # "closed" => t = s
  BY <1>6, LineOf
<1>8. Signing(s, call') = {}
  BY <1>2, <1>5 DEF Signing, Signs
<1>9. Current'
  BY <1>1, <1>7, <1>8 DEF Current
<1>10. Lines'
  BY <1>4, <1>5, <1>7, LetsGo
<1>11. timer' \in BOOLEAN
  BY <1>3
<1>. QED
  BY <1>1, <1>2, <1>3, <1>4, <1>5, <1>6, <1>9, <1>10, <1>11

(* The socket is closed, by either end.                                    *)
LEMMA Closing ==
    ASSUME IInv, call' \in [Calls -> Call],
           \A c \in Calls : call'[c] = call[c] \/ call'[c] = Idle,
           \A s \in Sockets : ws'[s] = IF s = sock THEN "closed" ELSE ws[s],
           \A s \in Sockets : down'[s] = IF s = sock THEN <<>> ELSE down[s],
           up' = up, conn' = conn, trustFile' = trustFile
    PROVE  Current' /\ Lines'
<1>1. \A s \in Sockets : ws'[s] = "closed" /\ down'[s] = <<>>
  BY LineOf
<1>2. Lines'
  BY <1>1, LetsGo DEF Idle
<1>. QED
  BY <1>1, <1>2 DEF Current

LEMMA TrustedKept ==
    ASSUME IInv, trust' = trust, trustFile' = trustFile, stored' = stored,
           identity' = identity,
           \A b \in Calls : call'[b].pc = "saving" => call'[b] = call[b]
    PROVE  Trusted'
BY DEF Trusted, IInv

(* The sockets other than the current one do not mind what calls do, as    *)
(* long as none signs for them that did not before.                        *)
LEMMA LineElsewhere ==
    ASSUME IInv, NEW s \in Sockets, ws[s] # "open", ws' = ws, conn' = conn,
           up'[s] = up[s], down'[s] = down[s], trustFile' = trustFile,
           call' \in [Calls -> Call],
           \A b \in Calls : Signs(call'[b], s) => call'[b] = call[b]
    PROVE  Line(s, ws'[s], up'[s], down'[s], call', conn'[s], trustFile')
<1>1. Line(s, ws[s], up[s], down[s], call, conn[s], trustFile) /\ down[s] = <<>>
  BY LineOf
<1>2. up[s] \in Seq(Message) /\ down[s] \in Seq(Message) /\ conn[s] \in Connection
      /\ call \in [Calls -> Call]
  BY Facts
<1>3. Line(s, ws[s], up[s], down[s], call', conn[s], trustFile)
  BY <1>1, <1>2, LineIgnored
<1>. QED
  BY <1>3

(* A call that waits for no message does something else than sign.         *)
LEMMA StepsAside ==
    ASSUME IInv, NEW c \in Calls, call[c].pc \notin {"challenge", "proof"},
           call' \in [Calls -> Call], call'[c].pc # "signing",
           \A b \in Calls \ {c} : call'[b] = call[b],
           ws' = ws, up' = up, down' = down, conn' = conn, trustFile' = trustFile
    PROVE  /\ Lines'
           /\ \A s \in Sockets : Signing(s, call') \subseteq Signing(s, call)
<1>1. \A s \in Sockets : Signing(s, call') \subseteq Signing(s, call)
  BY DEF Signing, Signs
<1>2. ASSUME NEW s \in Sockets
      PROVE  Line(s, ws'[s], up'[s], down'[s], call', conn'[s], trustFile')
  <2>1. Line(s, ws[s], up[s], down[s], call, conn[s], trustFile)
    BY LineOf
  <2>2. \A b \in Calls : Signs(call'[b], s) => call'[b] = call[b]
    BY DEF Signs
  <2>3. up[s] \in Seq(Message) /\ down[s] \in Seq(Message)
    BY Facts
  <2>4. ws[s] = "open" => Asked(up[s], call')
    BY <2>1, <2>3, CallsOf DEF Line, Asked, Asks, Begun, Proofs
  <2>5. Answered(down[s], call', conn[s], trustFile)
    BY SMTT(30), <2>1, <2>3, CallsOf DEF Line, Answered, Answers, Success
  <2>6. conn[s].live => OneHandshake(s, up[s], down[s], call')
    BY <2>1, <1>1 DEF Line, OneHandshake, Single
  <2>7. conn[s].live => StillPending(s, up[s], call', conn[s])
    BY <2>1, <2>2 DEF Line, StillPending, Signing
  <2>. QED
    BY <2>1, <2>4, <2>5, <2>6, <2>7 DEF Line
<1>. QED
  BY <1>1, <1>2 DEF Lines

LEMMA StartPairKeeps ==
    ASSUME IInv, NEW c \in Calls, NEW code \in {0, epoch}, StartPair(c, code)
    PROVE  IInv'
<1>1. code \in Codes /\ 0 \in Devices
  BY Facts DEF Codes, Devices
<1>2. /\ identity' = identity /\ stored' = stored /\ paired' = paired
      /\ devices' = devices /\ reloads' = reloads /\ up' = up
      /\ nodeVars' = nodeVars /\ stopped' = TRUE
  BY DEF StartPair
<1>3. /\ nodeUp' = nodeUp /\ conn' = conn /\ trust' = trust /\ trustFile' = trustFile
      /\ epoch' = epoch /\ pinAttempts' = pinAttempts /\ pinExpired' = pinExpired
  BY <1>2 DEF nodeVars
<1>4. /\ call' \in [Calls -> Call] /\ sock' \in Sockets \cup {0}
      /\ ws' \in [Sockets -> {"closed", "connecting", "open"}]
      /\ down' \in [Sockets -> Seq(Message)]
      /\ nodeConnected' \in BOOLEAN /\ timer' \in BOOLEAN
      /\ Current' /\ Lines'
      /\ \A b \in Calls : call'[b].pc = "saving" => call'[b] = call[b]
  <2>1. CASE OpenSocket(c, Running("pair", "opening", identity.device, code), timer)
    <3>1. /\ Running("pair", "opening", identity.device, code) \in Call
          /\ Running("pair", "opening", identity.device, code).pc = "opening"
      BY <1>1, Facts DEF Running, Call, Identity
    <3>. QED
      BY <1>2, <1>3, <2>1, <3>1, Facts, Opening
  <2>2. CASE /\ call' = [call EXCEPT ![c] = Running("pair", "keying", 0, code)]
             /\ UNCHANGED <<sock, nodeConnected, timer, ws, down>>
    <3>1. /\ Running("pair", "keying", 0, code) \in Call
          /\ Running("pair", "keying", 0, code).pc = "keying"
      BY <1>1 DEF Running, Call
    <3>2. /\ call' \in [Calls -> Call]
          /\ call'[c].pc = "keying" /\ \A b \in Calls \ {c} : call'[b] = call[b]
      BY <2>2, <3>1, Facts
    <3>3. call[c].pc = "idle"
      BY DEF StartPair, Begins, Idle
    <3>4. \A s \in Sockets : Signing(s, call') \subseteq Signing(s, call)
      BY <1>2, <1>3, <2>2, <3>2, <3>3, StepsAside
    <3>5. Current'
      BY <2>2, <3>4 DEF Current, IInv
    <3>6. Lines'
      BY <1>2, <1>3, <2>2, <3>2, <3>3, StepsAside
    <3>. QED
      BY <2>2, <3>2, <3>5, <3>6, Facts DEF Lines
  <2>. QED
    BY <2>1, <2>2 DEF StartPair
<1>5. Types'
  BY <1>2, <1>3, <1>4, Facts DEF Types, TypeOK, Call, Connection, IInv
<1>6. Trusted'
  BY <1>2, <1>3, <1>4 DEF Trusted, IInv
<1>. QED
  BY <1>4, <1>5, <1>6 DEF IInv

LEMMA KeyReadyKeeps ==
    ASSUME IInv, NEW c \in Calls, KeyReady(c)
    PROVE  IInv'
<1>1. /\ paired' = paired /\ reloads' = reloads /\ stopped' = stopped
      /\ up' = up /\ nodeVars' = nodeVars /\ devices' = devices + 1
      /\ devices < MaxDevices
      /\ identity' = [device |-> devices + 1, paired |-> FALSE] /\ stored' = identity'
  BY DEF KeyReady
<1>2. /\ nodeUp' = nodeUp /\ conn' = conn /\ trust' = trust /\ trustFile' = trustFile
      /\ epoch' = epoch /\ pinAttempts' = pinAttempts /\ pinExpired' = pinExpired
  BY <1>1 DEF nodeVars
<1>3. devices' \in Devices /\ identity' \in Identity
  BY <1>1, Facts DEF Devices, Identity
<1>4. /\ Running("pair", "opening", devices + 1, call[c].code) \in Call
      /\ Running("pair", "opening", devices + 1, call[c].code).pc = "opening"
  BY <1>1, <1>3, Facts DEF Running, Call
<1>5. /\ call' \in [Calls -> Call] /\ sock' \in Sockets \cup {0}
      /\ ws' \in [Sockets -> {"closed", "connecting", "open"}]
      /\ down' \in [Sockets -> Seq(Message)]
      /\ nodeConnected' \in BOOLEAN /\ timer' \in BOOLEAN
      /\ Current' /\ Lines'
      /\ \A b \in Calls : call'[b].pc = "saving" => call'[b] = call[b]
  <2>1. OpenSocket(c, Running("pair", "opening", devices + 1, call[c].code), timer)
    BY DEF KeyReady
  <2>. QED
    BY <1>1, <1>2, <1>4, <2>1, Facts, Opening
<1>6. Types'
  BY <1>1, <1>2, <1>3, <1>5, Facts DEF Types, TypeOK, Call, Connection, IInv
<1>7. Trusted'
  BY <1>1, <1>2, <1>5 DEF Trusted, IInv
<1>. QED
  BY <1>5, <1>6, <1>7 DEF IInv

LEMMA TimerFiresKeeps ==
    ASSUME IInv, NEW c \in Calls, TimerFires(c)
    PROVE  IInv'
<1>1. /\ identity' = identity /\ stored' = stored /\ paired' = paired
      /\ devices' = devices /\ reloads' = reloads /\ stopped' = stopped
      /\ up' = up /\ nodeVars' = nodeVars
  BY DEF TimerFires
<1>2. /\ nodeUp' = nodeUp /\ conn' = conn /\ trust' = trust /\ trustFile' = trustFile
      /\ epoch' = epoch /\ pinAttempts' = pinAttempts /\ pinExpired' = pinExpired
  BY <1>1 DEF nodeVars
<1>3. /\ call' \in [Calls -> Call] /\ sock' \in Sockets \cup {0}
      /\ ws' \in [Sockets -> {"closed", "connecting", "open"}]
      /\ down' \in [Sockets -> Seq(Message)]
      /\ nodeConnected' \in BOOLEAN /\ timer' \in BOOLEAN
      /\ Current' /\ Lines'
      /\ \A b \in Calls : call'[b].pc = "saving" => call'[b] = call[b]
  <2>1. CASE OpenSocket(c, Running("connect", "opening", identity.device, 0), FALSE)
    <3>1. 0 \in Codes
      BY BoundAssumption DEF Codes
    <3>2. /\ Running("connect", "opening", identity.device, 0) \in Call
          /\ Running("connect", "opening", identity.device, 0).pc = "opening"
      BY <3>1, Facts DEF Running, Call, Identity
    <3>. QED
      BY <1>1, <1>2, <2>1, <3>2, Opening
  <2>2. CASE /\ nodeConnected' = FALSE /\ timer' = paired
             /\ UNCHANGED <<call, sock, ws, down>>
    BY <1>1, <1>2, <2>2, Facts DEF Lines, Current, IInv
  <2>. QED
    BY <2>1, <2>2 DEF TimerFires
<1>4. Types'
  BY <1>1, <1>2, <1>3, Facts DEF Types, TypeOK, Call, Connection, IInv
<1>5. Trusted'
  BY <1>1, <1>2, <1>3 DEF Trusted, IInv
<1>. QED
  BY <1>3, <1>4, <1>5 DEF IInv

LEMMA SocketFailsKeeps ==
    ASSUME IInv, SocketFails
    PROVE  IInv'
<1>1. /\ identity' = identity /\ stored' = stored /\ paired' = paired /\ sock' = sock
      /\ devices' = devices /\ reloads' = reloads /\ stopped' = stopped
      /\ up' = up /\ nodeVars' = nodeVars
      /\ nodeConnected' = FALSE /\ timer' = (timer \/ paired)
      /\ ws' = [ws EXCEPT ![sock] = "closed"] /\ down' = [down EXCEPT ![sock] = <<>>]
      /\ call' = Without(Rejected)
  BY DEF SocketFails
<1>2. /\ nodeUp' = nodeUp /\ conn' = conn /\ trust' = trust /\ trustFile' = trustFile
      /\ epoch' = epoch /\ pinAttempts' = pinAttempts /\ pinExpired' = pinExpired
  BY <1>1 DEF nodeVars
<1>3. /\ call' \in [Calls -> Call]
      /\ \A c \in Calls : call'[c] = call[c] \/ call'[c] = Idle
  BY <1>1, WithoutSome
<1>4. /\ ws' \in [Sockets -> {"closed", "connecting", "open"}]
      /\ down' \in [Sockets -> Seq(Message)]
      /\ \A s \in Sockets : ws'[s] = IF s = sock THEN "closed" ELSE ws[s]
      /\ \A s \in Sockets : down'[s] = IF s = sock THEN <<>> ELSE down[s]
  BY <1>1, Facts, EmptySeq
<1>5. Current' /\ Lines'
  BY <1>1, <1>2, <1>3, <1>4, Closing
<1>6. Types'
  BY <1>1, <1>2, <1>3, <1>4, Facts DEF Types, TypeOK, Call, Connection, IInv
<1>7. Trusted'
  BY <1>1, <1>2, <1>3 DEF Trusted, IInv, Idle
<1>. QED
  BY <1>5, <1>6, <1>7 DEF IInv

LEMMA DisconnectKeeps ==
    ASSUME IInv, Disconnect
    PROVE  IInv'
<1>1. /\ identity' = identity /\ stored' = stored /\ paired' = paired /\ sock' = 0
      /\ devices' = devices /\ reloads' = reloads /\ stopped' = TRUE
      /\ up' = up /\ nodeVars' = nodeVars
      /\ nodeConnected' = FALSE /\ timer' = Rescheduled(Rejected)
      /\ ws' = [s \in Sockets |-> IF s = sock THEN "closed" ELSE ws[s]]
      /\ down' = [s \in Sockets |-> IF s = sock THEN <<>> ELSE down[s]]
      /\ call' = Without(Rejected)
  BY DEF Disconnect
<1>2. /\ nodeUp' = nodeUp /\ conn' = conn /\ trust' = trust /\ trustFile' = trustFile
      /\ epoch' = epoch /\ pinAttempts' = pinAttempts /\ pinExpired' = pinExpired
  BY <1>1 DEF nodeVars
<1>3. /\ call' \in [Calls -> Call]
      /\ \A c \in Calls : call'[c] = call[c] \/ call'[c] = Idle
  BY <1>1, WithoutSome
<1>4. /\ ws' \in [Sockets -> {"closed", "connecting", "open"}]
      /\ down' \in [Sockets -> Seq(Message)]
      /\ \A s \in Sockets : ws'[s] = IF s = sock THEN "closed" ELSE ws[s]
      /\ \A s \in Sockets : down'[s] = IF s = sock THEN <<>> ELSE down[s]
      /\ timer' \in BOOLEAN
  BY <1>1, Facts, EmptySeq DEF Rescheduled
<1>5. Current' /\ Lines'
  BY <1>1, <1>2, <1>3, <1>4, Closing
<1>6. Types'
  BY <1>1, <1>2, <1>3, <1>4, Facts DEF Types, TypeOK, Call, Connection, IInv
<1>7. Trusted'
  BY <1>1, <1>2, <1>3 DEF Trusted, IInv, Idle
<1>. QED
  BY <1>5, <1>6, <1>7 DEF IInv

(* What a reload may read from IndexedDB is of a trusted device.           *)
LEMMA ReloadKeeps ==
    ASSUME IInv, NEW record \in Committable \cup {NoIdentity}, Reload(record)
    PROVE  IInv'
<1>1. /\ identity' = record /\ stored' = record /\ sock' = 0
      /\ paired' = record.paired /\ timer' = record.paired
      /\ devices' = devices /\ reloads < MaxReloads /\ reloads' = reloads + 1
      /\ stopped' = FALSE /\ nodeConnected' = FALSE
      /\ up' = up /\ nodeVars' = nodeVars
      /\ ws' = [s \in Sockets |-> IF s = sock THEN "closed" ELSE ws[s]]
      /\ down' = [s \in Sockets |-> IF s = sock THEN <<>> ELSE down[s]]
      /\ call' = [c \in Calls |-> Idle]
  BY DEF Reload
<1>2. /\ nodeUp' = nodeUp /\ conn' = conn /\ trust' = trust /\ trustFile' = trustFile
      /\ epoch' = epoch /\ pinAttempts' = pinAttempts /\ pinExpired' = pinExpired
  BY <1>1 DEF nodeVars
<1>3. record \in Identity /\ (record.paired => record.device \in trustFile)
  <2>1. CASE record = stored
    BY <2>1, Facts DEF IInv, Trusted
  <2>2. CASE record = NoIdentity
    BY <2>2, BoundAssumption DEF NoIdentity, Identity, Devices
  <2>3. CASE record \notin {stored, NoIdentity}
    <3>1. PICK c \in Calls : call[c].pc = "saving"
                             /\ record = [device |-> call[c].dev, paired |-> TRUE]
      BY <2>3 DEF Committable
    <3>2. call[c].dev \in Devices
      BY Facts DEF Call
    <3>. QED
      BY <3>1, <3>2 DEF IInv, Trusted, Identity
  <2>. QED
    BY <2>1, <2>2, <2>3
<1>4. /\ call' \in [Calls -> Call] /\ \A c \in Calls : call'[c] = Idle
  BY <1>1, IdleCall
<1>5. /\ ws' \in [Sockets -> {"closed", "connecting", "open"}]
      /\ down' \in [Sockets -> Seq(Message)]
      /\ \A s \in Sockets : ws'[s] = IF s = sock THEN "closed" ELSE ws[s]
      /\ \A s \in Sockets : down'[s] = IF s = sock THEN <<>> ELSE down[s]
  BY <1>1, Facts, EmptySeq
<1>6. Current' /\ Lines'
  BY <1>1, <1>2, <1>4, <1>5, Closing
<1>7. paired' \in BOOLEAN /\ reloads' \in 0..MaxReloads
  BY <1>1, <1>3, Facts, BoundAssumption DEF Identity
<1>8. Types'
  BY <1>1, <1>2, <1>3, <1>4, <1>5, <1>7, Facts DEF Types, TypeOK, Call, Connection, IInv
<1>9. Trusted'
  BY <1>1, <1>2, <1>3, <1>4 DEF Trusted, IInv, Idle
<1>. QED
  BY <1>6, <1>8, <1>9 DEF IInv

(* The request that a call opens its handshake with.                       *)
LEMMA SocketOpensKeeps ==
    ASSUME IInv, NEW c \in Calls, SocketOpens(c)
    PROVE  IInv'
<1>. DEFINE m == Msg(IF call[c].op = "pair" THEN "pairBegin" ELSE "authBegin",
                     c, call[c].dev, call[c].code, 0)
            x == [NoConn EXCEPT !.live = TRUE]
<1>1. /\ identity' = identity /\ stored' = stored /\ paired' = paired /\ sock' = sock
      /\ devices' = devices /\ reloads' = reloads /\ stopped' = stopped
      /\ nodeConnected' = nodeConnected /\ timer' = timer /\ down' = down
      /\ nodeUp' = nodeUp /\ trust' = trust /\ trustFile' = trustFile
      /\ epoch' = epoch /\ pinAttempts' = pinAttempts /\ pinExpired' = pinExpired
      /\ call[c].pc = "opening" /\ ws[sock] = "connecting"
      /\ ws' = [ws EXCEPT ![sock] = "open"]
      /\ conn' = [conn EXCEPT ![sock] = x]
      /\ up' = [up EXCEPT ![sock] = <<m>>]
      /\ call' = [call EXCEPT ![c].pc = "challenge", ![c].code = 0]
  BY DEF SocketOpens
<1>2. /\ m \in Message /\ m.call = c /\ m.dev = call[c].dev /\ m.of = 0
      /\ m.kind = (IF call[c].op = "pair" THEN "pairBegin" ELSE "authBegin")
  <2>1. call[c] \in Call
    BY Facts
  <2>. QED
    BY <2>1 DEF Msg, Message, Call
<1>3. x \in Connection
  <2>1. 0 \in Devices
    BY BoundAssumption DEF Devices
  <2>. QED
    BY <2>1 DEF NoConn, Connection
<1>. HIDE DEF m, x
<1>4. /\ call' \in [Calls -> Call]
      /\ call'[c].pc = "challenge" /\ call'[c].op = call[c].op
      /\ call'[c].dev = call[c].dev
      /\ \A b \in Calls \ {c} : call'[b] = call[b]
  <2>1. call[c] \in Call /\ 0 \in Codes
    BY Facts DEF Codes
  <2>2. [call[c] EXCEPT !.pc = "challenge", !.code = 0] \in Call
    BY <2>1 DEF Call
  <2>. QED
    BY <1>1, <2>1, <2>2, Facts DEF Call
<1>5. <<m>> \in Seq(Message)
  BY <1>2
<1>6. /\ ws' \in [Sockets -> {"closed", "connecting", "open"}]
      /\ conn' \in [Sockets -> Connection] /\ up' \in [Sockets -> Seq(Message)]
      /\ \A s \in Sockets \ {sock} : /\ ws'[s] = ws[s] /\ up'[s] = up[s]
                                     /\ conn'[s] = conn[s]
      /\ sock \in Sockets =>
             ws'[sock] = "open" /\ up'[sock] = <<m>> /\ conn'[sock] = x
  BY <1>1, <1>3, <1>5, Facts
<1>7. \A s \in Sockets : Signing(s, call') \subseteq Signing(s, call)
  BY <1>4 DEF Signing, Signs
<1>8. Current'
  BY <1>1, <1>6, <1>7, LineOf DEF Current
<1>9. ASSUME NEW s \in Sockets
      PROVE  Line(s, ws'[s], up'[s], down'[s], call', conn'[s], trustFile')
  <2>1. CASE s = sock
    <3>1. Signing(s, call') = {} /\ down'[s] = <<>>
      BY <1>1, <1>7, <2>1, LineOf
    <3>2. Asks(m, call'[m.call])
      BY <1>2, <1>4 DEF Asks, Begun, Proofs
    <3>3. m.kind \in Begun /\ s # 0
      BY <1>2, Facts DEF Begun
    <3>4. Line(s, "open", <<m>>, <<>>, call', x, trustFile)
      BY <3>1, <3>2, <3>3, <1>2, <1>3, <1>4, LineOpened
    <3>. QED
      BY <1>1, <1>6, <2>1, <3>1, <3>4
  <2>2. CASE s # sock
    <3>1. /\ Line(s, ws[s], up[s], down[s], call, conn[s], trustFile)
          /\ ws[s] # "open" /\ down[s] = <<>>
      BY <1>1, <2>2, LineOf
    <3>2. \A b \in Calls : Signs(call'[b], s) => call'[b] = call[b]
      BY <1>4 DEF Signs
    <3>3. up[s] \in Seq(Message) /\ down[s] \in Seq(Message) /\ conn[s] \in Connection
          /\ call \in [Calls -> Call]
      BY Facts
    <3>4. Line(s, ws[s], up[s], down[s], call', conn[s], trustFile)
      BY <1>4, <3>1, <3>2, <3>3, LineIgnored
    <3>. QED
      BY <1>1, <1>6, <2>2, <3>1, <3>4
  <2>. QED
    BY <2>1, <2>2
<1>10. Lines'
  BY <1>9 DEF Lines
<1>11. Types'
  BY <1>1, <1>4, <1>6, Facts DEF Types, TypeOK, Call, Connection, IInv
<1>12. Trusted'
  <2>1. \A b \in Calls : call'[b].pc = "saving" => call'[b] = call[b]
    BY <1>4
  <2>. QED
    BY <1>1, <2>1, TrustedKept
<1>. QED
  BY <1>8, <1>10, <1>11, <1>12 DEF IInv

(* The browser reads one reply; "reads" is what the four receipts share.   *)
LEMMA Received ==
    ASSUME IInv, NEW kind, Receives(kind),
           call' \in [Calls -> Call], ws' = ws, up' = up, conn' = conn, sock' = sock,
           trustFile' = trustFile,
           \A b \in Calls \ {Replied} : call'[b] = call[b],
           call'[Replied].pc = "signing" =>
               /\ kind = "challenge"
               /\ call'[Replied].of = sock
               /\ call'[Replied].op = call[Replied].op
               /\ call'[Replied].dev = call[Replied].dev
    PROVE  Current' /\ Lines' /\ down' \in [Sockets -> Seq(Message)]
<1>1. /\ sock \in Sockets /\ ws[sock] = "open" /\ down[sock] # <<>>
      /\ Head(down[sock]).kind = kind
      /\ down' = [down EXCEPT ![sock] = Tail(@)]
  BY Facts DEF Receives, SocketOpen
<1>2. down[sock] \in Seq(Message)
  BY <1>1, Facts
<1>3. Tail(down[sock]) \in Seq(Message)
  BY <1>1, <1>2, HeadTail
<1>4. /\ down' \in [Sockets -> Seq(Message)]
      /\ down'[sock] = Tail(down[sock])
      /\ \A s \in Sockets \ {sock} : down'[s] = down[s]
  BY <1>1, <1>3, Facts
<1>5. Replied = Head(down[sock]).call
  BY DEF Replied
<1>6. ASSUME NEW s \in Sockets
      PROVE  Line(s, ws'[s], up'[s], down'[s], call', conn'[s], trustFile')
  <2>1. Line(s, ws[s], up[s], down[s], call, conn[s], trustFile)
    BY LineOf
  <2>2. up[s] \in Seq(Message) /\ down[s] \in Seq(Message) /\ conn[s] \in Connection
        /\ call \in [Calls -> Call]
    BY Facts
  <2>3. CASE s = sock
    <3>1. Signs(call'[Replied], s) =>
              /\ Head(down[s]).kind = "challenge"
              /\ call'[Replied].op = call[Replied].op
              /\ call'[Replied].dev = call[Replied].dev
      BY <1>1, <2>3 DEF Signs
    <3>2. Line(s, "open", up[s], Tail(down[s]), call', conn[s], trustFile)
      BY SMTT(30), <1>1, <1>5, <2>1, <2>2, <2>3, <3>1, LineReceived
    <3>. QED
      BY <1>1, <1>4, <2>3, <3>2
  <2>4. CASE s # sock
    <3>1. \A b \in Calls : Signs(call'[b], s) => call'[b] = call[b]
      BY <2>4 DEF Signs
    <3>2. ws[s] # "open" /\ down'[s] = down[s] /\ up'[s] = up[s]
      BY <1>4, <2>4, LineOf
    <3>. QED
      BY <3>1, <3>2, LineElsewhere
  <2>. QED
    BY <2>3, <2>4
<1>7. Current'
  <2>. SUFFICES ASSUME NEW s \in Sockets, ws[s] = "connecting"
                PROVE  Signing(s, call') = {}
    BY LineOf DEF Current
  <2>1. FALSE
    BY <1>1, LineOf
  <2>. QED
    BY <2>1
<1>. QED
  BY <1>4, <1>6, <1>7 DEF Lines

(* The call that the first reply is for, and what it waits for.            *)
LEMMA RepliedCall ==
    ASSUME IInv, NEW kind, Receives(kind)
    PROVE  /\ Replied \in Calls /\ call[Replied] \in Call /\ sock \in Sockets
           /\ kind \in Success => call[Replied].pc = "proof"
           /\ kind = "pairSucceeded" => call[Replied].dev \in trustFile
<1>1. sock \in Sockets /\ ws[sock] = "open" /\ down[sock] # <<>>
      /\ Head(down[sock]).kind = kind
  BY Facts DEF Receives, SocketOpen
<1>2. /\ Head(down[sock]) \in Message /\ Head(down[sock]) = down[sock][1]
      /\ 1 \in 1..Len(down[sock])
  <2>1. down[sock] \in Seq(Message)
    BY <1>1, Facts
  <2>. QED
    BY <1>1, <2>1, HeadTail
<1>3. Replied \in Calls
  BY <1>2 DEF Replied, Message
<1>4. Answers(down[sock][1], call[Replied], conn[sock], trustFile)
  BY <1>1, <1>2, LineOf DEF Line, Answered, Replied
<1>. QED
  BY <1>1, <1>2, <1>3, <1>4, Facts DEF Answers

LEMMA ReceiveChallengeKeeps ==
    ASSUME IInv, ReceiveChallenge
    PROVE  IInv'
<1>1. /\ identity' = identity /\ stored' = stored /\ paired' = paired /\ sock' = sock
      /\ devices' = devices /\ reloads' = reloads /\ stopped' = stopped
      /\ nodeConnected' = nodeConnected /\ timer' = timer /\ ws' = ws /\ up' = up
      /\ nodeVars' = nodeVars /\ Receives("challenge")
      /\ call' = [call EXCEPT ![Replied].pc = "signing", ![Replied].of = sock]
  BY DEF ReceiveChallenge
<1>2. /\ nodeUp' = nodeUp /\ conn' = conn /\ trust' = trust /\ trustFile' = trustFile
      /\ epoch' = epoch /\ pinAttempts' = pinAttempts /\ pinExpired' = pinExpired
  BY <1>1 DEF nodeVars
<1>3. Replied \in Calls /\ call[Replied] \in Call /\ sock \in Sockets
  BY <1>1, RepliedCall
<1>. DEFINE k == [call[Replied] EXCEPT !.pc = "signing", !.of = sock]
<1>4. k \in Call /\ k.pc = "signing" /\ k.of = sock /\ k.op = call[Replied].op
      /\ k.dev = call[Replied].dev
  BY <1>3 DEF Call
<1>. HIDE DEF k
<1>5. /\ call' \in [Calls -> Call] /\ call'[Replied] = k
      /\ \A b \in Calls \ {Replied} : call'[b] = call[b]
  <2>1. call' = [call EXCEPT ![Replied] = k]
    BY <1>1 DEF k
  <2>. QED
    BY <2>1, <1>3, <1>4, Facts
<1>6. Current' /\ Lines' /\ down' \in [Sockets -> Seq(Message)]
  BY <1>1, <1>2, <1>4, <1>5, Received
<1>7. Types'
  BY <1>1, <1>2, <1>5, <1>6, Facts DEF Types, TypeOK, Call, Connection, IInv
<1>8. Trusted'
  <2>1. \A b \in Calls : call'[b].pc = "saving" => call'[b] = call[b]
    BY <1>4, <1>5
  <2>. QED
    BY <1>1, <1>2, <2>1, TrustedKept
<1>. QED
  BY <1>6, <1>7, <1>8 DEF IInv

LEMMA ReceivePairedKeeps ==
    ASSUME IInv, ReceivePaired
    PROVE  IInv'
<1>1. /\ identity' = identity /\ stored' = stored /\ paired' = paired /\ sock' = sock
      /\ devices' = devices /\ reloads' = reloads /\ stopped' = stopped
      /\ nodeConnected' = nodeConnected /\ timer' = timer /\ ws' = ws /\ up' = up
      /\ nodeVars' = nodeVars /\ Receives("pairSucceeded")
      /\ call' = [call EXCEPT ![Replied].pc = "saving"]
  BY DEF ReceivePaired
<1>2. /\ nodeUp' = nodeUp /\ conn' = conn /\ trust' = trust /\ trustFile' = trustFile
      /\ epoch' = epoch /\ pinAttempts' = pinAttempts /\ pinExpired' = pinExpired
  BY <1>1 DEF nodeVars
<1>3. /\ Replied \in Calls /\ call[Replied] \in Call
      /\ call[Replied].dev \in trustFile
  BY <1>1, RepliedCall
<1>. DEFINE k == [call[Replied] EXCEPT !.pc = "saving"]
<1>4. k \in Call /\ k.pc = "saving" /\ k.dev = call[Replied].dev
  BY <1>3 DEF Call
<1>. HIDE DEF k
<1>5. /\ call' \in [Calls -> Call] /\ call'[Replied] = k
      /\ \A b \in Calls \ {Replied} : call'[b] = call[b]
  <2>1. call' = [call EXCEPT ![Replied] = k]
    BY <1>1 DEF k
  <2>. QED
    BY <2>1, <1>3, <1>4, Facts
<1>6. Current' /\ Lines' /\ down' \in [Sockets -> Seq(Message)]
  BY <1>1, <1>2, <1>4, <1>5, Received
<1>7. Types'
  BY <1>1, <1>2, <1>5, <1>6, Facts DEF Types, TypeOK, Call, Connection, IInv
<1>8. Trusted'
  BY <1>1, <1>2, <1>3, <1>4, <1>5 DEF Trusted, IInv
<1>. QED
  BY <1>6, <1>7, <1>8 DEF IInv

LEMMA ReceiveAuthenticatedKeeps ==
    ASSUME IInv, ReceiveAuthenticated
    PROVE  IInv'
<1>1. /\ identity' = identity /\ stored' = stored /\ paired' = paired /\ sock' = sock
      /\ devices' = devices /\ reloads' = reloads /\ stopped' = OthersPair(Replied)
      /\ nodeConnected' = TRUE /\ timer' = timer /\ ws' = ws /\ up' = up
      /\ nodeVars' = nodeVars /\ Receives("authSucceeded")
      /\ call' = Without({Replied})
  BY DEF ReceiveAuthenticated
<1>2. /\ nodeUp' = nodeUp /\ conn' = conn /\ trust' = trust /\ trustFile' = trustFile
      /\ epoch' = epoch /\ pinAttempts' = pinAttempts /\ pinExpired' = pinExpired
  BY <1>1 DEF nodeVars
<1>3. /\ call' \in [Calls -> Call]
      /\ \A b \in Calls : call'[b] = IF b = Replied THEN Idle ELSE call[b]
  BY <1>1, WithoutSome
<1>4. Replied \in Calls
  BY <1>1, RepliedCall
<1>9. /\ call'[Replied].pc # "signing"
      /\ \A b \in Calls \ {Replied} : call'[b] = call[b]
      /\ \A b \in Calls : call'[b].pc = "saving" => call'[b] = call[b]
  BY <1>3, <1>4 DEF Idle
<1>5. Current' /\ Lines' /\ down' \in [Sockets -> Seq(Message)]
  BY <1>1, <1>2, <1>3, <1>9, Received
<1>6. stopped' \in BOOLEAN
  BY <1>1 DEF OthersPair
<1>7. Types'
  BY <1>1, <1>2, <1>3, <1>5, <1>6, Facts DEF Types, TypeOK, Call, Connection, IInv
<1>8. Trusted'
  BY <1>1, <1>2, <1>9, TrustedKept
<1>. QED
  BY <1>5, <1>7, <1>8 DEF IInv

LEMMA ReceiveErrorKeeps ==
    ASSUME IInv, ReceiveError
    PROVE  IInv'
<1>1. /\ identity' = identity /\ stored' = stored /\ paired' = paired /\ sock' = sock
      /\ devices' = devices /\ reloads' = reloads /\ stopped' = stopped
      /\ ws' = ws /\ up' = up /\ nodeVars' = nodeVars /\ Receives("error")
      /\ Throws(Replied)
  BY DEF ReceiveError
<1>2. /\ nodeUp' = nodeUp /\ conn' = conn /\ trust' = trust /\ trustFile' = trustFile
      /\ epoch' = epoch /\ pinAttempts' = pinAttempts /\ pinExpired' = pinExpired
  BY <1>1 DEF nodeVars
<1>3. /\ call' \in [Calls -> Call] /\ nodeConnected' \in BOOLEAN /\ timer' \in BOOLEAN
      /\ \A b \in Calls : call'[b] = IF b = Replied THEN Idle ELSE call[b]
  BY <1>1, WithoutSome, Facts DEF Throws, Rescheduled
<1>4. Replied \in Calls
  BY <1>1, RepliedCall
<1>5. Current' /\ Lines' /\ down' \in [Sockets -> Seq(Message)]
  BY <1>1, <1>2, <1>3, <1>4, Received DEF Idle
<1>6. Types'
  BY <1>1, <1>2, <1>3, <1>5, Facts DEF Types, TypeOK, Call, Connection, IInv
<1>7. Trusted'
  BY <1>1, <1>2, <1>3 DEF Trusted, IInv, Idle
<1>. QED
  BY <1>5, <1>6, <1>7 DEF IInv

(* The proof goes to the socket of the moment, if that is open.            *)
LEMMA SignedKeeps ==
    ASSUME IInv, NEW c \in Calls, Signed(c)
    PROVE  IInv'
<1>1. /\ identity' = identity /\ stored' = stored /\ paired' = paired /\ sock' = sock
      /\ devices' = devices /\ reloads' = reloads /\ stopped' = stopped
      /\ ws' = ws /\ down' = down /\ nodeVars' = nodeVars /\ call[c].pc = "signing"
  BY DEF Signed
<1>2. /\ nodeUp' = nodeUp /\ conn' = conn /\ trust' = trust /\ trustFile' = trustFile
      /\ epoch' = epoch /\ pinAttempts' = pinAttempts /\ pinExpired' = pinExpired
  BY <1>1 DEF nodeVars
<1>3. /\ call' \in [Calls -> Call] /\ up' \in [Sockets -> Seq(Message)]
      /\ nodeConnected' \in BOOLEAN /\ timer' \in BOOLEAN
      /\ Current' /\ Lines'
      /\ call'[c].pc # "saving" /\ \A b \in Calls \ {c} : call'[b] = call[b]
  <2>1. CASE SocketOpen /\ UNCHANGED <<nodeConnected, timer>>
    <3>. DEFINE m == Msg(IF call[c].op = "pair" THEN "pairProof" ELSE "authProof",
                         c, call[c].dev, 0, call[c].of)
                k == [call[c] EXCEPT !.pc = "proof"]
    <3>1. up' = [up EXCEPT ![sock] = Append(@, m)] /\ call' = [call EXCEPT ![c] = k]
      BY <2>1 DEF Signed
    <3>2. sock \in Sockets /\ ws[sock] = "open"
      BY <2>1, Facts DEF SocketOpen
    <3>3. call[c] \in Call /\ 0 \in Codes
      BY Facts DEF Codes
    <3>4. /\ m \in Message /\ m.call = c /\ m.dev = call[c].dev /\ m.of = call[c].of
          /\ m.kind = (IF call[c].op = "pair" THEN "pairProof" ELSE "authProof")
      BY <3>3 DEF Msg, Message, Call
    <3>5. /\ k \in Call /\ k.pc = "proof" /\ k.op = call[c].op /\ k.dev = call[c].dev
      BY <3>3 DEF Call
    <3>. HIDE DEF m, k
    <3>6. up[sock] \in Seq(Message)
      BY <3>2, Facts
    <3>7. Append(up[sock], m) \in Seq(Message)
      BY <3>4, <3>6, Appended
    <3>8. /\ up' \in [Sockets -> Seq(Message)] /\ up'[sock] = Append(up[sock], m)
          /\ \A s \in Sockets \ {sock} : up'[s] = up[s]
          /\ call' \in [Calls -> Call] /\ call'[c] = k
          /\ \A b \in Calls \ {c} : call'[b] = call[b]
      BY <3>1, <3>2, <3>5, <3>7, Facts
    <3>9. Current'
      <4>. SUFFICES ASSUME NEW s \in Sockets, ws[s] = "connecting"
                    PROVE  Signing(s, call') = {}
        BY <1>1, LineOf DEF Current
      <4>1. FALSE
        BY <3>2, LineOf
      <4>. QED
        BY <4>1
    <3>10. ASSUME NEW s \in Sockets
           PROVE  Line(s, ws'[s], up'[s], down'[s], call', conn'[s], trustFile')
      <4>1. Line(s, ws[s], up[s], down[s], call, conn[s], trustFile)
        BY LineOf
      <4>2. up[s] \in Seq(Message) /\ down[s] \in Seq(Message) /\ conn[s] \in Connection
            /\ call \in [Calls -> Call]
        BY Facts
      <4>3. CASE s = sock
        <5>1. Line(s, "open", up[s], down[s], call, conn[s], trustFile)
          BY <3>2, <4>1, <4>3
        <5>2. call'[c].pc = "proof" /\ call'[c].op = call[c].op /\ call'[c].dev = call[c].dev
          BY <3>5, <3>8
        <5>3. Line(s, "open", Append(up[s], m), down[s], call', conn[s], trustFile)
          BY <1>1, <3>4, <3>8, <4>2, <5>1, <5>2, LineProven
        <5>. QED
          BY <1>1, <1>2, <3>2, <3>8, <4>3, <5>3
      <4>4. CASE s # sock
        <5>1. ws[s] # "open" /\ up'[s] = up[s]
          BY <3>8, <4>4, LineOf
        <5>2. \A b \in Calls : Signs(call'[b], s) => call'[b] = call[b]
          BY <3>5, <3>8 DEF Signs
        <5>. QED
          BY <1>1, <1>2, <3>8, <5>1, <5>2, LineElsewhere
      <4>. QED
        BY <4>3, <4>4
    <3>. QED
      BY <2>1, <3>5, <3>8, <3>9, <3>10, Facts DEF Lines
  <2>2. CASE Throws(c) /\ up' = up
    <3>1. /\ call' \in [Calls -> Call] /\ nodeConnected' \in BOOLEAN /\ timer' \in BOOLEAN
          /\ \A b \in Calls : call'[b] = IF b = c THEN Idle ELSE call[b]
      BY <2>2, WithoutSome, Facts DEF Throws, Rescheduled
    <3>2. /\ Lines'
          /\ \A s \in Sockets : Signing(s, call') \subseteq Signing(s, call)
      BY <1>1, <1>2, <2>2, <3>1, StepsAside DEF Idle
    <3>3. Current'
      BY <1>1, <3>2, LineOf DEF Current
    <3>. QED
      BY <2>2, <3>1, <3>2, <3>3, Facts DEF Idle
  <2>. QED
    BY <2>1, <2>2 DEF Signed
<1>4. Types'
  BY <1>1, <1>2, <1>3, Facts DEF Types, TypeOK, Call, Connection, IInv
<1>5. Trusted'
  <2>1. \A b \in Calls : call'[b].pc = "saving" => call'[b] = call[b]
    BY <1>3
  <2>. QED
    BY <1>1, <1>2, <2>1, TrustedKept
<1>. QED
  BY <1>3, <1>4, <1>5 DEF IInv

LEMMA SavedKeeps ==
    ASSUME IInv, NEW c \in Calls, Saved(c)
    PROVE  IInv'
<1>1. /\ identity' = stored' /\ stored' = [device |-> call[c].dev, paired |-> TRUE]
      /\ paired' = TRUE /\ sock' = sock /\ stopped' = OthersPair(c)
      /\ devices' = devices /\ reloads' = reloads
      /\ nodeConnected' = TRUE /\ timer' = timer /\ ws' = ws /\ up' = up /\ down' = down
      /\ nodeVars' = nodeVars /\ call[c].pc = "saving"
      /\ call' = Without({c})
  BY DEF Saved
<1>2. /\ nodeUp' = nodeUp /\ conn' = conn /\ trust' = trust /\ trustFile' = trustFile
      /\ epoch' = epoch /\ pinAttempts' = pinAttempts /\ pinExpired' = pinExpired
  BY <1>1 DEF nodeVars
<1>3. /\ call' \in [Calls -> Call]
      /\ \A b \in Calls : call'[b] = IF b = c THEN Idle ELSE call[b]
  BY <1>1, WithoutSome
<1>9. /\ call'[c].pc = "idle" /\ \A b \in Calls \ {c} : call'[b] = call[b]
      /\ \A b \in Calls : call'[b].pc = "saving" => call'[b] = call[b]
  BY <1>3 DEF Idle
<1>4. /\ Lines'
      /\ \A s \in Sockets : Signing(s, call') \subseteq Signing(s, call)
  BY <1>1, <1>2, <1>3, <1>9, StepsAside
<1>5. Current'
  BY <1>1, <1>4, LineOf DEF Current
<1>6. stopped' \in BOOLEAN /\ stored' \in Identity /\ call[c].dev \in trustFile
  <2>1. call[c] \in Call
    BY Facts
  <2>. QED
    BY <1>1, <2>1 DEF OthersPair, Identity, Call, IInv, Trusted
<1>7. Types'
  BY <1>1, <1>2, <1>3, <1>6, Facts DEF Types, TypeOK, Call, Connection, IInv
<1>8. Trusted'
  <2>1. stored'.paired => stored'.device \in trustFile'
    BY <1>1, <1>2, <1>6
  <2>2. identity' = stored' /\ trustFile' = trustFile /\ trust' = trust
    BY <1>1, <1>2
  <2>. QED
    BY <2>1, <2>2, <1>9 DEF Trusted, IInv
<1>. QED
  BY <1>4, <1>5, <1>7, <1>8 DEF IInv

-----------------------------------------------------------------------------
(* The Node                                                                *)

(* What no action of the Node changes.                                     *)
LEMMA ClientKept ==
    ASSUME UNCHANGED clientVars
    PROVE  /\ call' = call /\ identity' = identity /\ stored' = stored /\ sock' = sock
           /\ paired' = paired /\ nodeConnected' = nodeConnected /\ timer' = timer
           /\ devices' = devices /\ reloads' = reloads /\ stopped' = stopped
BY DEF clientVars

(* The first message of a live connection.                                 *)
LEMMA FirstRequest ==
    ASSUME IInv, NEW s \in Sockets, NEW kind, Handles(s, kind)
    PROVE  /\ Head(up[s]) \in Message /\ Head(up[s]).kind = kind /\ up[s] # <<>>
           /\ conn[s].live /\ conn[s] \in Connection /\ conn[s].pair \in Devices
           /\ conn[s].auth \in Devices /\ conn[s].who \in Devices
           /\ Head(up[s]).dev \in Devices /\ s # 0
           /\ Head(up[s]).of = s /\ kind = "pairProof" => conn[s].pair = Head(up[s]).dev
           /\ Head(up[s]).of = s /\ kind = "authProof" => conn[s].auth = Head(up[s]).dev
<1>1. conn[s].live /\ up[s] # <<>> /\ Head(up[s]).kind = kind
  BY DEF Handles
<1>2. up[s] \in Seq(Message) /\ conn[s] \in Connection /\ s # 0
  BY Facts
<1>3. Head(up[s]) \in Message /\ Head(up[s]) = up[s][1] /\ 1 \in 1..Len(up[s])
  BY <1>1, <1>2, HeadTail
<1>4. StillPending(s, up[s], call, conn[s])
  BY <1>1, LineOf DEF Line
<1>5. conn[s].pair \in Devices /\ conn[s].auth \in Devices /\ conn[s].who \in Devices
      /\ Head(up[s]).dev \in Devices
  BY <1>2, <1>3 DEF Connection, Message
<1>. QED
  BY <1>1, <1>2, <1>3, <1>4, <1>5 DEF StillPending

LEMMA Handled ==
    ASSUME IInv, NEW s \in Sockets, NEW kind, Handles(s, kind), NEW rk,
           Reply(s, rk), rk \in {"challenge", "error"} \cup Success,
           conn' \in [Sockets -> Connection],
           \A t \in Sockets \ {s} : conn'[t] = conn[t],
           trustFile \subseteq trustFile', call' = call, ws' = ws, sock' = sock,
           \A r \in Message : r.kind = rk /\ r.call = Head(up[s]).call =>
               Replies(Head(up[s]), r, conn[s], conn'[s], s, trustFile')
    PROVE  /\ Current' /\ Lines'
           /\ up' \in [Sockets -> Seq(Message)] /\ down' \in [Sockets -> Seq(Message)]
<1>. DEFINE r == Msg(rk, Head(up[s]).call, 0, 0, 0)
<1>1. /\ Head(up[s]) \in Message /\ up[s] # <<>> /\ conn[s].live
  BY FirstRequest
<1>2. /\ r \in Message /\ r.kind = rk /\ r.call = Head(up[s]).call
  <2>1. 0 \in Devices /\ 0 \in Codes
    BY BoundAssumption DEF Devices, Codes
  <2>. QED
    BY <1>1, <2>1 DEF Msg, Message, Success
<1>3. /\ up' = [up EXCEPT ![s] = Tail(@)]
      /\ down' = IF ws[s] = "open" THEN [down EXCEPT ![s] = Append(@, r)] ELSE down
  BY DEF Handles, Reply
<1>. HIDE DEF r
<1>4. up[s] \in Seq(Message) /\ down[s] \in Seq(Message)
  BY Facts
<1>5. Tail(up[s]) \in Seq(Message) /\ Append(down[s], r) \in Seq(Message)
  BY <1>1, <1>2, <1>4, HeadTail, Appended
<1>6. /\ up' \in [Sockets -> Seq(Message)] /\ up'[s] = Tail(up[s])
      /\ \A t \in Sockets \ {s} : up'[t] = up[t]
  BY <1>3, <1>5, Facts
<1>7. /\ down' \in [Sockets -> Seq(Message)]
      /\ down'[s] = IF ws[s] = "open" THEN Append(down[s], r) ELSE down[s]
      /\ \A t \in Sockets \ {s} : down'[t] = down[t]
  BY <1>3, <1>5, Facts
<1>8. ASSUME NEW t \in Sockets
      PROVE  Line(t, ws'[t], up'[t], down'[t], call', conn'[t], trustFile')
  <2>1. Line(t, ws[t], up[t], down[t], call, conn[t], trustFile)
    BY LineOf
  <2>2. up[t] \in Seq(Message) /\ down[t] \in Seq(Message) /\ conn[t] \in Connection
        /\ call \in [Calls -> Call]
    BY Facts
  <2>3. CASE t = s
    <3>1. Replies(Head(up[s]), r, conn[s], conn'[s], s, trustFile')
      BY <1>2
    <3>2. conn'[s] \in Connection
      OBVIOUS
    <3>3. Line(s, ws[s], Tail(up[s]), IF ws[s] = "open" THEN Append(down[s], r) ELSE down[s],
               call, conn'[s], trustFile')
      BY <1>1, <1>2, <2>1, <2>2, <2>3, <3>1, <3>2, LineHandled
    <3>. QED
      BY <1>6, <1>7, <2>3, <3>3
  <2>4. CASE t # s
    <3>1. Line(t, ws[t], up[t], down[t], call, conn[t], trustFile')
      BY <2>1, <2>2, LineTrusted
    <3>. QED
      BY <1>6, <1>7, <2>4, <3>1
  <2>. QED
    BY <2>3, <2>4
<1>9. Current'
  BY LineOf DEF Current
<1>. QED
  BY <1>6, <1>7, <1>8, <1>9 DEF Lines

(* A request whose answer is an error, after which the connection is as it *)
(* was or has been closed.                                                 *)
LEMMA Refused ==
    ASSUME IInv, NEW s \in Sockets, NEW kind, Handles(s, kind), Reply(s, "error"),
           conn' \in [Sockets -> Connection],
           \A t \in Sockets \ {s} : conn'[t] = conn[t],
           conn'[s] = conn[s] \/ ~conn'[s].live,
           trustFile' = trustFile, call' = call, ws' = ws, sock' = sock
    PROVE  /\ Current' /\ Lines'
           /\ up' \in [Sockets -> Seq(Message)] /\ down' \in [Sockets -> Seq(Message)]
<1>1. conn[s].live
  BY FirstRequest
<1>2. \A r \in Message : r.kind = "error" /\ r.call = Head(up[s]).call =>
          Replies(Head(up[s]), r, conn[s], conn'[s], s, trustFile')
  BY <1>1 DEF Replies, Success
<1>. QED
  BY <1>2, Handled

(* The variables of the Node apart from its channels and connections.      *)
LEMMA NodeTypes ==
    ASSUME IInv, UNCHANGED clientVars, ws' = ws, nodeUp' = nodeUp, epoch' = epoch,
           pinExpired' \in BOOLEAN, pinAttempts' \in 0..MaxPinAttempts,
           up' \in [Sockets -> Seq(Message)], down' \in [Sockets -> Seq(Message)],
           conn' \in [Sockets -> Connection], trust' \subseteq Devices,
           trustFile \subseteq trustFile', trustFile' \subseteq trust'
    PROVE  Types' /\ Trusted'
<1>1. Types'
  BY ClientKept, Facts DEF Types, TypeOK, Call, Connection, IInv
<1>2. Trusted'
  BY ClientKept DEF Trusted, IInv
<1>. QED
  BY <1>1, <1>2

LEMMA PairBeginKeeps ==
    ASSUME IInv, NEW s \in Sockets, PairBegin(s)
    PROVE  IInv'
<1>. DEFINE y == [conn[s] EXCEPT !.pair = Head(up[s]).dev]
<1>1. /\ Handles(s, "pairBegin") /\ Reply(s, "challenge")
      /\ conn' = [conn EXCEPT ![s] = y]
      /\ UNCHANGED <<trust, trustFile, pinAttempts, pinExpired, ws, nodeUp, epoch>>
      /\ UNCHANGED clientVars
  BY DEF PairBegin, NodeKeeps
<1>2. y \in Connection /\ y.pair = Head(up[s]).dev
  BY <1>1, FirstRequest DEF Connection
<1>. HIDE DEF y
<1>3. /\ conn' \in [Sockets -> Connection] /\ conn'[s] = y
      /\ \A t \in Sockets \ {s} : conn'[t] = conn[t]
  BY <1>1, <1>2, Facts
<1>4. \A r \in Message : r.kind = "challenge" /\ r.call = Head(up[s]).call =>
          Replies(Head(up[s]), r, conn[s], conn'[s], s, trustFile')
  BY <1>1, <1>2, <1>3, FirstRequest DEF Replies, Success, Begun
<1>5. /\ Current' /\ Lines'
      /\ up' \in [Sockets -> Seq(Message)] /\ down' \in [Sockets -> Seq(Message)]
  BY <1>1, <1>3, <1>4, Handled, ClientKept
<1>6. Types' /\ Trusted'
  BY <1>1, <1>3, <1>5, Facts, NodeTypes DEF IInv, Trusted
<1>. QED
  BY <1>5, <1>6 DEF IInv

LEMMA NoConnection == NoConn \in Connection /\ ~NoConn.live
<1>1. 0 \in Devices
  BY BoundAssumption DEF Devices
<1>. QED
  BY <1>1 DEF NoConn, Connection

LEMMA PairBeginRefusedKeeps ==
    ASSUME IInv, NEW s \in Sockets, PairBeginRefused(s)
    PROVE  IInv'
<1>1. /\ Handles(s, "pairBegin") /\ Reply(s, "error")
      /\ UNCHANGED <<trust, trustFile, ws, nodeUp, epoch>> /\ UNCHANGED clientVars
  BY DEF PairBeginRefused
<1>2. /\ pinExpired' \in BOOLEAN /\ pinAttempts' \in 0..MaxPinAttempts
      /\ conn' = conn \/ conn' = [conn EXCEPT ![s] = NoConn]
  <2>1. CASE conn' = conn /\ pinAttempts' = pinAttempts /\ pinExpired' \in {TRUE, pinExpired}
    BY <2>1, Facts
  <2>2. CASE /\ pinAttempts' = IF pinAttempts < MaxPinAttempts THEN pinAttempts + 1
                               ELSE pinAttempts
             /\ conn' = IF pinAttempts' >= MaxPinAttempts
                        THEN [conn EXCEPT ![s] = NoConn] ELSE conn
             /\ pinExpired' = pinExpired
    BY <2>2, Facts, BoundAssumption
  <2>. QED
    BY <2>1, <2>2 DEF PairBeginRefused
<1>3. /\ conn' \in [Sockets -> Connection]
      /\ conn'[s] = conn[s] \/ ~conn'[s].live
      /\ \A t \in Sockets \ {s} : conn'[t] = conn[t]
  BY ZenonT(60), <1>2, NoConnection, Facts
<1>4. /\ Current' /\ Lines'
      /\ up' \in [Sockets -> Seq(Message)] /\ down' \in [Sockets -> Seq(Message)]
  BY <1>1, <1>3, Refused, ClientKept
<1>5. Types' /\ Trusted'
  BY <1>1, <1>2, <1>3, <1>4, Facts, NodeTypes DEF IInv, Trusted
<1>. QED
  BY <1>4, <1>5 DEF IInv

(* The device is in the file before the browser hears of its success.      *)
LEMMA PairProofKeeps ==
    ASSUME IInv, NEW s \in Sockets, PairProof(s)
    PROVE  IInv'
<1>. DEFINE y == [conn[s] EXCEPT !.pair = 0, !.who = conn[s].pair]
<1>1. /\ Handles(s, "pairProof") /\ Reply(s, "pairSucceeded")
      /\ Head(up[s]).of = s
      /\ trust' = trust \cup {conn[s].pair} /\ trustFile' = trust'
      /\ conn' = [conn EXCEPT ![s].pair = 0, ![s].who = conn[s].pair]
      /\ UNCHANGED <<pinAttempts, pinExpired, ws, nodeUp, epoch>>
      /\ UNCHANGED clientVars
  BY DEF PairProof, NodeKeeps, Challenged
<1>2. y \in Connection /\ y.who = conn[s].pair /\ y.live = conn[s].live
  <2>1. 0 \in Devices
    BY BoundAssumption DEF Devices
  <2>. QED
    BY <1>1, <2>1, FirstRequest DEF Connection
<1>3. conn' = [conn EXCEPT ![s] = y]
  BY <1>1
<1>. HIDE DEF y
<1>4. /\ conn' \in [Sockets -> Connection] /\ conn'[s] = y
      /\ \A t \in Sockets \ {s} : conn'[t] = conn[t]
  BY <1>2, <1>3, Facts
<1>5. trustFile \subseteq trustFile' /\ trust' \subseteq Devices /\ conn[s].pair \in trustFile'
  BY <1>1, FirstRequest, Facts DEF IInv, Trusted
<1>6. conn[s].pair = Head(up[s]).dev /\ Head(up[s]).kind = "pairProof" /\ conn[s].live
  BY <1>1, FirstRequest
<1>7. \A r \in Message : r.kind = "pairSucceeded" /\ r.call = Head(up[s]).call =>
          Replies(Head(up[s]), r, conn[s], conn'[s], s, trustFile')
  BY <1>1, <1>2, <1>4, <1>5, <1>6 DEF Replies, Success, Proofs
<1>8. /\ Current' /\ Lines'
      /\ up' \in [Sockets -> Seq(Message)] /\ down' \in [Sockets -> Seq(Message)]
  BY ZenonT(60), <1>1, <1>4, <1>5, <1>7, Handled, ClientKept DEF Success
<1>9. Types' /\ Trusted'
  BY <1>1, <1>4, <1>5, <1>8, Facts, NodeTypes
<1>. QED
  BY <1>8, <1>9 DEF IInv

LEMMA PairProofSaveFailsKeeps ==
    ASSUME IInv, NEW s \in Sockets, PairProofSaveFails(s)
    PROVE  IInv'
<1>1. /\ Handles(s, "pairProof") /\ Reply(s, "error")
      /\ trust' = trust \cup {conn[s].pair}
      /\ UNCHANGED <<conn, trustFile, pinAttempts, pinExpired, ws, nodeUp, epoch>>
      /\ UNCHANGED clientVars
  BY DEF PairProofSaveFails, NodeKeeps
<1>2. trust' \subseteq Devices /\ trustFile' \subseteq trust'
  BY <1>1, FirstRequest, Facts DEF IInv, Trusted
<1>3. /\ Current' /\ Lines'
      /\ up' \in [Sockets -> Seq(Message)] /\ down' \in [Sockets -> Seq(Message)]
  BY <1>1, Facts, Refused, ClientKept
<1>4. Types' /\ Trusted'
  BY <1>1, <1>2, <1>3, Facts, NodeTypes
<1>. QED
  BY <1>3, <1>4 DEF IInv

LEMMA PairProofRefusedKeeps ==
    ASSUME IInv, NEW s \in Sockets, PairProofRefused(s)
    PROVE  IInv'
<1>1. /\ Handles(s, "pairProof") /\ Reply(s, "error")
      /\ UNCHANGED <<conn, trust, trustFile, pinAttempts, pinExpired, ws, nodeUp, epoch>>
      /\ UNCHANGED clientVars
  BY DEF PairProofRefused, NodeKeeps
<1>2. /\ Current' /\ Lines'
      /\ up' \in [Sockets -> Seq(Message)] /\ down' \in [Sockets -> Seq(Message)]
  BY <1>1, Facts, Refused, ClientKept
<1>3. Types' /\ Trusted'
  BY <1>1, <1>2, Facts, NodeTypes DEF IInv, Trusted
<1>. QED
  BY <1>2, <1>3 DEF IInv

LEMMA AuthBeginKeeps ==
    ASSUME IInv, NEW s \in Sockets, AuthBegin(s)
    PROVE  IInv'
<1>1. /\ Handles(s, "authBegin")
      /\ UNCHANGED <<trust, trustFile, pinAttempts, pinExpired, ws, nodeUp, epoch>>
      /\ UNCHANGED clientVars
  BY DEF AuthBegin, NodeKeeps
<1>2. /\ Current' /\ Lines' /\ conn' \in [Sockets -> Connection]
      /\ up' \in [Sockets -> Seq(Message)] /\ down' \in [Sockets -> Seq(Message)]
  <2>1. CASE /\ conn' = [conn EXCEPT ![s].auth = Head(up[s]).dev]
             /\ Reply(s, "challenge")
    <3>. DEFINE y == [conn[s] EXCEPT !.auth = Head(up[s]).dev]
    <3>1. y \in Connection /\ y.auth = Head(up[s]).dev
      BY <1>1, FirstRequest DEF Connection
    <3>2. conn' = [conn EXCEPT ![s] = y]
      BY <2>1
    <3>. HIDE DEF y
    <3>3. /\ conn' \in [Sockets -> Connection] /\ conn'[s] = y
          /\ \A t \in Sockets \ {s} : conn'[t] = conn[t]
      BY <3>1, <3>2, Facts
    <3>4. \A r \in Message : r.kind = "challenge" /\ r.call = Head(up[s]).call =>
              Replies(Head(up[s]), r, conn[s], conn'[s], s, trustFile')
      BY <1>1, <3>1, <3>3, FirstRequest DEF Replies, Success, Begun
    <3>. QED
      BY <1>1, <2>1, <3>3, <3>4, Handled, ClientKept
  <2>2. CASE Reply(s, "error") /\ conn' = conn
    BY <1>1, <2>2, Facts, Refused, ClientKept
  <2>. QED
    BY <2>1, <2>2 DEF AuthBegin
<1>3. Types' /\ Trusted'
  BY <1>1, <1>2, Facts, NodeTypes DEF IInv, Trusted
<1>. QED
  BY <1>2, <1>3 DEF IInv

LEMMA AuthProofKeeps ==
    ASSUME IInv, NEW s \in Sockets, AuthProof(s)
    PROVE  IInv'
<1>1. /\ Handles(s, "authProof")
      /\ UNCHANGED <<trust, trustFile, pinAttempts, pinExpired, ws, nodeUp, epoch>>
      /\ UNCHANGED clientVars
  BY DEF AuthProof, NodeKeeps
<1>2. /\ Current' /\ Lines' /\ conn' \in [Sockets -> Connection]
      /\ up' \in [Sockets -> Seq(Message)] /\ down' \in [Sockets -> Seq(Message)]
  <2>1. CASE /\ Challenged(s, conn[s].auth)
             /\ conn' = [conn EXCEPT ![s].auth = 0, ![s].who = conn[s].auth]
             /\ Reply(s, "authSucceeded")
    <3>. DEFINE y == [conn[s] EXCEPT !.auth = 0, !.who = conn[s].auth]
    <3>1. y \in Connection /\ y.who = conn[s].auth
      <4>1. 0 \in Devices
        BY BoundAssumption DEF Devices
      <4>. QED
        BY <1>1, <4>1, FirstRequest DEF Connection
    <3>2. conn' = [conn EXCEPT ![s] = y]
      BY <2>1
    <3>. HIDE DEF y
    <3>3. /\ conn' \in [Sockets -> Connection] /\ conn'[s] = y
          /\ \A t \in Sockets \ {s} : conn'[t] = conn[t]
      BY <3>1, <3>2, Facts
    <3>4. Head(up[s]).of = s /\ conn[s].auth = Head(up[s]).dev
          /\ Head(up[s]).kind = "authProof" /\ conn[s].live
      BY <1>1, <2>1, FirstRequest DEF Challenged
    <3>5. \A r \in Message : r.kind = "authSucceeded" /\ r.call = Head(up[s]).call =>
              Replies(Head(up[s]), r, conn[s], conn'[s], s, trustFile')
      BY <3>1, <3>3, <3>4 DEF Replies, Success, Proofs
    <3>. QED
      BY <1>1, <2>1, <3>3, <3>5, Handled, ClientKept DEF Success
  <2>2. CASE Reply(s, "error") /\ conn' = conn
    BY <1>1, <2>2, Facts, Refused, ClientKept
  <2>. QED
    BY <2>1, <2>2 DEF AuthProof
<1>3. Types' /\ Trusted'
  BY <1>1, <1>2, Facts, NodeTypes DEF IInv, Trusted
<1>. QED
  BY <1>2, <1>3 DEF IInv

LEMMA ConnectionEndsKeeps ==
    ASSUME IInv, NEW s \in Sockets, ConnectionEnds(s)
    PROVE  IInv'
<1>1. /\ conn' = [conn EXCEPT ![s] = NoConn]
      /\ UNCHANGED <<ws, up, down, nodeUp, trust, trustFile, epoch, pinAttempts, pinExpired>>
      /\ UNCHANGED clientVars
  BY DEF ConnectionEnds
<1>2. /\ conn' \in [Sockets -> Connection]
      /\ \A t \in Sockets : conn'[t] = IF t = s THEN NoConn ELSE conn[t]
  BY <1>1, NoConnection, Facts
<1>3. ASSUME NEW t \in Sockets
      PROVE  Line(t, ws[t], up[t], down[t], call, conn'[t], trustFile)
  <2>1. Line(t, ws[t], up[t], down[t], call, conn[t], trustFile)
    BY LineOf
  <2>2. up[t] \in Seq(Message) /\ down[t] \in Seq(Message) /\ conn[t] \in Connection
        /\ call \in [Calls -> Call]
    BY Facts
  <2>3. Line(t, ws[t], up[t], down[t], call, NoConn, trustFile)
    BY <2>1, <2>2, NoConnection, LineDropped
  <2>. QED
    BY <1>2, <2>1, <2>3
<1>4. Lines' /\ Current'
  BY <1>1, <1>3, LineOf, ClientKept DEF Lines, Current
<1>5. Types' /\ Trusted'
  BY <1>1, <1>2, Facts, NodeTypes DEF IInv, Trusted
<1>. QED
  BY <1>4, <1>5 DEF IInv

LEMMA NodeCrashesKeeps ==
    ASSUME IInv, NodeCrashes
    PROVE  IInv'
<1>1. /\ conn' = [s \in Sockets |-> NoConn] /\ up' = [s \in Sockets |-> <<>>]
      /\ epoch <= MaxCrashes
      /\ UNCHANGED <<ws, down, trust, trustFile, epoch, pinAttempts, pinExpired>>
      /\ UNCHANGED clientVars /\ nodeUp' = FALSE
  BY DEF NodeCrashes
<1>2. /\ conn' \in [Sockets -> Connection] /\ up' \in [Sockets -> Seq(Message)]
      /\ \A t \in Sockets : conn'[t] = NoConn /\ up'[t] = <<>>
  BY <1>1, NoConnection, EmptySeq
<1>3. ASSUME NEW t \in Sockets
      PROVE  Line(t, ws[t], up'[t], down[t], call, conn'[t], trustFile)
  <2>1. Line(t, ws[t], up[t], down[t], call, conn[t], trustFile)
    BY LineOf
  <2>2. up[t] \in Seq(Message) /\ down[t] \in Seq(Message) /\ conn[t] \in Connection
        /\ call \in [Calls -> Call]
    BY Facts
  <2>3. Line(t, ws[t], <<>>, down[t], call, NoConn, trustFile)
    BY <2>1, <2>2, NoConnection, LineDropped
  <2>. QED
    BY <1>2, <2>3
<1>4. Lines' /\ Current'
  BY <1>1, <1>3, LineOf, ClientKept DEF Lines, Current
<1>5. Types'
  BY <1>1, <1>2, ClientKept, Facts DEF Types, TypeOK, Call, Connection, IInv
<1>6. Trusted'
  BY <1>1, ClientKept DEF Trusted, IInv
<1>. QED
  BY <1>4, <1>5, <1>6 DEF IInv

LEMMA NodeStartsKeeps ==
    ASSUME IInv, NodeStarts
    PROVE  IInv'
<1>1. /\ UNCHANGED <<ws, up, down, conn, trustFile>> /\ UNCHANGED clientVars
      /\ ~nodeUp /\ nodeUp' = TRUE /\ trust' = trustFile /\ epoch' = epoch + 1
      /\ pinAttempts' = 0 /\ pinExpired' = FALSE
  BY DEF NodeStarts
<1>2. epoch' \in 1..(MaxCrashes + 1) /\ pinAttempts' \in 0..MaxPinAttempts
  BY <1>1, Facts, BoundAssumption DEF IInv, Types
<1>3. Lines' /\ Current'
  BY <1>1, ClientKept DEF Lines, Current, IInv
<1>4. Types'
  BY <1>1, <1>2, ClientKept, Facts DEF Types, TypeOK, Call, Connection, IInv
<1>5. Trusted'
  BY <1>1, ClientKept DEF Trusted, IInv
<1>. QED
  BY <1>3, <1>4, <1>5 DEF IInv

-----------------------------------------------------------------------------
(* The invariant                                                           *)

LEMMA InitHolds == Init => IInv
<1>. SUFFICES ASSUME Init PROVE IInv
  OBVIOUS
<1>1. 0 \in Devices /\ 0 \in Codes
  BY BoundAssumption DEF Devices, Codes
<1>2. call \in [Calls -> Call] /\ \A c \in Calls : call[c] = Idle
  BY IdleCall DEF Init
<1>3. /\ ws \in [Sockets -> {"closed", "connecting", "open"}]
      /\ up \in [Sockets -> Seq(Message)] /\ down \in [Sockets -> Seq(Message)]
      /\ conn \in [Sockets -> Connection]
      /\ \A s \in Sockets : /\ ws[s] = "closed" /\ up[s] = <<>> /\ down[s] = <<>>
                            /\ conn[s] = NoConn
  BY EmptySeq, NoConnection DEF Init
<1>4. Types
  <2>1. identity \in Identity /\ stored \in Identity
    BY <1>1 DEF Init, NoIdentity, Identity
  <2>2. /\ devices \in Devices /\ reloads \in 0..MaxReloads
        /\ epoch \in 1..(MaxCrashes + 1) /\ pinAttempts \in 0..MaxPinAttempts
    BY <1>1, BoundAssumption DEF Init
  <2>3. /\ sock \in Sockets \cup {0} /\ paired \in BOOLEAN /\ nodeConnected \in BOOLEAN
        /\ timer \in BOOLEAN /\ stopped \in BOOLEAN /\ nodeUp = TRUE
        /\ trust \subseteq Devices /\ trustFile \subseteq Devices /\ pinExpired \in BOOLEAN
    BY DEF Init
  <2>. QED
    BY <1>2, <1>3, <2>1, <2>2, <2>3 DEF Types, TypeOK, Call, Connection
<1>5. Current
  BY <1>3 DEF Current
<1>6. Lines
  BY <1>3, EmptySeq, NoConnection DEF Lines, Line, Answered
<1>7. Trusted
  BY <1>2 DEF Trusted, Init, NoIdentity, Idle
<1>. QED
  BY <1>4, <1>5, <1>6, <1>7 DEF IInv

LEMMA NextKeeps == IInv /\ [Next]_vars => IInv'
<1>. SUFFICES ASSUME IInv, [Next]_vars PROVE IInv'
  OBVIOUS
<1>1. ASSUME NEW c \in Calls, CallNext(c) PROVE IInv'
  BY <1>1, StartPairKeeps, KeyReadyKeeps, TimerFiresKeeps, SocketOpensKeeps,
     SignedKeeps, SavedKeeps DEF CallNext
<1>2. CASE \/ SocketFails \/ Disconnect
           \/ ReceiveChallenge \/ ReceivePaired \/ ReceiveAuthenticated \/ ReceiveError
  BY <1>2, SocketFailsKeeps, DisconnectKeeps, ReceiveChallengeKeeps, ReceivePairedKeeps,
     ReceiveAuthenticatedKeeps, ReceiveErrorKeeps
<1>3. ASSUME NEW record \in Committable \cup {NoIdentity}, Reload(record) PROVE IInv'
  BY <1>3, ReloadKeeps
<1>4. CASE ClientNext
  BY <1>1, <1>2, <1>3, <1>4 DEF ClientNext
<1>5. ASSUME NEW s \in Sockets, HandlerNext(s) \/ ConnectionEnds(s) PROVE IInv'
  BY <1>5, PairBeginKeeps, PairBeginRefusedKeeps, PairProofKeeps,
     PairProofSaveFailsKeeps, PairProofRefusedKeeps, AuthBeginKeeps, AuthProofKeeps,
     ConnectionEndsKeeps DEF HandlerNext
<1>6. CASE NodeNext
  BY <1>5, <1>6, NodeCrashesKeeps, NodeStartsKeeps DEF NodeNext
<1>7. CASE UNCHANGED vars
  BY <1>7 DEF vars, clientVars, nodeVars, IInv, Types, TypeOK, Current, Lines, Trusted
<1>. QED
  BY <1>4, <1>6, <1>7 DEF Next

(* The handshakes of all sockets and the trust registry agree, always.     *)
THEOREM PairingInvariant == Spec => []IInv
<1>. QED
  BY InitHolds, NextKeeps, PTL DEF Spec

(* The variables keep their types.                                         *)
THEOREM TypesKept == Spec => []TypeOK
<1>1. IInv => TypeOK
  BY DEF IInv, Types
<1>. QED
  BY <1>1, PairingInvariant, PTL

(* A browser that believes it is paired is trusted by the Node, whatever   *)
(* crashes, reloads and failed saves come between them: the registry is on *)
(* disk before the reply is sent, and the reply precedes the browser's     *)
(* own record.                                                             *)
THEOREM PairedAreTrusted == Spec => []PairedIsTrusted
<1>1. IInv => PairedIsTrusted
  BY DEF IInv, Trusted, PairedIsTrusted
<1>. QED
  BY <1>1, PairingInvariant, PTL

(* No proof of another call, late or misdirected, makes the Node refuse    *)
(* the proof that answers its own challenge.                               *)
THEOREM OwnProofsAccepted == Spec => []OwnProofAccepted
<1>1. IInv => OwnProofAccepted
  <2>. SUFFICES ASSUME IInv, NEW s \in Sockets,
                       conn[s].live, up[s] # <<>>, Head(up[s]).of = s
                PROVE  /\ Head(up[s]).kind = "pairProof" => conn[s].pair = Head(up[s]).dev
                       /\ Head(up[s]).kind = "authProof" => conn[s].auth = Head(up[s]).dev
    BY DEF OwnProofAccepted
  <2>1. up[s] \in Seq(Message)
    BY Facts
  <2>2. Head(up[s]) = up[s][1] /\ 1 \in 1..Len(up[s])
    BY <2>1, HeadTail
  <2>. QED
    BY <2>2, LineOf DEF Line, StillPending
<1>. QED
  BY <1>1, PairingInvariant, PTL

(* Every reply finds the call that waits for it, and a success is of the   *)
(* device that the connection is authenticated for.                        *)
THEOREM RepliesFindTheirCalls == Spec => []RepliesAreAwaited
<1>1. IInv => RepliesAreAwaited
  <2>. SUFFICES ASSUME IInv, sock # 0, NEW i \in 1..Len(down[sock])
                PROVE  LET m == down[sock][i] IN
                       /\ m.kind = "challenge" => call[m.call].pc = "challenge"
                       /\ m.kind \in {"pairSucceeded", "authSucceeded"} =>
                              /\ call[m.call].pc = "proof"
                              /\ conn[sock].live => conn[sock].who = call[m.call].dev
    BY DEF RepliesAreAwaited
  <2>1. sock \in Sockets
    BY Facts
  <2>2. Answers(down[sock][i], call[down[sock][i].call], conn[sock], trustFile)
    BY <2>1, LineOf DEF Line, Answered
  <2>. QED
    BY <2>2 DEF Answers, Success
<1>. QED
  BY <1>1, PairingInvariant, PTL
=============================================================================
