---------------------------- MODULE NodePairing ----------------------------
(***************************************************************************)
(* Pairing and authentication between NodeClient in the PWA and SealNode:  *)
(* the identity in memory and in IndexedDB, overlapping pair() and         *)
(* connect() calls that share one socket, the reconnect timer of App.vue,  *)
(* the Node's connections, its pairing code and its trust file, reloads of *)
(* the page and restarts of the Node.                                      *)
(*                                                                         *)
(* A device stands for its id and its key pair, so a signature verifies    *)
(* exactly when it was made for the same device.  There is one Node        *)
(* identity; a Node that lost its trust file is out of scope.  pairing_id  *)
(* and connection_id are fresh per request and a socket carries at most    *)
(* one begin, so the socket of the challenge (field "of") stands for them. *)
(***************************************************************************)
EXTENDS Integers, Sequences, FiniteSets

CONSTANTS
    Calls,          \* pair() and connect() calls that may overlap
    Sockets,        \* WebSockets, recycled when both ends are done with one
    MaxDevices,     \* bound: identities the browser creates
    MaxPaired,      \* MAX_PAIRED_DEVICES
    MaxPinAttempts, \* MAX_PIN_ATTEMPTS
    MaxCrashes,     \* bound: restarts of the Node
    MaxReloads,     \* bound: reloads of the page
    MaxTroubles     \* bound: identities and restarts together

ASSUME BoundAssumption ==
    /\ MaxDevices \in Nat \ {0} /\ MaxPaired \in Nat \ {0}
    /\ MaxPinAttempts \in Nat \ {0}
    /\ MaxCrashes \in Nat /\ MaxReloads \in Nat /\ MaxTroubles \in Nat
    /\ 0 \notin Sockets

VARIABLES
    \* NodeClient, App.vue and the store
    call,           \* each call: its operation and how far it has got
    identity,       \* NodeClient.identity
    stored,         \* the identity record in IndexedDB
    sock,           \* NodeClient.socket, 0 for null
    paired,         \* store.paired
    nodeConnected,  \* store.nodeConnected
    timer,          \* connectNode is due (reconnectTimer, or the page's start)
    devices,        \* identities created so far
    reloads,
    stopped,        \* history: the user disconnected, or started to pair,
                    \* and no handshake has succeeded since that came to its end
    \* the sockets
    ws, up, down,
    \* SealNode
    nodeUp,
    conn,           \* ClientConnection per socket
    trust,          \* TrustRepository._state["devices"]
    trustFile,      \* the same on disk
    epoch,          \* starts of the Node; identifies its pairing code
    pinAttempts, pinExpired

clientVars == <<call, identity, stored, sock, paired, nodeConnected, timer,
                devices, reloads, stopped>>
nodeVars == <<nodeUp, conn, trust, trustFile, epoch, pinAttempts, pinExpired>>
vars == <<clientVars, ws, up, down, nodeVars>>

NoIdentity == [device |-> 0, paired |-> FALSE]
Idle == [op |-> "none", pc |-> "idle", dev |-> 0, code |-> 0, of |-> 0]
NoConn == [live |-> FALSE, pair |-> 0, auth |-> 0, who |-> 0]

Msg(kind, c, dev, code, of) ==
    [kind |-> kind, call |-> c, dev |-> dev, code |-> code, of |-> of]

Init ==
    /\ call = [c \in Calls |-> Idle]
    /\ identity = NoIdentity /\ stored = NoIdentity
    /\ sock = 0 /\ paired = FALSE /\ nodeConnected = FALSE /\ timer = FALSE
    /\ devices = 0 /\ reloads = 0 /\ stopped = FALSE
    /\ ws = [s \in Sockets |-> "closed"]
    /\ up = [s \in Sockets |-> <<>>] /\ down = [s \in Sockets |-> <<>>]
    /\ nodeUp = TRUE /\ conn = [s \in Sockets |-> NoConn]
    /\ trust = {} /\ trustFile = {}
    /\ epoch = 1 /\ pinAttempts = 0 /\ pinExpired = FALSE

-----------------------------------------------------------------------------
(* NodeClient                                                              *)

(* The calls whose promise socketReadyReject or rejectPending rejects.     *)
Rejected == {c \in Calls : call[c].pc \in {"opening", "challenge", "proof"}}

Without(ended) == [c \in Calls |-> IF c \in ended THEN Idle ELSE call[c]]

(* connectNode schedules another attempt for each connect() that throws.   *)
Rescheduled(ended) ==
    timer \/ (paired /\ \E c \in ended : call[c].op = "connect")

(* A call throws; ws.ts connect() also clears store.nodeConnected.         *)
Throws(c) ==
    /\ call' = Without({c})
    /\ nodeConnected' = (nodeConnected /\ call[c].op # "connect")
    /\ timer' = Rescheduled({c})

(* Sockets free for a new WebSocket; one whose challenge a call still      *)
(* answers is not, since it stands for the challenge's id.                 *)
Free == {s \in Sockets : /\ ws[s] = "closed" /\ ~conn[s].live /\ s # sock
                         /\ \A c \in Calls : call[c].of # s}

(* openSocket for call c: closeSocket rejects whatever used the old socket *)
(* and detaches its handlers; what the old socket still sends is read by   *)
(* the Node, what it still receives is lost.                               *)
OpenSocket(c, running, due) ==
    /\ Free # {}
    /\ LET s == CHOOSE t \in Free : TRUE IN
       /\ sock' = s
       /\ ws' = [t \in Sockets |-> IF t = s THEN "connecting"
                                   ELSE IF t = sock THEN "closed" ELSE ws[t]]
    /\ down' = [s \in Sockets |-> IF s = sock THEN <<>> ELSE down[s]]
    /\ call' = [Without(Rejected) EXCEPT ![c] = running]
    /\ nodeConnected' = FALSE
    /\ timer' = (due \/ (paired /\ \E d \in Rejected : call[d].op = "connect"))

Running(op, pc, dev, code) ==
    [op |-> op, pc |-> pc, dev |-> dev, code |-> code, of |-> 0]

(* Calls are interchangeable: the one that begins is the first idle one.   *)
Begins(c) == call[c] = Idle /\ c = CHOOSE d \in Calls : call[d] = Idle

Bounded == devices + (epoch - 1) < MaxTroubles

OthersPair(c) == \E d \in Calls \ {c} : call[d].op = "pair"

(* PairingView submits a code, right or wrong; ensureIdentity creates an   *)
(* identity first when there is none.                                      *)
StartPair(c, code) ==
    /\ Begins(c)
    /\ stopped' = TRUE
    /\ \/ /\ identity.device # 0
          /\ OpenSocket(c, Running("pair", "opening", identity.device, code), timer)
       \/ /\ identity.device = 0
          /\ devices < MaxDevices /\ Bounded
          /\ call' = [call EXCEPT ![c] = Running("pair", "keying", 0, code)]
          /\ UNCHANGED <<sock, nodeConnected, timer, ws, down>>
    /\ UNCHANGED <<identity, stored, paired, devices, reloads, up, nodeVars>>

(* The rest of ensureIdentity, then openSocket.                            *)
KeyReady(c) ==
    /\ call[c].pc = "keying"
    /\ devices < MaxDevices /\ Bounded
    /\ devices' = devices + 1
    /\ identity' = [device |-> devices + 1, paired |-> FALSE]
    /\ stored' = identity'
    /\ OpenSocket(c, Running("pair", "opening", devices + 1, call[c].code), timer)
    /\ UNCHANGED <<paired, reloads, stopped, up, nodeVars>>

(* The timer of scheduleReconnect, or the end of onMounted: connectNode.   *)
TimerFires(c) ==
    /\ timer
    /\ Begins(c)
    /\ \/ /\ identity.paired
          /\ OpenSocket(c, Running("connect", "opening", identity.device, 0), FALSE)
       \/ /\ ~identity.paired
          /\ nodeConnected' = FALSE
          /\ timer' = paired
          /\ UNCHANGED <<call, sock, ws, down>>
    /\ UNCHANGED <<identity, stored, paired, devices, reloads, stopped, up, nodeVars>>

(* onopen: the call that waits for the socket sends its first request.     *)
SocketOpens(c) ==
    /\ nodeUp
    /\ call[c].pc = "opening"
    /\ ws[sock] = "connecting"
    /\ ws' = [ws EXCEPT ![sock] = "open"]
    /\ conn' = [conn EXCEPT ![sock] = [NoConn EXCEPT !.live = TRUE]]
    /\ up' = [up EXCEPT ![sock] =
                <<Msg(IF call[c].op = "pair" THEN "pairBegin" ELSE "authBegin",
                      c, call[c].dev, call[c].code, 0)>>]
    /\ call' = [call EXCEPT ![c].pc = "challenge", ![c].code = 0]
    /\ UNCHANGED <<identity, stored, sock, paired, nodeConnected, timer, devices,
                   reloads, stopped, down, nodeUp, trust, trustFile, epoch,
                   pinAttempts, pinExpired>>

(* Mutation: the disconnected handler is not called.                       *)
SocketFailsQuietly ==
    /\ sock # 0
    /\ \/ ws[sock] = "connecting" /\ ~nodeUp
       \/ ws[sock] = "open" /\ ~conn[sock].live
    /\ ws' = [ws EXCEPT ![sock] = "closed"]
    /\ down' = [down EXCEPT ![sock] = <<>>]
    /\ call' = Without(Rejected)
    /\ nodeConnected' = FALSE
    /\ UNCHANGED <<identity, stored, sock, paired, timer, devices, reloads, stopped,
                   up, nodeVars>>

(* onerror and onclose of the current socket.                              *)
SocketFails ==
    /\ sock # 0
    /\ \/ ws[sock] = "connecting" /\ ~nodeUp
       \/ ws[sock] = "open" /\ ~conn[sock].live
    /\ ws' = [ws EXCEPT ![sock] = "closed"]
    /\ down' = [down EXCEPT ![sock] = <<>>]
    /\ call' = Without(Rejected)
    /\ nodeConnected' = FALSE
    /\ timer' = (timer \/ paired)
    /\ UNCHANGED <<identity, stored, sock, paired, devices, reloads, stopped, up,
                   nodeVars>>

SocketOpen == sock # 0 /\ \A s \in Sockets : s = sock => ws[s] = "open"

(* handleMessage gives the next reply to the call that waits for it.       *)
Receives(kind) ==
    /\ SocketOpen
    /\ down[sock] # <<>>
    /\ Head(down[sock]).kind = kind
    /\ down' = [down EXCEPT ![sock] = Tail(@)]

Replied == Head(down[sock]).call

ReceiveChallenge ==
    /\ Receives("challenge")
    /\ call' = [call EXCEPT ![Replied].pc = "signing", ![Replied].of = sock]
    /\ UNCHANGED <<identity, stored, sock, paired, nodeConnected, timer, devices,
                   reloads, stopped, ws, up, nodeVars>>

ReceivePaired ==
    /\ Receives("pairSucceeded")
    /\ call' = [call EXCEPT ![Replied].pc = "saving"]
    /\ UNCHANGED <<identity, stored, sock, paired, nodeConnected, timer, devices,
                   reloads, stopped, ws, up, nodeVars>>

ReceiveAuthenticated ==
    /\ Receives("authSucceeded")
    /\ call' = Without({Replied})
    /\ nodeConnected' = TRUE
    /\ stopped' = OthersPair(Replied)
    /\ UNCHANGED <<identity, stored, sock, paired, timer, devices, reloads, ws, up,
                   nodeVars>>

ReceiveError ==
    /\ Receives("error")
    /\ Throws(Replied)
    /\ UNCHANGED <<identity, stored, sock, paired, devices, reloads, stopped, ws, up,
                   nodeVars>>

(* verifyNodeSignature and signTranscript are awaited: meanwhile the       *)
(* socket may have been replaced, and the proof goes to the new one, or    *)
(* may have closed, and sendMessage throws.                                *)
Signed(c) ==
    /\ call[c].pc = "signing"
    /\ \/ /\ SocketOpen
          /\ up' = [up EXCEPT ![sock] = Append(@,
                      Msg(IF call[c].op = "pair" THEN "pairProof" ELSE "authProof",
                          c, call[c].dev, 0, call[c].of))]
          /\ call' = [call EXCEPT ![c].pc = "proof"]
          /\ UNCHANGED <<nodeConnected, timer>>
       \/ /\ ~SocketOpen
          /\ Throws(c)
          /\ UNCHANGED up
    /\ UNCHANGED <<identity, stored, sock, paired, devices, reloads, stopped, ws,
                   down, nodeVars>>

(* savePairedIdentity and the end of pair(): the socket is not looked at.  *)
Saved(c) ==
    /\ call[c].pc = "saving"
    /\ stored' = [device |-> call[c].dev, paired |-> TRUE]
    /\ identity' = stored'
    /\ paired' = TRUE /\ nodeConnected' = TRUE /\ stopped' = OthersPair(c)
    /\ call' = Without({c})
    /\ UNCHANGED <<sock, timer, devices, reloads, ws, up, down, nodeVars>>

(* node.disconnect, offered when paired.                                   *)
Disconnect ==
    /\ paired
    /\ ws' = [s \in Sockets |-> IF s = sock THEN "closed" ELSE ws[s]]
    /\ down' = [s \in Sockets |-> IF s = sock THEN <<>> ELSE down[s]]
    /\ sock' = 0
    /\ call' = Without(Rejected)
    /\ nodeConnected' = FALSE
    /\ timer' = Rescheduled(Rejected)
    /\ stopped' = TRUE
    /\ UNCHANGED <<identity, stored, paired, devices, reloads, up, nodeVars>>

(* The page starts over from IndexedDB; a save that was under way may have *)
(* been committed, or the user has cleared the site's data.                *)
(* initializeIdentity precedes everything else.                            *)
Reload(record) ==
    /\ reloads < MaxReloads
    /\ reloads' = reloads + 1
    /\ stored' = record /\ identity' = record
    /\ paired' = record.paired /\ timer' = record.paired
    /\ call' = [c \in Calls |-> Idle]
    /\ ws' = [s \in Sockets |-> IF s = sock THEN "closed" ELSE ws[s]]
    /\ down' = [s \in Sockets |-> IF s = sock THEN <<>> ELSE down[s]]
    /\ sock' = 0 /\ nodeConnected' = FALSE /\ stopped' = FALSE
    /\ UNCHANGED <<devices, up, nodeVars>>

Committable ==
    {stored} \cup {[device |-> call[c].dev, paired |-> TRUE] :
                       c \in {d \in Calls : call[d].pc = "saving"}}

-----------------------------------------------------------------------------
(* SealNode                                                                *)

(* run() takes the next message of a connection; its handlers keep no      *)
(* state across an await, so each is one step.                             *)
Handles(s, kind) ==
    /\ nodeUp /\ conn[s].live
    /\ up[s] # <<>>
    /\ Head(up[s]).kind = kind
    /\ up' = [up EXCEPT ![s] = Tail(@)]

Reply(s, kind) ==
    down' = IF ws[s] = "open"
            THEN [down EXCEPT ![s] = Append(@, Msg(kind, Head(up[s]).call, 0, 0, 0))]
            ELSE down

NodeKeeps == UNCHANGED <<clientVars, ws, nodeUp, epoch, pinExpired>>

PairBegin(s) ==
    /\ Handles(s, "pairBegin")
    /\ conn[s].who = 0 /\ ~pinExpired
    /\ Head(up[s]).code = epoch
    /\ conn' = [conn EXCEPT ![s].pair = Head(up[s]).dev]
    /\ Reply(s, "challenge")
    /\ UNCHANGED <<trust, trustFile, pinAttempts>> /\ NodeKeeps

(* A code that has expired, which only this check finds out, or a wrong    *)
(* one; too many wrong ones close the socket.                              *)
PairBeginRefused(s) ==
    /\ Handles(s, "pairBegin")
    /\ \/ /\ conn[s].who # 0
          /\ UNCHANGED <<pinExpired, pinAttempts, conn>>
       \/ /\ conn[s].who = 0
          /\ pinExpired' = TRUE
          /\ UNCHANGED <<pinAttempts, conn>>
       \/ /\ conn[s].who = 0 /\ ~pinExpired /\ Head(up[s]).code # epoch
          /\ pinAttempts' = IF pinAttempts < MaxPinAttempts THEN pinAttempts + 1
                            ELSE pinAttempts
          /\ conn' = IF pinAttempts' >= MaxPinAttempts
                     THEN [conn EXCEPT ![s] = NoConn] ELSE conn
          /\ UNCHANGED pinExpired
    /\ Reply(s, "error")
    /\ UNCHANGED <<clientVars, ws, nodeUp, trust, trustFile, epoch>>

Challenged(s, pending) == pending # 0 /\ Head(up[s]).of = s

(* upsert_device takes the device unless the limit is reached.             *)
HasRoom(device) == device \in trust \/ Cardinality(trust) < MaxPaired

(* Mutation: the reply does not depend on _save.                           *)
PairProofUnsaved(s) ==
    /\ Handles(s, "pairProof")
    /\ Challenged(s, conn[s].pair)
    /\ HasRoom(conn[s].pair)
    /\ trust' = trust \cup {conn[s].pair}
    /\ trustFile' \in {trustFile, trust'}
    /\ conn' = [conn EXCEPT ![s].pair = 0, ![s].who = conn[s].pair]
    /\ Reply(s, "pairSucceeded")
    /\ UNCHANGED pinAttempts /\ NodeKeeps

(* The device is trusted and the whole registry replaced on disk before    *)
(* the PWA is told.                                                        *)
PairProof(s) ==
    /\ Handles(s, "pairProof")
    /\ Challenged(s, conn[s].pair)
    /\ HasRoom(conn[s].pair)
    /\ trust' = trust \cup {conn[s].pair}
    /\ trustFile' = trust'
    /\ conn' = [conn EXCEPT ![s].pair = 0, ![s].who = conn[s].pair]
    /\ Reply(s, "pairSucceeded")
    /\ UNCHANGED pinAttempts /\ NodeKeeps

(* _save raises: the device stays trusted in memory only.                  *)
PairProofSaveFails(s) ==
    /\ Handles(s, "pairProof")
    /\ Challenged(s, conn[s].pair)
    /\ HasRoom(conn[s].pair)
    /\ trust' = trust \cup {conn[s].pair}
    /\ Reply(s, "error")
    /\ UNCHANGED <<conn, trustFile, pinAttempts>> /\ NodeKeeps

(* Mutation: a refused proof ends the challenge.                           *)
PairProofConsumed(s) ==
    /\ Handles(s, "pairProof")
    /\ ~(Challenged(s, conn[s].pair) /\ HasRoom(conn[s].pair))
    /\ Reply(s, "error")
    /\ conn' = [conn EXCEPT ![s].pair = 0, ![s].auth = 0]
    /\ UNCHANGED <<trust, trustFile, pinAttempts>> /\ NodeKeeps

PairProofRefused(s) ==
    /\ Handles(s, "pairProof")
    /\ ~(Challenged(s, conn[s].pair) /\ HasRoom(conn[s].pair))
    /\ Reply(s, "error")
    /\ UNCHANGED <<conn, trust, trustFile, pinAttempts>> /\ NodeKeeps

AuthBegin(s) ==
    /\ Handles(s, "authBegin")
    /\ \/ /\ conn[s].who = 0 /\ Head(up[s]).dev \in trust
          /\ conn' = [conn EXCEPT ![s].auth = Head(up[s]).dev]
          /\ Reply(s, "challenge")
       \/ /\ conn[s].who # 0 \/ Head(up[s]).dev \notin trust
          /\ Reply(s, "error")
          /\ UNCHANGED conn
    /\ UNCHANGED <<trust, trustFile, pinAttempts>> /\ NodeKeeps

(* Mutation: the connection is not marked as authenticated.                *)
AuthProofUnmarked(s) ==
    /\ Handles(s, "authProof")
    /\ Challenged(s, conn[s].auth)
    /\ conn' = [conn EXCEPT ![s].auth = 0]
    /\ Reply(s, "authSucceeded")
    /\ UNCHANGED <<trust, trustFile, pinAttempts>> /\ NodeKeeps

AuthProof(s) ==
    /\ Handles(s, "authProof")
    /\ \/ /\ Challenged(s, conn[s].auth)
          /\ conn' = [conn EXCEPT ![s].auth = 0, ![s].who = conn[s].auth]
          /\ Reply(s, "authSucceeded")
       \/ /\ ~Challenged(s, conn[s].auth)
          /\ Reply(s, "error")
          /\ UNCHANGED conn
    /\ UNCHANGED <<trust, trustFile, pinAttempts>> /\ NodeKeeps

(* run() ends when the socket the PWA closed has nothing more to read.     *)
ConnectionEnds(s) ==
    /\ conn[s].live /\ ws[s] = "closed" /\ up[s] = <<>>
    /\ conn' = [conn EXCEPT ![s] = NoConn]
    /\ UNCHANGED <<clientVars, ws, up, down, nodeUp, trust, trustFile, epoch,
                   pinAttempts, pinExpired>>

NodeCrashes ==
    /\ nodeUp
    /\ epoch <= MaxCrashes /\ Bounded
    /\ nodeUp' = FALSE
    /\ conn' = [s \in Sockets |-> NoConn]
    /\ up' = [s \in Sockets |-> <<>>]
    /\ UNCHANGED <<clientVars, ws, down, trust, trustFile, epoch, pinAttempts,
                   pinExpired>>

(* main(): the registry is read back and a new pairing code printed.       *)
NodeStarts ==
    /\ ~nodeUp
    /\ nodeUp' = TRUE
    /\ trust' = trustFile
    /\ epoch' = epoch + 1 /\ pinAttempts' = 0 /\ pinExpired' = FALSE
    /\ UNCHANGED <<clientVars, ws, up, down, conn, trustFile>>

-----------------------------------------------------------------------------
CallNext(c) ==
    \/ \E code \in {0, epoch} : StartPair(c, code)
    \/ KeyReady(c) \/ TimerFires(c) \/ SocketOpens(c) \/ Signed(c) \/ Saved(c)

ClientNext ==
    \/ \E c \in Calls : CallNext(c)
    \/ SocketFails
    \/ ReceiveChallenge \/ ReceivePaired \/ ReceiveAuthenticated \/ ReceiveError
    \/ Disconnect
    \/ \E record \in Committable : Reload(record)
    \/ Reload(NoIdentity)

HandlerNext(s) ==
    \/ PairBegin(s) \/ PairBeginRefused(s)
    \/ PairProof(s) \/ PairProofSaveFails(s) \/ PairProofRefused(s)
    \/ AuthBegin(s) \/ AuthProof(s)

NodeNext ==
    \/ \E s \in Sockets : HandlerNext(s) \/ ConnectionEnds(s)
    \/ NodeCrashes \/ NodeStarts

Next == ClientNext \/ NodeNext

Spec == Init /\ [][Next]_vars

(* No attempt to connect is under way.                                     *)
Prompt == \A c \in Calls : call[c].op # "connect"
ReconnectTimer == \E c \in Calls : TimerFires(c)

(* The browser and the Node run what is ready; a crashed Node is started   *)
(* again.  What the user does, crashes and reloads are free.               *)
FairSpec ==
    /\ Spec
    /\ \A c \in Calls : WF_vars(KeyReady(c) \/ SocketOpens(c) \/ Signed(c) \/ Saved(c))
    /\ WF_vars(Prompt /\ ReconnectTimer)
    /\ WF_vars(SocketFails)
    /\ WF_vars(ReceiveChallenge \/ ReceivePaired \/ ReceiveAuthenticated
               \/ ReceiveError)
    /\ \A s \in Sockets : WF_vars(HandlerNext(s)) /\ WF_vars(ConnectionEnds(s))
    /\ WF_vars(NodeStarts)

-----------------------------------------------------------------------------
(* Properties                                                              *)

Devices == 0..MaxDevices
Codes == 0..(MaxCrashes + 1)
Identity == [device : Devices, paired : BOOLEAN]
Message ==
    [kind : {"pairBegin", "pairProof", "authBegin", "authProof", "challenge",
             "pairSucceeded", "authSucceeded", "error"},
     call : Calls, dev : Devices, code : Codes, of : Sockets \cup {0}]

(* Every variable keeps its type.                                          *)
TypeOK ==
    /\ call \in [Calls ->
           [op : {"none", "pair", "connect"},
            pc : {"idle", "keying", "opening", "challenge", "signing", "proof",
                  "saving"},
            dev : Devices, code : Codes, of : Sockets \cup {0}]]
    /\ identity \in Identity /\ stored \in Identity
    /\ sock \in Sockets \cup {0}
    /\ paired \in BOOLEAN /\ nodeConnected \in BOOLEAN /\ timer \in BOOLEAN
    /\ devices \in Devices /\ reloads \in 0..MaxReloads /\ stopped \in BOOLEAN
    /\ ws \in [Sockets -> {"closed", "connecting", "open"}]
    /\ up \in [Sockets -> Seq(Message)] /\ down \in [Sockets -> Seq(Message)]
    /\ nodeUp \in BOOLEAN
    /\ conn \in [Sockets -> [live : BOOLEAN, pair : Devices, auth : Devices,
                             who : Devices]]
    /\ trust \subseteq Devices /\ trustFile \subseteq Devices
    /\ epoch \in 1..(MaxCrashes + 1)
    /\ pinAttempts \in 0..MaxPinAttempts /\ pinExpired \in BOOLEAN

(* A browser that believes it is paired, in memory or after any reload, is *)
(* trusted by the Node, now and after any restart.                         *)
PairedIsTrusted ==
    /\ stored.paired => stored.device \in trustFile
    /\ identity.paired => identity.device \in trustFile
    /\ trustFile \subseteq trust \/ ~nodeUp

(* The Node refuses no proof that answers its own challenge, whatever      *)
(* proofs of other calls reach the connection first; a pairing may only    *)
(* run into the limit of devices or a registry that cannot be written.     *)
OwnProofAccepted ==
    \A s \in Sockets : (conn[s].live /\ up[s] # <<>> /\ Head(up[s]).of = s) =>
        /\ Head(up[s]).kind = "pairProof" => conn[s].pair = Head(up[s]).dev
        /\ Head(up[s]).kind = "authProof" => conn[s].auth = Head(up[s]).dev

(* A reply finds the call that made the request still waiting for it, and  *)
(* success is only reported on a connection authenticated for its device.  *)
RepliesAreAwaited ==
    sock # 0 => \A i \in 1..Len(down[sock]) :
        LET m == down[sock][i] IN
        /\ m.kind = "challenge" => call[m.call].pc = "challenge"
        /\ m.kind \in {"pairSucceeded", "authSucceeded"} =>
               /\ call[m.call].pc = "proof"
               /\ conn[sock].live => conn[sock].who = call[m.call].dev

(* A page that is paired and stays so gets its connection, at its start    *)
(* and whenever it is lost, unless the user disconnected or started to     *)
(* pair; provided that from some time on an attempt to connect is over,    *)
(* one way or the other, when the two seconds of the reconnect timer are.  *)
Reconnects ==
    <>[][ReconnectTimer => Prompt]_vars =>
        ((paired /\ ~nodeConnected) ~> (nodeConnected \/ stopped \/ ~paired))
=============================================================================
