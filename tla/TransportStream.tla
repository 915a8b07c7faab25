-------------------------- MODULE TransportStream --------------------------
(***************************************************************************)
(* One open TCP stream of one authenticated SealNode connection, from the  *)
(* libssh2 runtime in the PWA to the remote peer and back:                 *)
(*                                                                         *)
(*   libssh2 --customSend--> NodeSessionTransport ==c2n==> run loop --> TCP *)
(*   libssh2 <--onData------ NodeSessionTransport <==n2c== pump task <-- TCP *)
(*                                                                         *)
(* The two WebSocket directions c2n and n2c are FIFO.  The Node handles    *)
(* c2n strictly one message at a time (ClientConnection.run awaits every   *)
(* dispatch) while the pump task of the stream runs concurrently.          *)
(*                                                                         *)
(* A payload is the interval [lo, hi) of stream offsets it carries; src is *)
(* the offset of its first byte in the order libssh2 handed bytes over.  A *)
(* credit message acknowledges one payload, and its add_bytes is the size  *)
(* of that payload.                                                        *)
(***************************************************************************)
EXTENDS Integers, SequencesExt

CONSTANTS
    InitialCredit,  \* INITIAL_CREDIT_BYTES, in both directions
    MaxCredit,      \* MAX_CREDIT
    MaxPayload,     \* MAX_DATA_PAYLOAD
    MaxPacket,      \* largest buffer libssh2 passes to customSend (one chunk)
    HighWater,      \* the asyncio writer pauses above this many unsent bytes
    LowWater,       \* and resumes at or below this many
    PeerBuffer,     \* bytes the peer can write before the pump reads them
    UpBytes,        \* bound: bytes libssh2 sends in a behaviour
    DownBytes       \* bound: bytes the peer writes in a behaviour

ASSUME CreditAssumption ==
    /\ InitialCredit \in Nat \ {0}
    /\ MaxCredit \in Nat
    /\ InitialCredit <= MaxCredit

ASSUME SizeAssumption ==
    /\ MaxPayload \in Nat \ {0}
    /\ MaxPacket \in Nat \ {0}
    /\ MaxPacket <= MaxPayload
    /\ MaxPacket <= InitialCredit
    /\ PeerBuffer \in Nat \ {0}
    /\ HighWater \in Nat
    /\ LowWater \in Nat
    /\ LowWater <= HighWater
    /\ UpBytes \in Nat
    /\ DownBytes \in Nat

VARIABLES
    \* NodeSessionTransport
    pwaOpen,         \* connected and not closed
    inputCredit,     \* bytes it may still send
    inputSequence,   \* sequence of its next data message
    outputSequence,  \* sequence it expects from the Node
    waiting,         \* send() calls suspended in dataWaiters, oldest first
    woken,           \* resolved waiters whose continuation has not run yet
    handed,          \* bytes libssh2 passed to customSend so far
    \* the WebSocket
    c2n, n2c,
    wsOpen,          \* the Node's websocket still accepts send()
    \* ClientConnection.run and TcpStream
    loop,            \* where the run loop is
    held,            \* the payload accept_input is writing
    stream,          \* life cycle of the TcpStream
    closer,          \* task executing TransportStream.close
    input_credit, input_sequence,
    output_credit, output_sequence,
    pump,            \* where the pump task is
    read_size,       \* limit of the pump's current read
    \* the TCP connection and the peer
    sockOut,         \* bytes written and not yet read by the peer
    paused,          \* drain() is blocked
    peerOut,         \* bytes the peer wrote and the pump has not read
    peerWritten,     \* all bytes the peer wrote
    peerEof, reset,
    \* history: how far each byte stream has got
    upSent, upTaken, upCredited, upAcked,
    downRead, downGot, downAcked

pwaVars  == <<pwaOpen, inputCredit, inputSequence, outputSequence,
              waiting, woken, handed>>
nodeVars == <<loop, held, stream, closer, input_credit, input_sequence,
              output_credit, output_sequence, pump, read_size>>
peerVars == <<sockOut, paused, peerOut, peerWritten, peerEof, reset>>
upVars   == <<upSent, upTaken, upCredited, upAcked>>
downVars == <<downRead, downGot, downAcked>>
vars == <<pwaVars, c2n, n2c, wsOpen, nodeVars, peerVars, upVars, downVars>>

-----------------------------------------------------------------------------
(* Messages                                                                *)

Kinds == {"data", "credit", "close", "fin", "closed", "error"}

Message ==
    {m \in [kind : Kinds, seq : Nat, lo : Nat, hi : Nat, src : Nat] : m.lo <= m.hi}

Data(seq, lo, n, src) ==
    [kind |-> "data", seq |-> seq, lo |-> lo, hi |-> lo + n, src |-> src]

Credit(m) == [m EXCEPT !.kind = "credit"]

Control(kind) == [kind |-> kind, seq |-> 0, lo |-> 0, hi |-> 0, src |-> 0]

Size(m) == m.hi - m.lo

Smaller(a, b) == IF a < b THEN a ELSE b

Init ==
    /\ pwaOpen = TRUE
    /\ inputCredit = InitialCredit
    /\ inputSequence = 0 /\ outputSequence = 0
    /\ waiting = <<>> /\ woken = <<>>
    /\ handed = 0
    /\ c2n = <<>> /\ n2c = <<>> /\ wsOpen = TRUE
    /\ loop = "recv" /\ held = Control("fin")
    /\ stream = "open" /\ closer = "none"
    /\ input_credit = InitialCredit /\ output_credit = InitialCredit
    /\ input_sequence = 0 /\ output_sequence = 0
    /\ pump = "credit" /\ read_size = 0
    /\ sockOut = 0 /\ paused = FALSE
    /\ peerOut = 0 /\ peerWritten = 0 /\ peerEof = FALSE /\ reset = FALSE
    /\ upSent = 0 /\ upTaken = 0 /\ upCredited = 0 /\ upAcked = 0
    /\ downRead = 0 /\ downGot = 0 /\ downAcked = 0

-----------------------------------------------------------------------------
(* NodeSessionTransport (PWA)                                              *)

(* Mutation: the credit is not spent.                                      *)
TransmitUncharged(src, n) ==
    /\ inputCredit' = inputCredit
    /\ c2n' = Append(c2n, Data(inputSequence, upSent, n, src))
    /\ inputSequence' = inputSequence + 1
    /\ upSent' = upSent + n

(* The body of send() once the credit suffices: the sequence number is     *)
(* taken here, after any wait.                                             *)
Transmit(src, n) ==
    /\ inputCredit' = inputCredit - n
    /\ c2n' = Append(c2n, Data(inputSequence, upSent, n, src))
    /\ inputSequence' = inputSequence + 1
    /\ upSent' = upSent + n

(* libssh2 flushes a packet: customSend starts send() and does not await   *)
(* it, so send() either transmits at once or suspends in dataWaiters.      *)
CustomSend(n) ==
    /\ pwaOpen
    /\ handed + n <= UpBytes
    /\ handed' = handed + n
    /\ \/ /\ n <= inputCredit
          /\ Transmit(handed, n)
          /\ UNCHANGED waiting
       \/ /\ n > inputCredit
          /\ waiting' = Append(waiting, [src |-> handed, len |-> n])
          /\ UNCHANGED <<inputCredit, c2n, inputSequence, upSent>>
    /\ UNCHANGED <<pwaOpen, outputSequence, woken, n2c, wsOpen, nodeVars,
                   peerVars, upTaken, upCredited, upAcked, downVars>>

(* Mutation: a woken send() does not test the credit again.                *)
ResumeUntested ==
    /\ pwaOpen
    /\ woken # <<>>
    /\ woken' = Tail(woken)
    /\ Transmit(Head(woken).src, Head(woken).len)
    /\ UNCHANGED <<pwaOpen, outputSequence, waiting, handed, n2c, wsOpen,
                   nodeVars, peerVars, upTaken, upCredited, upAcked, downVars>>

(* The continuation of the oldest woken send(): it tests the credit again  *)
(* and suspends again when another send() was faster.  After close() the   *)
(* credit is spent and sendMessage throws.                                 *)
ResumeSend ==
    /\ woken # <<>>
    /\ woken' = Tail(woken)
    /\ LET w == Head(woken) IN
       \/ /\ w.len <= inputCredit
          /\ pwaOpen
          /\ Transmit(w.src, w.len)
          /\ UNCHANGED waiting
       \/ /\ w.len <= inputCredit
          /\ ~pwaOpen
          /\ inputCredit' = inputCredit - w.len
          /\ UNCHANGED <<waiting, c2n, inputSequence, upSent>>
       \/ /\ w.len > inputCredit
          /\ waiting' = Append(waiting, w)
          /\ UNCHANGED <<inputCredit, c2n, inputSequence, upSent>>
    /\ UNCHANGED <<pwaOpen, outputSequence, handed, n2c, wsOpen, nodeVars,
                   peerVars, upTaken, upCredited, upAcked, downVars>>

(* Continuations are microtasks: they run before the next message event.   *)
PwaTakes(kind) ==
    /\ pwaOpen
    /\ woken = <<>>
    /\ n2c # <<>>
    /\ Head(n2c).kind = kind
    /\ n2c' = Tail(n2c)

(* Mutation: the waiters are not resolved.                                 *)
WakeNone == UNCHANGED <<waiting, woken>>

(* dataWaiters.splice(0) resolves every waiter.                            *)
WakeAll == woken' = waiting /\ waiting' = <<>>

(* Mutation: no credit goes back for delivered data.                       *)
PwaDataUncredited ==
    /\ PwaTakes("data")
    /\ outputSequence' = outputSequence + 1
    /\ downGot' = downGot + Size(Head(n2c))
    /\ WakeAll
    /\ UNCHANGED <<pwaOpen, inputCredit, inputSequence, handed, c2n, wsOpen,
                   nodeVars, peerVars, upVars, downRead, downAcked>>

(* handleMessage, transportData: a message out of sequence is dropped, any *)
(* other is delivered and its credit returned at once.                     *)
PwaData ==
    /\ PwaTakes("data")
    /\ LET m == Head(n2c) IN
       IF m.seq = outputSequence
       THEN /\ outputSequence' = outputSequence + 1
            /\ downGot' = downGot + Size(m)
            /\ c2n' = Append(c2n, Credit(m))
            /\ WakeAll
       ELSE UNCHANGED <<outputSequence, downGot, c2n, waiting, woken>>
    /\ UNCHANGED <<pwaOpen, inputCredit, inputSequence, handed, wsOpen,
                   nodeVars, peerVars, upVars, downRead, downAcked>>

(* Mutation: the increment replaces the credit.                            *)
PwaCreditAssigned ==
    /\ PwaTakes("credit")
    /\ inputCredit' = Size(Head(n2c))
    /\ upAcked' = upAcked + Size(Head(n2c))
    /\ WakeAll
    /\ UNCHANGED <<pwaOpen, inputSequence, outputSequence, handed, c2n,
                   wsOpen, nodeVars, peerVars, upSent, upTaken, upCredited,
                   downVars>>

(* handleMessage, transportCredit with direction "input".                  *)
PwaCredit ==
    /\ PwaTakes("credit")
    /\ inputCredit' = inputCredit + Size(Head(n2c))
    /\ upAcked' = upAcked + Size(Head(n2c))
    /\ WakeAll
    /\ UNCHANGED <<pwaOpen, inputSequence, outputSequence, handed, c2n,
                   wsOpen, nodeVars, peerVars, upSent, upTaken, upCredited,
                   downVars>>

(* handleMessage, anything else: no request is pending under its empty     *)
(* request id, so a closed event or a stream error changes nothing.        *)
PwaIgnores ==
    /\ PwaTakes("closed") \/ PwaTakes("error")
    /\ UNCHANGED <<pwaVars, c2n, wsOpen, nodeVars, peerVars, upVars, downVars>>

(* NodeSessionTransport.close: a close request, then the socket's closing; *)
(* the suspended send() calls are resolved.                                *)
PwaClose ==
    /\ pwaOpen
    /\ pwaOpen' = FALSE
    /\ c2n' = Append(Append(c2n, Control("close")), Control("fin"))
    /\ woken' = woken \o waiting /\ waiting' = <<>>
    /\ UNCHANGED <<inputCredit, inputSequence, outputSequence, handed, n2c,
                   wsOpen, nodeVars, peerVars, upVars, downVars>>

(* The page and its worker go away (refresh, crash) without a request.     *)
PwaVanishes ==
    /\ pwaOpen
    /\ pwaOpen' = FALSE
    /\ c2n' = Append(c2n, Control("fin"))
    /\ woken' = <<>> /\ waiting' = <<>>
    /\ UNCHANGED <<inputCredit, inputSequence, outputSequence, handed, n2c,
                   wsOpen, nodeVars, peerVars, upVars, downVars>>

-----------------------------------------------------------------------------
(* ClientConnection (Node): the websocket and the run loop                 *)

(* websockets notices the closing handshake on its own; from then on       *)
(* websocket.send raises ConnectionClosed, whatever the run loop is doing. *)
SocketCloses ==
    /\ ~pwaOpen /\ wsOpen
    /\ wsOpen' = FALSE
    /\ UNCHANGED <<pwaVars, c2n, n2c, nodeVars, peerVars, upVars, downVars>>

(* ClientConnection.send                                                   *)
Reply(m) == n2c' = IF wsOpen THEN Append(n2c, m) ELSE n2c

(* Where the loop goes after a reply: the exception of a failed one leaves *)
(* the loop for the finally clause of run().                               *)
AfterReply == IF wsOpen THEN "recv" ELSE "finally"

NodeTakes(kind) ==
    /\ loop = "recv"
    /\ c2n # <<>>
    /\ Head(c2n).kind = kind
    /\ c2n' = Tail(c2n)

(* run() answers a ProtocolError with an error event.                      *)
Reject == Reply(Control("error")) /\ loop' = AfterReply

(* _transport_data up to the checks that precede input_sequence += 1.      *)
DataRefused ==
    /\ NodeTakes("data")
    /\ \/ stream = "closed"
       \/ Head(c2n).seq # input_sequence
    /\ Reject
    /\ UNCHANGED <<pwaVars, wsOpen, held, stream, closer, input_credit,
                   input_sequence, output_credit, output_sequence, pump,
                   read_size, peerVars, upVars, downVars>>

(* accept_input refuses the payload: the sequence has advanced already,    *)
(* and on a stream that is closing the credit has been taken as well.      *)
DataFails ==
    /\ NodeTakes("data")
    /\ stream # "closed"
    /\ Head(c2n).seq = input_sequence
    /\ LET n == Size(Head(c2n)) IN
       /\ \/ n > input_credit /\ UNCHANGED input_credit
          \/ n <= input_credit /\ stream # "open" /\ input_credit' = input_credit - n
       /\ upTaken' = upTaken + n
    /\ input_sequence' = input_sequence + 1
    /\ Reject
    /\ UNCHANGED <<pwaVars, wsOpen, held, stream, closer, output_credit,
                   output_sequence, pump, read_size, peerVars, upSent,
                   upCredited, upAcked, downVars>>

(* accept_input takes the payload and awaits writer.drain().               *)
DataAccepted ==
    /\ NodeTakes("data")
    /\ stream = "open"
    /\ Head(c2n).seq = input_sequence
    /\ LET n == Size(Head(c2n)) IN
       /\ n <= input_credit
       /\ input_credit' = input_credit - n
       /\ upTaken' = upTaken + n
       /\ sockOut' = sockOut + n
       /\ paused' = (paused \/ sockOut + n > HighWater)
    /\ input_sequence' = input_sequence + 1
    /\ held' = Head(c2n)
    /\ loop' = "drain"
    /\ UNCHANGED <<pwaVars, n2c, wsOpen, stream, closer, output_credit,
                   output_sequence, pump, read_size, peerOut, peerWritten,
                   peerEof, reset, upSent, upCredited, upAcked, downVars>>

(* drain() returns: the credit is restored and sent back to the PWA.       *)
DrainReturns ==
    /\ loop = "drain"
    /\ ~reset
    /\ ~paused
    /\ input_credit' = input_credit + Size(held)
    /\ Reply(Credit(held))
    /\ upCredited' = IF wsOpen THEN upCredited + Size(held) ELSE upCredited
    /\ loop' = AfterReply
    /\ UNCHANGED <<pwaVars, c2n, wsOpen, held, stream, closer, input_sequence,
                   output_credit, output_sequence, pump, read_size, peerVars,
                   upSent, upTaken, upAcked, downVars>>

(* drain() raises after a connection reset: the credit is not restored.    *)
DrainRaises ==
    /\ loop = "drain"
    /\ reset
    /\ Reject
    /\ UNCHANGED <<pwaVars, c2n, wsOpen, held, stream, closer, input_credit,
                   input_sequence, output_credit, output_sequence, pump,
                   read_size, peerVars, upVars, downVars>>

(* _transport_credit and add_output_credit.                                *)
CreditRefused ==
    /\ NodeTakes("credit")
    /\ \/ stream = "closed"
       \/ output_credit + Size(Head(c2n)) > MaxCredit
    /\ Reject
    /\ UNCHANGED <<pwaVars, wsOpen, held, stream, closer, input_credit,
                   input_sequence, output_credit, output_sequence, pump,
                   read_size, peerVars, upVars, downVars>>

CreditAdded ==
    /\ NodeTakes("credit")
    /\ stream # "closed"
    /\ output_credit + Size(Head(c2n)) <= MaxCredit
    /\ output_credit' = output_credit + Size(Head(c2n))
    /\ downAcked' = downAcked + Size(Head(c2n))
    /\ UNCHANGED <<pwaVars, n2c, wsOpen, loop, held, stream, closer,
                   input_credit, input_sequence, output_sequence, pump,
                   read_size, peerVars, upVars, downRead, downGot>>

(* Mutation: close() leaves the pump running.                              *)
LoopClosesOnly(next, escaped) ==
    /\ stream' = "closing" /\ closer' = "loop" /\ pump' = pump
    /\ loop' = next

(* TransportStream.close executed by the run loop on an open stream, which *)
(* goes on to step next.  It cancels the pump and awaits it: the exception *)
(* of a pump that had failed comes out of that await, and then neither     *)
(* _close_transport nor the removal from streams is reached.               *)
LoopCloses(next, escaped) ==
    \/ /\ pump # "failed"
       /\ stream' = "closing" /\ closer' = "loop" /\ pump' = "ended"
       /\ loop' = next
    \/ /\ pump = "failed"
       /\ stream' = "leaked" /\ closer' = closer /\ pump' = pump
       /\ loop' = escaped

(* _transport_close                                                        *)
CloseRequested ==
    /\ NodeTakes("close")
    /\ \/ stream = "open" /\ LoopCloses("closing", "finally")
       \/ stream # "open" /\ UNCHANGED <<stream, closer, pump, loop>>
    /\ UNCHANGED <<pwaVars, n2c, wsOpen, held, input_credit, input_sequence,
                   output_credit, output_sequence, read_size, peerVars,
                   upVars, downVars>>

(* The iteration over the websocket ends once its queue is empty.          *)
LoopEnds ==
    /\ NodeTakes("fin")
    /\ ~wsOpen
    /\ loop' = "finally"
    /\ UNCHANGED <<pwaVars, n2c, wsOpen, held, stream, closer, input_credit,
                   input_sequence, output_credit, output_sequence, pump,
                   read_size, peerVars, upVars, downVars>>

(* The finally clause of run(): close() returns at once on a stream that   *)
(* is closing or closed already.                                           *)
RunFinally ==
    /\ loop = "finally"
    /\ \/ stream = "open" /\ LoopCloses("closingAtEnd", "finished")
       \/ stream # "open" /\ loop' = "finished" /\ UNCHANGED <<stream, closer, pump>>
    /\ UNCHANGED <<pwaVars, c2n, n2c, wsOpen, held, input_credit,
                   input_sequence, output_credit, output_sequence, read_size,
                   peerVars, upVars, downVars>>

(* Mutation: wait_closed() misses a lost connection.                       *)
CloseNeedsFlush ==
    /\ stream = "closing"
    /\ sockOut = 0
    /\ stream' = "closed"
    /\ sockOut' = 0 /\ paused' = FALSE
    /\ loop' = IF closer = "pump" THEN loop
               ELSE IF loop = "closing" THEN AfterReply ELSE "finished"
    /\ IF loop = "closingAtEnd" THEN UNCHANGED n2c ELSE Reply(Control("closed"))
    /\ UNCHANGED <<pwaVars, c2n, wsOpen, held, closer, input_credit,
                   input_sequence, output_credit, output_sequence, pump,
                   read_size, peerOut, peerWritten, peerEof, reset, upVars,
                   downVars>>

(* writer.wait_closed() returns when the buffer is flushed or the          *)
(* connection is lost; close() drops the stream and announces it, except   *)
(* from the finally clause (notify=False).                                 *)
CloseFinishes ==
    /\ stream = "closing"
    /\ sockOut = 0 \/ reset
    /\ stream' = "closed"
    /\ sockOut' = 0 /\ paused' = FALSE
    /\ \/ closer = "pump" /\ Reply(Control("closed")) /\ UNCHANGED loop
       \/ /\ closer = "loop" /\ loop = "closing"
          /\ Reply(Control("closed")) /\ loop' = AfterReply
       \/ /\ closer = "loop" /\ loop = "closingAtEnd"
          /\ loop' = "finished" /\ UNCHANGED n2c
    /\ UNCHANGED <<pwaVars, c2n, wsOpen, held, closer, input_credit,
                   input_sequence, output_credit, output_sequence, pump,
                   read_size, peerOut, peerWritten, peerEof, reset, upVars,
                   downVars>>

-----------------------------------------------------------------------------
(* TcpStream._pump_output                                                  *)

(* The pump waits for credit and fixes the size of its next read.          *)
PumpArms ==
    /\ pump = "credit"
    /\ output_credit > 0
    /\ pump' = "read"
    /\ read_size' = Smaller(MaxPayload, output_credit)
    /\ UNCHANGED <<pwaVars, c2n, n2c, wsOpen, loop, held, stream, closer,
                   input_credit, input_sequence, output_credit,
                   output_sequence, peerVars, upVars, downVars>>

(* Mutation: the sequence number is reused.                                *)
SendDataUnnumbered(n) ==
    /\ output_credit' = output_credit - n
    /\ output_sequence' = output_sequence
    /\ Reply(Data(output_sequence, downRead, n, downRead))

(* Mutation: the output credit is not charged.                             *)
SendDataFree(n) ==
    /\ output_credit' = output_credit
    /\ output_sequence' = output_sequence + 1
    /\ Reply(Data(output_sequence, downRead, n, downRead))

(* send_data: the pump is the only consumer of output credit, so           *)
(* _take_output_credit never waits here.                                   *)
SendData(n) ==
    /\ output_credit' = output_credit - n
    /\ output_sequence' = output_sequence + 1
    /\ Reply(Data(output_sequence, downRead, n, downRead))

(* reader.read returns n bytes and send_data sends them.  When the socket  *)
(* has gone, send_data raises, the handler's own send_stream_error raises  *)
(* again, and the task ends with an exception, its stream still open.      *)
PumpReads(n) ==
    /\ pump = "read"
    /\ ~reset
    /\ n <= read_size /\ n <= peerOut
    /\ peerOut' = peerOut - n
    /\ SendData(n)
    /\ downRead' = IF wsOpen THEN downRead + n ELSE downRead
    /\ pump' = IF wsOpen THEN "credit" ELSE "failed"
    /\ UNCHANGED <<pwaVars, c2n, wsOpen, loop, held, stream, closer,
                   input_credit, input_sequence, read_size, sockOut, paused,
                   peerWritten, peerEof, reset, upVars, downGot, downAcked>>

(* reader.read returns b"": the pump closes the stream.                    *)
PumpEof ==
    /\ pump = "read"
    /\ ~reset
    /\ peerEof /\ peerOut = 0
    /\ pump' = "ended" /\ stream' = "closing" /\ closer' = "pump"
    /\ UNCHANGED <<pwaVars, c2n, n2c, wsOpen, loop, held, input_credit,
                   input_sequence, output_credit, output_sequence, read_size,
                   peerVars, upVars, downVars>>

(* reader.read raises: report the error, then close.                       *)
PumpError ==
    /\ pump = "read"
    /\ reset
    /\ Reply(Control("error"))
    /\ \/ wsOpen /\ pump' = "ended" /\ stream' = "closing" /\ closer' = "pump"
       \/ ~wsOpen /\ pump' = "failed" /\ UNCHANGED <<stream, closer>>
    /\ UNCHANGED <<pwaVars, c2n, wsOpen, loop, held, input_credit,
                   input_sequence, output_credit, output_sequence, read_size,
                   peerVars, upVars, downVars>>

-----------------------------------------------------------------------------
(* The remote peer (environment)                                           *)

PeerReads(n) ==
    /\ ~reset
    /\ n <= sockOut
    /\ sockOut' = sockOut - n
    /\ paused' = (paused /\ sockOut - n > LowWater)
    /\ UNCHANGED <<pwaVars, c2n, n2c, wsOpen, nodeVars, peerOut, peerWritten,
                   peerEof, reset, upVars, downVars>>

PeerWrites(n) ==
    /\ stream = "open" /\ ~peerEof /\ ~reset
    /\ peerWritten + n <= DownBytes
    /\ peerOut + n <= PeerBuffer
    /\ peerOut' = peerOut + n
    /\ peerWritten' = peerWritten + n
    /\ UNCHANGED <<pwaVars, c2n, n2c, wsOpen, nodeVars, sockOut, paused,
                   peerEof, reset, upVars, downVars>>

PeerEnds ==
    /\ stream = "open" /\ ~peerEof /\ ~reset
    /\ peerEof' = TRUE
    /\ UNCHANGED <<pwaVars, c2n, n2c, wsOpen, nodeVars, sockOut, paused,
                   peerOut, peerWritten, reset, upVars, downVars>>

PeerResets ==
    /\ stream # "closed" /\ ~reset
    /\ reset' = TRUE
    /\ UNCHANGED <<pwaVars, c2n, n2c, wsOpen, nodeVars, sockOut, paused,
                   peerOut, peerWritten, peerEof, upVars, downVars>>

-----------------------------------------------------------------------------
PwaNext ==
    \/ \E n \in 1..MaxPacket : CustomSend(n)
    \/ ResumeSend \/ PwaData \/ PwaCredit \/ PwaIgnores
    \/ PwaClose \/ PwaVanishes

LoopNext ==
    \/ SocketCloses
    \/ DataRefused \/ DataFails \/ DataAccepted \/ DrainReturns \/ DrainRaises
    \/ CreditRefused \/ CreditAdded
    \/ CloseRequested \/ LoopEnds \/ RunFinally \/ CloseFinishes

PumpNext ==
    \/ PumpArms \/ PumpEof \/ PumpError
    \/ \E n \in 1..MaxPayload : PumpReads(n)

PeerNext ==
    \/ \E n \in 1..(HighWater + MaxPacket) : PeerReads(n)
    \/ \E n \in 1..PeerBuffer : PeerWrites(n)
    \/ PeerEnds \/ PeerResets

Next == PwaNext \/ LoopNext \/ PumpNext \/ PeerNext

Spec == Init /\ [][Next]_vars

(* The browser runs its event loop and the Node its tasks; the timing of   *)
(* libssh2, of the peer's writes, of closes and of failures is free.       *)
TaskFairness ==
    /\ WF_vars(ResumeSend \/ PwaData \/ PwaCredit \/ PwaIgnores)
    /\ WF_vars(SocketCloses)
    /\ WF_vars(DataRefused \/ DataFails \/ DataAccepted \/ DrainReturns
               \/ DrainRaises \/ CreditRefused \/ CreditAdded
               \/ CloseRequested \/ LoopEnds \/ RunFinally)
    /\ WF_vars(CloseFinishes)
    /\ WF_vars(PumpNext)

(* A peer that never stops reading.                                        *)
DiligentPeer == WF_vars(\E n \in 1..(HighWater + MaxPacket) : PeerReads(n))

FairSpec == Spec /\ TaskFairness /\ DiligentPeer

-----------------------------------------------------------------------------
(* Properties                                                              *)

(* Every variable keeps its type; credits in particular never go negative. *)
TypeOK ==
    /\ pwaOpen \in BOOLEAN
    /\ inputCredit \in Nat /\ inputSequence \in Nat /\ outputSequence \in Nat
    /\ waiting \in Seq([src : Nat, len : 1..MaxPacket])
    /\ woken \in Seq([src : Nat, len : 1..MaxPacket])
    /\ handed \in Nat
    /\ c2n \in Seq(Message) /\ n2c \in Seq(Message) /\ wsOpen \in BOOLEAN
    /\ loop \in {"recv", "drain", "closing", "finally", "closingAtEnd",
                 "finished"}
    /\ held \in Message
    /\ stream \in {"open", "closing", "closed", "leaked"}
    /\ closer \in {"none", "loop", "pump"}
    /\ input_credit \in Nat /\ input_sequence \in Nat
    /\ output_credit \in Nat /\ output_sequence \in Nat
    /\ pump \in {"credit", "read", "ended", "failed"}
    /\ read_size \in Nat
    /\ sockOut \in Nat /\ paused \in BOOLEAN
    /\ peerOut \in Nat /\ peerWritten \in Nat
    /\ peerEof \in BOOLEAN /\ reset \in BOOLEAN
    /\ upSent \in Nat /\ upTaken \in Nat /\ upCredited \in Nat /\ upAcked \in Nat
    /\ downRead \in Nat /\ downGot \in Nat /\ downAcked \in Nat

(* The Node never answers the PWA's data with sequence_error or            *)
(* credit_exhausted, nor its credit with "credit exceeds the stream        *)
(* limit", whatever closes, resets and failures happen in between.         *)
NoProtocolError ==
    (loop = "recv" /\ c2n # <<>> /\ stream # "closed") =>
        LET m == Head(c2n) IN
        /\ m.kind = "data" => m.seq = input_sequence /\ Size(m) <= input_credit
        /\ m.kind = "credit" => output_credit + Size(m) <= MaxCredit

(* The sequence test of handleMessage never drops data: what the PWA gets  *)
(* next is what follows the bytes delivered so far.                        *)
DownInOrder ==
    (n2c # <<>> /\ Head(n2c).kind = "data") =>
        Head(n2c).seq = outputSequence /\ Head(n2c).lo = downGot

(* A suspended send() always lacks credit: none sleeps through the credit  *)
(* it was waiting for.                                                     *)
NoLostWakeup == \A i \in 1..Len(waiting) : waiting[i].len > inputCredit

(* Bytes carried, or granted, by the messages of one kind in a channel.    *)
InFlight(channel, kind) ==
    FoldSeq(LAMBDA m, total : total + (IF m.kind = kind THEN Size(m) ELSE 0),
            0, channel)

(* No input credit is created or lost on a live stream: it is at the PWA,  *)
(* spent on data on its way, held by accept_input, or on its way back.     *)
UpCreditConserved ==
    (pwaOpen /\ stream = "open" /\ ~reset /\ loop \in {"recv", "drain"}) =>
        inputCredit + InFlight(c2n, "data")
            + (IF loop = "drain" THEN Size(held) ELSE 0)
            + InFlight(n2c, "credit") = InitialCredit

(* Nor is output credit, as long as the pump lives.                        *)
DownCreditConserved ==
    (stream = "open" /\ pump # "failed") =>
        output_credit + InFlight(n2c, "data") + InFlight(c2n, "credit")
            = InitialCredit

(* In both directions, the credit that a live stream began with is all     *)
(* there, and no more.                                                     *)
CreditConserved == UpCreditConserved /\ DownCreditConserved

(* A stream announces its end once, and sends no data after it.            *)
ClosedIsFinal ==
    \A i, j \in 1..Len(n2c) :
        (i < j /\ n2c[i].kind = "closed") => n2c[j].kind \notin {"closed", "data"}

(* Each direction implements the windowed pipe.                            *)
UpPipe == INSTANCE WindowedPipe WITH
    Window <- InitialCredit, sent <- upSent, got <- upTaken, acked <- upAcked

DownPipe == INSTANCE WindowedPipe WITH
    Window <- InitialCredit, sent <- downRead, got <- downGot, acked <- downAcked

(* Bytes from the PWA to the peer: credit keeps at most InitialCredit of   *)
(* them outstanding, and the Node takes them in the order they were sent.  *)
UpRefines == UpPipe!Spec

(* The same for the bytes the pump reads from the peer.                    *)
DownRefines == DownPipe!Spec

(* A stream implements a windowed pipe in each direction at once.          *)
Refines == UpRefines /\ DownRefines

Alive == pwaOpen /\ stream = "open" /\ ~reset

(* All libssh2 hands over is written to the peer while both ends live.     *)
SentIsTaken == \A n \in 1..UpBytes : handed >= n ~> upTaken >= n \/ ~Alive

(* All the peer writes reaches libssh2 while both ends live.               *)
PeerOutputArrives ==
    \A n \in 1..DownBytes : peerWritten >= n ~> downGot >= n \/ ~Alive

(* Once the PWA is gone the connection's run loop comes to its end.        *)
EndsWithPwa == ~pwaOpen ~> loop = "finished"

(* "transported through SealNode as opaque bytes": the bytes leave in the  *)
(* order libssh2 handed them to customSend.                                *)
OpaqueBytes ==
    \A i \in 1..Len(c2n) : c2n[i].kind = "data" => c2n[i].src = c2n[i].lo
=============================================================================
