---------------------------- MODULE WindowedPipe ----------------------------
(***************************************************************************)
(* What one direction of a SealNode transport stream promises: an ordered  *)
(* pipe of bytes, identified by their offset, in which the sender is never *)
(* more than Window bytes ahead of what the receiver has granted back.     *)
(* The credit messages of contracts/seal.proto exist to provide this.      *)
(***************************************************************************)
EXTENDS Naturals

CONSTANT Window

VARIABLES
    sent,   \* bytes handed to the transport
    got,    \* bytes the other end has taken, a prefix of those sent
    acked   \* bytes whose credit is back at the sender

pipeVars == <<sent, got, acked>>

Init == sent = 0 /\ got = 0 /\ acked = 0

(* The sender spends credit.                                               *)
Send(n) ==
    /\ sent + n <= acked + Window
    /\ sent' = sent + n
    /\ UNCHANGED <<got, acked>>

(* The receiver takes the next n bytes.                                    *)
Take(n) ==
    /\ got + n <= sent
    /\ got' = got + n
    /\ UNCHANGED <<sent, acked>>

(* Credit for bytes that were taken comes back.                            *)
Ack(n) ==
    /\ acked + n <= got
    /\ acked' = acked + n
    /\ UNCHANGED <<sent, got>>

Next == \E n \in 0..Window : Send(n) \/ Take(n) \/ Ack(n)

Spec == Init /\ [][Next]_pipeVars
=============================================================================
