----------------------- MODULE TransportStreamProofs -----------------------
(***************************************************************************)
(* Theorems about TransportStream for every credit, payload and buffer     *)
(* size the assumptions allow: first its channels, then types and credit,  *)
(* then from the credit invariant that both directions of a stream         *)
(* implement WindowedPipe, that no send() sleeps through its credit, that  *)
(* nothing follows the closed event of a stream, and that credit is        *)
(* conserved to the byte.                                                  *)
(***************************************************************************)
EXTENDS TransportStream, FiniteSetTheorems, WellFoundedInduction, TLAPS

-----------------------------------------------------------------------------
(* FIFO channels: what it means that the messages of one kind carry a      *)
(* gapless run of bytes or of sequence numbers, and how sending (Append)   *)
(* and receiving (Head, Tail) preserve it.                                 *)

LEMMA HeadTail ==
    ASSUME NEW S, NEW q \in Seq(S), q # <<>>
    PROVE  /\ Head(q) \in S
           /\ Head(q) = q[1]
           /\ Tail(q) \in Seq(S)
           /\ Len(Tail(q)) = Len(q) - 1
           /\ Len(q) \in Nat \ {0}
           /\ \A i \in 1..Len(Tail(q)) : Tail(q)[i] = q[i + 1]
OBVIOUS

LEMMA Appended ==
    ASSUME NEW S, NEW q \in Seq(S), NEW m \in S
    PROVE  /\ Append(q, m) \in Seq(S)
           /\ Len(Append(q, m)) = Len(q) + 1
           /\ Len(q) \in Nat
           /\ \A i \in 1..Len(q) : Append(q, m)[i] = q[i]
           /\ Append(q, m)[Len(q) + 1] = m
OBVIOUS

-----------------------------------------------------------------------------
(* The messages of one kind in a channel carry exactly the bytes from..to, *)
(* in order and without gaps: pos[i] is how far the first i messages get.  *)
Contiguous(q, kind, from, to) ==
    \E pos \in [0..Len(q) -> from..to] :
        /\ pos[0] = from
        /\ pos[Len(q)] = to
        /\ \A i, j \in 0..Len(q) : i <= j => pos[i] <= pos[j]
        /\ \A i \in 1..Len(q) :
              IF q[i].kind = kind
              THEN q[i].lo = pos[i - 1] /\ q[i].hi = pos[i]
              ELSE pos[i] = pos[i - 1]

LEMMA ContiguousEmpty ==
    ASSUME NEW kind, NEW from \in Nat
    PROVE  Contiguous(<<>>, kind, from, from)
<1>. DEFINE pos == [i \in 0..0 |-> from]
<1>1. pos \in [0..Len(<<>>) -> from..from] /\ Len(<<>>) = 0
  OBVIOUS
<1>2. /\ pos[0] = from
      /\ pos[Len(<<>>)] = from
      /\ \A i, j \in 0..Len(<<>>) : i <= j => pos[i] <= pos[j]
  BY <1>1
<1>. HIDE DEF pos
<1>. QED
  BY <1>1, <1>2 DEF Contiguous

LEMMA ContiguousBounds ==
    ASSUME NEW q \in Seq(Message), NEW kind, NEW from \in Nat, NEW to \in Nat,
           Contiguous(q, kind, from, to)
    PROVE  from <= to
BY DEF Contiguous

LEMMA ContiguousAppend ==
    ASSUME NEW q \in Seq(Message), NEW kind, NEW from \in Nat, NEW to \in Nat,
           NEW m \in Message, m.kind = kind, m.lo = to, m.lo <= m.hi,
           Contiguous(q, kind, from, to)
    PROVE  Contiguous(Append(q, m), kind, from, m.hi)
<1>1. PICK pos \in [0..Len(q) -> from..to] :
        /\ pos[0] = from
        /\ pos[Len(q)] = to
        /\ \A i, j \in 0..Len(q) : i <= j => pos[i] <= pos[j]
        /\ \A i \in 1..Len(q) :
              IF q[i].kind = kind
              THEN q[i].lo = pos[i - 1] /\ q[i].hi = pos[i]
              ELSE pos[i] = pos[i - 1]
  BY DEF Contiguous
<1>. DEFINE Q == Append(q, m)
            next == [i \in 0..Len(Q) |-> IF i <= Len(q) THEN pos[i] ELSE m.hi]
<1>2. Len(Q) = Len(q) + 1 /\ Len(q) \in Nat
  BY Appended
<1>3. m.hi \in Nat /\ m.lo \in Nat /\ to <= m.hi
  BY DEF Message
<1>4. next \in [0..Len(Q) -> from..(m.hi)]
  BY <1>1, <1>2, <1>3
<1>5. next[0] = from /\ next[Len(Q)] = m.hi
  BY <1>1, <1>2
<1>6. \A i, j \in 0..Len(Q) : i <= j => next[i] <= next[j]
  BY <1>1, <1>2, <1>3
<1>7. ASSUME NEW i \in 1..Len(Q)
      PROVE  IF Q[i].kind = kind
             THEN Q[i].lo = next[i - 1] /\ Q[i].hi = next[i]
             ELSE next[i] = next[i - 1]
  <2>1. CASE i <= Len(q)
    <3>1. i \in 1..Len(q) /\ Q[i] = q[i]
      BY <2>1, <1>2, Appended
    <3>2. next[i] = pos[i] /\ next[i - 1] = pos[i - 1]
      BY <3>1, <1>2
    <3>. QED
      BY <3>1, <3>2, <1>1
  <2>2. CASE i > Len(q)
    <3>1. i = Len(q) + 1 /\ Q[i] = m
      BY <2>2, <1>2, Appended
    <3>2. next[i] = m.hi /\ next[i - 1] = to
      BY <3>1, <1>1, <1>2
    <3>. QED
      BY <3>1, <3>2
  <2>. QED
    BY <2>1, <2>2, <1>2
<1>. HIDE DEF next
<1>. QED
  BY <1>4, <1>5, <1>6, <1>7 DEF Contiguous

LEMMA ContiguousPass ==
    ASSUME NEW q \in Seq(Message), NEW kind, NEW from \in Nat, NEW to \in Nat,
           NEW m \in Message, m.kind # kind,
           Contiguous(q, kind, from, to)
    PROVE  Contiguous(Append(q, m), kind, from, to)
<1>1. PICK pos \in [0..Len(q) -> from..to] :
        /\ pos[0] = from
        /\ pos[Len(q)] = to
        /\ \A i, j \in 0..Len(q) : i <= j => pos[i] <= pos[j]
        /\ \A i \in 1..Len(q) :
              IF q[i].kind = kind
              THEN q[i].lo = pos[i - 1] /\ q[i].hi = pos[i]
              ELSE pos[i] = pos[i - 1]
  BY DEF Contiguous
<1>. DEFINE Q == Append(q, m)
            next == [i \in 0..Len(Q) |-> IF i <= Len(q) THEN pos[i] ELSE to]
<1>2. Len(Q) = Len(q) + 1 /\ Len(q) \in Nat
  BY Appended
<1>3. m.hi \in Nat /\ m.lo \in Nat /\ to <= to
  BY DEF Message
<1>4. next \in [0..Len(Q) -> from..(to)]
  BY <1>1, <1>2, <1>3
<1>5. next[0] = from /\ next[Len(Q)] = to
  BY <1>1, <1>2
<1>6. \A i, j \in 0..Len(Q) : i <= j => next[i] <= next[j]
  BY <1>1, <1>2, <1>3
<1>7. ASSUME NEW i \in 1..Len(Q)
      PROVE  IF Q[i].kind = kind
             THEN Q[i].lo = next[i - 1] /\ Q[i].hi = next[i]
             ELSE next[i] = next[i - 1]
  <2>1. CASE i <= Len(q)
    <3>1. i \in 1..Len(q) /\ Q[i] = q[i]
      BY <2>1, <1>2, Appended
    <3>2. next[i] = pos[i] /\ next[i - 1] = pos[i - 1]
      BY <3>1, <1>2
    <3>. QED
      BY <3>1, <3>2, <1>1
  <2>2. CASE i > Len(q)
    <3>1. i = Len(q) + 1 /\ Q[i] = m
      BY <2>2, <1>2, Appended
    <3>2. next[i] = to /\ next[i - 1] = to
      BY <3>1, <1>1, <1>2
    <3>. QED
      BY <3>1, <3>2
  <2>. QED
    BY <2>1, <2>2, <1>2
<1>. HIDE DEF next
<1>. QED
  BY <1>4, <1>5, <1>6, <1>7 DEF Contiguous

LEMMA ContiguousTail ==
    ASSUME NEW q \in Seq(Message), q # <<>>, NEW kind, Head(q).kind = kind,
           NEW from \in Nat, NEW to \in Nat,
           Contiguous(q, kind, from, to)
    PROVE  /\ Head(q).lo = from /\ Head(q).hi \in from..to
           /\ Contiguous(Tail(q), kind, Head(q).hi, to)
<1>1. PICK pos \in [0..Len(q) -> from..to] :
        /\ pos[0] = from
        /\ pos[Len(q)] = to
        /\ \A i, j \in 0..Len(q) : i <= j => pos[i] <= pos[j]
        /\ \A i \in 1..Len(q) :
              IF q[i].kind = kind
              THEN q[i].lo = pos[i - 1] /\ q[i].hi = pos[i]
              ELSE pos[i] = pos[i - 1]
  BY DEF Contiguous
<1>. DEFINE Q == Tail(q)
            next == [i \in 0..Len(Q) |-> pos[i + 1]]
<1>2. /\ Len(Q) = Len(q) - 1 /\ Len(q) \in Nat \ {0}
      /\ Head(q) = q[1]
      /\ \A i \in 1..Len(Q) : Q[i] = q[i + 1]
  BY HeadTail
<1>3. pos[1] = Head(q).hi /\ Head(q).lo = from /\ Head(q).hi \in from..to
  BY <1>1, <1>2
<1>4. next \in [0..Len(Q) -> (Head(q).hi)..to]
  BY <1>1, <1>2, <1>3
<1>5. next[0] = Head(q).hi /\ next[Len(Q)] = to
  BY <1>1, <1>2, <1>3
<1>6. \A i, j \in 0..Len(Q) : i <= j => next[i] <= next[j]
  BY <1>1, <1>2
<1>7. ASSUME NEW i \in 1..Len(Q)
      PROVE  IF Q[i].kind = kind
             THEN Q[i].lo = next[i - 1] /\ Q[i].hi = next[i]
             ELSE next[i] = next[i - 1]
  <2>1. i + 1 \in 1..Len(q) /\ Q[i] = q[i + 1]
    BY <1>2
  <2>2. next[i] = pos[i + 1] /\ next[i - 1] = pos[i]
    BY <1>2
  <2>3. IF q[i + 1].kind = kind
        THEN q[i + 1].lo = pos[i] /\ q[i + 1].hi = pos[i + 1]
        ELSE pos[i + 1] = pos[i]
    BY <2>1, <1>1
  <2>. HIDE DEF next, Q
  <2>. QED
    BY <2>1, <2>2, <2>3
<1>. HIDE DEF next
<1>. QED
  BY <1>3, <1>4, <1>5, <1>6, <1>7 DEF Contiguous

LEMMA ContiguousSkip ==
    ASSUME NEW q \in Seq(Message), q # <<>>, NEW kind, Head(q).kind # kind,
           NEW from \in Nat, NEW to \in Nat,
           Contiguous(q, kind, from, to)
    PROVE  Contiguous(Tail(q), kind, from, to)
<1>1. PICK pos \in [0..Len(q) -> from..to] :
        /\ pos[0] = from
        /\ pos[Len(q)] = to
        /\ \A i, j \in 0..Len(q) : i <= j => pos[i] <= pos[j]
        /\ \A i \in 1..Len(q) :
              IF q[i].kind = kind
              THEN q[i].lo = pos[i - 1] /\ q[i].hi = pos[i]
              ELSE pos[i] = pos[i - 1]
  BY DEF Contiguous
<1>. DEFINE Q == Tail(q)
            next == [i \in 0..Len(Q) |-> pos[i + 1]]
<1>2. /\ Len(Q) = Len(q) - 1 /\ Len(q) \in Nat \ {0}
      /\ Head(q) = q[1]
      /\ \A i \in 1..Len(Q) : Q[i] = q[i + 1]
  BY HeadTail
<1>3. pos[1] = from
  BY <1>1, <1>2
<1>4. next \in [0..Len(Q) -> (from)..to]
  BY <1>1, <1>2, <1>3
<1>5. next[0] = from /\ next[Len(Q)] = to
  BY <1>1, <1>2, <1>3
<1>6. \A i, j \in 0..Len(Q) : i <= j => next[i] <= next[j]
  BY <1>1, <1>2
<1>7. ASSUME NEW i \in 1..Len(Q)
      PROVE  IF Q[i].kind = kind
             THEN Q[i].lo = next[i - 1] /\ Q[i].hi = next[i]
             ELSE next[i] = next[i - 1]
  <2>1. i + 1 \in 1..Len(q) /\ Q[i] = q[i + 1]
    BY <1>2
  <2>2. next[i] = pos[i + 1] /\ next[i - 1] = pos[i]
    BY <1>2
  <2>3. IF q[i + 1].kind = kind
        THEN q[i + 1].lo = pos[i] /\ q[i + 1].hi = pos[i + 1]
        ELSE pos[i + 1] = pos[i]
    BY <2>1, <1>1
  <2>. HIDE DEF next, Q
  <2>. QED
    BY <2>1, <2>2, <2>3
<1>. HIDE DEF next
<1>. QED
  BY <1>3, <1>4, <1>5, <1>6, <1>7 DEF Contiguous

-----------------------------------------------------------------------------
(* The messages of one kind carry the sequence numbers from, ..., to - 1.  *)
Numbered(q, kind, from, to) ==
    \E pos \in [0..Len(q) -> from..to] :
        /\ pos[0] = from
        /\ pos[Len(q)] = to
        /\ \A i, j \in 0..Len(q) : i <= j => pos[i] <= pos[j]
        /\ \A i \in 1..Len(q) :
              IF q[i].kind = kind
              THEN q[i].seq = pos[i - 1] /\ pos[i] = pos[i - 1] + 1
              ELSE pos[i] = pos[i - 1]

LEMMA NumberedEmpty ==
    ASSUME NEW kind, NEW from \in Nat
    PROVE  Numbered(<<>>, kind, from, from)
<1>. DEFINE pos == [i \in 0..0 |-> from]
<1>1. pos \in [0..Len(<<>>) -> from..from] /\ Len(<<>>) = 0
  OBVIOUS
<1>2. /\ pos[0] = from
      /\ pos[Len(<<>>)] = from
      /\ \A i, j \in 0..Len(<<>>) : i <= j => pos[i] <= pos[j]
  BY <1>1
<1>. HIDE DEF pos
<1>. QED
  BY <1>1, <1>2 DEF Numbered

LEMMA NumberedBounds ==
    ASSUME NEW q \in Seq(Message), NEW kind, NEW from \in Nat, NEW to \in Nat,
           Numbered(q, kind, from, to)
    PROVE  from <= to
BY DEF Numbered

LEMMA NumberedAppend ==
    ASSUME NEW q \in Seq(Message), NEW kind, NEW from \in Nat, NEW to \in Nat,
           NEW m \in Message, m.kind = kind, m.seq = to,
           Numbered(q, kind, from, to)
    PROVE  Numbered(Append(q, m), kind, from, to + 1)
<1>1. PICK pos \in [0..Len(q) -> from..to] :
        /\ pos[0] = from
        /\ pos[Len(q)] = to
        /\ \A i, j \in 0..Len(q) : i <= j => pos[i] <= pos[j]
        /\ \A i \in 1..Len(q) :
              IF q[i].kind = kind
              THEN q[i].seq = pos[i - 1] /\ pos[i] = pos[i - 1] + 1
              ELSE pos[i] = pos[i - 1]
  BY DEF Numbered
<1>. DEFINE Q == Append(q, m)
            next == [i \in 0..Len(Q) |-> IF i <= Len(q) THEN pos[i] ELSE to + 1]
<1>2. Len(Q) = Len(q) + 1 /\ Len(q) \in Nat
  BY Appended
<1>3. m.hi \in Nat /\ m.lo \in Nat /\ to <= to + 1
  BY DEF Message
<1>4. next \in [0..Len(Q) -> from..(to + 1)]
  BY <1>1, <1>2, <1>3
<1>5. next[0] = from /\ next[Len(Q)] = to + 1
  BY <1>1, <1>2
<1>6. \A i, j \in 0..Len(Q) : i <= j => next[i] <= next[j]
  BY <1>1, <1>2, <1>3
<1>7. ASSUME NEW i \in 1..Len(Q)
      PROVE  IF Q[i].kind = kind
             THEN Q[i].seq = next[i - 1] /\ next[i] = next[i - 1] + 1
             ELSE next[i] = next[i - 1]
  <2>1. CASE i <= Len(q)
    <3>1. i \in 1..Len(q) /\ Q[i] = q[i]
      BY <2>1, <1>2, Appended
    <3>2. next[i] = pos[i] /\ next[i - 1] = pos[i - 1]
      BY <3>1, <1>2
    <3>. QED
      BY <3>1, <3>2, <1>1
  <2>2. CASE i > Len(q)
    <3>1. i = Len(q) + 1 /\ Q[i] = m
      BY <2>2, <1>2, Appended
    <3>2. next[i] = to + 1 /\ next[i - 1] = to
      BY <3>1, <1>1, <1>2
    <3>. QED
      BY <3>1, <3>2
  <2>. QED
    BY <2>1, <2>2, <1>2
<1>. HIDE DEF next
<1>. QED
  BY <1>4, <1>5, <1>6, <1>7 DEF Numbered

LEMMA NumberedPass ==
    ASSUME NEW q \in Seq(Message), NEW kind, NEW from \in Nat, NEW to \in Nat,
           NEW m \in Message, m.kind # kind,
           Numbered(q, kind, from, to)
    PROVE  Numbered(Append(q, m), kind, from, to)
<1>1. PICK pos \in [0..Len(q) -> from..to] :
        /\ pos[0] = from
        /\ pos[Len(q)] = to
        /\ \A i, j \in 0..Len(q) : i <= j => pos[i] <= pos[j]
        /\ \A i \in 1..Len(q) :
              IF q[i].kind = kind
              THEN q[i].seq = pos[i - 1] /\ pos[i] = pos[i - 1] + 1
              ELSE pos[i] = pos[i - 1]
  BY DEF Numbered
<1>. DEFINE Q == Append(q, m)
            next == [i \in 0..Len(Q) |-> IF i <= Len(q) THEN pos[i] ELSE to]
<1>2. Len(Q) = Len(q) + 1 /\ Len(q) \in Nat
  BY Appended
<1>3. m.hi \in Nat /\ m.lo \in Nat /\ to <= to
  BY DEF Message
<1>4. next \in [0..Len(Q) -> from..(to)]
  BY <1>1, <1>2, <1>3
<1>5. next[0] = from /\ next[Len(Q)] = to
  BY <1>1, <1>2
<1>6. \A i, j \in 0..Len(Q) : i <= j => next[i] <= next[j]
  BY <1>1, <1>2, <1>3
<1>7. ASSUME NEW i \in 1..Len(Q)
      PROVE  IF Q[i].kind = kind
             THEN Q[i].seq = next[i - 1] /\ next[i] = next[i - 1] + 1
             ELSE next[i] = next[i - 1]
  <2>1. CASE i <= Len(q)
    <3>1. i \in 1..Len(q) /\ Q[i] = q[i]
      BY <2>1, <1>2, Appended
    <3>2. next[i] = pos[i] /\ next[i - 1] = pos[i - 1]
      BY <3>1, <1>2
    <3>. QED
      BY <3>1, <3>2, <1>1
  <2>2. CASE i > Len(q)
    <3>1. i = Len(q) + 1 /\ Q[i] = m
      BY <2>2, <1>2, Appended
    <3>2. next[i] = to /\ next[i - 1] = to
      BY <3>1, <1>1, <1>2
    <3>. QED
      BY <3>1, <3>2
  <2>. QED
    BY <2>1, <2>2, <1>2
<1>. HIDE DEF next
<1>. QED
  BY <1>4, <1>5, <1>6, <1>7 DEF Numbered

LEMMA NumberedTail ==
    ASSUME NEW q \in Seq(Message), q # <<>>, NEW kind, Head(q).kind = kind,
           NEW from \in Nat, NEW to \in Nat,
           Numbered(q, kind, from, to)
    PROVE  /\ Head(q).seq = from /\ from + 1 <= to
           /\ Numbered(Tail(q), kind, from + 1, to)
<1>1. PICK pos \in [0..Len(q) -> from..to] :
        /\ pos[0] = from
        /\ pos[Len(q)] = to
        /\ \A i, j \in 0..Len(q) : i <= j => pos[i] <= pos[j]
        /\ \A i \in 1..Len(q) :
              IF q[i].kind = kind
              THEN q[i].seq = pos[i - 1] /\ pos[i] = pos[i - 1] + 1
              ELSE pos[i] = pos[i - 1]
  BY DEF Numbered
<1>. DEFINE Q == Tail(q)
            next == [i \in 0..Len(Q) |-> pos[i + 1]]
<1>2. /\ Len(Q) = Len(q) - 1 /\ Len(q) \in Nat \ {0}
      /\ Head(q) = q[1]
      /\ \A i \in 1..Len(Q) : Q[i] = q[i + 1]
  BY HeadTail
<1>3. pos[1] = from + 1 /\ Head(q).seq = from /\ from + 1 <= to
  BY <1>1, <1>2
<1>4. next \in [0..Len(Q) -> (from + 1)..to]
  BY <1>1, <1>2, <1>3
<1>5. next[0] = from + 1 /\ next[Len(Q)] = to
  BY <1>1, <1>2, <1>3
<1>6. \A i, j \in 0..Len(Q) : i <= j => next[i] <= next[j]
  BY <1>1, <1>2
<1>7. ASSUME NEW i \in 1..Len(Q)
      PROVE  IF Q[i].kind = kind
             THEN Q[i].seq = next[i - 1] /\ next[i] = next[i - 1] + 1
             ELSE next[i] = next[i - 1]
  <2>1. i + 1 \in 1..Len(q) /\ Q[i] = q[i + 1]
    BY <1>2
  <2>2. next[i] = pos[i + 1] /\ next[i - 1] = pos[i]
    BY <1>2
  <2>3. IF q[i + 1].kind = kind
        THEN q[i + 1].seq = pos[i] /\ pos[i + 1] = pos[i] + 1
        ELSE pos[i + 1] = pos[i]
    BY <2>1, <1>1
  <2>. HIDE DEF next, Q
  <2>. QED
    BY <2>1, <2>2, <2>3
<1>. HIDE DEF next
<1>. QED
  BY <1>3, <1>4, <1>5, <1>6, <1>7 DEF Numbered

LEMMA NumberedSkip ==
    ASSUME NEW q \in Seq(Message), q # <<>>, NEW kind, Head(q).kind # kind,
           NEW from \in Nat, NEW to \in Nat,
           Numbered(q, kind, from, to)
    PROVE  Numbered(Tail(q), kind, from, to)
<1>1. PICK pos \in [0..Len(q) -> from..to] :
        /\ pos[0] = from
        /\ pos[Len(q)] = to
        /\ \A i, j \in 0..Len(q) : i <= j => pos[i] <= pos[j]
        /\ \A i \in 1..Len(q) :
              IF q[i].kind = kind
              THEN q[i].seq = pos[i - 1] /\ pos[i] = pos[i - 1] + 1
              ELSE pos[i] = pos[i - 1]
  BY DEF Numbered
<1>. DEFINE Q == Tail(q)
            next == [i \in 0..Len(Q) |-> pos[i + 1]]
<1>2. /\ Len(Q) = Len(q) - 1 /\ Len(q) \in Nat \ {0}
      /\ Head(q) = q[1]
      /\ \A i \in 1..Len(Q) : Q[i] = q[i + 1]
  BY HeadTail
<1>3. pos[1] = from
  BY <1>1, <1>2
<1>4. next \in [0..Len(Q) -> (from)..to]
  BY <1>1, <1>2, <1>3
<1>5. next[0] = from /\ next[Len(Q)] = to
  BY <1>1, <1>2, <1>3
<1>6. \A i, j \in 0..Len(Q) : i <= j => next[i] <= next[j]
  BY <1>1, <1>2
<1>7. ASSUME NEW i \in 1..Len(Q)
      PROVE  IF Q[i].kind = kind
             THEN Q[i].seq = next[i - 1] /\ next[i] = next[i - 1] + 1
             ELSE next[i] = next[i - 1]
  <2>1. i + 1 \in 1..Len(q) /\ Q[i] = q[i + 1]
    BY <1>2
  <2>2. next[i] = pos[i + 1] /\ next[i - 1] = pos[i]
    BY <1>2
  <2>3. IF q[i + 1].kind = kind
        THEN q[i + 1].seq = pos[i] /\ pos[i + 1] = pos[i] + 1
        ELSE pos[i + 1] = pos[i]
    BY <2>1, <1>1
  <2>. HIDE DEF next, Q
  <2>. QED
    BY <2>1, <2>2, <2>3
<1>. HIDE DEF next
<1>. QED
  BY <1>3, <1>4, <1>5, <1>6, <1>7 DEF Numbered

USE CreditAssumption, SizeAssumption

LEMMA DataType ==
    ASSUME NEW seq \in Nat, NEW lo \in Nat, NEW n \in Nat, NEW src \in Nat
    PROVE  Data(seq, lo, n, src) \in Message
BY DEF Data, Message, Kinds

LEMMA ControlType ==
    ASSUME NEW kind \in Kinds
    PROVE  Control(kind) \in Message /\ Control(kind).kind = kind
BY DEF Control, Message

LEMMA CreditType ==
    ASSUME NEW m \in Message
    PROVE  /\ Credit(m) \in Message
           /\ Credit(m).kind = "credit"
           /\ Credit(m).lo = m.lo
           /\ Credit(m).hi = m.hi
BY DEF Credit, Message, Kinds

-----------------------------------------------------------------------------
(* Type correctness                                                        *)

(* TypeOK is inductive together with two facts about the pump: it never    *)
(* reads more than its credit, and it runs only on an open stream.         *)
TypeInv ==
    /\ TypeOK
    /\ pump = "read" => read_size <= output_credit
    /\ pump \in {"credit", "read"} => stream = "open"

LEMMA TypeInit == Init => TypeInv
<1>. SUFFICES ASSUME Init PROVE TypeInv
  OBVIOUS
<1>1. held \in Message
  BY ControlType DEF Init, Kinds
<1>2. <<>> \in Seq(Message) /\ <<>> \in Seq([src : Nat, len : 1..MaxPacket])
  OBVIOUS
<1>. QED
  BY <1>1, <1>2 DEF Init, TypeOK, TypeInv

LEMMA HeadType ==
    ASSUME NEW q \in Seq(Message), q # <<>>
    PROVE  /\ Tail(q) \in Seq(Message)
           /\ Head(q) \in Message
           /\ Head(q).lo \in Nat /\ Head(q).hi \in Nat /\ Head(q).seq \in Nat
           /\ Head(q).lo <= Head(q).hi
           /\ Size(Head(q)) \in Nat
<1>1. Head(q) \in Message /\ Tail(q) \in Seq(Message)
  BY HeadTail
<1>. QED
  BY <1>1 DEF Message, Size

(* What a reply does to the channel towards the PWA.                       *)
LEMMA ReplyType ==
    ASSUME TypeInv, NEW m \in Message, Reply(m)
    PROVE  n2c' \in Seq(Message)
BY Appended DEF Reply, TypeInv, TypeOK

LEMMA RejectType ==
    ASSUME TypeInv, Reject
    PROVE  n2c' \in Seq(Message) /\ loop' \in {"recv", "finally"}
<1>1. Control("error") \in Message
  BY ControlType DEF Kinds
<1>. QED
  BY <1>1, ReplyType DEF Reject, AfterReply

LEMMA PwaTakesType ==
    ASSUME TypeInv, NEW kind, PwaTakes(kind)
    PROVE  /\ n2c' \in Seq(Message)
           /\ Head(n2c) \in Message
           /\ Size(Head(n2c)) \in Nat
BY HeadType DEF PwaTakes, TypeInv, TypeOK

LEMMA NodeTakesType ==
    ASSUME TypeInv, NEW kind, NodeTakes(kind)
    PROVE  /\ c2n' \in Seq(Message)
           /\ Head(c2n) \in Message
           /\ Size(Head(c2n)) \in Nat
BY HeadType DEF NodeTakes, TypeInv, TypeOK

LEMMA TransmitType ==
    ASSUME TypeInv, NEW src \in Nat, NEW n \in 1..MaxPacket, n <= inputCredit,
           Transmit(src, n)
    PROVE  /\ c2n' \in Seq(Message)
           /\ inputCredit' \in Nat /\ inputSequence' \in Nat /\ upSent' \in Nat
<1>1. inputSequence \in Nat /\ upSent \in Nat /\ inputCredit \in Nat /\ n \in Nat
  BY DEF TypeInv, TypeOK
<1>2. Data(inputSequence, upSent, n, src) \in Message
  BY <1>1, DataType
<1>. QED
  BY <1>1, <1>2, Appended DEF Transmit, TypeInv, TypeOK

LEMMA TypeStep == TypeInv /\ [Next]_vars => TypeInv'
<1>. SUFFICES ASSUME TypeInv, [Next]_vars PROVE TypeInv'
  OBVIOUS
<1>. DEFINE Waiter == [src : Nat, len : 1..MaxPacket]
<1>1. ASSUME NEW n \in 1..MaxPacket, CustomSend(n) PROVE TypeInv'
  <2>1. handed \in Nat /\ n \in Nat
    BY DEF TypeInv, TypeOK
  <2>2. CASE n <= inputCredit
    <3>1. Transmit(handed, n) /\ UNCHANGED waiting
      BY <1>1, <2>1, <2>2 DEF CustomSend, TypeInv, TypeOK
    <3>2. /\ c2n' \in Seq(Message)
          /\ inputCredit' \in Nat /\ inputSequence' \in Nat /\ upSent' \in Nat
      BY <2>1, <2>2, <3>1, TransmitType
    <3>. QED
      BY <1>1, <2>1, <3>1, <3>2
      DEF CustomSend, TypeInv, TypeOK, nodeVars, peerVars, downVars
  <2>3. CASE n > inputCredit
    <3>1. waiting' = Append(waiting, [src |-> handed, len |-> n])
      BY <1>1, <2>1, <2>3 DEF CustomSend, TypeInv, TypeOK
    <3>2. waiting' \in Seq(Waiter)
      BY <2>1, <3>1 DEF TypeInv, TypeOK
    <3>. QED
      BY SMTT(30), <1>1, <2>1, <2>3, <3>2
      DEF CustomSend, TypeInv, TypeOK, nodeVars, peerVars, downVars
  <2>. QED
    BY <2>1, <2>2, <2>3 DEF TypeInv, TypeOK
<1>2. CASE ResumeSend
  <2>1. Head(woken) \in Waiter /\ woken' \in Seq(Waiter)
    BY <1>2, HeadTail DEF ResumeSend, TypeInv, TypeOK
  <2>2. /\ Head(woken).len \in 1..MaxPacket /\ Head(woken).src \in Nat
        /\ Head(woken).len \in Nat /\ inputCredit \in Nat
    BY <2>1 DEF TypeInv, TypeOK
  <2>3. CASE Head(woken).len <= inputCredit /\ pwaOpen
    <3>1. Transmit(Head(woken).src, Head(woken).len) /\ UNCHANGED waiting
      BY <1>2, <2>2, <2>3 DEF ResumeSend
    <3>2. /\ c2n' \in Seq(Message)
          /\ inputCredit' \in Nat /\ inputSequence' \in Nat /\ upSent' \in Nat
      BY <2>2, <2>3, <3>1, TransmitType
    <3>. QED
      BY <1>2, <2>1, <3>1, <3>2
      DEF ResumeSend, TypeInv, TypeOK, nodeVars, peerVars, downVars
  <2>4. CASE Head(woken).len > inputCredit
    <3>1. waiting' = Append(waiting, Head(woken))
      BY <1>2, <2>2, <2>4 DEF ResumeSend
    <3>2. waiting' \in Seq(Waiter)
      <4>1. waiting \in Seq(Waiter)
        BY DEF TypeInv, TypeOK
      <4>. HIDE DEF Waiter
      <4>. QED
        BY <2>1, <3>1, <4>1, Appended
    <3>3. UNCHANGED <<inputCredit, c2n, inputSequence, upSent>>
      BY <1>2, <2>2, <2>4 DEF ResumeSend
    <3>. QED
      BY <1>2, <2>1, <3>2, <3>3
      DEF ResumeSend, TypeInv, TypeOK, nodeVars, peerVars, downVars
  <2>5. CASE Head(woken).len <= inputCredit /\ ~pwaOpen
    <3>1. /\ inputCredit' = inputCredit - Head(woken).len
          /\ UNCHANGED <<waiting, c2n, inputSequence, upSent>>
      BY <1>2, <2>2, <2>5 DEF ResumeSend
    <3>2. inputCredit' \in Nat
      BY <2>2, <2>5, <3>1
    <3>. QED
      BY <1>2, <2>1, <3>1, <3>2
      DEF ResumeSend, TypeInv, TypeOK, nodeVars, peerVars, downVars
  <2>. QED
    BY <2>2, <2>3, <2>4, <2>5
<1>3. CASE PwaData
  <2>1. PwaTakes("data")
    BY <1>3 DEF PwaData
  <2>2. n2c' \in Seq(Message) /\ Credit(Head(n2c)) \in Message /\ Size(Head(n2c)) \in Nat
    BY <2>1, PwaTakesType, CreditType
  <2>3. c2n' = c2n \/ c2n' = Append(c2n, Credit(Head(n2c)))
    BY <1>3 DEF PwaData
  <2>4. c2n' \in Seq(Message)
    <3>1. c2n \in Seq(Message)
      BY DEF TypeInv, TypeOK
    <3>. QED
      BY <3>1, <2>2, <2>3, Appended
  <2>6. waiting' \in Seq(Waiter) /\ woken' \in Seq(Waiter)
    <3>1. waiting \in Seq(Waiter) /\ woken \in Seq(Waiter) /\ <<>> \in Seq(Waiter)
      BY DEF TypeInv, TypeOK
    <3>2. \/ waiting' = waiting /\ woken' = woken
          \/ waiting' = <<>> /\ woken' = waiting
      BY <1>3 DEF PwaData, WakeAll
    <3>. QED
      BY <3>1, <3>2
  <2>5. outputSequence' \in Nat /\ downGot' \in Nat
    BY <1>3, <2>2 DEF PwaData, TypeInv, TypeOK
  <2>. QED
    BY <1>3, <2>2, <2>4, <2>5, <2>6
    DEF PwaData, TypeInv, TypeOK, nodeVars, peerVars, upVars
<1>4. CASE PwaCredit
  BY <1>4, PwaTakesType
  DEF PwaCredit, WakeAll, TypeInv, TypeOK, nodeVars, peerVars, downVars
<1>5. CASE PwaIgnores
  BY <1>5, PwaTakesType
  DEF PwaIgnores, TypeInv, TypeOK, pwaVars, nodeVars, peerVars, upVars, downVars
<1>6. CASE PwaClose
  <2>1. Control("close") \in Message /\ Control("fin") \in Message
    BY ControlType DEF Kinds
  <2>2. c2n' \in Seq(Message)
    BY <1>6, <2>1, Appended DEF PwaClose, TypeInv, TypeOK
  <2>3. pwaOpen' \in BOOLEAN
    BY <1>6 DEF PwaClose
  <2>4. waiting' \in Seq(Waiter) /\ woken' \in Seq(Waiter)
    <3>1. waiting \in Seq(Waiter) /\ woken \in Seq(Waiter)
      BY DEF TypeInv, TypeOK
    <3>. HIDE DEF Waiter
    <3>. QED
      BY <1>6, <3>1 DEF PwaClose
  <2>. QED
    BY <1>6, <2>2, <2>3, <2>4
    DEF PwaClose, TypeInv, TypeOK, nodeVars, peerVars, upVars, downVars
<1>7. CASE PwaVanishes
  <2>1. Control("fin") \in Message
    BY ControlType DEF Kinds
  <2>2. c2n' \in Seq(Message)
    BY <1>7, <2>1, Appended DEF PwaVanishes, TypeInv, TypeOK
  <2>3. pwaOpen' \in BOOLEAN
    BY <1>7 DEF PwaVanishes
  <2>. QED
    BY <1>7, <2>2, <2>3
    DEF PwaVanishes, TypeInv, TypeOK, nodeVars, peerVars, upVars, downVars
<1>8. CASE SocketCloses
  <2>1. wsOpen' \in BOOLEAN
    BY <1>8 DEF SocketCloses
  <2>. QED
    BY <1>8, <2>1
    DEF SocketCloses, TypeInv, TypeOK, pwaVars, nodeVars, peerVars, upVars, downVars
<1>9. CASE DataRefused
  BY <1>9, NodeTakesType, RejectType
  DEF DataRefused, TypeInv, TypeOK, pwaVars, peerVars, upVars, downVars
<1>10. CASE DataFails
  <2>1. /\ c2n' \in Seq(Message) /\ n2c' \in Seq(Message)
        /\ loop' \in {"recv", "finally"} /\ Size(Head(c2n)) \in Nat
    BY <1>10, NodeTakesType, RejectType DEF DataFails
  <2>2. input_credit' \in Nat /\ upTaken' \in Nat /\ input_sequence' \in Nat
    BY <1>10, <2>1 DEF DataFails, TypeInv, TypeOK
  <2>. QED
    BY <1>10, <2>1, <2>2
    DEF DataFails, TypeInv, TypeOK, pwaVars, peerVars, downVars
<1>11. CASE DataAccepted
  <2>1. c2n' \in Seq(Message) /\ Head(c2n) \in Message /\ Size(Head(c2n)) \in Nat
    BY <1>11, NodeTakesType DEF DataAccepted
  <2>2. /\ input_credit' \in Nat /\ upTaken' \in Nat /\ input_sequence' \in Nat
        /\ sockOut' \in Nat /\ paused' \in BOOLEAN
    BY SMTT(30), <1>11, <2>1 DEF DataAccepted, TypeInv, TypeOK
  <2>. QED
    BY <1>11, <2>1, <2>2 DEF DataAccepted, TypeInv, TypeOK, pwaVars, downVars
<1>12. CASE DrainReturns
  <2>1. Size(held) \in Nat /\ Credit(held) \in Message
    BY CreditType DEF Size, Message, TypeInv, TypeOK
  <2>2. n2c' \in Seq(Message)
    BY <1>12, <2>1, ReplyType DEF DrainReturns
  <2>3. /\ loop' \in {"recv", "finally"} /\ input_credit' \in Nat
        /\ upCredited' \in Nat
    BY <1>12, <2>1 DEF DrainReturns, AfterReply, TypeInv, TypeOK
  <2>. QED
    BY <1>12, <2>2, <2>3
    DEF DrainReturns, TypeInv, TypeOK, pwaVars, peerVars, downVars
<1>13. CASE DrainRaises
  BY <1>13, RejectType
  DEF DrainRaises, TypeInv, TypeOK, pwaVars, peerVars, upVars, downVars
<1>14. CASE CreditRefused
  BY <1>14, NodeTakesType, RejectType
  DEF CreditRefused, TypeInv, TypeOK, pwaVars, peerVars, upVars, downVars
<1>15. CASE CreditAdded
  BY <1>15, NodeTakesType DEF CreditAdded, TypeInv, TypeOK, pwaVars, peerVars, upVars
<1>16. CASE CloseRequested
  <2>1. c2n' \in Seq(Message)
    BY <1>16, NodeTakesType DEF CloseRequested
  <2>2. /\ stream' \in {"open", "closing", "closed", "leaked"}
        /\ closer' \in {"none", "loop", "pump"}
        /\ pump' \in {"credit", "read", "ended", "failed"}
        /\ loop' \in {"recv", "drain", "closing", "finally", "closingAtEnd", "finished"}
        /\ pump' \in {"credit", "read"} => pump' = pump /\ stream' = stream
    BY <1>16 DEF CloseRequested, LoopCloses, TypeInv, TypeOK
  <2>. QED
    BY <1>16, <2>1, <2>2
    DEF CloseRequested, TypeInv, TypeOK, pwaVars, peerVars, upVars, downVars
<1>17. CASE LoopEnds
  BY <1>17, NodeTakesType
  DEF LoopEnds, TypeInv, TypeOK, pwaVars, peerVars, upVars, downVars
<1>18. CASE RunFinally
  <2>1. /\ stream' \in {"open", "closing", "closed", "leaked"}
        /\ closer' \in {"none", "loop", "pump"}
        /\ pump' \in {"credit", "read", "ended", "failed"}
        /\ loop' \in {"recv", "drain", "closing", "finally", "closingAtEnd", "finished"}
        /\ pump' \in {"credit", "read"} => pump' = pump /\ stream' = stream
    BY <1>18 DEF RunFinally, LoopCloses, TypeInv, TypeOK
  <2>. QED
    BY <1>18, <2>1
    DEF RunFinally, TypeInv, TypeOK, pwaVars, peerVars, upVars, downVars
<1>19. CASE CloseFinishes
  <2>1. Control("closed") \in Message
    BY ControlType DEF Kinds
  <2>2. n2c' \in Seq(Message)
    BY <1>19, <2>1, ReplyType DEF CloseFinishes, TypeInv, TypeOK
  <2>3. loop' \in {"recv", "drain", "closing", "finally", "closingAtEnd", "finished"}
    BY <1>19 DEF CloseFinishes, AfterReply, TypeInv, TypeOK
  <2>. QED
    BY <1>19, <2>2, <2>3
    DEF CloseFinishes, TypeInv, TypeOK, pwaVars, upVars, downVars
<1>20. CASE PumpArms
  <2>1. read_size' \in Nat /\ read_size' <= output_credit'
    BY <1>20 DEF PumpArms, Smaller, TypeInv, TypeOK
  <2>. QED
    BY <1>20, <2>1 DEF PumpArms, TypeInv, TypeOK, pwaVars, peerVars, upVars, downVars
<1>21. CASE PumpEof
  BY <1>21 DEF PumpEof, TypeInv, TypeOK, pwaVars, peerVars, upVars, downVars
<1>22. CASE PumpError
  <2>1. Control("error") \in Message
    BY ControlType DEF Kinds
  <2>2. n2c' \in Seq(Message)
    BY <1>22, <2>1, ReplyType DEF PumpError
  <2>3. /\ stream' \in {"open", "closing", "closed", "leaked"}
        /\ closer' \in {"none", "loop", "pump"} /\ pump' \in {"ended", "failed"}
    BY <1>22 DEF PumpError, TypeInv, TypeOK
  <2>. QED
    BY <1>22, <2>2, <2>3
    DEF PumpError, TypeInv, TypeOK, pwaVars, peerVars, upVars, downVars
<1>23. ASSUME NEW n \in 1..MaxPayload, PumpReads(n) PROVE TypeInv'
  <2>1. n \in Nat /\ output_credit - n \in Nat /\ peerOut - n \in Nat
    BY <1>23 DEF PumpReads, TypeInv, TypeOK
  <2>2. Data(output_sequence, downRead, n, downRead) \in Message
    BY <2>1, DataType DEF TypeInv, TypeOK
  <2>3. n2c' \in Seq(Message)
    BY <1>23, <2>2, ReplyType DEF PumpReads, SendData
  <2>4. /\ output_credit' \in Nat /\ output_sequence' \in Nat /\ peerOut' \in Nat
        /\ downRead' \in Nat /\ pump' \in {"credit", "failed"}
    BY <1>23, <2>1 DEF PumpReads, SendData, TypeInv, TypeOK
  <2>. QED
    BY <1>23, <2>3, <2>4 DEF PumpReads, TypeInv, TypeOK, pwaVars, upVars
<1>24. ASSUME NEW n \in 1..(HighWater + MaxPacket), PeerReads(n) PROVE TypeInv'
  <2>1. sockOut' \in Nat /\ paused' \in BOOLEAN
    BY <1>24 DEF PeerReads, TypeInv, TypeOK
  <2>. QED
    BY <1>24, <2>1 DEF PeerReads, TypeInv, TypeOK, pwaVars, nodeVars, upVars, downVars
<1>25. ASSUME NEW n \in 1..PeerBuffer, PeerWrites(n) PROVE TypeInv'
  BY <1>25 DEF PeerWrites, TypeInv, TypeOK, pwaVars, nodeVars, upVars, downVars
<1>26. CASE PeerEnds
  BY <1>26 DEF PeerEnds, TypeInv, TypeOK, pwaVars, nodeVars, upVars, downVars
<1>27. CASE PeerResets
  BY <1>27 DEF PeerResets, TypeInv, TypeOK, pwaVars, nodeVars, upVars, downVars
<1>28. CASE UNCHANGED vars
  BY <1>28 DEF vars, TypeInv, TypeOK, pwaVars, nodeVars, peerVars, upVars, downVars
<1>. QED
  BY <1>1, <1>2, <1>3, <1>4, <1>5, <1>6, <1>7, <1>8, <1>9, <1>10, <1>11,
     <1>12, <1>13, <1>14, <1>15, <1>16, <1>17, <1>18, <1>19, <1>20, <1>21,
     <1>22, <1>23, <1>24, <1>25, <1>26, <1>27, <1>28
  DEF Next, PwaNext, LoopNext, PumpNext, PeerNext

THEOREM TypeInvariant == Spec => []TypeInv
BY TypeInit, TypeStep, PTL DEF Spec

(* Every variable keeps its type: in particular neither end's credit ever  *)
(* goes negative.                                                          *)
THEOREM TypeCorrect == Spec => []TypeOK
<1>1. TypeInv => TypeOK
  BY DEF TypeInv
<1>. QED
  BY TypeInvariant, <1>1, PTL

-----------------------------------------------------------------------------
(* What taking a message and replying leave of a channel                   *)

LEMMA ReplyPasses ==
    ASSUME TypeInv, NEW m \in Message, Reply(m), NEW kind, m.kind # kind,
           NEW from \in Nat, NEW to \in Nat
    PROVE  /\ Contiguous(n2c, kind, from, to) => Contiguous(n2c', kind, from, to)
           /\ Numbered(n2c, kind, from, to) => Numbered(n2c', kind, from, to)
<1>1. n2c \in Seq(Message) /\ (n2c' = n2c \/ n2c' = Append(n2c, m))
  BY DEF Reply, TypeInv, TypeOK
<1>. QED
  BY <1>1, ContiguousPass, NumberedPass

LEMMA RejectPasses ==
    ASSUME TypeInv, Reject, NEW kind \in {"data", "credit"},
           NEW from \in Nat, NEW to \in Nat
    PROVE  /\ Contiguous(n2c, kind, from, to) => Contiguous(n2c', kind, from, to)
           /\ Numbered(n2c, kind, from, to) => Numbered(n2c', kind, from, to)
<1>1. Control("error") \in Message /\ Control("error").kind # kind
  BY ControlType DEF Kinds
<1>. QED
  BY <1>1, ReplyPasses DEF Reject

LEMMA PwaSkips ==
    ASSUME TypeInv, NEW other, PwaTakes(other), NEW kind, other # kind,
           NEW from \in Nat, NEW to \in Nat
    PROVE  /\ Contiguous(n2c, kind, from, to) => Contiguous(n2c', kind, from, to)
           /\ Numbered(n2c, kind, from, to) => Numbered(n2c', kind, from, to)
<1>1. /\ n2c \in Seq(Message) /\ n2c # <<>> /\ Head(n2c).kind # kind
      /\ n2c' = Tail(n2c)
  BY DEF PwaTakes, TypeInv, TypeOK
<1>. QED
  BY <1>1, ContiguousSkip, NumberedSkip

LEMMA NodeSkips ==
    ASSUME TypeInv, NEW other, NodeTakes(other), NEW kind, other # kind,
           NEW from \in Nat, NEW to \in Nat
    PROVE  /\ Contiguous(c2n, kind, from, to) => Contiguous(c2n', kind, from, to)
           /\ Numbered(c2n, kind, from, to) => Numbered(c2n', kind, from, to)
<1>1. /\ c2n \in Seq(Message) /\ c2n # <<>> /\ Head(c2n).kind # kind
      /\ c2n' = Tail(c2n)
  BY DEF NodeTakes, TypeInv, TypeOK
<1>. QED
  BY <1>1, ContiguousSkip, NumberedSkip

(* The PWA appends control messages when it closes or goes away.           *)
LEMMA ControlPasses ==
    ASSUME TypeInv, PwaClose \/ PwaVanishes, NEW kind \in {"data", "credit"},
           NEW from \in Nat, NEW to \in Nat
    PROVE  /\ Contiguous(c2n, kind, from, to) => Contiguous(c2n', kind, from, to)
           /\ Numbered(c2n, kind, from, to) => Numbered(c2n', kind, from, to)
<1>. DEFINE close == Control("close")  fin == Control("fin")
<1>1. close \in Message /\ fin \in Message /\ close.kind # kind /\ fin.kind # kind
  BY ControlType DEF Kinds
<1>2. c2n \in Seq(Message)
  BY DEF TypeInv, TypeOK
<1>3. c2n' = Append(Append(c2n, close), fin) \/ c2n' = Append(c2n, fin)
  BY DEF PwaClose, PwaVanishes
<1>. HIDE DEF close, fin
<1>4. Append(c2n, close) \in Seq(Message)
  BY <1>1, <1>2, Appended
<1>5. /\ Contiguous(c2n, kind, from, to) =>
            /\ Contiguous(Append(c2n, close), kind, from, to)
            /\ Contiguous(Append(c2n, fin), kind, from, to)
      /\ Contiguous(Append(c2n, close), kind, from, to) =>
            Contiguous(Append(Append(c2n, close), fin), kind, from, to)
  BY <1>1, <1>2, <1>4, ContiguousPass
<1>6. /\ Numbered(c2n, kind, from, to) =>
            /\ Numbered(Append(c2n, close), kind, from, to)
            /\ Numbered(Append(c2n, fin), kind, from, to)
      /\ Numbered(Append(c2n, close), kind, from, to) =>
            Numbered(Append(Append(c2n, close), fin), kind, from, to)
  BY <1>1, <1>2, <1>4, NumberedPass
<1>. QED
  BY <1>3, <1>5, <1>6

-----------------------------------------------------------------------------
(* Credit conservation                                                     *)

(* From the PWA to the peer.  Credit is at the PWA, spent on bytes not yet *)
(* acknowledged, or lost with a write that failed (upTaken - upCredited);  *)
(* the Node's own account is never below what the PWA can have spent.      *)
UpCounts ==
    /\ inputCredit <= InitialCredit - (upSent - upAcked)
    /\ upAcked <= upCredited /\ upCredited <= upTaken /\ upTaken <= upSent
    /\ InitialCredit - (upTaken - upCredited) <= input_credit

UpData ==
    stream # "closed" =>
        /\ Contiguous(c2n, "data", upTaken, upSent)
        /\ Numbered(c2n, "data", input_sequence, inputSequence)

UpCredits == Contiguous(n2c, "credit", upAcked, upCredited)

UpHeld ==
    /\ loop = "drain" => held.hi = upTaken
    /\ (loop = "drain" /\ ~reset) => held.lo = upCredited
    /\ (loop = "recv" /\ stream = "open" /\ ~reset) => upCredited = upTaken

UpInv == UpCounts /\ UpData /\ UpCredits /\ UpHeld

(* From the peer to the PWA.                                               *)
DownCounts ==
    /\ output_credit <= InitialCredit - (downRead - downAcked)
    /\ downAcked <= downGot /\ downGot <= downRead

(* The sequence number of a payload whose sending failed is never used.    *)
DownData ==
    /\ Contiguous(n2c, "data", downGot, downRead)
    /\ \E next \in Nat :
          /\ pump # "failed" => next = output_sequence
          /\ Numbered(n2c, "data", outputSequence, next)

DownCredits == stream # "closed" => Contiguous(c2n, "credit", downAcked, downGot)

DownInv == DownCounts /\ DownData /\ DownCredits

LEMMA CreditInit == Init => UpInv /\ DownInv
<1>. SUFFICES ASSUME Init PROVE UpInv /\ DownInv
  OBVIOUS
<1>1. UpCounts /\ UpHeld /\ DownCounts
  BY DEF Init, UpCounts, UpHeld, DownCounts
<1>2. /\ Contiguous(<<>>, "data", 0, 0) /\ Contiguous(<<>>, "credit", 0, 0)
      /\ Numbered(<<>>, "data", 0, 0)
  BY ContiguousEmpty, NumberedEmpty
<1>3. UpData /\ UpCredits /\ DownData /\ DownCredits
  BY <1>2 DEF Init, UpData, UpCredits, DownData, DownCredits
<1>. QED
  BY <1>1, <1>3 DEF UpInv, DownInv

(* What the Node finds at the head of its queue.                           *)
LEMMA HeadOfData ==
    ASSUME TypeInv, UpInv, c2n # <<>>, Head(c2n).kind = "data", stream # "closed"
    PROVE  /\ Head(c2n).seq = input_sequence
           /\ Head(c2n).lo = upTaken
           /\ Head(c2n).hi \in upTaken..upSent
           /\ Size(Head(c2n)) <= input_credit
           /\ Contiguous(Tail(c2n), "data", Head(c2n).hi, upSent)
           /\ Numbered(Tail(c2n), "data", input_sequence + 1, inputSequence)
<1>1. /\ c2n \in Seq(Message)
      /\ upTaken \in Nat /\ upSent \in Nat /\ upAcked \in Nat /\ upCredited \in Nat
      /\ input_sequence \in Nat /\ inputSequence \in Nat
      /\ inputCredit \in Nat /\ input_credit \in Nat
  BY DEF TypeInv, TypeOK
<1>2. /\ Contiguous(c2n, "data", upTaken, upSent)
      /\ Numbered(c2n, "data", input_sequence, inputSequence)
  BY DEF UpInv, UpData
<1>3. /\ Head(c2n).lo = upTaken /\ Head(c2n).hi \in upTaken..upSent
      /\ Contiguous(Tail(c2n), "data", Head(c2n).hi, upSent)
  BY <1>1, <1>2, ContiguousTail
<1>4. /\ Head(c2n).seq = input_sequence
      /\ Numbered(Tail(c2n), "data", input_sequence + 1, inputSequence)
  BY <1>1, <1>2, NumberedTail
<1>5. Head(c2n).hi - Head(c2n).lo <= input_credit
  BY <1>1, <1>3 DEF UpInv, UpCounts
<1>. QED
  BY <1>3, <1>4, <1>5 DEF Size

LEMMA HeadOfCredit ==
    ASSUME TypeInv, DownInv, c2n # <<>>, Head(c2n).kind = "credit", stream # "closed"
    PROVE  /\ Head(c2n).lo = downAcked
           /\ Head(c2n).hi \in downAcked..downGot
           /\ output_credit + Size(Head(c2n)) <= InitialCredit - (downRead - Head(c2n).hi)
           /\ output_credit + Size(Head(c2n)) <= MaxCredit
           /\ Contiguous(Tail(c2n), "credit", Head(c2n).hi, downGot)
<1>1. /\ c2n \in Seq(Message) /\ output_credit \in Nat
      /\ downRead \in Nat /\ downGot \in Nat /\ downAcked \in Nat
  BY DEF TypeInv, TypeOK
<1>2. Contiguous(c2n, "credit", downAcked, downGot)
  BY DEF DownInv, DownCredits
<1>3. /\ Head(c2n).lo = downAcked /\ Head(c2n).hi \in downAcked..downGot
      /\ Contiguous(Tail(c2n), "credit", Head(c2n).hi, downGot)
  BY <1>1, <1>2, ContiguousTail
<1>4. /\ output_credit <= InitialCredit - (downRead - downAcked)
      /\ downGot <= downRead
  BY DEF DownInv, DownCounts
<1>. QED
  BY <1>1, <1>3, <1>4 DEF Size

LEMMA CreditSafe == TypeInv /\ UpInv /\ DownInv => NoProtocolError
BY HeadOfData, HeadOfCredit DEF NoProtocolError

(* Typing facts the credit arguments need.                                 *)
Typed ==
    /\ c2n \in Seq(Message) /\ n2c \in Seq(Message) /\ held \in Message
    /\ inputCredit \in Nat /\ inputSequence \in Nat /\ outputSequence \in Nat
    /\ input_credit \in Nat /\ input_sequence \in Nat
    /\ output_credit \in Nat /\ output_sequence \in Nat /\ read_size \in Nat
    /\ upSent \in Nat /\ upTaken \in Nat /\ upCredited \in Nat /\ upAcked \in Nat
    /\ downRead \in Nat /\ downGot \in Nat /\ downAcked \in Nat

LEMMA TypedInv == TypeInv => Typed
BY DEF TypeInv, TypeOK, Typed

(* Transmitting spends credit and extends the run of data in c2n.          *)
LEMMA TransmitUp ==
    ASSUME TypeInv, UpInv, NEW src \in Nat, NEW n \in Nat \ {0},
           Transmit(src, n), n <= inputCredit,
           UNCHANGED <<n2c, nodeVars, reset, upTaken, upCredited, upAcked>>
    PROVE  UpInv'
<1>1. Typed
  BY TypedInv
<1>. DEFINE m == Data(inputSequence, upSent, n, src)
<1>2. /\ m \in Message /\ m.kind = "data" /\ m.seq = inputSequence
      /\ m.lo = upSent /\ m.hi = upSent + n
  BY <1>1, DataType DEF Data, Typed
<1>3. /\ c2n' = Append(c2n, m) /\ inputCredit' = inputCredit - n
      /\ inputSequence' = inputSequence + 1 /\ upSent' = upSent + n
  BY DEF Transmit
<1>. HIDE DEF m
<1>4. UpCounts'
  BY <1>1, <1>3 DEF UpInv, UpCounts, Typed, nodeVars
<1>5. UpData'
  <2>1. SUFFICES ASSUME stream # "closed"
                 PROVE  /\ Contiguous(c2n', "data", upTaken, upSent')
                        /\ Numbered(c2n', "data", input_sequence, inputSequence')
    BY DEF UpData, nodeVars
  <2>2. /\ Contiguous(c2n, "data", upTaken, upSent)
        /\ Numbered(c2n, "data", input_sequence, inputSequence)
    BY <2>1 DEF UpInv, UpData
  <2>3. m.lo <= m.hi
    BY <1>1, <1>2 DEF Typed
  <2>4. Contiguous(c2n', "data", upTaken, m.hi)
    BY <1>1, <1>2, <1>3, <2>2, <2>3, ContiguousAppend DEF Typed
  <2>5. Numbered(c2n', "data", input_sequence, inputSequence + 1)
    BY <1>1, <1>2, <1>3, <2>2, NumberedAppend DEF Typed
  <2>. QED
    BY <1>2, <1>3, <2>4, <2>5
<1>6. UpCredits' /\ UpHeld'
  BY DEF UpInv, UpCredits, UpHeld, nodeVars
<1>. QED
  BY <1>4, <1>5, <1>6 DEF UpInv

(* Consuming data: the run loses its head, the rest is unchanged.          *)
LEMMA ConsumeUp ==
    ASSUME TypeInv, UpInv, c2n # <<>>, Head(c2n).kind = "data",
           stream # "closed", c2n' = Tail(c2n),
           upTaken' = upTaken + Size(Head(c2n)),
           input_sequence' = input_sequence + 1,
           input_credit' = input_credit - Size(Head(c2n)),
           UNCHANGED <<inputCredit, inputSequence, upSent, upCredited, upAcked>>
    PROVE  UpCounts' /\ UpData' /\ upTaken' = Head(c2n).hi
<1>1. Typed
  BY TypedInv
<1>2. /\ Head(c2n).lo = upTaken /\ Head(c2n).hi \in upTaken..upSent
      /\ Contiguous(Tail(c2n), "data", Head(c2n).hi, upSent)
      /\ Numbered(Tail(c2n), "data", input_sequence + 1, inputSequence)
  BY HeadOfData
<1>3. upTaken' = Head(c2n).hi /\ Size(Head(c2n)) = Head(c2n).hi - upTaken
  BY <1>1, <1>2 DEF Size, Typed
<1>4. UpCounts'
  BY SMTT(30), <1>1, <1>2, <1>3 DEF UpInv, UpCounts, Typed
<1>5. UpData'
  BY <1>2, <1>3 DEF UpData
<1>. QED
  BY <1>3, <1>4, <1>5

LEMMA UpStep == TypeInv /\ UpInv /\ DownInv /\ [Next]_vars => UpInv'
<1>. SUFFICES ASSUME TypeInv, UpInv, DownInv, [Next]_vars PROVE UpInv'
  OBVIOUS
<1>0. Typed
  BY TypedInv
<1>1. ASSUME NEW n \in 1..MaxPacket, CustomSend(n) PROVE UpInv'
  <2>1. handed \in Nat /\ n \in Nat \ {0}
    BY DEF TypeInv, TypeOK
  <2>2. CASE n <= inputCredit
    <3>1. Transmit(handed, n)
      BY <1>0, <1>1, <2>1, <2>2 DEF CustomSend, Typed
    <3>. QED
      BY <1>1, <2>1, <2>2, <3>1, TransmitUp DEF CustomSend, peerVars
  <2>3. CASE n > inputCredit
    <3>1. UNCHANGED <<c2n, n2c, nodeVars, peerVars, upVars, inputCredit, inputSequence>>
      BY <1>0, <1>1, <2>1, <2>3 DEF CustomSend, Typed, upVars
    <3>. QED
      BY <3>1 DEF UpInv, UpCounts, UpData, UpCredits, UpHeld, nodeVars, peerVars, upVars
  <2>. QED
    BY <1>0, <2>1, <2>2, <2>3 DEF Typed
<1>2. CASE ResumeSend
  <2>1. Head(woken) \in [src : Nat, len : 1..MaxPacket]
    BY <1>2, HeadTail DEF ResumeSend, TypeInv, TypeOK
  <2>2. /\ Head(woken).src \in Nat /\ Head(woken).len \in Nat \ {0}
    BY <2>1
  <2>3. CASE Head(woken).len <= inputCredit /\ pwaOpen
    <3>1. Transmit(Head(woken).src, Head(woken).len)
      BY <1>0, <1>2, <2>2, <2>3 DEF ResumeSend, Typed
    <3>. QED
      BY <1>2, <2>2, <2>3, <3>1, TransmitUp DEF ResumeSend, peerVars
  <2>4. CASE Head(woken).len > inputCredit
    <3>1. UNCHANGED <<c2n, n2c, nodeVars, peerVars, upVars, inputCredit, inputSequence>>
      BY <1>0, <1>2, <2>2, <2>4 DEF ResumeSend, Typed, upVars
    <3>. QED
      BY <3>1 DEF UpInv, UpCounts, UpData, UpCredits, UpHeld, nodeVars, peerVars, upVars
  <2>5. CASE Head(woken).len <= inputCredit /\ ~pwaOpen
    <3>1. /\ inputCredit' = inputCredit - Head(woken).len
          /\ UNCHANGED <<c2n, n2c, nodeVars, peerVars, upVars, inputSequence>>
      BY <1>0, <1>2, <2>2, <2>5 DEF ResumeSend, Typed, upVars
    <3>2. UpCounts'
      BY <1>0, <2>2, <3>1 DEF UpInv, UpCounts, Typed, nodeVars, upVars
    <3>. QED
      BY <3>1, <3>2 DEF UpInv, UpData, UpCredits, UpHeld, nodeVars, peerVars, upVars
  <2>. QED
    BY <1>0, <2>2, <2>3, <2>4, <2>5 DEF Typed
<1>3. CASE PwaData
  <2>1. PwaTakes("data") /\ UNCHANGED <<nodeVars, peerVars, upVars, inputCredit, inputSequence>>
    BY <1>3 DEF PwaData
  <2>2. n2c # <<>> /\ Credit(Head(n2c)) \in Message /\ Credit(Head(n2c)).kind = "credit"
    BY <2>1, PwaTakesType, CreditType DEF PwaTakes
  <2>3. c2n' = c2n \/ c2n' = Append(c2n, Credit(Head(n2c)))
    BY <1>3 DEF PwaData
  <2>4. UpData'
    <3>1. SUFFICES ASSUME stream # "closed"
                   PROVE  /\ Contiguous(c2n', "data", upTaken, upSent)
                          /\ Numbered(c2n', "data", input_sequence, inputSequence)
      BY <2>1 DEF UpData, nodeVars, upVars
    <3>2. /\ Contiguous(c2n, "data", upTaken, upSent)
          /\ Numbered(c2n, "data", input_sequence, inputSequence)
      BY <1>0, <3>1 DEF UpInv, UpData
    <3>3. CASE c2n' = c2n
      BY <3>2, <3>3
    <3>4. CASE c2n' = Append(c2n, Credit(Head(n2c)))
      <4>1. Contiguous(c2n', "data", upTaken, upSent)
        BY <1>0, <2>2, <3>2, <3>4, ContiguousPass DEF Typed
      <4>2. Numbered(c2n', "data", input_sequence, inputSequence)
        BY <1>0, <2>2, <3>2, <3>4, NumberedPass DEF Typed
      <4>. QED
        BY <4>1, <4>2
    <3>. QED
      BY <2>3, <3>3, <3>4
  <2>5. UpCredits'
    BY <1>0, <2>1, PwaSkips DEF UpInv, UpCredits, Typed, upVars
  <2>. QED
    BY <2>1, <2>4, <2>5 DEF UpInv, UpCounts, UpHeld, nodeVars, peerVars, upVars
<1>4. CASE PwaCredit
  <2>. DEFINE m == Head(n2c)
  <2>1. /\ n2c # <<>> /\ m.kind = "credit" /\ n2c' = Tail(n2c)
        /\ inputCredit' = inputCredit + Size(m) /\ upAcked' = upAcked + Size(m)
        /\ UNCHANGED <<c2n, nodeVars, peerVars, inputSequence, upSent, upTaken, upCredited>>
    BY <1>4 DEF PwaCredit, PwaTakes
  <2>2. /\ m.lo = upAcked /\ m.hi \in upAcked..upCredited
        /\ Contiguous(Tail(n2c), "credit", m.hi, upCredited)
    BY <1>0, <2>1, ContiguousTail DEF UpInv, UpCredits, Typed
  <2>3. upAcked' = m.hi /\ Size(m) = m.hi - upAcked
    BY <1>0, <2>1, <2>2 DEF Size, Typed
  <2>4. UpCounts'
    BY <1>0, <2>1, <2>2, <2>3 DEF UpInv, UpCounts, Typed, nodeVars
  <2>5. UpCredits'
    BY <2>1, <2>2, <2>3 DEF UpCredits
  <2>. QED
    BY <2>1, <2>4, <2>5 DEF UpInv, UpData, UpHeld, nodeVars, peerVars
<1>5. CASE PwaIgnores
  <2>1. UpCredits'
    BY <1>0, <1>5, PwaSkips DEF PwaIgnores, UpInv, UpCredits, Typed, upVars
  <2>. QED
    BY <1>5, <2>1
    DEF PwaIgnores, UpInv, UpCounts, UpData, UpHeld, pwaVars, nodeVars, peerVars, upVars
<1>6. CASE PwaClose \/ PwaVanishes
  <2>1. UNCHANGED <<n2c, nodeVars, peerVars, upVars, inputCredit, inputSequence>>
    BY <1>6 DEF PwaClose, PwaVanishes
  <2>2. UpData'
    BY <1>0, <1>6, <2>1, ControlPasses DEF UpInv, UpData, Typed, nodeVars, upVars
  <2>. QED
    BY <2>1, <2>2 DEF UpInv, UpCounts, UpCredits, UpHeld, nodeVars, peerVars, upVars
<1>8. CASE SocketCloses
  BY <1>8 DEF SocketCloses, UpInv, UpCounts, UpData, UpCredits, UpHeld,
              pwaVars, nodeVars, peerVars, upVars
<1>9. CASE DataRefused
  <2>1. /\ c2n # <<>> /\ Head(c2n).kind = "data"
        /\ stream = "closed" \/ Head(c2n).seq # input_sequence
    BY <1>9 DEF DataRefused, NodeTakes
  <2>2. stream = "closed"
    BY <2>1, HeadOfData
  <2>3. UNCHANGED <<pwaVars, stream, input_credit, input_sequence, peerVars, upVars>>
    BY <1>9 DEF DataRefused
  <2>4. UpCredits' /\ loop' # "drain"
    BY <1>0, <1>9, RejectPasses, RejectType
    DEF DataRefused, UpInv, UpCredits, Typed, upVars
  <2>. QED
    BY <2>2, <2>3, <2>4
    DEF UpInv, UpCounts, UpData, UpHeld, pwaVars, peerVars, upVars
<1>10. CASE DataFails
  <2>1. /\ c2n # <<>> /\ Head(c2n).kind = "data" /\ c2n' = Tail(c2n)
        /\ stream # "closed" /\ input_sequence' = input_sequence + 1
        /\ upTaken' = upTaken + Size(Head(c2n))
        /\ UNCHANGED <<inputCredit, inputSequence, upSent, upCredited, upAcked, stream, reset>>
    BY <1>10 DEF DataFails, NodeTakes, pwaVars, peerVars
  <2>2. Size(Head(c2n)) <= input_credit /\ Size(Head(c2n)) \in Nat
    BY <2>1, <1>0, HeadOfData, HeadType DEF Typed
  <2>3. stream # "open" /\ input_credit' = input_credit - Size(Head(c2n))
    BY <1>0, <1>10, <2>2 DEF DataFails, Typed
  <2>4. UpCounts' /\ UpData'
    BY <2>1, <2>3, ConsumeUp
  <2>5. UpCredits' /\ loop' # "drain"
    BY <1>0, <1>10, <2>1, RejectPasses, RejectType DEF DataFails, UpInv, UpCredits, Typed
  <2>. QED
    BY <2>1, <2>3, <2>4, <2>5 DEF UpInv, UpHeld
<1>11. CASE DataAccepted
  <2>1. /\ c2n # <<>> /\ Head(c2n).kind = "data" /\ c2n' = Tail(c2n)
        /\ loop = "recv" /\ stream = "open" /\ input_sequence' = input_sequence + 1
        /\ upTaken' = upTaken + Size(Head(c2n))
        /\ input_credit' = input_credit - Size(Head(c2n))
        /\ held' = Head(c2n) /\ loop' = "drain"
        /\ UNCHANGED <<inputCredit, inputSequence, upSent, upCredited, upAcked, n2c, reset>>
    BY <1>11 DEF DataAccepted, NodeTakes, pwaVars
  <2>2. UpCounts' /\ UpData' /\ upTaken' = Head(c2n).hi
    BY <2>1, ConsumeUp
  <2>3. Head(c2n).lo = upTaken
    BY <2>1, HeadOfData
  <2>4. UpHeld'
    BY <2>1, <2>2, <2>3 DEF UpInv, UpHeld
  <2>. QED
    BY <2>1, <2>2, <2>4 DEF UpInv, UpCredits
<1>12. CASE DrainReturns
  <2>1. /\ loop = "drain" /\ ~reset /\ Reply(Credit(held))
        /\ input_credit' = input_credit + Size(held)
        /\ upCredited' = (IF wsOpen THEN upCredited + Size(held) ELSE upCredited)
        /\ loop' = (IF wsOpen THEN "recv" ELSE "finally")
        /\ UNCHANGED <<c2n, stream, reset, inputCredit, inputSequence,
                       input_sequence, upSent, upTaken, upAcked>>
    BY <1>12 DEF DrainReturns, AfterReply, pwaVars, peerVars
  <2>2. held.lo = upCredited /\ held.hi = upTaken /\ Size(held) = upTaken - upCredited
    BY <2>1 DEF UpInv, UpHeld, Size
  <2>3. UpCounts'
    BY <1>0, <2>1, <2>2 DEF UpInv, UpCounts, Typed
  <2>4. UpData'
    BY <2>1 DEF UpInv, UpData
  <2>5. UpCredits' /\ UpHeld'
    <3>1. CASE wsOpen
      <4>1. upCredited' = held.hi /\ loop' = "recv" /\ n2c' = Append(n2c, Credit(held))
        BY <1>0, <2>1, <2>2, <3>1 DEF Reply, Typed
      <4>2. /\ Credit(held) \in Message /\ Credit(held).kind = "credit"
            /\ Credit(held).lo = upCredited /\ Credit(held).hi = held.hi
            /\ Credit(held).lo <= Credit(held).hi
        BY <1>0, <2>2, CreditType DEF Typed, Message
      <4>3. Contiguous(n2c', "credit", upAcked, held.hi)
        BY <1>0, <4>1, <4>2, ContiguousAppend DEF UpInv, UpCredits, Typed
      <4>. QED
        BY <2>1, <2>2, <4>1, <4>3 DEF UpCredits, UpHeld
    <3>2. CASE ~wsOpen
      BY <2>1, <3>2 DEF UpInv, UpCredits, UpHeld, Reply
    <3>. QED
      BY <3>1, <3>2
  <2>. QED
    BY <2>3, <2>4, <2>5 DEF UpInv
<1>13. CASE DrainRaises
  <2>1. reset /\ UNCHANGED <<pwaVars, c2n, stream, input_credit, input_sequence, peerVars, upVars>>
    BY <1>13 DEF DrainRaises
  <2>2. UpCredits' /\ loop' # "drain"
    BY <1>0, <1>13, RejectPasses, RejectType
    DEF DrainRaises, UpInv, UpCredits, Typed, upVars
  <2>. QED
    BY <2>1, <2>2 DEF UpInv, UpCounts, UpData, UpHeld, pwaVars, peerVars, upVars
<1>14. CASE CreditRefused
  <2>1. /\ loop = "recv" /\ NodeTakes("credit")
        /\ UNCHANGED <<pwaVars, stream, input_credit, input_sequence, peerVars, upVars>>
    BY <1>14 DEF CreditRefused, NodeTakes
  <2>2. UpCredits' /\ loop' # "drain"
    BY <1>0, <1>14, RejectPasses, RejectType
    DEF CreditRefused, UpInv, UpCredits, Typed, upVars
  <2>3. UpData'
    BY <1>0, <2>1, NodeSkips DEF UpInv, UpData, Typed, pwaVars, upVars
  <2>. QED
    BY <2>1, <2>2, <2>3 DEF UpInv, UpCounts, UpHeld, pwaVars, peerVars, upVars
<1>15. CASE CreditAdded
  <2>1. /\ NodeTakes("credit")
        /\ UNCHANGED <<pwaVars, n2c, loop, held, stream, input_credit, input_sequence,
                       peerVars, upVars>>
    BY <1>15 DEF CreditAdded
  <2>2. UpData'
    BY <1>0, <2>1, NodeSkips DEF UpInv, UpData, Typed, pwaVars, upVars
  <2>. QED
    BY <2>1, <2>2 DEF UpInv, UpCounts, UpCredits, UpHeld, pwaVars, peerVars, upVars
<1>16. CASE CloseRequested \/ LoopEnds
  <2>1. /\ NodeTakes("close") \/ NodeTakes("fin")
        /\ UNCHANGED <<pwaVars, n2c, held, input_credit, input_sequence, peerVars, upVars>>
        /\ stream' = "closed" => stream = "closed"
        /\ stream = "closed" => stream' = "closed"
    BY <1>16 DEF CloseRequested, LoopCloses, LoopEnds
  <2>2. /\ loop = "recv" /\ loop' # "drain"
        /\ stream' = "open" => stream = "open"
    BY <1>16 DEF CloseRequested, LoopCloses, LoopEnds, NodeTakes
  <2>3. UpData'
    BY <1>0, <2>1, NodeSkips DEF UpInv, UpData, Typed, pwaVars, upVars
  <2>. QED
    BY <2>1, <2>2, <2>3
    DEF UpInv, UpCounts, UpCredits, UpHeld, pwaVars, peerVars, upVars
<1>18. CASE RunFinally
  <2>1. /\ UNCHANGED <<pwaVars, c2n, n2c, input_credit, input_sequence, upVars>>
        /\ stream' = "closed" <=> stream = "closed"
        /\ loop' # "drain" /\ loop' # "recv"
    BY <1>18 DEF RunFinally, LoopCloses
  <2>. QED
    BY <2>1 DEF UpInv, UpCounts, UpData, UpCredits, UpHeld, pwaVars, upVars
<1>19. CASE CloseFinishes
  <2>1. /\ UNCHANGED <<pwaVars, c2n, held, reset, input_credit, input_sequence, upVars>>
        /\ stream' = "closed" /\ (n2c' = n2c \/ Reply(Control("closed")))
        /\ loop' = "drain" => loop = "drain"
    BY <1>19 DEF CloseFinishes, AfterReply
  <2>2. Control("closed") \in Message /\ Control("closed").kind # "credit"
    BY ControlType DEF Kinds
  <2>3. UpCredits'
    BY <1>0, <2>1, <2>2, ReplyPasses DEF UpInv, UpCredits, Typed, upVars
  <2>. QED
    BY <2>1, <2>3 DEF UpInv, UpCounts, UpData, UpHeld, pwaVars, upVars
<1>20. CASE PumpArms \/ PumpEof
  <2>1. /\ UNCHANGED <<pwaVars, c2n, n2c, loop, held, reset, input_credit, input_sequence, upVars>>
        /\ stream' = stream \/ stream' = "closing"
        /\ stream' # "closed" => stream # "closed"
    BY <1>20 DEF PumpArms, PumpEof, peerVars, TypeInv
  <2>. QED
    BY <2>1 DEF UpInv, UpCounts, UpData, UpCredits, UpHeld, pwaVars, upVars
<1>22. CASE PumpError
  <2>1. /\ UNCHANGED <<pwaVars, c2n, loop, held, reset, input_credit, input_sequence, upVars>>
        /\ stream = "open" /\ stream' # "closed" /\ Reply(Control("error"))
    BY <1>22 DEF PumpError, peerVars, TypeInv
  <2>2. Control("error") \in Message /\ Control("error").kind # "credit"
    BY ControlType DEF Kinds
  <2>3. UpCredits'
    BY <1>0, <2>1, <2>2, ReplyPasses DEF UpInv, UpCredits, Typed, upVars
  <2>. QED
    BY <2>1, <2>3 DEF UpInv, UpCounts, UpData, UpHeld, pwaVars, upVars
<1>23. ASSUME NEW n \in 1..MaxPayload, PumpReads(n) PROVE UpInv'
  <2>. DEFINE m == Data(output_sequence, downRead, n, downRead)
  <2>1. /\ UNCHANGED <<pwaVars, c2n, loop, held, stream, reset, input_credit,
                       input_sequence, upVars>>
        /\ Reply(m)
    BY <1>23 DEF PumpReads, SendData
  <2>2. m \in Message /\ m.kind # "credit"
    BY <1>0, DataType DEF Data, Typed
  <2>. HIDE DEF m
  <2>3. UpCredits'
    BY <1>0, <2>1, <2>2, ReplyPasses DEF UpInv, UpCredits, Typed, upVars
  <2>. QED
    BY <2>1, <2>3 DEF UpInv, UpCounts, UpData, UpHeld, pwaVars, upVars
<1>24. ASSUME NEW n \in 1..(HighWater + MaxPacket), PeerReads(n) PROVE UpInv'
  BY <1>24 DEF PeerReads, UpInv, UpCounts, UpData, UpCredits, UpHeld,
               pwaVars, nodeVars, upVars
<1>25. ASSUME NEW n \in 1..PeerBuffer, PeerWrites(n) PROVE UpInv'
  BY <1>25 DEF PeerWrites, UpInv, UpCounts, UpData, UpCredits, UpHeld,
               pwaVars, nodeVars, upVars
<1>26. CASE PeerEnds \/ PeerResets
  <2>1. /\ UNCHANGED <<pwaVars, c2n, n2c, nodeVars, upVars>>
        /\ reset => reset'
    BY <1>26 DEF PeerEnds, PeerResets
  <2>. QED
    BY <2>1 DEF UpInv, UpCounts, UpData, UpCredits, UpHeld, pwaVars, nodeVars, upVars
<1>28. CASE UNCHANGED vars
  BY <1>28 DEF vars, UpInv, UpCounts, UpData, UpCredits, UpHeld,
               pwaVars, nodeVars, peerVars, upVars
<1>. QED
  BY <1>1, <1>2, <1>3, <1>4, <1>5, <1>6, <1>8, <1>9, <1>10, <1>11, <1>12,
     <1>13, <1>14, <1>15, <1>16, <1>18, <1>19, <1>20, <1>22, <1>23, <1>24,
     <1>25, <1>26, <1>28
  DEF Next, PwaNext, LoopNext, PumpNext, PeerNext

(* A step that changes neither the data towards the PWA nor its count.     *)
LEMMA DownDataKept ==
    ASSUME DownInv, UNCHANGED <<downRead, downGot, outputSequence>>,
           pump' # "failed" => pump # "failed" /\ output_sequence' = output_sequence,
           \A from, to \in Nat :
              /\ Contiguous(n2c, "data", from, to) => Contiguous(n2c', "data", from, to)
              /\ Numbered(n2c, "data", from, to) => Numbered(n2c', "data", from, to),
           Typed
    PROVE  DownData'
<1>1. Contiguous(n2c', "data", downGot', downRead')
  BY DEF DownInv, DownData, Typed
<1>2. PICK next \in Nat : /\ pump # "failed" => next = output_sequence
                          /\ Numbered(n2c, "data", outputSequence, next)
  BY DEF DownInv, DownData
<1>3. pump' # "failed" => next = output_sequence'
  BY <1>2
<1>4. Numbered(n2c', "data", outputSequence', next)
  BY <1>2 DEF Typed
<1>. QED
  BY <1>1, <1>2, <1>3, <1>4 DEF DownData

LEMMA DownStep == TypeInv /\ UpInv /\ DownInv /\ [Next]_vars => DownInv'
<1>. SUFFICES ASSUME TypeInv, UpInv, DownInv, [Next]_vars PROVE DownInv'
  OBVIOUS
<1>0. Typed
  BY TypedInv
<1>1. ASSUME NEW n \in 1..MaxPacket, CustomSend(n) PROVE DownInv'
  <2>1. handed \in Nat /\ n \in Nat
    BY DEF TypeInv, TypeOK
  <2>2. /\ UNCHANGED <<outputSequence, n2c, nodeVars, downVars>>
        /\ c2n' = c2n \/ Transmit(handed, n)
    BY <1>1 DEF CustomSend
  <2>3. c2n' = c2n \/ c2n' = Append(c2n, Data(inputSequence, upSent, n, handed))
    BY <2>2 DEF Transmit
  <2>4. /\ Data(inputSequence, upSent, n, handed) \in Message
        /\ Data(inputSequence, upSent, n, handed).kind # "credit"
    BY <1>0, <2>1, DataType DEF Data, Typed
  <2>5. DownCredits'
    BY <1>0, <2>2, <2>3, <2>4, ContiguousPass
    DEF DownInv, DownCredits, Typed, nodeVars, downVars
  <2>. QED
    BY <2>2, <2>5 DEF DownInv, DownCounts, DownData, nodeVars, downVars
<1>2. CASE ResumeSend
  <2>. DEFINE w == Head(woken)  m == Data(inputSequence, upSent, w.len, w.src)
  <2>1. w \in [src : Nat, len : 1..MaxPacket]
    BY <1>2, HeadTail DEF ResumeSend, TypeInv, TypeOK
  <2>2. /\ UNCHANGED <<outputSequence, n2c, nodeVars, downVars>>
        /\ c2n' = c2n \/ c2n' = Append(c2n, m)
    BY <1>2 DEF ResumeSend, Transmit
  <2>3. w.src \in Nat /\ w.len \in Nat
    BY <2>1
  <2>4. m \in Message /\ m.kind # "credit"
    BY <1>0, <2>3, DataType DEF Data, Typed
  <2>. HIDE DEF m
  <2>5. DownCredits'
    BY <1>0, <2>2, <2>4, ContiguousPass
    DEF DownInv, DownCredits, Typed, nodeVars, downVars
  <2>. QED
    BY <2>2, <2>5 DEF DownInv, DownCounts, DownData, nodeVars, downVars
<1>3. CASE PwaData
  <2>. DEFINE m == Head(n2c)
  <2>1. /\ n2c # <<>> /\ m.kind = "data" /\ n2c' = Tail(n2c)
        /\ UNCHANGED <<nodeVars, downRead, downAcked>>
    BY <1>3 DEF PwaData, PwaTakes
  <2>2. PICK next \in Nat : /\ pump # "failed" => next = output_sequence
                            /\ Numbered(n2c, "data", outputSequence, next)
    BY DEF DownInv, DownData
  <2>3. m.seq = outputSequence /\ Numbered(n2c', "data", outputSequence + 1, next)
    BY <1>0, <2>1, <2>2, NumberedTail DEF Typed
  <2>4. /\ m.lo = downGot /\ m.hi \in downGot..downRead
        /\ Contiguous(n2c', "data", m.hi, downRead)
    BY <1>0, <2>1, ContiguousTail DEF DownInv, DownData, Typed
  <2>5. /\ outputSequence' = outputSequence + 1
        /\ downGot' = downGot + Size(m)
        /\ c2n' = Append(c2n, Credit(m))
    BY <1>3, <2>3 DEF PwaData
  <2>6. downGot' = m.hi
    BY <1>0, <2>4, <2>5 DEF Size, Typed
  <2>7. DownData'
    <3>1. pump' # "failed" => next = output_sequence'
      BY <2>1, <2>2 DEF nodeVars
    <3>2. Numbered(n2c', "data", outputSequence', next)
      BY <2>3, <2>5
    <3>3. Contiguous(n2c', "data", downGot', downRead')
      BY <2>1, <2>4, <2>6
    <3>. QED
      BY <2>2, <3>1, <3>2, <3>3 DEF DownData
  <2>8. DownCounts'
    BY <1>0, <2>1, <2>4, <2>6 DEF DownInv, DownCounts, Typed, nodeVars
  <2>9. DownCredits'
    <3>1. SUFFICES ASSUME stream # "closed"
                   PROVE  Contiguous(c2n', "credit", downAcked, downGot')
      BY <2>1 DEF DownCredits, nodeVars
    <3>2. Contiguous(c2n, "credit", downAcked, downGot)
      BY <3>1 DEF DownInv, DownCredits
    <3>3. m \in Message
      BY <1>0, <2>1, HeadTail DEF Typed
    <3>4. /\ Credit(m) \in Message /\ Credit(m).kind = "credit"
          /\ Credit(m).lo = downGot /\ Credit(m).hi = m.hi
          /\ Credit(m).lo <= Credit(m).hi
      BY <1>0, <2>4, <3>3, CreditType DEF Typed
    <3>5. Contiguous(Append(c2n, Credit(m)), "credit", downAcked, m.hi)
      <4>. HIDE DEF m
      <4>. QED
        BY <1>0, <3>2, <3>4, ContiguousAppend DEF Typed
    <3>. QED
      BY <2>5, <2>6, <3>5
  <2>. QED
    BY <2>7, <2>8, <2>9 DEF DownInv
<1>4. CASE PwaCredit \/ PwaIgnores
  <2>1. /\ PwaTakes("credit") \/ PwaTakes("closed") \/ PwaTakes("error")
        /\ UNCHANGED <<outputSequence, c2n, nodeVars, downVars>>
    BY <1>4 DEF PwaCredit, PwaIgnores, pwaVars, downVars
  <2>2. \A from, to \in Nat :
          /\ Contiguous(n2c, "data", from, to) => Contiguous(n2c', "data", from, to)
          /\ Numbered(n2c, "data", from, to) => Numbered(n2c', "data", from, to)
    BY <2>1, PwaSkips
  <2>3. DownData'
    BY <1>0, <2>1, <2>2, DownDataKept DEF nodeVars, downVars
  <2>. QED
    BY <2>1, <2>3 DEF DownInv, DownCounts, DownCredits, nodeVars, downVars
<1>6. CASE PwaClose \/ PwaVanishes
  <2>1. UNCHANGED <<outputSequence, n2c, nodeVars, downVars>>
    BY <1>6 DEF PwaClose, PwaVanishes
  <2>2. DownCredits'
    BY <1>0, <1>6, <2>1, ControlPasses DEF DownInv, DownCredits, Typed, nodeVars, downVars
  <2>. QED
    BY <2>1, <2>2 DEF DownInv, DownCounts, DownData, nodeVars, downVars
<1>8. CASE SocketCloses
  BY <1>8 DEF SocketCloses, DownInv, DownCounts, DownData, DownCredits,
              pwaVars, nodeVars, downVars
<1>9. CASE DataRefused \/ DataFails \/ CreditRefused
  <2>1. /\ NodeTakes("data") \/ CreditRefused
        /\ Reject
        /\ UNCHANGED <<pwaVars, stream, pump, output_credit, output_sequence, downVars>>
    <3>1. CASE DataRefused
      BY <3>1 DEF DataRefused
    <3>2. CASE DataFails
      BY <3>2 DEF DataFails
    <3>3. CASE CreditRefused
      BY <3>3 DEF CreditRefused
    <3>. QED
      BY <1>9, <3>1, <3>2, <3>3
  <2>2. DownData'
    BY <1>0, <2>1, RejectPasses, DownDataKept DEF pwaVars, downVars
  <2>3. DownCredits'
    <3>1. CASE NodeTakes("data")
      BY <1>0, <2>1, <3>1, NodeSkips DEF DownInv, DownCredits, Typed, downVars
    <3>2. CASE CreditRefused
      <4>1. /\ c2n # <<>> /\ Head(c2n).kind = "credit"
            /\ stream = "closed" \/ output_credit + Size(Head(c2n)) > MaxCredit
        BY <3>2 DEF CreditRefused, NodeTakes
      <4>2. Size(Head(c2n)) \in Nat
        BY <1>0, <4>1, HeadType DEF Typed
      <4>3. stream = "closed"
        BY <1>0, <4>1, <4>2, HeadOfCredit DEF Typed
      <4>. QED
        BY <2>1, <4>3 DEF DownCredits
    <3>. QED
      BY <2>1, <3>1, <3>2
  <2>. QED
    BY <2>1, <2>2, <2>3 DEF DownInv, DownCounts, downVars
<1>11. CASE DataAccepted
  <2>1. /\ NodeTakes("data")
        /\ UNCHANGED <<pwaVars, n2c, stream, pump, output_credit, output_sequence, downVars>>
    BY <1>11 DEF DataAccepted
  <2>2. DownCredits'
    BY <1>0, <2>1, NodeSkips DEF DownInv, DownCredits, Typed, downVars
  <2>. QED
    BY <2>1, <2>2 DEF DownInv, DownCounts, DownData, pwaVars, downVars
<1>12. CASE DrainReturns
  <2>1. /\ Reply(Credit(held))
        /\ UNCHANGED <<pwaVars, c2n, stream, pump, output_credit, output_sequence, downVars>>
    BY <1>12 DEF DrainReturns
  <2>2. Credit(held) \in Message /\ Credit(held).kind # "data"
    BY <1>0, CreditType DEF Typed
  <2>3. DownData'
    BY <1>0, <2>1, <2>2, ReplyPasses, DownDataKept DEF pwaVars, downVars
  <2>. QED
    BY <2>1, <2>3 DEF DownInv, DownCounts, DownCredits, downVars
<1>13. CASE DrainRaises
  <2>1. /\ Reject
        /\ UNCHANGED <<pwaVars, c2n, stream, pump, output_credit, output_sequence, downVars>>
    BY <1>13 DEF DrainRaises
  <2>2. DownData'
    BY <1>0, <2>1, RejectPasses, DownDataKept DEF pwaVars, downVars
  <2>. QED
    BY <2>1, <2>2 DEF DownInv, DownCounts, DownCredits, downVars
<1>15. CASE CreditAdded
  <2>. DEFINE m == Head(c2n)
  <2>1. /\ c2n # <<>> /\ m.kind = "credit" /\ stream # "closed" /\ c2n' = Tail(c2n)
        /\ output_credit' = output_credit + Size(m)
        /\ downAcked' = downAcked + Size(m)
        /\ UNCHANGED <<pwaVars, n2c, stream, pump, output_sequence, downRead, downGot>>
    BY <1>15 DEF CreditAdded, NodeTakes
  <2>2. /\ m.lo = downAcked /\ m.hi \in downAcked..downGot
        /\ output_credit + Size(m) <= InitialCredit - (downRead - m.hi)
        /\ Contiguous(Tail(c2n), "credit", m.hi, downGot)
    BY <2>1, HeadOfCredit
  <2>3. downAcked' = m.hi
    BY <1>0, <2>1, <2>2 DEF Size, Typed
  <2>4. DownCounts'
    BY <1>0, <2>1, <2>2, <2>3 DEF DownInv, DownCounts, Typed
  <2>5. DownCredits'
    BY <2>1, <2>2, <2>3 DEF DownCredits
  <2>6. DownData'
    BY <2>1 DEF DownInv, DownData, pwaVars
  <2>. QED
    BY <2>4, <2>5, <2>6 DEF DownInv
<1>16. CASE CloseRequested \/ LoopEnds
  <2>1. /\ NodeTakes("close") \/ NodeTakes("fin")
        /\ UNCHANGED <<pwaVars, n2c, output_credit, output_sequence, downVars>>
        /\ pump' = "failed" <=> pump = "failed"
        /\ stream = "closed" => stream' = "closed"
    BY <1>16 DEF CloseRequested, LoopCloses, LoopEnds
  <2>2. DownCredits'
    BY <1>0, <2>1, NodeSkips DEF DownInv, DownCredits, Typed, downVars
  <2>. QED
    BY <2>1, <2>2 DEF DownInv, DownCounts, DownData, pwaVars, downVars
<1>18. CASE RunFinally
  <2>1. /\ UNCHANGED <<pwaVars, c2n, n2c, output_credit, output_sequence, downVars>>
        /\ pump' = "failed" <=> pump = "failed"
        /\ stream = "closed" => stream' = "closed"
    BY <1>18 DEF RunFinally, LoopCloses
  <2>. QED
    BY <2>1 DEF DownInv, DownCounts, DownData, DownCredits, pwaVars, downVars
<1>19. CASE CloseFinishes
  <2>1. /\ UNCHANGED <<pwaVars, c2n, pump, output_credit, output_sequence, downVars>>
        /\ stream' = "closed" /\ (n2c' = n2c \/ Reply(Control("closed")))
    BY <1>19 DEF CloseFinishes
  <2>2. Control("closed") \in Message /\ Control("closed").kind # "data"
    BY ControlType DEF Kinds
  <2>3. DownData'
    <3>1. \A from, to \in Nat :
          /\ Contiguous(n2c, "data", from, to) => Contiguous(n2c', "data", from, to)
          /\ Numbered(n2c, "data", from, to) => Numbered(n2c', "data", from, to)
      BY <2>1, <2>2, ReplyPasses
    <3>. QED
      BY <1>0, <2>1, <3>1, DownDataKept DEF pwaVars, downVars
  <2>. QED
    BY <2>1, <2>3 DEF DownInv, DownCounts, DownCredits, downVars
<1>20. CASE PumpArms \/ PumpEof
  <2>1. /\ UNCHANGED <<pwaVars, c2n, n2c, output_credit, output_sequence, downVars>>
        /\ pump # "failed" /\ stream = "open"
    BY <1>20 DEF PumpArms, PumpEof, TypeInv
  <2>. QED
    BY <2>1 DEF DownInv, DownCounts, DownData, DownCredits, pwaVars, downVars
<1>22. CASE PumpError
  <2>1. /\ UNCHANGED <<pwaVars, c2n, output_credit, output_sequence, downVars>>
        /\ pump # "failed" /\ stream = "open" /\ Reply(Control("error"))
    BY <1>22 DEF PumpError, TypeInv
  <2>2. Control("error") \in Message /\ Control("error").kind # "data"
    BY ControlType DEF Kinds
  <2>3. DownData'
    BY <1>0, <2>1, <2>2, ReplyPasses, DownDataKept DEF pwaVars, downVars
  <2>. QED
    BY <2>1, <2>3 DEF DownInv, DownCounts, DownCredits, downVars
<1>23. ASSUME NEW n \in 1..MaxPayload, PumpReads(n) PROVE DownInv'
  <2>. DEFINE m == Data(output_sequence, downRead, n, downRead)
  <2>1. /\ UNCHANGED <<pwaVars, c2n, stream, downGot, downAcked>>
        /\ Reply(m) /\ pump = "read" /\ n <= read_size
        /\ output_credit' = output_credit - n
        /\ output_sequence' = output_sequence + 1
        /\ wsOpen => downRead' = downRead + n
        /\ ~wsOpen => downRead' = downRead /\ pump' = "failed"
    BY <1>23 DEF PumpReads, SendData
  <2>2. /\ m \in Message /\ m.kind = "data" /\ m.seq = output_sequence
        /\ m.lo = downRead /\ m.hi = downRead + n /\ m.lo <= m.hi
    BY <1>0, DataType DEF Data, Typed
  <2>3. Numbered(n2c, "data", outputSequence, output_sequence)
    BY <2>1 DEF DownInv, DownData
  <2>4. Contiguous(n2c, "data", downGot, downRead)
    BY DEF DownInv, DownData
  <2>5. DownCounts'
    BY <1>0, <2>1 DEF DownInv, DownCounts, Typed
  <2>6. DownCredits'
    BY <2>1 DEF DownInv, DownCredits
  <2>. HIDE DEF m
  <2>7. CASE wsOpen
    <3>1. n2c' = Append(n2c, m)
      BY <2>1, <2>7 DEF Reply
    <3>2. Numbered(n2c', "data", outputSequence, output_sequence + 1)
      BY <1>0, <2>2, <2>3, <3>1, NumberedAppend DEF Typed
    <3>3. Contiguous(n2c', "data", downGot, m.hi)
      BY <1>0, <2>2, <2>4, <3>1, ContiguousAppend DEF Typed
    <3>4. DownData'
      <4>1. output_sequence' \in Nat
        BY <1>0, <2>1 DEF Typed
      <4>2. Contiguous(n2c', "data", downGot', downRead')
        BY <2>1, <2>2, <2>7, <3>3
      <4>3. Numbered(n2c', "data", outputSequence', output_sequence')
        BY <2>1, <3>2 DEF pwaVars
      <4>. QED
        BY <4>1, <4>2, <4>3 DEF DownData
    <3>. QED
      BY <2>5, <2>6, <3>4 DEF DownInv
  <2>8. CASE ~wsOpen
    <3>1. n2c' = n2c /\ pump' = "failed" /\ downRead' = downRead
          /\ outputSequence' = outputSequence
      BY <2>1, <2>8 DEF Reply, pwaVars
    <3>2. DownData'
      BY <1>0, <2>1, <2>3, <2>4, <3>1 DEF DownData, Typed
    <3>. QED
      BY <2>5, <2>6, <3>2 DEF DownInv
  <2>. QED
    BY <2>7, <2>8
<1>24. ASSUME NEW n \in 1..(HighWater + MaxPacket), PeerReads(n) PROVE DownInv'
  BY <1>24 DEF PeerReads, DownInv, DownCounts, DownData, DownCredits,
               pwaVars, nodeVars, downVars
<1>25. ASSUME NEW n \in 1..PeerBuffer, PeerWrites(n) PROVE DownInv'
  BY <1>25 DEF PeerWrites, DownInv, DownCounts, DownData, DownCredits,
               pwaVars, nodeVars, downVars
<1>26. CASE PeerEnds \/ PeerResets
  <2>1. UNCHANGED <<pwaVars, c2n, n2c, nodeVars, downVars>>
    BY <1>26 DEF PeerEnds, PeerResets
  <2>. QED
    BY <2>1 DEF DownInv, DownCounts, DownData, DownCredits, pwaVars, nodeVars, downVars
<1>28. CASE UNCHANGED vars
  BY <1>28 DEF vars, DownInv, DownCounts, DownData, DownCredits,
               pwaVars, nodeVars, downVars
<1>. QED
  BY <1>1, <1>2, <1>3, <1>4, <1>6, <1>8, <1>9, <1>11, <1>12, <1>13, <1>15,
     <1>16, <1>18, <1>19, <1>20, <1>22, <1>23, <1>24, <1>25, <1>26, <1>28
  DEF Next, PwaNext, LoopNext, PumpNext, PeerNext

-----------------------------------------------------------------------------
(* Credit safety                                                           *)

THEOREM CreditInvariant == Spec => [](TypeInv /\ UpInv /\ DownInv)
<1>1. Init => TypeInv /\ UpInv /\ DownInv
  BY TypeInit, CreditInit
<1>2. TypeInv /\ UpInv /\ DownInv /\ [Next]_vars => (TypeInv /\ UpInv /\ DownInv)'
  BY TypeStep, UpStep, DownStep
<1>. QED
  BY <1>1, <1>2, PTL DEF Spec

(* The Node never answers the PWA's data with sequence_error or            *)
(* credit_exhausted nor its credit with an over-limit error, whatever the  *)
(* credit, payload and buffer sizes and whatever closes, resets and fails. *)
THEOREM CreditSafety == Spec => []NoProtocolError
BY CreditInvariant, CreditSafe, PTL

(* The next data the PWA reads is always the one it expects, so the        *)
(* sequence test of handleMessage never drops a byte.                      *)
THEOREM DownOrder == Spec => []DownInOrder
<1>1. TypeInv /\ DownInv => DownInOrder
  <2>. SUFFICES ASSUME TypeInv, DownInv, n2c # <<>>, Head(n2c).kind = "data"
                PROVE  Head(n2c).seq = outputSequence /\ Head(n2c).lo = downGot
    BY DEF DownInOrder
  <2>1. Typed
    BY TypedInv
  <2>2. PICK next \in Nat : Numbered(n2c, "data", outputSequence, next)
    BY DEF DownInv, DownData
  <2>3. Head(n2c).seq = outputSequence
    BY <2>1, <2>2, NumberedTail DEF Typed
  <2>4. Head(n2c).lo = downGot
    BY <2>1, ContiguousTail DEF DownInv, DownData, Typed
  <2>. QED
    BY <2>3, <2>4
<1>. QED
  BY CreditInvariant, <1>1, PTL

-----------------------------------------------------------------------------
(* Refinement, wake-ups and the end of a stream                            *)

(* What one step does to the three counters of the direction to the peer.  *)
LEMMA UpMoves ==
    ASSUME TypeInv, UpInv, NEW n \in Nat,
           \/ /\ n \in 1..MaxPacket /\ n <= inputCredit /\ upSent' = upSent + n
              /\ UNCHANGED <<upTaken, upAcked>>
           \/ /\ upTaken + n <= upSent /\ upTaken' = upTaken + n
              /\ UNCHANGED <<upSent, upAcked>>
           \/ /\ upAcked + n <= upTaken /\ upAcked' = upAcked + n
              /\ UNCHANGED <<upSent, upTaken>>
    PROVE  UpPipe!Next
<1>1. /\ upSent \in Nat /\ upTaken \in Nat /\ upAcked \in Nat /\ inputCredit \in Nat
      /\ upCredited \in Nat
      /\ inputCredit <= InitialCredit - (upSent - upAcked)
      /\ upAcked <= upTaken /\ upTaken <= upSent
  BY DEF TypeInv, TypeOK, UpInv, UpCounts
<1>2. n \in 0..InitialCredit
  BY <1>1
<1>3. UpPipe!Send(n) \/ UpPipe!Take(n) \/ UpPipe!Ack(n)
  BY <1>1 DEF UpPipe!Send, UpPipe!Take, UpPipe!Ack
<1>. QED
  BY <1>2, <1>3 DEF UpPipe!Next

LEMMA UpMaps ==
    TypeInv /\ UpInv /\ DownInv /\ [Next]_vars => [UpPipe!Next]_(UpPipe!pipeVars)
<1>. SUFFICES ASSUME TypeInv, UpInv, DownInv, [Next]_vars
              PROVE  UpPipe!Next \/ UNCHANGED <<upSent, upTaken, upAcked>>
  BY DEF UpPipe!pipeVars
<1>0. Typed
  BY TypedInv
<1>1. ASSUME NEW n \in 1..MaxPacket, CustomSend(n)
      PROVE  UpPipe!Next \/ UNCHANGED <<upSent, upTaken, upAcked>>
  <2>1. n \in Nat
    OBVIOUS
  <2>2. \/ n <= inputCredit /\ upSent' = upSent + n /\ UNCHANGED <<upTaken, upAcked>>
        \/ UNCHANGED <<upSent, upTaken, upAcked>>
    BY <1>1 DEF CustomSend, Transmit
  <2>. QED
    BY <2>1, <2>2, UpMoves
<1>2. CASE ResumeSend
  <2>. DEFINE w == Head(woken)
  <2>1. w \in [src : Nat, len : 1..MaxPacket]
    BY <1>2, HeadTail DEF ResumeSend, TypeInv, TypeOK
  <2>2. \/ w.len <= inputCredit /\ upSent' = upSent + w.len /\ UNCHANGED <<upTaken, upAcked>>
        \/ UNCHANGED <<upSent, upTaken, upAcked>>
    BY <1>2 DEF ResumeSend, Transmit
  <2>3. w.len \in 1..MaxPacket /\ w.len \in Nat
    BY <2>1
  <2>. HIDE DEF w
  <2>. QED
    BY <2>2, <2>3, UpMoves
<1>3. CASE PwaCredit
  <2>. DEFINE m == Head(n2c)
  <2>1. /\ n2c # <<>> /\ m.kind = "credit" /\ upAcked' = upAcked + Size(m)
        /\ UNCHANGED <<upSent, upTaken>>
    BY <1>3 DEF PwaCredit, PwaTakes
  <2>2. m.lo = upAcked /\ m.hi \in upAcked..upCredited
    BY <1>0, <2>1, ContiguousTail DEF UpInv, UpCredits, Typed
  <2>3. Size(m) \in Nat /\ upAcked + Size(m) <= upTaken
    BY <1>0, <2>2 DEF Size, UpInv, UpCounts, Typed
  <2>. QED
    BY <2>1, <2>3, UpMoves
<1>4. CASE DataFails \/ DataAccepted
  <2>. DEFINE m == Head(c2n)
  <2>1. /\ c2n # <<>> /\ m.kind = "data" /\ stream # "closed"
        /\ upTaken' = upTaken + Size(m) /\ UNCHANGED <<upSent, upAcked>>
    BY <1>4 DEF DataFails, DataAccepted, NodeTakes
  <2>2. m.lo = upTaken /\ m.hi \in upTaken..upSent
    BY <2>1, HeadOfData
  <2>3. Size(m) \in Nat /\ upTaken + Size(m) <= upSent
    BY <1>0, <2>2 DEF Size, Typed
  <2>. QED
    BY <2>1, <2>3, UpMoves
<1>5. CASE \/ PwaData \/ PwaIgnores \/ PwaClose \/ PwaVanishes \/ SocketCloses
           \/ PumpArms \/ PumpEof \/ PumpError
           \/ \E n \in 1..MaxPayload : PumpReads(n)
  BY <1>5 DEF PwaData, PwaIgnores, PwaClose, PwaVanishes, SocketCloses,
              PumpArms, PumpEof, PumpError, PumpReads, upVars
<1>6. CASE \/ DataRefused \/ DrainReturns \/ DrainRaises \/ CreditRefused
           \/ CreditAdded \/ CloseRequested \/ LoopEnds \/ RunFinally
           \/ CloseFinishes
  BY <1>6 DEF DataRefused, DrainReturns, DrainRaises, CreditRefused, CreditAdded,
              CloseRequested, LoopEnds, RunFinally, CloseFinishes, upVars
<1>7. CASE PeerNext \/ UNCHANGED vars
  BY <1>7 DEF PeerNext, PeerReads, PeerWrites, PeerEnds, PeerResets, vars, upVars
<1>. QED
  BY <1>1, <1>2, <1>3, <1>4, <1>5, <1>6, <1>7 DEF Next, PwaNext, LoopNext, PumpNext

(* The bytes from the PWA to the peer form a windowed pipe: never more     *)
(* than InitialCredit unacknowledged, taken by the Node in the order they  *)
(* were sent, and credit granted only for what was taken.                  *)
THEOREM UpImplements == Spec => UpRefines
<1>1. Init => UpPipe!Init
  BY DEF Init, UpPipe!Init
<1>. QED
  BY <1>1, UpMaps, CreditInvariant, PTL DEF Spec, UpRefines, UpPipe!Spec

-----------------------------------------------------------------------------
LEMMA DownMoves ==
    ASSUME TypeInv, DownInv, NEW n \in Nat,
           \/ /\ n <= output_credit /\ downRead' = downRead + n
              /\ UNCHANGED <<downGot, downAcked>>
           \/ /\ downGot + n <= downRead /\ downGot' = downGot + n
              /\ UNCHANGED <<downRead, downAcked>>
           \/ /\ downAcked + n <= downGot /\ downAcked' = downAcked + n
              /\ UNCHANGED <<downRead, downGot>>
    PROVE  DownPipe!Next
<1>1. /\ downRead \in Nat /\ downGot \in Nat /\ downAcked \in Nat /\ output_credit \in Nat
      /\ output_credit <= InitialCredit - (downRead - downAcked)
      /\ downAcked <= downGot /\ downGot <= downRead
  BY DEF TypeInv, TypeOK, DownInv, DownCounts
<1>2. n \in 0..InitialCredit
  BY <1>1
<1>3. DownPipe!Send(n) \/ DownPipe!Take(n) \/ DownPipe!Ack(n)
  BY <1>1 DEF DownPipe!Send, DownPipe!Take, DownPipe!Ack
<1>. QED
  BY <1>2, <1>3 DEF DownPipe!Next

LEMMA DownMaps ==
    TypeInv /\ UpInv /\ DownInv /\ [Next]_vars => [DownPipe!Next]_(DownPipe!pipeVars)
<1>. SUFFICES ASSUME TypeInv, UpInv, DownInv, [Next]_vars
              PROVE  DownPipe!Next \/ UNCHANGED <<downRead, downGot, downAcked>>
  BY DEF DownPipe!pipeVars
<1>0. Typed
  BY TypedInv
<1>1. ASSUME NEW n \in 1..MaxPayload, PumpReads(n)
      PROVE  DownPipe!Next \/ UNCHANGED <<downRead, downGot, downAcked>>
  <2>1. n \in Nat /\ n <= output_credit
    BY <1>0, <1>1 DEF PumpReads, TypeInv, Typed
  <2>2. /\ downRead' = downRead + n \/ downRead' = downRead
        /\ UNCHANGED <<downGot, downAcked>>
    BY <1>1 DEF PumpReads
  <2>. QED
    BY <2>1, <2>2, DownMoves
<1>2. CASE PwaData
  <2>. DEFINE m == Head(n2c)
  <2>1. /\ n2c # <<>> /\ m.kind = "data"
        /\ downGot' = downGot + Size(m) \/ downGot' = downGot
        /\ UNCHANGED <<downRead, downAcked>>
    BY <1>2 DEF PwaData, PwaTakes
  <2>2. m.lo = downGot /\ m.hi \in downGot..downRead
    BY <1>0, <2>1, ContiguousTail DEF DownInv, DownData, Typed
  <2>3. Size(m) \in Nat /\ downGot + Size(m) <= downRead
    BY <1>0, <2>2 DEF Size, Typed
  <2>. QED
    BY <2>1, <2>3, DownMoves
<1>3. CASE CreditAdded
  <2>. DEFINE m == Head(c2n)
  <2>1. /\ c2n # <<>> /\ m.kind = "credit" /\ stream # "closed"
        /\ downAcked' = downAcked + Size(m) /\ UNCHANGED <<downRead, downGot>>
    BY <1>3 DEF CreditAdded, NodeTakes
  <2>2. m.lo = downAcked /\ m.hi \in downAcked..downGot
    BY <2>1, HeadOfCredit
  <2>3. Size(m) \in Nat /\ downAcked + Size(m) <= downGot
    BY <1>0, <2>2 DEF Size, Typed
  <2>. QED
    BY <2>1, <2>3, DownMoves
<1>4. CASE \/ \E n \in 1..MaxPacket : CustomSend(n)
           \/ ResumeSend \/ PwaCredit \/ PwaIgnores \/ PwaClose \/ PwaVanishes
           \/ SocketCloses \/ PumpArms \/ PumpEof \/ PumpError
  BY <1>4 DEF CustomSend, ResumeSend, PwaCredit, PwaIgnores, PwaClose, PwaVanishes,
              SocketCloses, PumpArms, PumpEof, PumpError, downVars
<1>5. CASE \/ DataRefused \/ DataFails \/ DataAccepted \/ DrainReturns \/ DrainRaises
           \/ CreditRefused \/ CloseRequested \/ LoopEnds \/ RunFinally
           \/ CloseFinishes
  BY <1>5 DEF DataRefused, DataFails, DataAccepted, DrainReturns, DrainRaises,
              CreditRefused, CloseRequested, LoopEnds, RunFinally, CloseFinishes,
              downVars
<1>6. CASE PeerNext \/ UNCHANGED vars
  BY <1>6 DEF PeerNext, PeerReads, PeerWrites, PeerEnds, PeerResets, vars, downVars
<1>. QED
  BY <1>1, <1>2, <1>3, <1>4, <1>5, <1>6 DEF Next, PwaNext, LoopNext, PumpNext

(* So do the bytes the pump reads from the peer.                           *)
THEOREM DownImplements == Spec => DownRefines
<1>1. Init => DownPipe!Init
  BY DEF Init, DownPipe!Init
<1>. QED
  BY <1>1, DownMaps, CreditInvariant, PTL DEF Spec, DownRefines, DownPipe!Spec

(* A stream implements the windowed pipe in both directions: every byte    *)
(* that libssh2 or the peer hands over is taken once, in order, and only   *)
(* as many are under way as credit was granted for.                        *)
THEOREM Implements == Spec => Refines
  BY UpImplements, DownImplements DEF Refines

-----------------------------------------------------------------------------
(* No lost wakeup                                                          *)

LEMMA ElementType ==
    ASSUME NEW S, NEW q \in Seq(S), NEW i \in 1..Len(q)
    PROVE  q[i] \in S
OBVIOUS

LEMMA WakeupStep == TypeInv /\ NoLostWakeup /\ [Next]_vars => NoLostWakeup'
<1>. SUFFICES ASSUME TypeInv, NoLostWakeup, [Next]_vars PROVE NoLostWakeup'
  OBVIOUS
<1>. DEFINE Waiter == [src : Nat, len : 1..MaxPacket]
<1>0. waiting \in Seq(Waiter) /\ inputCredit \in Nat
  BY DEF TypeInv, TypeOK
(* Spending credit can only confirm that a waiter lacks it.                *)
<1>1. ASSUME NEW n \in Nat, UNCHANGED waiting, inputCredit' = inputCredit - n
      PROVE  NoLostWakeup'
  <2>1. SUFFICES ASSUME NEW i \in 1..Len(waiting) PROVE waiting[i].len > inputCredit - n
    BY <1>1 DEF NoLostWakeup
  <2>2. waiting[i] \in Waiter
    <3>. HIDE DEF Waiter
    <3>. QED
      BY <1>0, ElementType
  <2>4. waiting[i].len \in Nat
    BY <2>2
  <2>3. waiting[i].len \in Nat /\ waiting[i].len > inputCredit
    BY <2>4 DEF NoLostWakeup
  <2>. QED
    BY <1>0, <1>1, <2>3
(* A send() suspends only when it lacks credit.                            *)
<1>2. ASSUME NEW w \in Waiter, w.len > inputCredit, UNCHANGED inputCredit,
             waiting' = Append(waiting, w)
      PROVE  NoLostWakeup'
  <2>. HIDE DEF Waiter
  <2>1. /\ Len(waiting') = Len(waiting) + 1 /\ Len(waiting) \in Nat
        /\ \A i \in 1..Len(waiting) : waiting'[i] = waiting[i]
        /\ waiting'[Len(waiting) + 1] = w
    BY <1>0, <1>2, Appended
  <2>2. ASSUME NEW i \in 1..Len(waiting') PROVE waiting'[i].len > inputCredit'
    <3>1. CASE i = Len(waiting) + 1
      BY <1>2, <2>1, <3>1
    <3>2. CASE i # Len(waiting) + 1
      BY <1>2, <2>1, <2>2, <3>2 DEF NoLostWakeup
    <3>. QED
      BY <3>1, <3>2
  <2>. QED
    BY <2>2 DEF NoLostWakeup
<1>3. ASSUME waiting' = <<>> PROVE NoLostWakeup'
  BY <1>3 DEF NoLostWakeup
<1>4. ASSUME UNCHANGED <<waiting, inputCredit>> PROVE NoLostWakeup'
  BY <1>4 DEF NoLostWakeup
<1>5. ASSUME NEW n \in 1..MaxPacket, CustomSend(n) PROVE NoLostWakeup'
  <2>1. n \in Nat /\ [src |-> handed, len |-> n] \in Waiter
    BY DEF TypeInv, TypeOK
  <2>2. \/ inputCredit' = inputCredit - n /\ UNCHANGED waiting
        \/ /\ n > inputCredit /\ UNCHANGED inputCredit
           /\ waiting' = Append(waiting, [src |-> handed, len |-> n])
    BY <1>5 DEF CustomSend, Transmit
  <2>. HIDE DEF Waiter
  <2>. QED
    BY <1>1, <1>2, <2>1, <2>2
<1>6. CASE ResumeSend
  <2>. DEFINE w == Head(woken)
  <2>1. w \in Waiter
    BY <1>6, HeadTail DEF ResumeSend, TypeInv, TypeOK
  <2>2. \/ inputCredit' = inputCredit - w.len /\ UNCHANGED waiting
        \/ /\ w.len > inputCredit /\ UNCHANGED inputCredit
           /\ waiting' = Append(waiting, w)
    BY <1>6 DEF ResumeSend, Transmit
  <2>3. w.len \in Nat
    BY <2>1
  <2>. HIDE DEF Waiter, w
  <2>. QED
    BY <1>1, <1>2, <2>1, <2>2, <2>3
<1>7. CASE PwaData \/ PwaCredit \/ PwaClose \/ PwaVanishes
  <2>1. waiting' = <<>> \/ UNCHANGED <<waiting, inputCredit>>
    BY <1>7 DEF PwaData, PwaCredit, WakeAll, PwaClose, PwaVanishes
  <2>. QED
    BY <1>3, <1>4, <2>1
<1>8. CASE \/ PwaIgnores \/ SocketCloses \/ PumpNext \/ PeerNext \/ UNCHANGED vars
  BY <1>4, <1>8
  DEF PwaIgnores, SocketCloses, PumpNext, PumpArms,
      PumpEof, PumpError, PumpReads, PeerNext, PeerReads, PeerWrites, PeerEnds,
      PeerResets, vars, pwaVars
<1>9. CASE \/ DataRefused \/ DataFails \/ DataAccepted \/ DrainReturns
           \/ DrainRaises \/ CreditRefused \/ CreditAdded \/ CloseRequested
           \/ LoopEnds \/ RunFinally \/ CloseFinishes
  BY <1>4, <1>9
  DEF DataRefused, DataFails, DataAccepted, DrainReturns, DrainRaises,
      CreditRefused, CreditAdded, CloseRequested, LoopEnds, RunFinally,
      CloseFinishes, pwaVars
<1>. QED
  BY <1>5, <1>6, <1>7, <1>8, <1>9 DEF Next, PwaNext, LoopNext

(* A send() suspended in dataWaiters always lacks credit: the wake-up that *)
(* a credit message brings reaches every waiter before the credit can be   *)
(* overlooked.                                                             *)
THEOREM Wakeups == Spec => []NoLostWakeup
<1>1. Init => NoLostWakeup
  BY DEF Init, NoLostWakeup
<1>. QED
  BY <1>1, TypeInvariant, WakeupStep, PTL DEF Spec

-----------------------------------------------------------------------------
(* The closed event                                                        *)

(* Only a closed stream has announced its end.                             *)
ClosedInv ==
    /\ ClosedIsFinal
    /\ stream # "closed" => \A i \in 1..Len(n2c) : n2c[i].kind # "closed"

LEMMA ClosedKept ==
    ASSUME TypeInv, ClosedInv, stream' = "closed" \/ stream # "closed",
           \/ n2c' = n2c
           \/ n2c # <<>> /\ n2c' = Tail(n2c)
           \/ /\ \E m \in Message : m.kind \notin {"closed", "data"} /\ Reply(m)
           \/ /\ stream # "closed"
              /\ \E m \in Message : (m.kind = "closed" => stream' = "closed") /\ Reply(m)
    PROVE  ClosedInv'
<1>0. n2c \in Seq(Message) /\ Len(n2c) \in Nat
  BY DEF TypeInv, TypeOK
<1>1. CASE n2c' = n2c
  BY <1>1 DEF ClosedInv, ClosedIsFinal
<1>2. CASE n2c # <<>> /\ n2c' = Tail(n2c)
  <2>1. /\ Len(n2c') = Len(n2c) - 1
        /\ \A i \in 1..Len(n2c') : i + 1 \in 1..Len(n2c) /\ n2c'[i] = n2c[i + 1]
    BY <1>0, <1>2, HeadTail
  <2>2. ClosedIsFinal'
    <3>1. SUFFICES ASSUME NEW i \in 1..Len(n2c'), NEW j \in 1..Len(n2c'),
                          i < j, n2c'[i].kind = "closed"
                   PROVE  n2c'[j].kind \notin {"closed", "data"}
      BY DEF ClosedIsFinal
    <3>2. i + 1 < j + 1
      BY <1>0, <2>1, <3>1
    <3>. QED
      BY <2>1, <3>1, <3>2 DEF ClosedInv, ClosedIsFinal
  <2>3. stream' # "closed" => \A i \in 1..Len(n2c') : n2c'[i].kind # "closed"
    BY <2>1 DEF ClosedInv
  <2>. QED
    BY <2>2, <2>3 DEF ClosedInv
<1>3. ASSUME NEW m \in Message, n2c' = Append(n2c, m),
             \/ m.kind \notin {"closed", "data"}
             \/ stream # "closed" /\ (m.kind = "closed" => stream' = "closed")
      PROVE  ClosedInv'
  <2>1. /\ Len(n2c') = Len(n2c) + 1
        /\ \A i \in 1..Len(n2c) : n2c'[i] = n2c[i]
        /\ n2c'[Len(n2c) + 1] = m
    BY <1>0, <1>3, Appended
  <2>2. ClosedIsFinal'
    <3>1. SUFFICES ASSUME NEW i \in 1..Len(n2c'), NEW j \in 1..Len(n2c'),
                          i < j, n2c'[i].kind = "closed"
                   PROVE  n2c'[j].kind \notin {"closed", "data"}
      BY DEF ClosedIsFinal
    <3>2. i \in 1..Len(n2c) /\ n2c[i].kind = "closed"
      BY <1>0, <2>1, <3>1
    <3>3. CASE j \in 1..Len(n2c)
      BY <2>1, <3>1, <3>2, <3>3 DEF ClosedInv, ClosedIsFinal
    <3>4. CASE j = Len(n2c) + 1
      BY <1>3, <2>1, <3>2, <3>4 DEF ClosedInv
    <3>. QED
      BY <1>0, <2>1, <3>3, <3>4
  <2>3. ASSUME stream' # "closed", NEW i \in 1..Len(n2c')
        PROVE  n2c'[i].kind # "closed"
    <3>1. CASE i \in 1..Len(n2c)
      BY <2>1, <2>3, <3>1 DEF ClosedInv
    <3>2. CASE i = Len(n2c) + 1
      BY <1>3, <2>1, <2>3, <3>2
    <3>. QED
      BY <1>0, <2>1, <3>1, <3>2
  <2>. QED
    BY <2>2, <2>3 DEF ClosedInv
<1>. QED
  BY <1>1, <1>2, <1>3 DEF Reply

LEMMA ClosedStep == TypeInv /\ ClosedInv /\ [Next]_vars => ClosedInv'
<1>. SUFFICES ASSUME TypeInv, ClosedInv, [Next]_vars PROVE ClosedInv'
  OBVIOUS
<1>0. /\ Control("error") \in Message /\ Control("error").kind = "error"
      /\ Control("closed") \in Message /\ Control("closed").kind = "closed"
  BY ControlType DEF Kinds
<1>1. CASE \/ \E n \in 1..MaxPacket : CustomSend(n)
           \/ ResumeSend \/ PwaClose \/ PwaVanishes \/ SocketCloses
           \/ PeerNext \/ UNCHANGED vars
  <2>1. UNCHANGED <<n2c, stream>>
    BY <1>1 DEF CustomSend, ResumeSend, PwaClose, PwaVanishes, SocketCloses, PeerNext,
                PeerReads, PeerWrites, PeerEnds, PeerResets, vars, nodeVars
  <2>. QED
    BY <2>1 DEF ClosedInv, ClosedIsFinal
<1>2. CASE PwaData \/ PwaCredit \/ PwaIgnores
  <2>1. n2c # <<>> /\ n2c' = Tail(n2c) /\ UNCHANGED stream
    BY <1>2 DEF PwaData, PwaCredit, PwaIgnores, PwaTakes, nodeVars
  <2>. QED
    BY <2>1, ClosedKept
<1>3. CASE DataRefused \/ DataFails \/ DrainRaises \/ CreditRefused
  <2>1. Reply(Control("error")) /\ UNCHANGED stream
    BY <1>3 DEF DataRefused, DataFails, DrainRaises, CreditRefused, Reject
  <2>. QED
    BY <1>0, <2>1, ClosedKept
<1>4. CASE DrainReturns
  <2>1. Reply(Credit(held)) /\ UNCHANGED stream
    BY <1>4 DEF DrainReturns
  <2>2. Credit(held) \in Message /\ Credit(held).kind = "credit"
    BY CreditType DEF TypeInv, TypeOK
  <2>. QED
    BY <2>1, <2>2, ClosedKept
<1>5. CASE \/ DataAccepted \/ CreditAdded \/ CloseRequested \/ LoopEnds
           \/ RunFinally \/ PumpArms \/ PumpEof
  <2>1. UNCHANGED n2c /\ (stream = "closed" => stream' = "closed")
    BY <1>5 DEF DataAccepted, CreditAdded, CloseRequested, LoopCloses, LoopEnds,
                RunFinally, PumpArms, PumpEof, TypeInv
  <2>. QED
    BY <2>1, ClosedKept
<1>6. CASE CloseFinishes
  <2>1. /\ stream = "closing" /\ stream' = "closed"
        /\ n2c' = n2c \/ Reply(Control("closed"))
    BY <1>6 DEF CloseFinishes
  <2>. QED
    BY <1>0, <2>1, ClosedKept
<1>7. CASE PumpError
  <2>1. Reply(Control("error")) /\ stream = "open"
    BY <1>7 DEF PumpError, TypeInv
  <2>. QED
    BY <1>0, <2>1, ClosedKept
<1>8. ASSUME NEW n \in 1..MaxPayload, PumpReads(n) PROVE ClosedInv'
  <2>. DEFINE m == Data(output_sequence, downRead, n, downRead)
  <2>0. n \in Nat /\ output_sequence \in Nat /\ downRead \in Nat
    BY DEF TypeInv, TypeOK
  <2>1. m \in Message /\ m.kind = "data"
    BY <2>0, DataType DEF Data
  <2>. HIDE DEF m
  <2>2. Reply(m) /\ stream = "open"
    BY <1>8 DEF m, PumpReads, SendData, TypeInv
  <2>. QED
    BY <2>1, <2>2, ClosedKept
<1>. QED
  BY <1>1, <1>2, <1>3, <1>4, <1>5, <1>6, <1>7, <1>8
  DEF Next, PwaNext, LoopNext, PumpNext

(* A stream announces its end at most once and sends no data after it,     *)
(* whichever of the run loop and the pump closes it.                       *)
THEOREM ClosedOnce == Spec => []ClosedIsFinal
<1>1. Init => ClosedInv
  BY DEF Init, ClosedInv, ClosedIsFinal
<1>2. ClosedInv => ClosedIsFinal
  BY DEF ClosedInv
<1>. QED
  BY <1>1, <1>2, TypeInvariant, ClosedStep, PTL DEF Spec

-----------------------------------------------------------------------------
(* Sums over a channel.  A fold is a function of the subsets of a domain;  *)
(* what follows is induction on their size, as the search for a least      *)
(* counterexample.                                                         *)

LEMMA LeastNat ==
    ASSUME NEW T, T \subseteq Nat, T # {}
    PROVE  \E x \in T : \A y \in T : x <= y
<1>. DEFINE R == {ss \in Nat \X Nat : ss[1] < ss[2]}
<1>1. IsWellFoundedOn(R, Nat)
  BY NatLessThanWellFounded DEF OpToRel
<1>2. \A x, y \in Nat : y < x => <<y, x>> \in R
  OBVIOUS
<1>. HIDE DEF R
<1>3. PICK x \in T : \A y \in T : ~(<<y, x>> \in R)
  BY <1>1, WFMin
<1>4. ASSUME NEW y \in T PROVE x <= y
  <2>1. x \in Nat /\ y \in Nat
    OBVIOUS
  <2>2. ~(y < x)
    BY <1>2, <1>3, <2>1
  <2>. QED
    BY <2>1, <2>2
<1>. QED
  BY <1>4

(* A fold that takes the elements of a set in the order of pick.           *)
Folds(g, D, S, w, pick) ==
    g = [s \in S |-> IF s = {} THEN 0 ELSE g[s \ {pick[s]}] + w[pick[s]]]

Picks(pick, D) == \A s \in SUBSET D : s # {} => pick[s] \in s

LEMMA OneLess ==
    ASSUME NEW D, IsFiniteSet(D), NEW s \in SUBSET D, NEW x \in s
    PROVE  /\ Cardinality(s) \in Nat \ {0} /\ s \ {x} \in SUBSET D
           /\ Cardinality(s \ {x}) = Cardinality(s) - 1
<1>1. IsFiniteSet(s) /\ Cardinality(s) \in Nat
  BY FS_Subset, FS_CardinalityType
<1>. QED
  BY <1>1, FS_RemoveElement, FS_EmptySet

LEMMA FoldExists ==
    ASSUME NEW D, IsFiniteSet(D), NEW w, NEW pick, Picks(pick, D)
    PROVE  \E g : Folds(g, D, SUBSET D, w, pick)
<1>. DEFINE Upto(n) == {s \in SUBSET D : Cardinality(s) <= n}
            T == {n \in Nat : ~\E g : Folds(g, D, Upto(n), w, pick)}
<1>1. ASSUME T # {} PROVE FALSE
  <2>1. PICK n \in T : \A k \in T : n <= k
    BY <1>1, LeastNat
  <2>2. n \in Nat /\ ~\E g : Folds(g, D, Upto(n), w, pick)
    BY <2>1
  <2>5. \A k \in Nat : k < n => \E g : Folds(g, D, Upto(k), w, pick)
    <3>1. ASSUME NEW k \in Nat, k < n PROVE k \notin T
      <4>. HIDE DEF T
      <4>. QED
        BY <2>1, <2>2, <3>1
    <3>. QED
      BY <3>1
  <2>3. CASE n = 0
    <3>1. \A s \in Upto(0) : s = {}
      BY FS_Subset, FS_EmptySet, FS_CardinalityType
    <3>2. Folds([s \in Upto(0) |-> 0], D, Upto(0), w, pick)
      BY <3>1 DEF Folds
    <3>. QED
      BY <2>2, <2>3, <3>2
  <2>4. CASE n # 0
    <3>1. n - 1 \in Nat /\ n - 1 < n
      BY <2>2, <2>4
    <3>2. PICK g : Folds(g, D, Upto(n - 1), w, pick)
      BY <2>5, <3>1
    <3>. DEFINE h == [s \in Upto(n) |-> IF s = {} THEN 0 ELSE g[s \ {pick[s]}] + w[pick[s]]]
    <3>3. \A s \in Upto(n - 1) : h[s] = g[s] /\ s \in Upto(n)
      <4>1. ASSUME NEW s \in Upto(n - 1) PROVE s \in Upto(n)
        <5>1. s \in SUBSET D /\ Cardinality(s) \in Nat /\ Cardinality(s) <= n - 1
          BY FS_Subset, FS_CardinalityType
        <5>. QED
          BY <2>2, <5>1
      <4>. QED
        BY <3>2, <4>1 DEF Folds
    <3>4. \A s \in Upto(n) : s # {} => s \ {pick[s]} \in Upto(n - 1)
      <4>1. ASSUME NEW s \in Upto(n), s # {} PROVE s \ {pick[s]} \in Upto(n - 1)
        <5>1. pick[s] \in s
          BY <4>1 DEF Picks
        <5>. QED
          BY <2>2, <4>1, <5>1, OneLess
      <4>. QED
        BY <4>1
    <3>5. Folds(h, D, Upto(n), w, pick)
      <4>1. \A s \in Upto(n) : s # {} => h[s \ {pick[s]}] = g[s \ {pick[s]}]
        BY <3>3, <3>4
      <4>. QED
        BY <4>1 DEF Folds
    <3>. QED
      BY <2>2, <3>5
  <2>. QED
    BY <2>3, <2>4
<1>2. Cardinality(D) \in Nat /\ Upto(Cardinality(D)) = SUBSET D
  BY FS_Subset, FS_CardinalityType
<1>3. \A n \in Nat : \E g : Folds(g, D, Upto(n), w, pick)
  BY <1>1
<1>. HIDE DEF Upto, T
<1>. QED
  BY <1>2, <1>3

(* The order does not matter for a sum.                                    *)
LEMMA AnyOrder ==
    ASSUME NEW D, IsFiniteSet(D), NEW w \in [D -> Int], NEW pick, Picks(pick, D),
           NEW g, Folds(g, D, SUBSET D, w, pick)
    PROVE  \A s \in SUBSET D :
               g[s] \in Int /\ \A x \in s : g[s] = g[s \ {x}] + w[x]
<1>. DEFINE Good(s) == g[s] \in Int /\ \A x \in s : g[s] = g[s \ {x}] + w[x]
            T == {Cardinality(s) : s \in {r \in SUBSET D : ~Good(r)}}
<1>1. ASSUME T # {} PROVE FALSE
  <2>1. T \subseteq Nat
    BY FS_Subset, FS_CardinalityType
  <2>2. PICK n \in T : \A k \in T : n <= k
    BY <1>1, <2>1, LeastNat
  <2>3. PICK s \in SUBSET D : ~Good(s) /\ n = Cardinality(s)
    BY <2>2
  <2>4. \A r \in SUBSET D : Cardinality(r) < Cardinality(s) => Good(r)
    <3>1. ASSUME NEW r \in SUBSET D, Cardinality(r) < Cardinality(s), ~Good(r) PROVE FALSE
      <4>1. Cardinality(r) \in T /\ Cardinality(r) \in Nat /\ Cardinality(s) \in Nat
        BY <2>1, <2>2, <2>3, <3>1
      <4>. HIDE DEF T
      <4>. QED
        BY <2>2, <2>3, <3>1, <4>1
    <3>. QED
      BY <3>1
  <2>. HIDE DEF T
  <2>5. s # {}
    BY <2>3 DEF Folds
  <2>. DEFINE c == pick[s]
  <2>6. c \in s /\ g[s] = g[s \ {c}] + w[c]
    BY <2>5 DEF Picks, Folds
  <2>. HIDE DEF c
  <2>7. ASSUME NEW x \in s
        PROVE  s \ {x} \in SUBSET D /\ Good(s \ {x}) /\ w[x] \in Int
    <3>1. s \ {x} \in SUBSET D /\ Cardinality(s \ {x}) < Cardinality(s)
      BY OneLess
    <3>2. Good(s \ {x})
      BY <2>4, <3>1
    <3>. QED
      BY <3>1, <3>2
  <2>8. ASSUME NEW x \in s, x # c PROVE g[s] = g[s \ {x}] + w[x]
    <3>1. g[s \ {c}] = g[(s \ {c}) \ {x}] + w[x]
      BY <2>6, <2>7, <2>8
    <3>2. g[s \ {x}] = g[(s \ {x}) \ {c}] + w[c]
      BY <2>6, <2>7, <2>8
    <3>3. (s \ {c}) \ {x} = (s \ {x}) \ {c}
      OBVIOUS
    <3>4. g[(s \ {c}) \ {x}] \in Int
      <4>1. /\ s \ {c} \in SUBSET D /\ x \in s \ {c} /\ (s \ {c}) \ {x} \in SUBSET D
        BY <2>6, <2>8
      <4>2. Cardinality(s \ {c}) = Cardinality(s) - 1 /\ Cardinality(s) \in Nat
        BY <2>6, OneLess
      <4>3. Cardinality((s \ {c}) \ {x}) = Cardinality(s \ {c}) - 1
        BY <4>1, OneLess
      <4>4. Cardinality((s \ {c}) \ {x}) < Cardinality(s)
        BY <4>2, <4>3
      <4>. QED
        BY <2>4, <4>1, <4>4
    <3>5. w[x] \in Int /\ w[c] \in Int
      BY <2>6, <2>7
    <3>6. g[s] = (g[(s \ {c}) \ {x}] + w[x]) + w[c]
      BY <2>6, <3>1
    <3>7. g[s \ {x}] = g[(s \ {c}) \ {x}] + w[c]
      BY <3>2, <3>3
    <3>. QED
      BY <3>4, <3>5, <3>6, <3>7
  <2>9. g[s] \in Int
    BY <2>6, <2>7
  <2>10. \A x \in s : g[s] = g[s \ {x}] + w[x]
    BY <2>6, <2>8
  <2>. QED
    BY <2>3, <2>9, <2>10
<1>2. ASSUME NEW s \in SUBSET D, ~Good(s) PROVE FALSE
  <2>1. Cardinality(s) \in T
    BY <1>2
  <2>. QED
    BY <1>1, <2>1
<1>. QED
  BY <1>2

(* What a fold over a channel adds up for a set s of its places.           *)
Adds(g, q, kind, s) ==
    IF s = {} THEN 0
    ELSE g[s \ {CHOOSE x \in s : TRUE}]
           + (IF q[CHOOSE x \in s : TRUE].kind = kind
              THEN Size(q[CHOOSE x \in s : TRUE]) ELSE 0)

LEMMA InFlightFolds ==
    ASSUME NEW q, NEW kind,
           \E g : g = [s \in SUBSET DOMAIN q |-> Adds(g, q, kind, s)]
    PROVE  \E g : /\ g = [s \in SUBSET DOMAIN q |-> Adds(g, q, kind, s)]
                  /\ InFlight(q, kind) = g[DOMAIN q]
<1>. DEFINE iter == CHOOSE g : g = [s \in SUBSET DOMAIN q |-> Adds(g, q, kind, s)]
<1>1. iter = [s \in SUBSET DOMAIN q |-> Adds(iter, q, kind, s)]
  OBVIOUS
<1>2. InFlight(q, kind) = iter[DOMAIN q]
  BY DEF InFlight, FoldSeq, FoldFunction, FoldFunctionOnSet, MapThenFoldSet, Adds
<1>. QED
  BY <1>1, <1>2

(* A run of messages carries what its ends are apart.                      *)
LEMMA Carried ==
    ASSUME NEW q \in Seq(Message), NEW kind, NEW from \in Nat, NEW to \in Nat,
           Contiguous(q, kind, from, to)
    PROVE  InFlight(q, kind) = to - from
<1>. DEFINE D == 1..Len(q)
            pick == [s \in SUBSET D |-> CHOOSE x \in s : TRUE]
            w == [i \in D |-> IF q[i].kind = kind THEN Size(q[i]) ELSE 0]
            step(g, s) == IF s = {} THEN 0 ELSE g[s \ {pick[s]}] + w[pick[s]]
<1>1. Len(q) \in Nat /\ D = DOMAIN q /\ \A i \in D : q[i] \in Message
  OBVIOUS
<1>2. IsFiniteSet(D)
  BY <1>1, FS_Interval
<1>3. Picks(pick, D)
  BY DEF Picks
<1>4. w \in [D -> Int]
  BY <1>1 DEF Message, Size
<1>5. \A g : \A s \in SUBSET D : step(g, s) = Adds(g, q, kind, s)
  <2>1. \A s \in SUBSET D : pick[s] = CHOOSE x \in s : TRUE
    OBVIOUS
  <2>2. \A s \in SUBSET D : s # {} =>
           w[pick[s]] = IF q[CHOOSE x \in s : TRUE].kind = kind
                        THEN Size(q[CHOOSE x \in s : TRUE]) ELSE 0
    BY <1>3, <2>1 DEF Picks
  <2>. HIDE DEF pick, w, D
  <2>. QED
    BY <2>1, <2>2 DEF Adds
<1>6. \A g : Folds(g, D, SUBSET D, w, pick) <=> g = [s \in SUBSET D |-> step(g, s)]
  BY DEF Folds
<1>. HIDE DEF step, pick, w
<1>7. \A g : Folds(g, D, SUBSET D, w, pick) <=>
              g = [s \in SUBSET D |-> Adds(g, q, kind, s)]
  <2>. HIDE DEF D
  <2>1. ASSUME NEW g
        PROVE  Folds(g, D, SUBSET D, w, pick) <=>
                   g = [s \in SUBSET D |-> Adds(g, q, kind, s)]
    <3>1. Folds(g, D, SUBSET D, w, pick) <=> g = [s \in SUBSET D |-> step(g, s)]
      BY <1>6
    <3>2. [s \in SUBSET D |-> step(g, s)] = [s \in SUBSET D |-> Adds(g, q, kind, s)]
      BY <1>5
    <3>. QED
      BY <3>1, <3>2, Zenon
  <2>. QED
    BY <2>1, Zenon
<1>8. PICK iter : /\ Folds(iter, D, SUBSET D, w, pick)
                  /\ InFlight(q, kind) = iter[D]
  <2>. HIDE DEF D
  <2>1. \E g : Folds(g, D, SUBSET D, w, pick)
    BY <1>2, <1>3, FoldExists
  <2>2. \E g : g = [s \in SUBSET DOMAIN q |-> Adds(g, q, kind, s)]
    BY <1>1, <1>7, <2>1
  <2>3. \E g : /\ g = [s \in SUBSET DOMAIN q |-> Adds(g, q, kind, s)]
               /\ InFlight(q, kind) = g[DOMAIN q]
    BY <2>2, InFlightFolds
  <2>. QED
    BY <1>1, <1>7, <2>3
<1>9. \A s \in SUBSET D : iter[s] \in Int /\ \A x \in s : iter[s] = iter[s \ {x}] + w[x]
  <2>. HIDE DEF D
  <2>. QED
    BY <1>2, <1>3, <1>4, <1>8, AnyOrder
<1>10. PICK pos \in [0..Len(q) -> from..to] :
        /\ pos[0] = from
        /\ pos[Len(q)] = to
        /\ \A i \in 1..Len(q) :
              IF q[i].kind = kind
              THEN q[i].lo = pos[i - 1] /\ q[i].hi = pos[i]
              ELSE pos[i] = pos[i - 1]
  BY DEF Contiguous
<1>11. \A i \in D : w[i] = pos[i] - pos[i - 1]
  BY <1>1, <1>10 DEF Size, w
<1>. DEFINE T == {n \in 0..Len(q) : iter[1..n] # pos[n] - from}
<1>12. ASSUME T # {} PROVE FALSE
  <2>0. T \subseteq Nat
    BY <1>1
  <2>1. PICK n \in T : \A k \in T : n <= k
    <3>. HIDE DEF T
    <3>. QED
      BY <1>12, <2>0, LeastNat
  <2>2. n \in 0..Len(q) /\ iter[1..n] # pos[n] - from
    BY <2>1
  <2>3. \A k \in 0..Len(q) : k < n => iter[1..k] = pos[k] - from
    <3>1. ASSUME NEW k \in 0..Len(q), k < n PROVE k \notin T
      <4>. HIDE DEF T
      <4>. QED
        BY <1>1, <2>1, <2>2, <3>1
    <3>. QED
      BY <3>1
  <2>. HIDE DEF T
  <2>4. n # 0
    <3>1. 1..0 = {} /\ {} \in SUBSET D
      OBVIOUS
    <3>2. iter[{}] = 0
      BY <1>8, <3>1 DEF Folds
    <3>. QED
      BY <1>10, <2>2, <3>1, <3>2
  <2>5. n \in D /\ n - 1 \in 0..Len(q) /\ (1..n) \ {n} = 1..(n - 1) /\ 1..n \in SUBSET D /\ n \in 1..n
    BY <1>1, <2>2, <2>4
  <2>6. iter[1..n] = iter[1..(n - 1)] + w[n]
    BY <1>9, <2>5
  <2>7. iter[1..(n - 1)] = pos[n - 1] - from
    BY <1>1, <2>2, <2>3, <2>5
  <2>. QED
    BY <1>10, <1>11, <2>2, <2>5, <2>6, <2>7
<1>. QED
  BY <1>1, <1>8, <1>10, <1>12

-----------------------------------------------------------------------------
(* Conservation                                                            *)

(* The two accounts to the byte: what the PWA may still send is what the   *)
(* initial credit leaves of the unacknowledged bytes, and so is what the   *)
(* pump may still read, as long as no sending has failed.                  *)
UpExact == pwaOpen => inputCredit = InitialCredit - (upSent - upAcked)

DownExact ==
    (stream = "open" /\ pump # "failed") =>
        output_credit = InitialCredit - (downRead - downAcked)

(* Bytes leave the sender's account for the wire or come back from it.     *)
LEMMA Account ==
    ASSUME NEW w \in Int, NEW a \in Int, NEW b \in Int, NEW c \in Int, NEW k \in Int,
           NEW x, NEW y, NEW z, a = w - (b - c), x = a - k,
           \/ y = b + k /\ z = c
           \/ y = b /\ z = c - k
    PROVE  x = w - (y - z)
OBVIOUS

LEMMA UpExactStep == TypeInv /\ UpExact /\ [Next]_vars => UpExact'
<1>. SUFFICES ASSUME TypeInv, UpExact, [Next]_vars PROVE UpExact'
  OBVIOUS
<1>0. /\ inputCredit \in Int /\ upSent \in Int /\ upAcked \in Int
      /\ InitialCredit \in Int /\ n2c \in Seq(Message)
  BY CreditAssumption DEF TypeInv, TypeOK
<1>1. ASSUME NEW n \in 1..MaxPacket, CustomSend(n) PROVE UpExact'
  <2>1. /\ pwaOpen /\ upAcked' = upAcked
        /\ \/ inputCredit' = inputCredit - n /\ upSent' = upSent + n
           \/ inputCredit' = inputCredit /\ upSent' = upSent
    BY <1>1 DEF CustomSend, Transmit
  <2>2. n \in Int /\ inputCredit = InitialCredit - (upSent - upAcked)
    BY <2>1 DEF UpExact
  <2>. QED
    BY <1>0, <2>1, <2>2, Account DEF UpExact
<1>2. CASE ResumeSend
  <2>1. Head(woken) \in [src : Nat, len : 1..MaxPacket]
    BY <1>2, HeadTail DEF ResumeSend, TypeInv, TypeOK
  <2>2. PICK n \in Int : n = Head(woken).len
    BY <2>1
  <2>3. /\ UNCHANGED <<pwaOpen, upAcked>>
        /\ \/ inputCredit' = inputCredit - n /\ upSent' = upSent + n
           \/ inputCredit' = inputCredit /\ upSent' = upSent
           \/ ~pwaOpen
    BY <1>2, <2>2 DEF ResumeSend, Transmit
  <2>4. CASE pwaOpen
    <3>1. inputCredit = InitialCredit - (upSent - upAcked)
      BY <2>4 DEF UpExact
    <3>. QED
      BY <1>0, <2>3, <2>4, <3>1, Account DEF UpExact
  <2>. QED
    BY <2>3, <2>4 DEF UpExact
<1>3. CASE PwaCredit
  <2>1. PICK n \in Int : n = Size(Head(n2c))
    BY <1>0, <1>3, HeadType DEF PwaCredit, PwaTakes
  <2>2. /\ pwaOpen /\ upSent' = upSent
        /\ inputCredit' = inputCredit + n /\ upAcked' = upAcked + n
    BY <1>3, <2>1 DEF PwaCredit, PwaTakes
  <2>3. inputCredit = InitialCredit - (upSent - upAcked)
    BY <2>2 DEF UpExact
  <2>4. inputCredit' = InitialCredit - (upSent' - upAcked')
    BY <1>0, <2>2, <2>3
  <2>. QED
    BY <2>4 DEF UpExact
<1>4. CASE PwaClose \/ PwaVanishes
  BY <1>4 DEF PwaClose, PwaVanishes, UpExact
<1>5. CASE PwaData \/ PwaIgnores
  BY <1>5 DEF PwaData, PwaIgnores, PwaTakes, UpExact, pwaVars, upVars
<1>6. CASE LoopNext
  BY <1>6 DEF LoopNext, SocketCloses, DataRefused, DataFails, DataAccepted,
     DrainReturns, DrainRaises, CreditRefused, CreditAdded, CloseRequested,
     LoopEnds, RunFinally, CloseFinishes, UpExact, pwaVars, upVars
<1>7. CASE PumpNext \/ PeerNext
  BY <1>7 DEF PumpNext, PumpArms, PumpReads, PumpEof, PumpError, PeerNext,
     PeerReads, PeerWrites, PeerEnds, PeerResets, UpExact, pwaVars, upVars
<1>8. CASE UNCHANGED vars
  BY <1>8 DEF vars, pwaVars, upVars, UpExact
<1>. QED
  BY <1>1, <1>2, <1>3, <1>4, <1>5, <1>6, <1>7, <1>8 DEF Next, PwaNext

LEMMA DownExactStep == TypeInv /\ DownExact /\ [Next]_vars => DownExact'
<1>. SUFFICES ASSUME TypeInv, DownExact, [Next]_vars PROVE DownExact'
  OBVIOUS
<1>0. /\ output_credit \in Int /\ downRead \in Int /\ downAcked \in Int
      /\ InitialCredit \in Int /\ c2n \in Seq(Message)
  BY CreditAssumption DEF TypeInv, TypeOK
<1>1. CASE CreditAdded
  <2>1. PICK n \in Int : n = Size(Head(c2n))
    BY <1>0, <1>1, HeadType DEF CreditAdded, NodeTakes
  <2>2. /\ UNCHANGED <<stream, pump, downRead>>
        /\ output_credit' = output_credit + n /\ downAcked' = downAcked + n
    BY <1>1, <2>1 DEF CreditAdded
  <2>3. output_credit = InitialCredit - (downRead - downAcked)
            => output_credit' = InitialCredit - (downRead' - downAcked')
    BY <1>0, <2>2
  <2>. QED
    BY <2>2, <2>3 DEF DownExact
<1>2. ASSUME NEW n \in 1..MaxPayload, PumpReads(n) PROVE DownExact'
  <2>1. /\ UNCHANGED <<stream, downAcked>> /\ pump = "read"
        /\ pump' = IF wsOpen THEN "credit" ELSE "failed"
        /\ output_credit' = output_credit - n
        /\ downRead' = IF wsOpen THEN downRead + n ELSE downRead
    BY <1>2 DEF PumpReads, SendData
  <2>. QED
    BY <1>0, <2>1, Account DEF DownExact
<1>3. CASE PumpArms \/ PumpEof \/ PumpError
  BY <1>3 DEF PumpArms, PumpEof, PumpError, DownExact, downVars
<1>4. CASE CloseRequested \/ RunFinally \/ CloseFinishes
  BY <1>4 DEF CloseRequested, RunFinally, CloseFinishes, LoopCloses, DownExact,
     downVars
<1>5. CASE SocketCloses \/ DataRefused \/ DataFails \/ DataAccepted \/ DrainReturns
           \/ DrainRaises \/ CreditRefused \/ LoopEnds
  BY <1>5 DEF SocketCloses, DataRefused, DataFails, DataAccepted, DrainReturns,
     DrainRaises, CreditRefused, LoopEnds, DownExact, nodeVars, downVars
<1>6. CASE PwaNext
  BY <1>6 DEF PwaNext, CustomSend, ResumeSend, PwaData, PwaCredit, PwaIgnores,
     PwaClose, PwaVanishes, DownExact, nodeVars, downVars
<1>7. CASE PeerNext
  BY <1>7 DEF PeerNext, PeerReads, PeerWrites, PeerEnds, PeerResets, DownExact,
     nodeVars, downVars
<1>8. CASE UNCHANGED vars
  BY <1>8 DEF vars, nodeVars, downVars, DownExact
<1>. QED
  BY <1>1, <1>2, <1>3, <1>4, <1>5, <1>6, <1>7, <1>8 DEF Next, LoopNext, PumpNext

LEMMA UpConserved == TypeInv /\ UpInv /\ UpExact => UpCreditConserved
<1>. SUFFICES ASSUME TypeInv, UpInv, UpExact,
                     pwaOpen, stream = "open", ~reset, loop \in {"recv", "drain"}
              PROVE  inputCredit + InFlight(c2n, "data")
                         + (IF loop = "drain" THEN Size(held) ELSE 0)
                         + InFlight(n2c, "credit") = InitialCredit
  BY DEF UpCreditConserved
<1>0. Typed
  BY TypedInv
<1>1. InFlight(c2n, "data") = upSent - upTaken
  BY <1>0, Carried DEF UpInv, UpData, Typed
<1>2. InFlight(n2c, "credit") = upCredited - upAcked
  BY <1>0, Carried DEF UpInv, UpCredits, Typed
<1>3. (IF loop = "drain" THEN Size(held) ELSE 0) = upTaken - upCredited
  BY <1>0 DEF UpInv, UpHeld, Size, Typed
<1>4. inputCredit = InitialCredit - (upSent - upAcked)
  BY DEF UpExact
<1>. QED
  BY <1>0, <1>1, <1>2, <1>3, <1>4, CreditAssumption DEF Typed

LEMMA DownConserved == TypeInv /\ DownInv /\ DownExact => DownCreditConserved
<1>. SUFFICES ASSUME TypeInv, DownInv, DownExact, stream = "open", pump # "failed"
              PROVE  output_credit + InFlight(n2c, "data") + InFlight(c2n, "credit")
                         = InitialCredit
  BY DEF DownCreditConserved
<1>0. Typed
  BY TypedInv
<1>1. InFlight(n2c, "data") = downRead - downGot
  BY <1>0, Carried DEF DownInv, DownData, Typed
<1>2. InFlight(c2n, "credit") = downGot - downAcked
  BY <1>0, Carried DEF DownInv, DownCredits, Typed
<1>3. output_credit = InitialCredit - (downRead - downAcked)
  BY DEF DownExact
<1>. QED
  BY <1>0, <1>1, <1>2, <1>3, CreditAssumption DEF Typed

(* No credit is lost or made on a live stream: in both directions what is  *)
(* at the sender, in data on its way, in the write under way and in credit *)
(* on its way back is the initial credit, to the byte.                     *)
THEOREM Conservation == Spec => []CreditConserved
<1>1. Init => UpExact /\ DownExact
  BY CreditAssumption DEF Init, UpExact, DownExact
<1>2. TypeInv /\ UpInv /\ DownInv /\ UpExact /\ DownExact => CreditConserved
  BY UpConserved, DownConserved DEF CreditConserved
<1>. QED
  BY <1>1, <1>2, CreditInvariant, UpExactStep, DownExactStep, PTL DEF Spec
=============================================================================
