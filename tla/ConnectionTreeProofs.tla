------------------------ MODULE ConnectionTreeProofs ------------------------
(***************************************************************************)
(* Proofs about ConnectionTree, for any number of pages, folders, hosts    *)
(* and operations: the tree stays a tree, passwords keep their host and    *)
(* their key, and the memory of a page follows the database.               *)
(*                                                                         *)
(* A page decides on its memory and the database changes later, so the     *)
(* invariant says of the operation under way that it still fits the stored *)
(* tree (Good), and of the nodes being dragged that none lies in another   *)
(* (Apart).  "mixed" is false exactly while operations take turns.         *)
(***************************************************************************)
EXTENDS ConnectionTree, TLAPS, FiniteSetTheorems, SequenceTheorems, WellFoundedInduction

Places == Folders \cup {Root}

MoveOp == [kind : {"move"}, raw : SUBSET Nodes, to : Places, nodes : SUBSET Nodes]
FolderOp == [kind : {"put"}, node : Folders, to : Places, secret : {FALSE}]
HostOp == [kind : {"put"}, node : Hosts, to : Places, secret : BOOLEAN]
DeleteOp == [kind : {"delete"}, roots : SUBSET Folders]
EraseOp == [kind : {"erase"}, nodes : SUBSET Nodes]
Op == MoveOp \cup FolderOp \cup HostOp \cup DeleteOp \cup EraseOp

(* A node that no other dragged node contains.                             *)
Apart(m, set) == \A n \in set : m[n] # Gone => Above(m, n) \cap set = {}

(* The place is not in or below a node of the set.                         *)
Free(m, set, to) ==
    to # Root => /\ to \in Rows(m)
                 /\ ({to} \cup Above(m, to)) \cap set = {}

(* The operation still fits the stored tree.                               *)
GoodMove(m, op) ==
    /\ Free(m, op.raw, op.to)
    /\ op.nodes \cap Rows(m) = op.raw \cap Rows(m)

GoodPut(m, op, new, dragged) ==
    /\ op.to = Root \/ op.to \in Rows(m)
    /\ m[op.node] \in {Gone, op.to}
    /\ op.node \notin new
    /\ m[op.node] = Gone => op.node \notin dragged

Closed(m, nodes) == \A n \in Rows(m) : m[n] \in nodes => n \in nodes

Good(m, op, new, dragged) ==
    /\ op.kind = "move" => GoodMove(m, op)
    /\ op.kind = "put" => GoodPut(m, op, new, dragged)
    /\ op.kind = "erase" => Closed(m, op.nodes)

Grounded(m) == \A n \in Rows(m) : m[n] = Root \/ m[n] \in Rows(m)

-----------------------------------------------------------------------------
(* The inductive invariant, part by part                                   *)

Types ==
    /\ TypeOK
    /\ ops \in [Pages -> Seq(Op)]

(* Nothing is under way on a page that has not started.                    *)
Started ==
    \A p \in Pages : page[p].pc # "ready" =>
        ops[p] = <<>> /\ drag[p] = {} /\ sealing[p] = None

(* Every key in use is the stored one.                                     *)
Readable ==
    ~split => /\ \A h \in Hosts : cred[h] # None => cred[h] = vault
              /\ \A p \in Pages : page[p].key # None => page[p].key = vault

(* No folder is above itself, and what is stored hangs together.           *)
Forests ==
    ~mixed => /\ Acyclic(par) /\ Grounded(par)
              /\ \A p \in Pages : Acyclic(mem[p])

(* A node whose id nobody has drawn is nowhere.                            *)
New ==
    ~mixed => \A n \in unborn :
        /\ par[n] = Gone
        /\ \A p \in Pages : mem[p][n] = Gone /\ n \notin drag[p]

(* One thing is under way at a time, and it began on the stored tree.      *)
Turns ==
    ~mixed =>
        /\ \A p, q \in Busy : p = q
        /\ \A p \in Busy : mem[p] = par
        /\ \A p \in Pages : ops[p] # <<>> =>
               /\ sealing[p] = None /\ Len(ops[p]) = 1
               /\ Good(par, Head(ops[p]), unborn, drag[p])

Drags == ~mixed => \A p \in Pages : Apart(mem[p], drag[p])

Owned ==
    ~mixed => /\ \A h \in Hosts : cred[h] # None => par[h] # Gone
              /\ \A p \in Pages : sealing[p] # None => par[sealing[p]] # Gone

IInv == Types /\ Started /\ Readable /\ Forests /\ New /\ Turns /\ Drags /\ Owned

-----------------------------------------------------------------------------
(* Walks up a tree                                                         *)

(* A set of folders that holds the folder of n and is closed holds all     *)
(* that is above n.                                                        *)
LEMMA AboveWithin ==
    ASSUME NEW m, NEW n, NEW S, S \subseteq Folders,
           m[n] \in Folders => m[n] \in S,
           \A g \in S : m[g] \in Folders => m[g] \in S
    PROVE  Above(m, n) \subseteq S
BY DEF Above

(* What is above n is a set of folders, holds its folder and is closed.    *)
LEMMA AboveClosed ==
    ASSUME NEW m, NEW n
    PROVE  /\ Above(m, n) \subseteq Folders
           /\ m[n] \in Folders => m[n] \in Above(m, n)
           /\ \A g \in Above(m, n) : m[g] \in Folders => m[g] \in Above(m, n)
BY DEF Above

(* The way up from a folder above n is part of the way up from n.          *)
LEMMA AboveAbove ==
    ASSUME NEW m, NEW n, NEW g \in Above(m, n)
    PROVE  Above(m, g) \subseteq Above(m, n)
<1>. DEFINE S == Above(m, n)
<1>1. /\ S \subseteq Folders
      /\ m[g] \in Folders => m[g] \in S
      /\ \A f \in S : m[f] \in Folders => m[f] \in S
  BY AboveClosed
<1>. HIDE DEF S
<1>2. Above(m, g) \subseteq S
  BY <1>1, AboveWithin
<1>. QED
  BY <1>2 DEF S

(* The way up is the folder of n and the way up from there.                *)
LEMMA AboveSplit ==
    ASSUME NEW m, NEW n
    PROVE  Above(m, n) \subseteq {m[n]} \cup Above(m, m[n])
<1>. DEFINE S == ({m[n]} \cup Above(m, m[n])) \cap Folders
<1>1. /\ S \subseteq Folders
      /\ m[n] \in Folders => m[n] \in S
      /\ \A f \in S : m[f] \in Folders => m[f] \in S
  BY AboveClosed
<1>2. Above(m, n) \subseteq S
  <2>. HIDE DEF S
  <2>. QED
    BY <1>1, AboveWithin
<1>. QED
  BY <1>2

(* A node at the root has nothing above it.                                *)
LEMMA AboveRoot ==
    ASSUME NEW m, NEW n, m[n] \notin Folders
    PROVE  Above(m, n) = {}
<1>. DEFINE S == {}
<1>1. /\ S \subseteq Folders /\ (m[n] \in Folders => m[n] \in S)
      /\ \A g \in S : m[g] \in Folders => m[g] \in S
  OBVIOUS
<1>2. Above(m, n) \subseteq S
  <2>. HIDE DEF S
  <2>. QED
    BY <1>1, AboveWithin
<1>. QED
  BY <1>2

(* In a grounded tree the way up passes only folders that exist.           *)
LEMMA AboveRows ==
    ASSUME NEW m \in Trees, Grounded(m), NEW n \in Nodes
    PROVE  Above(m, n) \subseteq Rows(m)
<1>. DEFINE S == Rows(m) \cap Folders
<1>1. /\ S \subseteq Folders /\ (m[n] \in Folders => m[n] \in S)
      /\ \A g \in S : m[g] \in Folders => m[g] \in S
  <2>1. ASSUME NEW k \in Nodes, m[k] \in Folders PROVE m[k] \in S
    <3>1. k \in Rows(m) /\ m[k] # Root
      BY <2>1, TreeAssumption DEF Rows, Nodes
    <3>. QED
      BY <2>1, <3>1 DEF Grounded
  <2>. QED
    BY <2>1 DEF Nodes
<1>2. Above(m, n) \subseteq S
  <2>. HIDE DEF S
  <2>. QED
    BY <1>1, AboveWithin
<1>. QED
  BY <1>2

(* Taking rows away adds nothing above a node.                             *)
LEMMA Shrinks ==
    ASSUME NEW m, NEW k, NEW n \in Nodes,
           \A g \in Nodes : k[g] \in {Gone, m[g]}
    PROVE  Above(k, n) \subseteq Above(m, n)
<1>. DEFINE S == Above(m, n)
<1>1. /\ S \subseteq Folders
      /\ m[n] \in Folders => m[n] \in S
      /\ \A g \in S : m[g] \in Folders => m[g] \in S
  BY AboveClosed
<1>2. \A g \in Nodes : k[g] \in Folders => k[g] = m[g]
  BY TreeAssumption DEF Nodes
<1>. HIDE DEF S
<1>3. /\ k[n] \in Folders => k[n] \in S
      /\ \A g \in S : k[g] \in Folders => k[g] \in S
  BY <1>1, <1>2 DEF Nodes
<1>4. Above(k, n) \subseteq S
  BY <1>1, <1>3, AboveWithin
<1>. QED
  BY <1>4 DEF S

LEMMA ShrinksKeeps ==
    ASSUME NEW m, NEW k, \A g \in Nodes : k[g] \in {Gone, m[g]}
    PROVE  /\ Acyclic(m) => Acyclic(k)
           /\ \A set \in SUBSET Nodes : Apart(m, set) => Apart(k, set)
<1>1. \A n \in Nodes : Above(k, n) \subseteq Above(m, n)
  BY Shrinks
<1>2. \A n \in Nodes : k[n] # Gone => m[n] # Gone
  OBVIOUS
<1>. QED
  BY <1>1, <1>2 DEF Acyclic, Apart, Nodes

(* Trees with the same folders have the same cycles.                       *)
LEMMA SameFolders ==
    ASSUME NEW m, NEW k, \A g \in Folders : k[g] = m[g], Acyclic(m)
    PROVE  Acyclic(k)
<1>. SUFFICES ASSUME NEW f \in Folders, k[f] # Gone PROVE f \notin Above(k, f)
  BY DEF Acyclic
<1>. DEFINE S == Above(m, f)
<1>1. /\ S \subseteq Folders
      /\ m[f] \in Folders => m[f] \in S
      /\ \A g \in S : m[g] \in Folders => m[g] \in S
  BY AboveClosed
<1>2. f \notin S
  BY DEF Acyclic
<1>. HIDE DEF S
<1>3. /\ k[f] \in Folders => k[f] \in S
      /\ \A g \in S : k[g] \in Folders => k[g] \in S
  BY <1>1
<1>4. Above(k, f) \subseteq S
  BY <1>1, <1>3, AboveWithin
<1>. QED
  BY <1>2, <1>4

-----------------------------------------------------------------------------
(* Operations on a tree                                                    *)

(* k is the tree m after the nodes of a set went to a place.               *)
Moved(m, k, set, to) ==
    \A n \in Nodes : k[n] = IF n \in set \cap Rows(m) THEN to ELSE m[n]

(* Nodes moved to a place that is not below any of them close no cycle.    *)
LEMMA MoveAcyclic ==
    ASSUME NEW m, NEW k, NEW set, NEW to, Acyclic(m), m \in Trees,
           Moved(m, k, set, to), Free(m, set, to)
    PROVE  Acyclic(k)
<1>. SUFFICES ASSUME NEW f \in Folders, k[f] # Gone PROVE f \notin Above(k, f)
  BY DEF Acyclic
<1>. DEFINE K == IF to = Root THEN {} ELSE ({to} \cup Above(m, to)) \cap Folders
            A == Above(m, f)
<1>1. f \in Nodes /\ m[f] # Gone /\ f \notin A
  BY DEF Acyclic, Nodes, Rows, Moved
<1>2. /\ K \subseteq Folders /\ K \cap set = {}
      /\ to \in Folders => to \in K
      /\ \A g \in K : m[g] \in Folders => m[g] \in K
  <2>1. CASE to = Root
    BY <2>1, TreeAssumption DEF Nodes
  <2>2. CASE to # Root
    BY <2>2, AboveClosed DEF Free
  <2>. QED
    BY <2>1, <2>2
<1>3. /\ A \subseteq Folders
      /\ m[f] \in Folders => m[f] \in A
      /\ \A g \in A : m[g] \in Folders => m[g] \in A
  BY AboveClosed
<1>4. CASE f \in K
  <2>. DEFINE S == A \cap K
  <2>0. \A g \in K : k[g] = m[g]
    BY <1>2 DEF Moved, Nodes
  <2>1. /\ S \subseteq Folders
        /\ k[f] \in Folders => k[f] \in S
        /\ \A g \in S : k[g] \in Folders => k[g] \in S
    <3>. HIDE DEF A, K
    <3>. QED
      BY <1>2, <1>3, <1>4, <2>0
  <2>2. Above(k, f) \subseteq S
    <3>. HIDE DEF S
    <3>. QED
      BY <2>1, AboveWithin
  <2>. QED
    BY <1>1, <2>2
<1>5. CASE f \notin K
  <2>. DEFINE S == A \cup K
  <2>0. \A g \in Nodes : k[g] \in {m[g], to}
    BY DEF Moved
  <2>1. /\ S \subseteq Folders
        /\ k[f] \in Folders => k[f] \in S
        /\ \A g \in S : k[g] \in Folders => k[g] \in S
    <3>. HIDE DEF A, K
    <3>. QED
      BY <1>1, <1>2, <1>3, <2>0 DEF Nodes
  <2>2. Above(k, f) \subseteq S
    <3>. HIDE DEF S
    <3>. QED
      BY <2>1, AboveWithin
  <2>. QED
    BY <1>1, <1>5, <2>2
<1>. QED
  BY <1>4, <1>5

(* What is above another node than a new one does not change.              *)
LEMMA PutAbove ==
    ASSUME NEW m \in Trees, Grounded(m), NEW x \in Nodes, m[x] = Gone, NEW k,
           \A n \in Nodes : n # x => k[n] = m[n],
           NEW n \in Nodes, n # x
    PROVE  Above(k, n) \subseteq Above(m, n)
<1>. DEFINE S == Above(m, n)
<1>1. /\ S \subseteq Folders
      /\ m[n] \in Folders => m[n] \in S
      /\ \A g \in S : m[g] \in Folders => m[g] \in S
  BY AboveClosed
<1>2. x \notin S
  BY AboveRows DEF Rows
<1>. HIDE DEF S
<1>3. /\ k[n] \in Folders => k[n] \in S
      /\ \A g \in S : k[g] \in Folders => k[g] \in S
  BY <1>1, <1>2 DEF Nodes
<1>4. Above(k, n) \subseteq S
  BY <1>1, <1>3, AboveWithin
<1>. QED
  BY <1>4 DEF S

(* A new node closes no cycle.                                             *)
LEMMA PutAcyclic ==
    ASSUME NEW m \in Trees, Grounded(m), Acyclic(m), NEW x \in Nodes, m[x] = Gone, NEW k,
           \A n \in Nodes : n # x => k[n] = m[n],
           k[x] # Root => k[x] \in Rows(m)
    PROVE  Acyclic(k)
<1>. SUFFICES ASSUME NEW f \in Folders, k[f] # Gone PROVE f \notin Above(k, f)
  BY DEF Acyclic
<1>1. CASE f # x
  <2>1. Above(k, f) \subseteq Above(m, f)
    BY <1>1, PutAbove DEF Nodes
  <2>. QED
    BY <1>1, <2>1 DEF Acyclic, Nodes
<1>2. CASE f = x /\ k[x] \notin Folders
  BY <1>2, AboveRoot
<1>3. CASE f = x /\ k[x] \in Folders
  <2>1. k[x] \in Rows(m) /\ k[x] # x /\ k[x] \in Nodes
    BY <1>3, TreeAssumption DEF Rows, Nodes
  <2>2. Above(k, k[x]) \subseteq Above(m, k[x])
    BY <2>1, PutAbove
  <2>3. Above(m, k[x]) \subseteq Rows(m)
    BY <2>1, AboveRows
  <2>4. Above(k, f) \subseteq {k[x]} \cup Above(k, k[x])
    BY <1>3, AboveSplit
  <2>. QED
    BY <1>3, <2>1, <2>2, <2>3, <2>4 DEF Rows
<1>. QED
  BY <1>1, <1>2, <1>3

LEMMA PutApart ==
    ASSUME NEW m \in Trees, Grounded(m), NEW x \in Nodes, m[x] = Gone, NEW k,
           \A n \in Nodes : n # x => k[n] = m[n],
           NEW set \in SUBSET Nodes, x \notin set, Apart(m, set)
    PROVE  Apart(k, set)
<1>1. ASSUME NEW n \in set PROVE n # x /\ n \in Nodes /\ k[n] = m[n] /\ Above(k, n) \subseteq Above(m, n)
  <2>1. n # x /\ n \in Nodes
    OBVIOUS
  <2>. QED
    BY <2>1, PutAbove
<1>. QED
  BY <1>1 DEF Apart

-----------------------------------------------------------------------------
(* What the panel shows                                                    *)

(* What is under a folder that is shown is shown.                          *)
LEMMA VisibleClosed ==
    ASSUME NEW m, NEW n \in Rows(m), ShownUnder(m, n) \in Visible(m) \cup {Root}
    PROVE  n \in Visible(m)
<1>. SUFFICES ASSUME NEW S \in SUBSET Rows(m),
                     \A k \in Rows(m) : ShownUnder(m, k) \in S \cup {Root} => k \in S
              PROVE  n \in S
  BY DEF Visible
<1>1. Visible(m) \subseteq S
  BY DEF Visible
<1>. QED
  BY <1>1

LEMMA VisibleRows ==
    ASSUME NEW m PROVE Visible(m) \subseteq Rows(m)
BY DEF Visible

(* A tree of which everything is shown where it is has no cycle.           *)
LEMMA ShownAcyclic ==
    ASSUME NEW m \in Trees, \A n \in Rows(m) : ShownUnder(m, n) = m[n] /\ n \in Visible(m)
    PROVE  Acyclic(m) /\ Grounded(m)
<1>1. Grounded(m)
  BY DEF Grounded, ShownUnder, Rows, Nodes
<1>2. ASSUME NEW f \in Folders, m[f] # Gone, f \in Above(m, f) PROVE FALSE
  <2>. DEFINE S == {n \in Rows(m) : f \notin Above(m, n)}
  <2>1. ASSUME NEW k \in Rows(m), ShownUnder(m, k) \in S \cup {Root} PROVE k \in S
    <3>1. CASE m[k] = Root
      BY <3>1, AboveRoot, TreeAssumption DEF Nodes
    <3>2. CASE m[k] # Root
      <4>1. m[k] \in S
        BY <2>1, <3>2
      <4>2. Above(m, k) \subseteq {m[k]} \cup Above(m, m[k])
        BY AboveSplit
      <4>. QED
        BY <1>2, <4>1, <4>2
    <3>. QED
      BY <3>1, <3>2
  <2>2. S \subseteq Rows(m) /\ f \in Rows(m) /\ f \notin S
    BY <1>2 DEF Rows, Nodes
  <2>3. f \in Visible(m)
    BY <2>2
  <2>. HIDE DEF S
  <2>. QED
    BY <2>1, <2>2, <2>3 DEF Visible
<1>. QED
  BY <1>1, <1>2 DEF Acyclic

(* The least of a set of naturals.                                         *)
LEMMA LeastNat ==
    ASSUME NEW T, T \subseteq Nat, T # {}
    PROVE  \E x \in T : \A y \in T : x <= y
<1>. DEFINE R == {ss \in Nat \X Nat : ss[1] < ss[2]}
<1>1. IsWellFoundedOn(R, Nat)
  BY NatLessThanWellFounded DEF OpToRel
<1>2. \A x, y \in Nat : y < x => <<y, x>> \in R
  OBVIOUS
<1>. HIDE DEF R
<1>3. PICK x \in T : \A y \in T : ~(<<y, x>> \in R)
  BY <1>1, WFMin
<1>4. ASSUME NEW y \in T PROVE x <= y
  <2>1. x \in Nat /\ y \in Nat
    OBVIOUS
  <2>2. ~(y < x)
    BY <1>2, <1>3, <2>1
  <2>. QED
    BY <2>1, <2>2
<1>. QED
  BY <1>4

(* A folder that is shown nowhere has above it, or is, one that lies in    *)
(* itself: the way up of one after the other would be ever shorter.        *)
LEMMA HiddenByCycle ==
    ASSUME NEW m \in Trees, NEW n \in Rows(m), n \notin Visible(m)
    PROVE  \E f \in {n} \cup Above(m, n) : f \in Above(m, f)
<1>. SUFFICES ASSUME \A f \in {n} \cup Above(m, n) : f \notin Above(m, f)
              PROVE  FALSE
  OBVIOUS
<1>. DEFINE H == {f \in {n} \cup Above(m, n) : f \in Rows(m) \ Visible(m)}
            T == {Cardinality(Above(m, f)) : f \in H}
<1>1. ASSUME NEW f PROVE IsFiniteSet(Above(m, f)) /\ Cardinality(Above(m, f)) \in Nat
  <2>1. Above(m, f) \subseteq Folders
    BY AboveClosed
  <2>. QED
    BY <2>1, FS_Subset, FS_CardinalityType, TreeAssumption
<1>2. T \subseteq Nat /\ T # {}
  BY <1>1
<1>3. PICK f \in H : \A g \in H : Cardinality(Above(m, f)) <= Cardinality(Above(m, g))
  <2>. HIDE DEF H
  <2>1. PICK x \in T : \A y \in T : x <= y
    BY <1>2, LeastNat
  <2>. QED
    BY <2>1
<1>. DEFINE g == m[f]
<1>4. g \in Folders /\ g \in Rows(m) \ Visible(m)
  <2>1. ShownUnder(m, f) \notin Visible(m) \cup {Root}
    BY <1>3, VisibleClosed
  <2>. QED
    BY <2>1 DEF ShownUnder, Rows, Nodes
<1>5. g \in Above(m, f) /\ Above(m, f) \subseteq {n} \cup Above(m, n)
  BY <1>3, <1>4, AboveClosed, AboveAbove
<1>6. g \in H
  BY <1>4, <1>5
<1>7. Above(m, g) \subseteq Above(m, f) /\ g \notin Above(m, g)
  BY <1>5, <1>6, AboveAbove
<1>8. /\ Cardinality(Above(m, g)) <= Cardinality(Above(m, f))
      /\ Cardinality(Above(m, g)) # Cardinality(Above(m, f))
  <2>1. Above(m, g) # Above(m, f)
    BY <1>5, <1>7
  <2>2. Above(m, g) \in SUBSET Above(m, f)
    BY <1>7
  <2>. HIDE DEF g
  <2>. QED
    BY <1>1, <2>1, <2>2, FS_Subset
<1>. QED
  <2>1. Cardinality(Above(m, f)) <= Cardinality(Above(m, g))
    BY <1>3, <1>6
  <2>. HIDE DEF g
  <2>. QED
    BY <1>1, <1>8, <2>1

-----------------------------------------------------------------------------
(* What the invariant says of the variables, one by one                    *)

LEMMA Facts ==
    ASSUME IInv
    PROVE  /\ par \in Trees /\ mem \in [Pages -> Trees]
           /\ cred \in [Hosts -> Pages \cup {None}] /\ vault \in Pages \cup {None}
           /\ page \in [Pages -> [pc : {"off", "minting", "hosts", "folders", "ready"},
                                  key : Pages \cup {None}]]
           /\ drag \in [Pages -> SUBSET Nodes] /\ sealing \in [Pages -> Hosts \cup {None}]
           /\ ops \in [Pages -> Seq(Op)]
           /\ unborn \subseteq Nodes /\ begun \in 0..MaxOps
           /\ mixed \in BOOLEAN /\ split \in BOOLEAN
BY DEF IInv, Types, TypeOK

LEMMA PageFacts ==
    ASSUME IInv, NEW p \in Pages
    PROVE  /\ mem[p] \in Trees /\ drag[p] \subseteq Nodes /\ ops[p] \in Seq(Op)
           /\ sealing[p] \in Hosts \cup {None}
           /\ page[p].pc \in {"off", "minting", "hosts", "folders", "ready"}
           /\ page[p].key \in Pages \cup {None}
           /\ page[p].pc \notin {"off", "minting"} => page[p].key # None
BY Facts DEF IInv, Types, TypeOK

LEMMA InitHolds == Init => IInv
<1>. SUFFICES ASSUME Init PROVE IInv
  OBVIOUS
<1>1. par \in Trees /\ Acyclic(par) /\ Grounded(par)
  BY ShownAcyclic DEF Init
<1>2. Empty \in Trees /\ Acyclic(Empty) /\ \A n \in Nodes : Empty[n] = Gone
  BY DEF Empty, Trees, Acyclic, Nodes
<1>3. mem = [p \in Pages |-> Empty] /\ drag = [p \in Pages |-> {}] /\ ops = [p \in Pages |-> <<>>]
      /\ sealing = [p \in Pages |-> None] /\ cred = [h \in Hosts |-> None] /\ vault = None
      /\ page = [p \in Pages |-> Off] /\ unborn = Nodes \ Rows(par)
      /\ begun = 0 /\ mixed = FALSE /\ split = FALSE
  BY DEF Init
<1>4. Types
  <2>1. /\ mem \in [Pages -> Trees] /\ drag \in [Pages -> SUBSET Nodes]
        /\ ops \in [Pages -> Seq(Op)] /\ sealing \in [Pages -> Hosts \cup {None}]
        /\ cred \in [Hosts -> Pages \cup {None}]
    BY <1>2, <1>3
  <2>2. /\ page \in [Pages -> [pc : {"off", "minting", "hosts", "folders", "ready"},
                               key : Pages \cup {None}]]
        /\ \A p \in Pages : page[p].pc = "off"
    BY <1>3 DEF Off
  <2>3. begun \in 0..MaxOps
    BY <1>3, TreeAssumption
  <2>4. unborn \subseteq Nodes /\ {mixed, split} \subseteq BOOLEAN
    BY <1>3
  <2>. QED
    BY <1>1, <1>3, <2>1, <2>2, <2>3, <2>4 DEF Types, TypeOK
<1>5. Started /\ Readable
  BY <1>3 DEF Started, Readable, Off
<1>6. Forests /\ New
  BY <1>1, <1>2, <1>3 DEF Forests, New, Rows
<1>7. Turns
  BY <1>3 DEF Turns, Busy
<1>8. Drags /\ Owned
  BY <1>3 DEF Drags, Owned, Apart
<1>. QED
  BY <1>4, <1>5, <1>6, <1>7, <1>8 DEF IInv

-----------------------------------------------------------------------------
(* Starting a page                                                         *)

LEMMA StartKeeps ==
    ASSUME IInv, NEW p \in Pages, Start(p)
    PROVE  IInv'
<1>. DEFINE x == IF vault = None THEN [pc |-> "minting", key |-> None]
                 ELSE [pc |-> "hosts", key |-> vault]
<1>1. page[p].pc = "off" /\ page' = [page EXCEPT ![p] = x]
      /\ UNCHANGED <<par, cred, vault, mem, drag, ops, sealing, unborn, begun, mixed, split>>
  BY DEF Start
<1>2. /\ x \in [pc : {"minting", "hosts"}, key : Pages \cup {None}] /\ x.key \in {None, vault}
      /\ x.pc \in {"minting", "hosts"} /\ (x.pc = "hosts" => x.key # None)
  BY Facts
<1>. HIDE DEF x
<1>3. /\ page'[p] = x /\ \A q \in Pages \ {p} : page'[q] = page[q]
      /\ page' \in [Pages -> [pc : {"off", "minting", "hosts", "folders", "ready"},
                              key : Pages \cup {None}]]
  BY <1>1, <1>2, Facts
<1>4. Types'
  BY <1>1, <1>2, <1>3 DEF IInv, Types, TypeOK
<1>5. Started'
  BY <1>1, <1>2, <1>3 DEF IInv, Started
<1>6. Readable'
  BY <1>1, <1>2, <1>3 DEF IInv, Readable
<1>7. Forests' /\ New' /\ Turns' /\ Drags' /\ Owned'
  BY <1>1 DEF IInv, Forests, New, Turns, Busy, Drags, Owned
<1>. QED
  BY <1>4, <1>5, <1>6, <1>7 DEF IInv

LEMMA MintsVaultKeeps ==
    ASSUME IInv, NEW p \in Pages, MintsVault(p)
    PROVE  IInv'
<1>. DEFINE x == [pc |-> "hosts", key |-> p]
<1>1. /\ page[p].pc = "minting" /\ page' = [page EXCEPT ![p] = x]
      /\ vault' = p /\ split' = (split \/ vault # None)
      /\ UNCHANGED <<par, cred, mem, drag, ops, sealing, unborn, begun, mixed>>
  BY DEF MintsVault
<1>2. /\ x \in [pc : {"minting", "hosts"}, key : Pages \cup {None}] /\ x.key = p
      /\ x.pc = "hosts" /\ p # None
  BY TreeAssumption
<1>. HIDE DEF x
<1>3. /\ page'[p] = x /\ \A q \in Pages \ {p} : page'[q] = page[q]
      /\ page' \in [Pages -> [pc : {"off", "minting", "hosts", "folders", "ready"},
                              key : Pages \cup {None}]]
  BY <1>1, <1>2, Facts
<1>4. Types'
  <2>1. split' \in BOOLEAN
    BY <1>1, Facts
  <2>. QED
    BY <1>1, <1>2, <1>3, <2>1 DEF IInv, Types, TypeOK
<1>5. Started'
  BY <1>1, <1>2, <1>3 DEF IInv, Started
<1>6. Readable'
  BY <1>1, <1>2, <1>3 DEF IInv, Readable
<1>7. Forests' /\ New' /\ Turns' /\ Drags' /\ Owned'
  BY <1>1 DEF IInv, Forests, New, Turns, Busy, Drags, Owned
<1>. QED
  BY <1>4, <1>5, <1>6, <1>7 DEF IInv

(* A page that reads a store as it starts has nothing under way.           *)
LEMMA ReadKeeps ==
    ASSUME IInv, NEW p \in Pages, NEW S \in {Hosts, Folders}, NEW pc \in {"folders", "ready"},
           page[p].pc \in {"hosts", "folders"},
           page' = [page EXCEPT ![p].pc = pc],
           mem' = [mem EXCEPT ![p] = Read(p, S)],
           UNCHANGED <<par, cred, vault, drag, ops, sealing, unborn, begun, mixed, split>>
    PROVE  IInv'
<1>. DEFINE k == Read(p, S)
            x == [page[p] EXCEPT !.pc = pc]
<1>1. /\ k \in Trees
      /\ \A n \in Nodes : k[n] \in {par[n], mem[p][n]}
      /\ (\A f \in Folders : k[f] = par[f]) \/ (\A f \in Folders : k[f] = mem[p][f])
  BY PageFacts, Facts, TreeAssumption DEF Read, Trees, Nodes
<1>2. /\ x \in [pc : {"folders", "ready"}, key : Pages \cup {None}]
      /\ x.key = page[p].key /\ x.pc = pc /\ page[p].key # None
  BY PageFacts, Facts
<1>3. page' = [page EXCEPT ![p] = x]
  OBVIOUS
<1>. HIDE DEF k, x
<1>4. /\ page'[p] = x /\ \A q \in Pages \ {p} : page'[q] = page[q]
      /\ page' \in [Pages -> [pc : {"off", "minting", "hosts", "folders", "ready"},
                              key : Pages \cup {None}]]
  <2>1. x \in [pc : {"off", "minting", "hosts", "folders", "ready"}, key : Pages \cup {None}]
    BY <1>2
  <2>2. page \in [Pages -> [pc : {"off", "minting", "hosts", "folders", "ready"},
                           key : Pages \cup {None}]]
    BY Facts
  <2>. QED
    BY <1>3, <2>1, <2>2
<1>5. /\ mem'[p] = k /\ \A q \in Pages \ {p} : mem'[q] = mem[q]
      /\ mem' \in [Pages -> Trees]
  BY <1>1, Facts DEF k
<1>6. ops[p] = <<>> /\ drag[p] = {} /\ sealing[p] = None
  BY DEF IInv, Started
<1>7. Types'
  BY <1>2, <1>4, <1>5 DEF IInv, Types, TypeOK
<1>8. Started' /\ Readable'
  BY <1>2, <1>4, <1>6 DEF IInv, Started, Readable
<1>9. Forests'
  <2>. SUFFICES ASSUME ~mixed
                PROVE  /\ Acyclic(par) /\ Grounded(par)
                       /\ \A q \in Pages : Acyclic(mem'[q])
    BY DEF Forests
  <2>1. Acyclic(k)
    BY <1>1, SameFolders DEF IInv, Forests
  <2>. QED
    BY <1>5, <2>1 DEF IInv, Forests
<1>10. New'
  BY <1>1, <1>5, Facts DEF IInv, New
<1>11. Turns'
  BY <1>5, <1>6 DEF IInv, Turns, Busy
<1>12. Drags'
  BY <1>5, <1>6 DEF IInv, Drags, Apart
<1>13. Owned'
  BY DEF IInv, Owned
<1>. QED
  BY <1>7, <1>8, <1>9, <1>10, <1>11, <1>12, <1>13 DEF IInv

LEMMA ListHostsKeeps ==
    ASSUME IInv, NEW p \in Pages, ListHosts(p)
    PROVE  IInv'
BY ReadKeeps DEF ListHosts

LEMMA ListFoldersKeeps ==
    ASSUME IInv, NEW p \in Pages, ListFolders(p)
    PROVE  IInv'
BY ReadKeeps DEF ListFolders

LEMMA ReloadKeeps ==
    ASSUME IInv, NEW p \in Pages, Reload(p)
    PROVE  IInv'
<1>1. /\ page' = [page EXCEPT ![p] = Off] /\ mem' = [mem EXCEPT ![p] = Empty]
      /\ drag' = [drag EXCEPT ![p] = {}] /\ ops' = [ops EXCEPT ![p] = <<>>]
      /\ sealing' = [sealing EXCEPT ![p] = None]
      /\ UNCHANGED <<par, cred, vault, unborn, begun, mixed, split>>
  BY DEF Reload
<1>2. Empty \in Trees /\ Acyclic(Empty) /\ \A n \in Nodes : Empty[n] = Gone
  BY DEF Empty, Trees, Acyclic, Nodes
<1>3. /\ page'[p] = Off /\ mem'[p] = Empty /\ drag'[p] = {} /\ ops'[p] = <<>> /\ sealing'[p] = None
      /\ \A q \in Pages \ {p} : /\ page'[q] = page[q] /\ mem'[q] = mem[q] /\ drag'[q] = drag[q]
                                /\ ops'[q] = ops[q] /\ sealing'[q] = sealing[q]
  BY <1>1, Facts
<1>4. /\ page' \in [Pages -> [pc : {"off", "minting", "hosts", "folders", "ready"},
                              key : Pages \cup {None}]]
      /\ mem' \in [Pages -> Trees] /\ drag' \in [Pages -> SUBSET Nodes]
      /\ ops' \in [Pages -> Seq(Op)] /\ sealing' \in [Pages -> Hosts \cup {None}]
  BY <1>1, <1>2, Facts DEF Off
<1>5. Types'
  BY <1>1, <1>3, <1>4 DEF IInv, Types, TypeOK, Off
<1>6. Started' /\ Readable'
  BY <1>1, <1>3 DEF IInv, Started, Readable, Off
<1>7. Forests' /\ New'
  BY <1>1, <1>2, <1>3, Facts DEF IInv, Forests, New
<1>8. Turns'
  BY <1>1, <1>3 DEF IInv, Turns, Busy
<1>9. Drags' /\ Owned'
  BY <1>1, <1>2, <1>3 DEF IInv, Drags, Apart, Owned
<1>. QED
  BY <1>5, <1>6, <1>7, <1>8, <1>9 DEF IInv

-----------------------------------------------------------------------------
(* Dragging                                                                *)

LEMMA DragSet ==
    ASSUME IInv, NEW p \in Pages, NEW set \in SUBSET Nodes,
           page[p].pc = "ready" \/ set = {},
           drag' = [drag EXCEPT ![p] = set],
           UNCHANGED <<par, cred, vault, page, mem, ops, sealing, unborn, begun, mixed, split>>,
           set \subseteq Rows(mem[p]), Apart(mem[p], set)
    PROVE  IInv'
<1>1. /\ drag'[p] = set /\ \A q \in Pages \ {p} : drag'[q] = drag[q]
      /\ drag' \in [Pages -> SUBSET Nodes]
  BY Facts
<1>2. Types'
  BY <1>1 DEF IInv, Types, TypeOK
<1>3. Started' /\ Readable' /\ Forests' /\ Owned'
  BY <1>1 DEF IInv, Started, Readable, Forests, Owned
<1>4. New'
  <2>. SUFFICES ASSUME ~mixed, NEW n \in unborn
                PROVE  par[n] = Gone /\ \A q \in Pages : mem[q][n] = Gone /\ n \notin drag'[q]
    BY DEF New
  <2>1. par[n] = Gone /\ \A q \in Pages : mem[q][n] = Gone /\ n \notin drag[q]
    BY DEF IInv, New
  <2>2. n \notin set
    BY <2>1 DEF Rows
  <2>. QED
    BY <1>1, <2>1, <2>2
<1>5. Turns'
  <2>. SUFFICES ASSUME ~mixed
                PROVE  /\ \A a, b \in Busy : a = b
                       /\ \A a \in Busy : mem[a] = par
                       /\ \A a \in Pages : ops[a] # <<>> =>
                              /\ sealing[a] = None /\ Len(ops[a]) = 1
                              /\ Good(par, Head(ops[a]), unborn, drag'[a])
    BY DEF Turns, Busy
  <2>1. /\ \A a, b \in Busy : a = b
        /\ \A a \in Busy : mem[a] = par
        /\ \A a \in Pages : ops[a] # <<>> =>
               /\ sealing[a] = None /\ Len(ops[a]) = 1
               /\ Good(par, Head(ops[a]), unborn, drag[a])
    BY DEF IInv, Turns
  <2>2. ASSUME ops[p] # <<>> PROVE Good(par, Head(ops[p]), unborn, set)
    <3>1. mem[p] = par
      BY <2>1, <2>2 DEF Busy
    <3>2. Good(par, Head(ops[p]), unborn, drag[p])
      BY <2>1, <2>2
    <3>. QED
      BY <3>1, <3>2 DEF Good, GoodPut, Rows
  <2>. QED
    BY <1>1, <2>1, <2>2
<1>6. Drags'
  BY <1>1 DEF IInv, Drags
<1>. QED
  BY <1>2, <1>3, <1>4, <1>5, <1>6 DEF IInv

LEMMA DragStartKeeps ==
    ASSUME IInv, NEW p \in Pages, NEW sel, DragStart(p, sel)
    PROVE  IInv'
<1>. DEFINE set == Normalize(sel, mem[p])
<1>1. sel \subseteq Visible(mem[p])
  BY DEF DragStart
<1>2. set \subseteq Rows(mem[p]) /\ set \subseteq Nodes
  BY <1>1, VisibleRows DEF Normalize, Rows
<1>3. Apart(mem[p], set)
  BY DEF Normalize, Apart
<1>4. /\ page[p].pc = "ready" /\ drag' = [drag EXCEPT ![p] = set]
      /\ UNCHANGED <<par, cred, vault, page, mem, ops, sealing, unborn, begun, mixed, split>>
  BY DEF DragStart
<1>. HIDE DEF set
<1>. QED
  BY <1>2, <1>3, <1>4, DragSet

LEMMA DragEndKeeps ==
    ASSUME IInv, NEW p \in Pages, DragEnd(p)
    PROVE  IInv'
<1>. DEFINE set == {}
<1>1. set \subseteq Rows(mem[p]) /\ set \subseteq Nodes /\ Apart(mem[p], set) /\ set = {}
  BY DEF Apart
<1>2. /\ drag' = [drag EXCEPT ![p] = set]
      /\ UNCHANGED <<par, cred, vault, page, mem, ops, sealing, unborn, begun, mixed, split>>
  BY DEF DragEnd
<1>. HIDE DEF set
<1>. QED
  BY <1>1, <1>2, DragSet

-----------------------------------------------------------------------------
(* Beginning an operation                                                  *)

LEMMA Single ==
    ASSUME NEW s, s = <<>>, NEW x
    PROVE  Append(s, x) # <<>> /\ Len(Append(s, x)) = 1 /\ Head(Append(s, x)) = x
OBVIOUS

(* An operation that fits the stored tree when nothing else is under way.  *)
LEMMA BeginKeeps ==
    ASSUME IInv, NEW p \in Pages, NEW op \in Op, Begin(p, op), unborn' \subseteq unborn,
           UNCHANGED <<par, cred, vault, page, mem, drag, sealing, split>>,
           ~mixed /\ mem[p] = par => Good(par, op, unborn', drag[p])
    PROVE  IInv'
<1>1. /\ page[p].pc = "ready" /\ begun < MaxOps /\ begun' = begun + 1
      /\ mixed' = (mixed \/ Busy # {} \/ mem[p] # par)
      /\ ops' = [ops EXCEPT ![p] = Append(ops[p], op)]
  BY DEF Begin
<1>. DEFINE s == Append(ops[p], op)
<1>2. s \in Seq(Op) /\ (ops[p] = <<>> => s # <<>> /\ Len(s) = 1 /\ Head(s) = op)
  BY PageFacts, Single
<1>3. ops' = [ops EXCEPT ![p] = s]
  BY <1>1
<1>. HIDE DEF s
<1>4. /\ ops'[p] = s /\ \A q \in Pages \ {p} : ops'[q] = ops[q]
      /\ ops' \in [Pages -> Seq(Op)]
  BY <1>2, <1>3, Facts
<1>5. begun' \in 0..MaxOps /\ mixed' \in BOOLEAN /\ unborn' \subseteq Nodes
  BY <1>1, Facts, TreeAssumption
<1>6. Types'
  BY <1>4, <1>5 DEF IInv, Types, TypeOK
<1>7. Started'
  BY <1>1, <1>4 DEF IInv, Started
<1>8. ~mixed' => ~mixed /\ Busy = {} /\ mem[p] = par
  BY <1>1, Facts
<1>9. Readable' /\ Forests' /\ New' /\ Drags' /\ Owned'
  BY <1>8 DEF IInv, Readable, Forests, New, Drags, Owned
<1>10. Turns'
  <2>. SUFFICES ASSUME ~mixed'
                PROVE  /\ \A a, b \in Busy' : a = b
                       /\ \A a \in Busy' : mem[a] = par
                       /\ \A a \in Pages : ops'[a] # <<>> =>
                              /\ sealing[a] = None /\ Len(ops'[a]) = 1
                              /\ Good(par, Head(ops'[a]), unborn', drag[a])
    BY DEF Turns
  <2>1. \A q \in Pages : ops[q] = <<>> /\ sealing[q] = None
    BY <1>8 DEF Busy
  <2>2. Busy' = {p}
    BY <1>2, <1>4, <2>1 DEF Busy
  <2>3. Good(par, op, unborn', drag[p])
    BY <1>8
  <2>4. Len(ops'[p]) = 1 /\ Head(ops'[p]) = op /\ \A q \in Pages \ {p} : ops'[q] = <<>>
    BY <1>2, <1>4, <2>1
  <2>. QED
    BY <1>8, <2>1, <2>2, <2>3, <2>4
<1>. QED
  BY <1>6, <1>7, <1>9, <1>10 DEF IInv

LEMMA DropKeeps ==
    ASSUME IInv, NEW p \in Pages, NEW to, Drop(p, to)
    PROVE  IInv'
<1>. DEFINE op == [kind |-> "move", raw |-> drag[p], to |-> to,
                   nodes |-> Normalize(drag[p], mem[p]) \ {h \in Hosts : mem[p][h] = Gone}]
<1>1. /\ to \in {Root} \cup (Visible(mem[p]) \cap Folders)
      /\ CanMove(drag[p], to, mem[p]) /\ Begin(p, op)
      /\ UNCHANGED <<par, cred, vault, page, mem, drag, sealing, unborn, split>>
  BY DEF Drop
<1>2. drag[p] \subseteq Nodes
  BY PageFacts
<1>3. op \in Op /\ op.kind = "move" /\ op.to = to /\ op.raw = drag[p]
      /\ op.nodes = Normalize(drag[p], mem[p]) \ {h \in Hosts : mem[p][h] = Gone}
  BY <1>1, <1>2 DEF Op, MoveOp, Places, Normalize
<1>. HIDE DEF op
<1>4. ASSUME ~mixed, mem[p] = par PROVE Good(par, op, unborn', drag[p])
  <2>1. Apart(par, drag[p])
    BY <1>4 DEF IInv, Drags
  <2>2. op.nodes \cap Rows(par) = op.raw \cap Rows(par)
    BY <1>3, <1>4, <2>1 DEF Apart, Normalize, Rows
  <2>3. Free(par, op.raw, op.to)
    BY <1>1, <1>3, <1>4, VisibleRows DEF CanMove, Free
  <2>. QED
    BY <1>3, <2>2, <2>3 DEF Good, GoodMove
<1>. QED
  BY <1>1, <1>3, <1>4, BeginKeeps

(* The row of a node as a dialog writes it: in a folder that exists, new   *)
(* or where it was.                                                        *)
LEMMA BeginPut ==
    ASSUME IInv, NEW p \in Pages, NEW n \in Nodes, NEW to \in Places, NEW secret \in BOOLEAN,
           secret => n \in Hosts,
           Begin(p, Put(n, to, secret)), unborn' \subseteq unborn,
           UNCHANGED <<par, cred, vault, page, mem, drag, sealing, split>>,
           ~mixed /\ mem[p] = par =>
               /\ to = Root \/ to \in Rows(par)
               /\ par[n] \in {Gone, to}
               /\ n \notin unborn'
               /\ par[n] = Gone => n \notin drag[p]
    PROVE  IInv'
<1>. DEFINE op == Put(n, to, secret)
<1>1. op \in Op /\ op.kind = "put" /\ op.node = n /\ op.to = to
  BY DEF Op, FolderOp, HostOp, Put, Nodes
<1>. HIDE DEF op
<1>2. ~mixed /\ mem[p] = par => Good(par, op, unborn', drag[p])
  BY <1>1 DEF Good, GoodPut
<1>3. Begin(p, op)
  BY DEF op
<1>. QED
  BY <1>1, <1>2, <1>3, BeginKeeps

(* A node with a new id, as "new folder" and "new host" write it.          *)
LEMMA BeginNew ==
    ASSUME IInv, NEW p \in Pages, NEW n \in Nodes, n \in unborn, NEW secret \in BOOLEAN,
           secret => n \in Hosts, NEW to \in {Root} \cup (Visible(mem[p]) \cap Folders),
           Begin(p, Put(n, to, secret)), unborn' = unborn \ {n},
           UNCHANGED <<par, cred, vault, page, mem, drag, sealing, split>>
    PROVE  IInv'
<1>1. unborn' \subseteq unborn /\ n \notin unborn' /\ to \in Places
  BY DEF Places
<1>2. ASSUME ~mixed, mem[p] = par
      PROVE  /\ to = Root \/ to \in Rows(par)
             /\ par[n] \in {Gone, to}
             /\ n \notin unborn'
             /\ par[n] = Gone => n \notin drag[p]
  <2>1. to = Root \/ to \in Rows(par)
    BY <1>2, VisibleRows
  <2>2. par[n] = Gone /\ n \notin drag[p]
    BY <1>2 DEF IInv, New
  <2>. QED
    BY <1>1, <2>1, <2>2
<1>. QED
  BY <1>1, <1>2, BeginPut

(* A node written back where it is in memory, as a rename does.            *)
LEMMA BeginEdit ==
    ASSUME IInv, NEW p \in Pages, NEW n \in Nodes, NEW secret \in BOOLEAN,
           secret => n \in Hosts, n \in Visible(mem[p]),
           Begin(p, Put(n, mem[p][n], secret)),
           UNCHANGED <<par, cred, vault, page, mem, drag, sealing, split, unborn>>
    PROVE  IInv'
<1>. DEFINE to == mem[p][n]
<1>1. n \in Rows(mem[p])
  BY VisibleRows
<1>2. to \in Places /\ to # Gone
  BY <1>1, PageFacts DEF Rows, Trees, Places
<1>3. ASSUME ~mixed, mem[p] = par
      PROVE  /\ to = Root \/ to \in Rows(par)
             /\ par[n] \in {Gone, to}
             /\ n \notin unborn'
             /\ par[n] = Gone => n \notin drag[p]
  <2>1. Grounded(par)
    BY <1>3 DEF IInv, Forests
  <2>2. n \notin unborn
    BY <1>1, <1>3 DEF IInv, New, Rows
  <2>. QED
    BY <1>1, <1>2, <1>3, <2>1, <2>2 DEF Grounded
<1>4. Begin(p, Put(n, to, secret)) /\ unborn' \subseteq unborn
  OBVIOUS
<1>. HIDE DEF to
<1>. QED
  BY <1>2, <1>3, <1>4, BeginPut

LEMMA CreateFolderKeeps ==
    ASSUME IInv, NEW p \in Pages, NEW f \in Folders, NEW to, CreateFolder(p, f, to)
    PROVE  IInv'
<1>. DEFINE secret == FALSE
<1>1. f \in Nodes /\ secret \in BOOLEAN /\ (secret => f \in Hosts)
  BY DEF Nodes
<1>2. /\ f \in unborn /\ to \in {Root} \cup (Visible(mem[p]) \cap Folders)
      /\ unborn' = unborn \ {f} /\ Begin(p, Put(f, to, secret))
      /\ UNCHANGED <<par, cred, vault, page, mem, drag, sealing, split>>
  BY DEF CreateFolder
<1>. HIDE DEF secret
<1>. QED
  BY <1>1, <1>2, BeginNew

LEMMA CreateHostKeeps ==
    ASSUME IInv, NEW p \in Pages, NEW h \in Hosts, NEW to, NEW secret \in BOOLEAN,
           CreateHost(p, h, to, secret)
    PROVE  IInv'
<1>1. h \in Nodes
  BY DEF Nodes
<1>. QED
  BY <1>1, BeginNew DEF CreateHost

LEMMA RenameFolderKeeps ==
    ASSUME IInv, NEW p \in Pages, NEW f \in Folders, RenameFolder(p, f)
    PROVE  IInv'
<1>. DEFINE secret == FALSE
<1>1. f \in Nodes /\ secret \in BOOLEAN /\ (secret => f \in Hosts)
  BY DEF Nodes
<1>2. /\ f \in Visible(mem[p]) /\ Begin(p, Put(f, mem[p][f], secret))
      /\ UNCHANGED <<par, cred, vault, page, mem, drag, sealing, split, unborn>>
  BY DEF RenameFolder
<1>. HIDE DEF secret
<1>. QED
  BY <1>1, <1>2, BeginEdit

LEMMA EditHostKeeps ==
    ASSUME IInv, NEW p \in Pages, NEW h \in Hosts, NEW secret \in BOOLEAN, EditHost(p, h, secret)
    PROVE  IInv'
<1>1. h \in Nodes
  BY DEF Nodes
<1>. QED
  BY <1>1, BeginEdit DEF EditHost

LEMMA DeleteHostsKeeps ==
    ASSUME IInv, NEW p \in Pages, NEW h \in Hosts, DeleteHosts(p, h)
    PROVE  IInv'
<1>. DEFINE op == [kind |-> "erase", nodes |-> {h}]
<1>1. op \in Op /\ op.kind = "erase" /\ op.nodes = {h}
  BY DEF Op, EraseOp, Nodes
<1>2. Begin(p, op) /\ UNCHANGED <<par, cred, vault, page, mem, drag, sealing, unborn, split>>
  BY DEF DeleteHosts
<1>. HIDE DEF op
<1>3. ASSUME ~mixed PROVE Closed(par, {h})
  <2>. QED
    BY Facts, TreeAssumption DEF Closed, Trees, Rows, Nodes
<1>4. ~mixed /\ mem[p] = par => Good(par, op, unborn', drag[p])
  BY <1>1, <1>3 DEF Good
<1>. QED
  BY <1>1, <1>2, <1>4, BeginKeeps

LEMMA DeleteFoldersKeeps ==
    ASSUME IInv, NEW p \in Pages, NEW f \in Folders, DeleteFolders(p, f)
    PROVE  IInv'
<1>. DEFINE op == [kind |-> "delete", roots |-> {f}]
<1>1. op \in Op /\ op.kind = "delete"
  BY DEF Op, DeleteOp
<1>2. Begin(p, op) /\ UNCHANGED <<par, cred, vault, page, mem, drag, sealing, unborn, split>>
  BY DEF DeleteFolders
<1>. HIDE DEF op
<1>3. Good(par, op, unborn', drag[p])
  BY <1>1 DEF Good
<1>. QED
  BY <1>1, <1>2, <1>3, BeginKeeps

LEMMA RememberKeeps ==
    ASSUME IInv, NEW p \in Pages, NEW h \in Hosts, Remember(p, h)
    PROVE  IInv'
<1>1. /\ page[p].pc = "ready" /\ begun < MaxOps /\ begun' = begun + 1
      /\ mem[p][h] # Gone
      /\ mixed' = (mixed \/ Busy # {} \/ mem[p] # par)
      /\ sealing' = [sealing EXCEPT ![p] = h]
      /\ UNCHANGED <<par, cred, vault, page, mem, drag, ops, unborn, split>>
  BY DEF Remember
<1>2. /\ sealing'[p] = h /\ \A q \in Pages \ {p} : sealing'[q] = sealing[q]
      /\ sealing' \in [Pages -> Hosts \cup {None}] /\ h # None
  BY <1>1, Facts, TreeAssumption
<1>3. begun' \in 0..MaxOps /\ mixed' \in BOOLEAN
  BY <1>1, Facts, TreeAssumption
<1>4. Types'
  BY <1>1, <1>2, <1>3 DEF IInv, Types, TypeOK
<1>5. Started'
  BY <1>1, <1>2 DEF IInv, Started
<1>6. ~mixed' => ~mixed /\ Busy = {} /\ mem[p] = par
  BY <1>1, Facts
<1>7. Readable' /\ Forests' /\ New' /\ Drags'
  BY <1>1, <1>6 DEF IInv, Readable, Forests, New, Drags
<1>8. Turns'
  <2>. SUFFICES ASSUME ~mixed'
                PROVE  /\ \A a, b \in Busy' : a = b
                       /\ \A a \in Busy' : mem[a] = par
                       /\ \A a \in Pages : ops[a] = <<>>
    BY <1>1 DEF Turns
  <2>1. \A q \in Pages : ops[q] = <<>> /\ sealing[q] = None
    BY <1>6 DEF Busy
  <2>2. Busy' = {p}
    BY <1>1, <1>2, <2>1 DEF Busy
  <2>. QED
    BY <1>6, <2>1, <2>2
<1>9. Owned'
  BY <1>1, <1>2, <1>6 DEF IInv, Owned
<1>. QED
  BY <1>4, <1>5, <1>7, <1>8, <1>9 DEF IInv

-----------------------------------------------------------------------------
(* Transactions                                                            *)

LEMMA OneLeft ==
    ASSUME NEW S, NEW s \in Seq(S), Len(s) = 1
    PROVE  Head(s) \in S /\ Tail(s) = <<>>
<1>1. Head(s) \in S /\ Tail(s) \in Seq(S) /\ Len(Tail(s)) = 0
  OBVIOUS
<1>. QED
  BY <1>1, EmptySeq

LEMMA OpTypes ==
    ASSUME NEW op \in Op
    PROVE  /\ op.kind = "move" => op.to \in Places
           /\ op.kind = "put" => /\ op.node \in Nodes /\ op.to \in Places
                                 /\ op.secret => op.node \in Hosts
           /\ op.kind = "erase" => op.nodes \subseteq Nodes
<1>1. CASE op \in MoveOp
  BY <1>1 DEF MoveOp
<1>2. CASE op \in FolderOp
  BY <1>2 DEF FolderOp, Nodes
<1>3. CASE op \in HostOp
  BY <1>3 DEF HostOp, Nodes
<1>4. CASE op \in DeleteOp
  BY <1>4 DEF DeleteOp
<1>5. CASE op \in EraseOp
  BY <1>5 DEF EraseOp
<1>. QED
  BY <1>1, <1>2, <1>3, <1>4, <1>5 DEF Op

(* The operation at the head of a page's queue, when operations take turns.*)
LEMMA UnderWay ==
    ASSUME IInv, ~mixed, NEW p \in Pages, ops[p] # <<>>
    PROVE  /\ Head(ops[p]) \in Op /\ Good(par, Head(ops[p]), unborn, drag[p])
           /\ mem[p] = par /\ Tail(ops[p]) = <<>>
           /\ \A q \in Pages : sealing[q] = None /\ (q # p => ops[q] = <<>>)
           /\ par \in Trees /\ Acyclic(par) /\ Grounded(par) /\ Apart(par, drag[p])
<1>1. p \in Busy /\ \A q \in Busy : q = p
  BY DEF IInv, Turns, Busy
<1>2. mem[p] = par /\ sealing[p] = None /\ Len(ops[p]) = 1
      /\ Good(par, Head(ops[p]), unborn, drag[p])
  BY <1>1 DEF IInv, Turns
<1>3. ops[p] \in Seq(Op)
  BY PageFacts
<1>4. Head(ops[p]) \in Op /\ Tail(ops[p]) = <<>>
  BY <1>2, <1>3, OneLeft
<1>5. \A q \in Pages : q # p => q \notin Busy
  BY <1>1
<1>. QED
  BY <1>2, <1>4, <1>5, Facts DEF Busy, IInv, Forests, Drags

(* What an operation that took its turn leaves.                            *)
Settled(p) ==
    /\ mem'[p] = par' /\ Acyclic(par') /\ Grounded(par')
    /\ \A n \in unborn : par'[n] = Gone
    /\ Apart(par', drag'[p])
    /\ \A h \in Hosts : cred'[h] # None => par'[h] # Gone
    /\ sealing'[p] # None => par'[sealing'[p]] # Gone

(* The end of an operation.                                                *)
LEMMA CommitKeeps ==
    ASSUME IInv, NEW p \in Pages, ops[p] # <<>>, Done(p),
           NEW k \in Trees, mem' = [mem EXCEPT ![p] = k], par' \in Trees,
           NEW d \in {drag[p], {}}, drag' = [drag EXCEPT ![p] = d],
           NEW s \in Hosts \cup {None}, sealing' = [sealing EXCEPT ![p] = s],
           cred' \in [Hosts -> Pages \cup {None}], \A h \in Hosts : cred'[h] \in {cred[h], None},
           UNCHANGED <<vault, page, unborn, begun, mixed, split>>,
           ~mixed => Settled(p)
    PROVE  IInv'
<1>. DEFINE rest == Tail(ops[p])
<1>1. rest \in Seq(Op)
  BY PageFacts
<1>2. ops' = [ops EXCEPT ![p] = rest]
  BY DEF Done
<1>. HIDE DEF rest
<1>3. ops'[p] = rest /\ ops' \in [Pages -> Seq(Op)] /\ \A q \in Pages \ {p} : ops'[q] = ops[q]
  BY <1>1, <1>2, Facts
<1>4. mem'[p] = k /\ mem' \in [Pages -> Trees] /\ \A q \in Pages \ {p} : mem'[q] = mem[q]
  BY Facts
<1>5. /\ drag'[p] = d /\ d \subseteq drag[p] /\ drag' \in [Pages -> SUBSET Nodes]
      /\ \A q \in Pages \ {p} : drag'[q] = drag[q]
  BY Facts
<1>6. /\ sealing'[p] = s /\ sealing' \in [Pages -> Hosts \cup {None}]
      /\ \A q \in Pages \ {p} : sealing'[q] = sealing[q]
  BY Facts
<1>7. page[p].pc = "ready"
  BY DEF IInv, Started
<1>8. Types'
  BY <1>3, <1>4, <1>5, <1>6 DEF IInv, Types, TypeOK
<1>9. Started'
  BY <1>3, <1>5, <1>6, <1>7 DEF IInv, Started
<1>10. Readable'
  BY DEF IInv, Readable
<1>11. CASE mixed
  BY <1>8, <1>9, <1>10, <1>11 DEF IInv, Forests, New, Turns, Drags, Owned
<1>12. CASE ~mixed
  <2>1. /\ mem'[p] = par' /\ Acyclic(par') /\ Grounded(par')
        /\ \A n \in unborn : par'[n] = Gone
        /\ Apart(par', drag'[p])
        /\ \A h \in Hosts : cred'[h] # None => par'[h] # Gone
        /\ sealing'[p] # None => par'[sealing'[p]] # Gone
    BY <1>12 DEF Settled
  <2>2. rest = <<>> /\ \A q \in Pages : sealing[q] = None /\ (q # p => ops[q] = <<>>)
    BY <1>12, UnderWay DEF rest
  <2>3. Forests' /\ Drags'
    BY <1>4, <1>5, <1>12, <2>1 DEF IInv, Forests, Drags
  <2>4. New'
    BY <1>4, <1>5, <1>12, <2>1 DEF IInv, New
  <2>5. Busy' \subseteq {p} /\ \A q \in Pages : ops'[q] = <<>>
    BY <1>3, <1>6, <2>2 DEF Busy
  <2>6. Turns'
    BY <2>1, <2>5 DEF Turns
  <2>7. Owned'
    BY <1>6, <2>1, <2>2 DEF Owned
  <2>. QED
    BY <1>8, <1>9, <1>10, <2>3, <2>4, <2>6, <2>7 DEF IInv
<1>. QED
  BY <1>11, <1>12

LEMMA MoveSettles ==
    ASSUME IInv, ~mixed, NEW p \in Pages, MoveDone(p)
    PROVE  Settled(p)
<1>. DEFINE op == Head(ops[p])
            m == mem[p]
<1>1. /\ ops[p] # <<>> /\ op.kind = "move"
      /\ par' = [n \in Nodes |-> IF n \in op.nodes \cap Rows(par) THEN op.to ELSE par[n]]
      /\ mem' = [mem EXCEPT ![p] = [n \in Nodes |-> IF n \in op.raw \cap Rows(m) THEN op.to ELSE m[n]]]
      /\ drag' = [drag EXCEPT ![p] = {}]
      /\ UNCHANGED <<cred, sealing>>
  BY DEF MoveDone, Doing
<1>2. /\ GoodMove(par, op) /\ mem[p] = par /\ par \in Trees /\ Acyclic(par) /\ Grounded(par)
      /\ sealing[p] = None /\ op \in Op
  BY <1>1, UnderWay DEF Good
<1>. HIDE DEF op
<1>3. op.to \in Places /\ op.to # Gone
  <2>1. op.to \in Places
    BY <1>1, <1>2, OpTypes
  <2>. QED
    BY <2>1, TreeAssumption DEF Places, Nodes, Gone, Root
<1>4. mem'[p] = [n \in Nodes |-> IF n \in op.raw \cap Rows(m) THEN op.to ELSE m[n]]
  BY <1>1, Facts
<1>5. mem'[p] = par'
  BY <1>1, <1>2, <1>4 DEF GoodMove
<1>6. \A n \in Nodes : par'[n] = IF n \in op.raw \cap Rows(par) THEN op.to ELSE par[n]
  BY <1>1, <1>2 DEF GoodMove
<1>7. Acyclic(par')
  <2>1. Free(par, op.raw, op.to)
    BY <1>2 DEF GoodMove
  <2>2. Moved(par, par', op.raw, op.to)
    BY <1>6 DEF Moved
  <2>3. par \in Trees /\ Acyclic(par)
    BY <1>2
  <2>. QED
    BY <2>1, <2>2, <2>3, MoveAcyclic
<1>8. Rows(par') = Rows(par)
  BY <1>3, <1>6 DEF Rows
<1>9. Grounded(par')
  BY <1>2, <1>6, <1>8 DEF Grounded, GoodMove, Free, Rows
<1>10. \A n \in unborn : par'[n] = Gone
  BY SMTT(30), <1>6, Facts DEF IInv, New, Rows
<1>11. \A h \in Hosts : cred'[h] # None => par'[h] # Gone
  BY <1>1, <1>8 DEF IInv, Owned, Rows, Nodes
<1>12. Apart(par', drag'[p]) /\ sealing'[p] = None
  BY <1>1, <1>2, Facts DEF Apart
<1>. QED
  BY <1>5, <1>7, <1>9, <1>10, <1>11, <1>12 DEF Settled

LEMMA PutSettles ==
    ASSUME IInv, ~mixed, NEW p \in Pages, PutDone(p)
    PROVE  Settled(p)
<1>. DEFINE op == Head(ops[p])
            x == op.node
            to == op.to
<1>1. /\ ops[p] # <<>> /\ op.kind = "put"
      /\ par' = [par EXCEPT ![x] = to] /\ mem' = [mem EXCEPT ![p][x] = to]
      /\ sealing' = IF op.secret THEN [sealing EXCEPT ![p] = x] ELSE sealing
      /\ UNCHANGED <<cred, drag>>
  BY DEF PutDone, Doing
<1>2. /\ GoodPut(par, op, unborn, drag[p]) /\ mem[p] = par /\ par \in Trees
      /\ Acyclic(par) /\ Grounded(par) /\ Apart(par, drag[p]) /\ sealing[p] = None /\ op \in Op
  BY <1>1, UnderWay DEF Good
<1>3. x \in Nodes /\ to \in Places /\ to # Gone /\ (op.secret => x \in Hosts)
  <2>1. x \in Nodes /\ to \in Places /\ (op.secret => x \in Hosts)
    BY <1>1, <1>2, OpTypes
  <2>. HIDE DEF op, x, to
  <2>. QED
    BY <2>1, TreeAssumption DEF Places, Nodes, Gone, Root
<1>4. /\ to = Root \/ to \in Rows(par)
      /\ par[x] \in {Gone, to} /\ x \notin unborn
      /\ par[x] = Gone => x \notin drag[p]
  BY <1>2 DEF GoodPut
<1>. HIDE DEF op, x, to
<1>5. mem'[p] = par'
  <2>. DEFINE k == [mem[p] EXCEPT ![x] = to]
  <2>1. mem' = [mem EXCEPT ![p] = k]
    BY <1>1
  <2>2. k = par'
    BY <1>1, <1>2
  <2>. HIDE DEF k
  <2>. QED
    BY <2>1, <2>2, Facts
<1>6. /\ par'[x] = to /\ \A n \in Nodes : n # x => par'[n] = par[n]
      /\ par' \in Trees
  BY <1>1, <1>2, <1>3 DEF Trees, Places
<1>7. Acyclic(par') /\ Apart(par', drag'[p])
  <2>1. CASE par[x] = to
    <3>1. par' = par
      BY <1>1, <1>2, <2>1 DEF Trees
    <3>. QED
      BY <1>1, <1>2, <3>1
  <2>2. CASE par[x] = Gone
    <3>1. Acyclic(par')
      BY <1>2, <1>3, <1>4, <1>6, <2>2, PutAcyclic
    <3>2. drag[p] \in SUBSET Nodes
      BY Facts
    <3>3. Apart(par', drag[p])
      BY <1>2, <1>3, <1>4, <1>6, <2>2, <3>2, PutApart
    <3>. QED
      BY <1>1, <3>1, <3>3
  <2>. QED
    BY <1>4, <2>1, <2>2
<1>8. Rows(par') = Rows(par) \cup {x}
  BY <1>3, <1>6 DEF Rows
<1>9. Grounded(par')
  BY <1>2, <1>4, <1>6, <1>8 DEF Grounded, Rows
<1>10. \A n \in unborn : par'[n] = Gone
  BY <1>4, <1>6, Facts DEF IInv, New
<1>11. \A h \in Hosts : cred'[h] # None => par'[h] # Gone
  BY <1>1, <1>8 DEF IInv, Owned, Rows, Nodes
<1>12. sealing'[p] # None => par'[sealing'[p]] # Gone
  BY <1>1, <1>2, <1>3, <1>6, Facts
<1>. QED
  BY <1>5, <1>7, <1>9, <1>10, <1>11, <1>12 DEF Settled

LEMMA EraseSettles ==
    ASSUME IInv, ~mixed, NEW p \in Pages, EraseDone(p)
    PROVE  Settled(p)
<1>. DEFINE nodes == Head(ops[p]).nodes
            m == mem[p]
<1>1. /\ ops[p] # <<>> /\ Head(ops[p]).kind = "erase"
      /\ par' = [n \in Nodes |-> IF n \in nodes THEN Gone ELSE par[n]]
      /\ mem' = [mem EXCEPT ![p] = [n \in Nodes |-> IF n \in nodes THEN Gone ELSE m[n]]]
      /\ cred' = WithoutHosts(nodes)
      /\ UNCHANGED <<drag, sealing>>
  BY DEF EraseDone, Doing
<1>2. /\ Closed(par, nodes) /\ mem[p] = par /\ par \in Trees /\ Acyclic(par) /\ Grounded(par)
      /\ Apart(par, drag[p]) /\ sealing[p] = None
  BY <1>1, UnderWay DEF Good
<1>. HIDE DEF nodes
<1>3. mem'[p] = par'
  BY <1>1, <1>2, Facts
<1>4. \A n \in Nodes : par'[n] \in {Gone, par[n]}
  BY <1>1
<1>5. Acyclic(par') /\ Apart(par', drag'[p])
  <2>1. drag[p] \in SUBSET Nodes
    BY Facts
  <2>. QED
    BY <1>1, <1>2, <1>4, <2>1, ShrinksKeeps
<1>6. Grounded(par')
  BY <1>1, <1>2 DEF Grounded, Closed, Rows
<1>7. \A n \in unborn : par'[n] = Gone
  BY <1>4, Facts DEF IInv, New
<1>8. \A h \in Hosts : cred'[h] # None => par'[h] # Gone
  BY <1>1 DEF IInv, Owned, WithoutHosts, Nodes
<1>. QED
  BY <1>1, <1>2, <1>3, <1>5, <1>6, <1>7, <1>8 DEF Settled

LEMMA MoveDoneKeeps ==
    ASSUME IInv, NEW p \in Pages, MoveDone(p)
    PROVE  IInv'
<1>. DEFINE op == Head(ops[p])
            k == [n \in Nodes |-> IF n \in op.raw \cap Rows(mem[p]) THEN op.to ELSE mem[p][n]]
            d == {}
<1>1. /\ ops[p] # <<>> /\ op.kind = "move" /\ Done(p)
      /\ par' = [n \in Nodes |-> IF n \in op.nodes \cap Rows(par) THEN op.to ELSE par[n]]
      /\ mem' = [mem EXCEPT ![p] = k]
      /\ drag' = [drag EXCEPT ![p] = d]
      /\ UNCHANGED <<cred, sealing, vault, page, unborn, begun, mixed, split>>
  BY DEF MoveDone, Doing
<1>2. op \in Op
  BY <1>1, PageFacts
<1>. HIDE DEF op
<1>3. op.to \in Places
  BY <1>1, <1>2, OpTypes
<1>4. par' \in Trees /\ k \in Trees
  BY <1>1, <1>3, Facts DEF Trees, Places
<1>5. d \in {drag[p], {}}
  OBVIOUS
<1>6. sealing[p] \in Hosts \cup {None} /\ sealing' = [sealing EXCEPT ![p] = sealing[p]]
  BY <1>1, Facts
<1>7. cred' \in [Hosts -> Pages \cup {None}] /\ \A h \in Hosts : cred'[h] \in {cred[h], None}
  BY <1>1, Facts
<1>8. ~mixed => Settled(p)
  BY MoveSettles
<1>. HIDE DEF k, d
<1>. QED
  BY <1>1, <1>4, <1>5, <1>6, <1>7, <1>8, CommitKeeps

LEMMA PutDoneKeeps ==
    ASSUME IInv, NEW p \in Pages, PutDone(p)
    PROVE  IInv'
<1>. DEFINE op == Head(ops[p])
            k == [mem[p] EXCEPT ![op.node] = op.to]
            s == IF op.secret THEN op.node ELSE sealing[p]
<1>1. /\ ops[p] # <<>> /\ op.kind = "put" /\ Done(p)
      /\ par' = [par EXCEPT ![op.node] = op.to]
      /\ mem' = [mem EXCEPT ![p] = k]
      /\ sealing' = IF op.secret THEN [sealing EXCEPT ![p] = op.node] ELSE sealing
      /\ UNCHANGED <<cred, drag, vault, page, unborn, begun, mixed, split>>
  BY DEF PutDone, Doing
<1>2. op \in Op
  BY <1>1, PageFacts
<1>. HIDE DEF op
<1>3. op.node \in Nodes /\ op.to \in Places /\ (op.secret => op.node \in Hosts)
  BY <1>1, <1>2, OpTypes
<1>4. par' \in Trees /\ k \in Trees
  BY <1>1, <1>3, Facts DEF Trees, Places
<1>5. drag' = [drag EXCEPT ![p] = drag[p]]
  BY <1>1, Facts
<1>6. s \in Hosts \cup {None} /\ sealing' = [sealing EXCEPT ![p] = s]
  BY <1>1, <1>3, Facts
<1>7. cred' \in [Hosts -> Pages \cup {None}] /\ \A h \in Hosts : cred'[h] \in {cred[h], None}
  BY <1>1, Facts
<1>8. ~mixed => Settled(p)
  BY PutSettles
<1>. HIDE DEF k, s
<1>. QED
  BY <1>1, <1>4, <1>5, <1>6, <1>7, <1>8, CommitKeeps

LEMMA EraseDoneKeeps ==
    ASSUME IInv, NEW p \in Pages, EraseDone(p)
    PROVE  IInv'
<1>. DEFINE nodes == Head(ops[p]).nodes
            k == [n \in Nodes |-> IF n \in nodes THEN Gone ELSE mem[p][n]]
<1>1. /\ ops[p] # <<>> /\ Done(p)
      /\ par' = [n \in Nodes |-> IF n \in nodes THEN Gone ELSE par[n]]
      /\ mem' = [mem EXCEPT ![p] = k]
      /\ cred' = WithoutHosts(nodes)
      /\ UNCHANGED <<drag, sealing, vault, page, unborn, begun, mixed, split>>
  BY DEF EraseDone, Doing
<1>. HIDE DEF nodes
<1>2. par' \in Trees /\ k \in Trees
  BY <1>1, Facts DEF Trees
<1>3. drag' = [drag EXCEPT ![p] = drag[p]]
  BY <1>1, Facts
<1>4. sealing[p] \in Hosts \cup {None} /\ sealing' = [sealing EXCEPT ![p] = sealing[p]]
  BY <1>1, Facts
<1>5. cred' \in [Hosts -> Pages \cup {None}] /\ \A h \in Hosts : cred'[h] \in {cred[h], None}
  BY <1>1, Facts DEF WithoutHosts
<1>6. ~mixed => Settled(p)
  BY EraseSettles
<1>. HIDE DEF k
<1>. QED
  BY <1>1, <1>2, <1>3, <1>4, <1>5, <1>6, CommitKeeps

(* What a deletion read still covers all that lies in it when the deletion *)
(* follows.                                                                *)
LEMMA TreeReadKeeps ==
    ASSUME IInv, NEW p \in Pages, TreeRead(p)
    PROVE  IInv'
<1>. DEFINE roots == Head(ops[p]).roots
            set == (roots \cup Below(roots, par)) \cap Rows(par)
            op == [kind |-> "erase", nodes |-> set]
            s == Append(Tail(ops[p]), op)
<1>1. /\ ops[p] # <<>> /\ ops' = [ops EXCEPT ![p] = s]
      /\ UNCHANGED <<par, cred, vault, page, mem, drag, sealing, unborn, begun, mixed, split>>
  BY DEF TreeRead, Doing
<1>2. Closed(par, set)
  <2>. HIDE DEF roots
  <2>1. ASSUME NEW n \in Rows(par), par[n] \in set PROVE Above(par, n) \cap roots # {} /\ n \in Nodes
    <3>1. par[n] \in Folders /\ n \in Nodes
      BY <2>1, Facts, TreeAssumption DEF Trees, Rows, Nodes
    <3>2. par[n] \in Above(par, n) /\ Above(par, par[n]) \subseteq Above(par, n)
      BY <3>1, AboveClosed, AboveAbove
    <3>. QED
      BY <2>1, <3>1, <3>2 DEF Below
  <2>. QED
    BY <2>1 DEF Closed, Below
<1>3. op \in Op /\ op.kind = "erase" /\ op.nodes = set
  BY DEF Op, EraseOp, Rows
<1>. HIDE DEF set, op
<1>4. s \in Seq(Op) /\ (Tail(ops[p]) = <<>> => Len(s) = 1 /\ Head(s) = op)
  <2>. DEFINE rest == Tail(ops[p])
  <2>1. rest \in Seq(Op)
    BY <1>1, PageFacts
  <2>. HIDE DEF rest
  <2>2. s = Append(rest, op)
    BY DEF rest
  <2>3. Append(rest, op) \in Seq(Op)
    BY <1>3, <2>1
  <2>4. rest = <<>> => Len(Append(rest, op)) = 1 /\ Head(Append(rest, op)) = op
    BY Single
  <2>5. rest = Tail(ops[p])
    BY DEF rest
  <2>. HIDE DEF s
  <2>. QED
    BY <2>2, <2>3, <2>4, <2>5
<1>. HIDE DEF s
<1>5. ops'[p] = s /\ ops' \in [Pages -> Seq(Op)] /\ \A q \in Pages \ {p} : ops'[q] = ops[q]
  BY <1>1, <1>4, Facts
<1>6. page[p].pc = "ready"
  BY <1>1 DEF IInv, Started
<1>7. Types' /\ Started'
  BY <1>1, <1>5, <1>6 DEF IInv, Types, TypeOK, Started
<1>8. Readable' /\ Forests' /\ New' /\ Drags' /\ Owned'
  BY <1>1 DEF IInv, Readable, Forests, New, Drags, Owned
<1>9. Turns'
  <2>. SUFFICES ASSUME ~mixed
                PROVE  /\ \A a, b \in Busy' : a = b
                       /\ \A a \in Busy' : mem[a] = par
                       /\ \A a \in Pages : ops'[a] # <<>> =>
                              /\ sealing[a] = None /\ Len(ops'[a]) = 1
                              /\ Good(par, Head(ops'[a]), unborn, drag[a])
    BY <1>1 DEF Turns
  <2>1. /\ Tail(ops[p]) = <<>> /\ mem[p] = par
        /\ \A q \in Pages : sealing[q] = None /\ (q # p => ops[q] = <<>>)
    BY <1>1, UnderWay
  <2>2. Busy' \subseteq {p}
    BY <1>1, <1>5, <2>1 DEF Busy
  <2>3. Good(par, op, unborn, drag[p])
    BY <1>2, <1>3 DEF Good
  <2>4. Len(ops'[p]) = 1 /\ Head(ops'[p]) = op /\ \A q \in Pages \ {p} : ops'[q] = <<>>
    BY <1>4, <1>5, <2>1
  <2>. QED
    BY <2>1, <2>2, <2>3, <2>4
<1>. QED
  BY <1>7, <1>8, <1>9 DEF IInv

LEMMA CredentialSavedKeeps ==
    ASSUME IInv, NEW p \in Pages, CredentialSaved(p)
    PROVE  IInv'
<1>. DEFINE h == sealing[p]
<1>1. /\ h # None /\ cred' = [cred EXCEPT ![h] = page[p].key]
      /\ sealing' = [sealing EXCEPT ![p] = None]
      /\ UNCHANGED <<par, vault, page, mem, drag, ops, unborn, begun, mixed, split>>
  BY DEF CredentialSaved
<1>2. h \in Hosts
  BY <1>1, Facts
<1>3. page[p].key \in Pages /\ page[p].key # None
  BY <1>1, PageFacts, TreeAssumption DEF IInv, Started
<1>4. /\ cred'[h] = page[p].key /\ \A g \in Hosts \ {h} : cred'[g] = cred[g]
      /\ cred' \in [Hosts -> Pages \cup {None}]
  BY <1>1, <1>2, <1>3, Facts
<1>5. /\ sealing'[p] = None /\ \A q \in Pages \ {p} : sealing'[q] = sealing[q]
      /\ sealing' \in [Pages -> Hosts \cup {None}]
  BY <1>1, Facts
<1>6. Types' /\ Started'
  BY <1>1, <1>4, <1>5 DEF IInv, Types, TypeOK, Started
<1>7. Readable'
  BY <1>1, <1>3, <1>4 DEF IInv, Readable
<1>8. Forests' /\ New' /\ Drags'
  BY <1>1 DEF IInv, Forests, New, Drags
<1>9. Turns'
  BY <1>1, <1>5 DEF IInv, Turns, Busy
<1>10. Owned'
  BY <1>1, <1>2, <1>4, <1>5 DEF IInv, Owned
<1>. QED
  BY <1>6, <1>7, <1>8, <1>9, <1>10 DEF IInv

LEMMA NextKeeps == IInv /\ [Next]_vars => IInv'
<1>. SUFFICES ASSUME IInv, [Next]_vars PROVE IInv'
  OBVIOUS
<1>1. ASSUME NEW p \in Pages, StartNext(p) PROVE IInv'
  BY <1>1, StartKeeps, MintsVaultKeeps, ListHostsKeeps, ListFoldersKeeps, ReloadKeeps DEF StartNext
<1>2. ASSUME NEW p \in Pages, UserNext(p) PROVE IInv'
  BY <1>2, DragStartKeeps, DragEndKeeps, DropKeeps, CreateFolderKeeps, CreateHostKeeps,
     RenameFolderKeeps, DeleteFoldersKeeps, EditHostKeeps, RememberKeeps, DeleteHostsKeeps
     DEF UserNext
<1>3. ASSUME NEW p \in Pages, DatabaseNext(p) PROVE IInv'
  BY <1>3, MoveDoneKeeps, PutDoneKeeps, CredentialSavedKeeps, TreeReadKeeps, EraseDoneKeeps
     DEF DatabaseNext
<1>4. CASE UNCHANGED vars
  BY <1>4 DEF vars, IInv, Types, TypeOK, Started, Readable, Forests, New, Turns, Busy, Drags, Owned
<1>. QED
  BY <1>1, <1>2, <1>3, <1>4 DEF Next

-----------------------------------------------------------------------------
(* The memory of a page                                                    *)

(* A step that ends an operation is the end of its transaction, or a       *)
(* reload.                                                                 *)
LEMMA Ends ==
    ASSUME IInv, Next, NEW p \in Pages, Len(ops'[p]) < Len(ops[p]), page'[p].pc = "ready"
    PROVE  MoveDone(p) \/ PutDone(p) \/ EraseDone(p)
<1>1. ops[p] \in Seq(Op)
  BY PageFacts
<1>2. ops'[p] # ops[p]
  BY <1>1
<1>3. PICK q \in Pages : StartNext(q) \/ UserNext(q) \/ DatabaseNext(q)
  BY DEF Next
<1>4. ASSUME NEW x, ops' = [ops EXCEPT ![q] = Append(@, x)] PROVE FALSE
  BY <1>1, <1>4, Facts
<1>5. CASE StartNext(q)
  <2>1. page' = [page EXCEPT ![p] = Off] => FALSE
    BY Facts DEF Off
  <2>. QED
    BY <1>2, <1>5, <2>1, Facts DEF StartNext, Start, MintsVault, ListHosts, ListFolders, Reload
<1>6. CASE UserNext(q)
  BY <1>2, <1>4, <1>6 DEF UserNext, DragStart, DragEnd, Drop, CreateFolder, CreateHost,
     RenameFolder, DeleteFolders, EditHost, Remember, DeleteHosts, Begin
<1>7. CASE DatabaseNext(q)
  <2>1. CASE q # p
    BY <1>2, <1>7, <2>1, Facts
       DEF DatabaseNext, MoveDone, PutDone, CredentialSaved, TreeRead, EraseDone, Done
  <2>2. CASE q = p /\ TreeRead(q)
    <3>1. PICK x : ops' = [ops EXCEPT ![p] = Append(Tail(@), x)]
      BY <2>2 DEF TreeRead
    <3>2. ops[p] # <<>>
      BY <2>2 DEF TreeRead, Doing
    <3>. QED
      BY <1>1, <3>1, <3>2, Facts
  <2>3. CASE CredentialSaved(q)
    BY <1>2, <2>3 DEF CredentialSaved
  <2>. QED
    BY <1>7, <2>1, <2>2, <2>3 DEF DatabaseNext
<1>. QED
  BY <1>3, <1>5, <1>6, <1>7

-----------------------------------------------------------------------------
(* The theorems                                                            *)

(* Pages, their operations and the database agree, always.                 *)
THEOREM TreeInvariant == Spec => []IInv
<1>. QED
  BY InitHolds, NextKeeps, PTL DEF Spec

(* The variables keep their types.                                         *)
THEOREM TypesKept == Spec => []TypeOK
<1>1. IInv => TypeOK
  BY DEF IInv, Types
<1>. QED
  BY <1>1, TreeInvariant, PTL

(* While operations take turns the tree has no cycle and no loose ends;    *)
(* whatever they do to each other, only a cycle hides a node.              *)
THEOREM TreeIsKept == Spec => []TreeKept
<1>1. IInv => TreeKept
  <2>. SUFFICES ASSUME IInv PROVE TreeKept
    OBVIOUS
  <2>1. Forest /\ NoDangling
    BY DEF IInv, Forests, Forest, NoDangling, Grounded
  <2>2. OrphansShown
    BY PageFacts, HiddenByCycle DEF OrphansShown
  <2>. QED
    BY <2>1, <2>2 DEF TreeKept
<1>. QED
  BY <1>1, TreeInvariant, PTL

(* A saved password has a host and the key it was sealed with.             *)
THEOREM CredentialsAreKept == Spec => []CredentialsKept
<1>1. IInv => CredentialsKept
  BY DEF IInv, Owned, Readable, CredentialsKept, CredentialsOwned, CredentialsReadable
<1>. QED
  BY <1>1, TreeInvariant, PTL

(* An operation that took its turn leaves the page with what is stored.    *)
THEOREM MemoryIsStored == Spec => MemoryFollows
<1>. DEFINE A == \A p \in Pages :
                     ~mixed /\ Len(ops'[p]) < Len(ops[p]) /\ page'[p].pc = "ready"
                         => mem'[p] = par'
<1>1. IInv /\ [Next]_vars => [A]_vars
  <2>. SUFFICES ASSUME IInv, Next, NEW p \in Pages, ~mixed,
                       Len(ops'[p]) < Len(ops[p]), page'[p].pc = "ready"
                PROVE  mem'[p] = par'
    OBVIOUS
  <2>1. MoveDone(p) \/ PutDone(p) \/ EraseDone(p)
    BY Ends
  <2>2. Settled(p)
    BY <2>1, MoveSettles, PutSettles, EraseSettles
  <2>. QED
    BY <2>2 DEF Settled
<1>. QED
  BY <1>1, TreeInvariant, PTL DEF Spec, MemoryFollows
=============================================================================
