---------------------------- MODULE WhenClauses ----------------------------
(***************************************************************************)
(* `when' clauses and context keys (contextKeys.ts): the recursive descent *)
(* of WhenParser over the tokens of a clause, which evaluates as it        *)
(* parses, and the reference it is checked against, clauses as trees.      *)
(*                                                                         *)
(* A value is a pair <<type, n>>: a boolean, a number, a string (0 is the  *)
(* empty one), null or undefined.                                          *)
(***************************************************************************)
EXTENDS Integers, Sequences, SequencesExt

Bool(b) == <<"boolean", IF b THEN 1 ELSE 0>>
Str(n) == <<"string", n>>
Undefined == <<"undefined", 0>>

(* Boolean(value)                                                          *)
Truthy(v) == v[2] # 0

Comparisons == {"==", "===", "!=", "!==", ">", ">=", "<", "<="}

CompareValues(l, r, op) ==
    LET numbers == l[1] = "number" /\ r[1] = "number" IN
    \/ op \in {"==", "==="} /\ l = r
    \/ op \in {"!=", "!=="} /\ l # r
    \/ op = ">" /\ numbers /\ l[2] > r[2]
    \/ op = ">=" /\ numbers /\ l[2] >= r[2]
    \/ op = "<" /\ numbers /\ l[2] < r[2]
    \/ op = "<=" /\ numbers /\ l[2] <= r[2]

-----------------------------------------------------------------------------
(* The parser.  A routine gets the index of the next token and returns its *)
(* value and the next index; index 0 is an exception on its way to         *)
(* evaluateWhen.                                                           *)

Op(s) == [is |-> s, key |-> "", value |-> Undefined]
Key(k) == [is |-> "key", key |-> k, value |-> Undefined]
Lit(v) == [is |-> "literal", key |-> "", value |-> v]

Result(v, i) == [value |-> v, next |-> i]
Thrown == Result(Undefined, 0)

(* consume                                                                 *)
Sees(ts, i, s) == i \in DOMAIN ts /\ ts[i].is = s

ParseValue(ts, i, ks) ==
    IF Sees(ts, i, "literal") THEN Result(ts[i].value, i + 1)
    ELSE IF Sees(ts, i, "key")
         THEN Result(IF ts[i].key \in DOMAIN ks THEN ks[ts[i].key] ELSE Undefined, i + 1)
         ELSE Thrown

(* parseUnary past `!' and `(': one value, or two and an operator.         *)
ParseComparison(ts, i, ks) ==
    LET l == ParseValue(ts, i, ks)
        r == ParseValue(ts, l.next + 1, ks)
    IN  IF l.next = 0 THEN Thrown
        ELSE IF l.next \in DOMAIN ts /\ ts[l.next].is \in Comparisons
        THEN IF r.next = 0 THEN Thrown
             ELSE Result(Bool(CompareValues(l.value, r.value, ts[l.next].is)), r.next)
        ELSE Result(Bool(Truthy(l.value)), l.next)

(* Mutation: && is left to the outer loop and || to the inner one.         *)
LoopTokenSwapped(routine) == IF routine = "or" THEN "&&" ELSE "||"

(* The token the loop of parseOr or parseAnd goes on with, and the routine *)
(* it calls for each operand.                                              *)
LoopToken(routine) == IF routine = "or" THEN "||" ELSE "&&"

Operand(routine) == IF routine = "or" THEN "and" ELSE "unary"

Join(token, a, b) == Bool(IF token = "||" THEN Truthy(a) \/ Truthy(b) ELSE Truthy(a) /\ Truthy(b))

(* parseOr, parseAnd and parseUnary                                        *)
ParseOr(ts, ks) ==
    LET parse[routine \in {"or", "and", "unary"}, i \in 1..(Len(ts) + 1)] ==
        IF routine # "unary"
        THEN LET l == parse[Operand(routine), i]
                 r == parse[routine, l.next + 1]
             IN  IF l.next = 0 \/ ~Sees(ts, l.next, LoopToken(routine)) THEN l
                 ELSE IF r.next = 0 THEN Thrown
                 ELSE Result(Join(LoopToken(routine), l.value, r.value), r.next)
        ELSE IF Sees(ts, i, "!")
        THEN LET v == parse["unary", i + 1] IN
             IF v.next = 0 THEN Thrown ELSE Result(Bool(~Truthy(v.value)), v.next)
        ELSE IF Sees(ts, i, "(")
        THEN LET v == parse["or", i + 1] IN
             IF v.next # 0 /\ Sees(ts, v.next, ")") THEN Result(v.value, v.next + 1) ELSE Thrown
        ELSE ParseComparison(ts, i, ks)
    IN parse["or", 1]

(* evaluateWhen of a string: an empty clause holds, a bad one does not.    *)
EvaluateWhen(ts, ks) ==
    \/ ts = <<>>
    \/ LET v == ParseOr(ts, ks) IN v.next = Len(ts) + 1 /\ Truthy(v.value)

-----------------------------------------------------------------------------
(* The reference: what a clause means, as a tree, and how it is written    *)
(* with no more parentheses than && before || asks for.                    *)

Node(op, args) == [op |-> op, args |-> args, key |-> "", cmp |-> "", value |-> Undefined]
Always == Node("always", <<>>)
Has(k) == [Node("atom", <<>>) EXCEPT !.key = k]
Compares(k, cmp, v) == [Has(k) EXCEPT !.cmp = cmp, !.value = v]
Not(a) == Node("!", <<a>>)
And(a, b) == Node("&&", <<a, b>>)
Or(a, b) == Node("||", <<a, b>>)

Strength(e) == CASE e.op = "||" -> 1 [] e.op = "&&" -> 2 [] OTHER -> 3

RECURSIVE Written(_)
Written(e) ==
    LET in(a, s) == IF Strength(a) < s THEN <<Op("(")>> \o Written(a) \o <<Op(")")>> ELSE Written(a) IN
    CASE e.op = "always" -> <<>>
      [] e.op = "atom" ->
           IF e.cmp = "" THEN <<Key(e.key)>> ELSE <<Key(e.key), Op(e.cmp), Lit(e.value)>>
      [] e.op = "!" -> <<Op("!")>> \o in(e.args[1], 3)
      [] OTHER -> in(e.args[1], Strength(e)) \o <<Op(e.op)>> \o in(e.args[2], Strength(e) + 1)

RECURSIVE Means(_, _)
Means(e, ks) ==
    CASE e.op = "always" -> TRUE
      [] e.op = "atom" ->
           LET v == IF e.key \in DOMAIN ks THEN ks[e.key] ELSE Undefined IN
           IF e.cmp = "" THEN Truthy(v) ELSE CompareValues(v, e.value, e.cmp)
      [] e.op = "!" -> ~Means(e.args[1], ks)
      [] e.op = "&&" -> Means(e.args[1], ks) /\ Means(e.args[2], ks)
      [] e.op = "||" -> Means(e.args[1], ks) \/ Means(e.args[2], ks)
=============================================================================
