----------------------------- MODULE MCWorkbench -----------------------------
(* Workbench for TLC: three terminals, three listings, two editors.         *)
EXTENDS Workbench, TLC

CONSTANTS t1, t2, t3, l1, l2, l3, e1, e2

MCWindows == {[width |-> 14, height |-> 12], [width |-> 9, height |-> 8]}

Quota(a, b, c, d) ==
    ("tabs" :> a) @@ ("docks" :> b) @@ ("metrics" :> c) @@ ("sizes" :> d)

MCQuotas == {Quota(4, 3, 0, 0), Quota(5, 1, 0, 0), Quota(2, 0, 4, 0), Quota(2, 0, 0, 3)}

WorkbenchSymmetry ==
    Permutations({t1, t2, t3}) \cup Permutations({l1, l2, l3}) \cup Permutations({e1, e2})
=============================================================================
