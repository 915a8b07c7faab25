------------------------------ MODULE MCFiles ------------------------------
(* Files for TLC: two tabs, two directories, two names, one edited path.   *)
EXTENDS Files, TLC

CONSTANTS t1, t2, e1, e2, root, sub, n1, n2, x

MCDirs == {root, sub}
MCFirstFiles == {<<root, n1>>, <<sub, n1>>}
Quota(a, b, c, d, s) ==
    (t1 :> a) @@ (t2 :> b) @@ (e1 :> c) @@ (e2 :> d) @@ ("settings" :> s)
MCQuotas ==
    {Quota(4, 0, 0, 0, 0), Quota(2, 1, 0, 0, 0), Quota(0, 0, 5, 0, 0), Quota(0, 0, 2, 1, 0),
     Quota(1, 0, 1, 0, 1)}

FilesSymmetry == Permutations({t1, t2}) \cup Permutations({e1, e2})
=============================================================================
