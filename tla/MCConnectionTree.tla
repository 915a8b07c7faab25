-------------------------- MODULE MCConnectionTree --------------------------
(* ConnectionTree for TLC: pages are interchangeable, and so are folders.  *)
EXTENDS ConnectionTree, TLC

TreeSymmetry ==
    {f @@ g : f \in Permutations(Pages), g \in Permutations(Folders)}
=============================================================================
