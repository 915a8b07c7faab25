-------------------------- MODULE MCFileTransfers --------------------------
(* Values of FileTransfers' constants for TLC: a file of two chunks and an *)
(* empty one.                                                              *)
EXTENDS FileTransfers

CONSTANTS a, b

TwoFiles == [t \in {a, b} |-> IF t = a THEN 2 ELSE 0]
=============================================================================
