--------------------------- MODULE MCLinearMemory ---------------------------
(* Instances of LinearMemory for TLC. *)
EXTENDS LinearMemory, TLC

CONSTANTS t1, t2

MCDeltas == {-1, 0, 1, 2}

=============================================================================
