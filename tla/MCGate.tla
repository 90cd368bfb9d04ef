-------------------------------- MODULE MCGate --------------------------------
(* Small instances of Gate for TLC. *)
EXTENDS Gate, TLC

CONSTANTS u1, r1, r2

MCUnit     == {u1}
MCRequests == {r1, r2}

MCSymmetry == Permutations(MCRequests)
=============================================================================
