---------------------------- MODULE MCSecondFactor ----------------------------
(* Small instances of SecondFactor for TLC. *)
EXTENDS SecondFactor, TLC

CONSTANTS r1, r2, b1

MCRequests == {r1, r2}
MCBackup   == {b1}

MCSymmetry == Permutations(MCRequests)
=============================================================================
