---------------------------- MODULE MCSyncEngine ----------------------------
(* Small instances of SyncEngine for TLC. *)
EXTENDS SyncEngine, TLC

CONSTANTS A, B, m, p

MCDomains  == {A, B}
MCMixed    == {m, p}
MCPoison   == {p}

Symmetry   == Permutations(MCDomains)
=============================================================================
