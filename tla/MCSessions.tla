------------------------------ MODULE MCSessions ------------------------------
(* Small instances of Sessions for TLC. *)
EXTENDS Sessions, TLC

CONSTANTS r1, r2, t1, t2, t3, a1, a2

MCRequests == {r1, r2}
MCTowers3  == {t1, t2, t3}
MCAudit    == {a1}
MCAudits   == {a1, a2}

MCSymmetry == Permutations(MCRequests) \cup Permutations(MCTowers3) \cup Permutations(MCAudits)
=============================================================================
