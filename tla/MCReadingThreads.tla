--------------------------- MODULE MCReadingThreads ---------------------------
(* Small instances of ReadingThreads for TLC. *)
EXTENDS ReadingThreads, TLC

CONSTANTS t1, t2, A, B

MCTab      == {t1}
MCTabs     == {t1, t2}
MCAccount  == {A}
MCAccounts == {A, B}
MCIds1     == 1..1
MCIds2     == 1..2
MCAyahs    == {1}
MCClocks1  == 1..1
MCClocks2  == 1..2

MCSymmetry        == Permutations(MCTabs)
MCAccountSymmetry == Permutations(MCAccounts)
=============================================================================
