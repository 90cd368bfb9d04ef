------------------------------ MODULE MCRecovery ------------------------------
(* Small instances of Recovery for TLC. *)
EXTENDS Recovery, TLC

CONSTANTS r1, r2, e1, e2, s1, s2   \* s1 and s2: other spellings of e1 and e2

MCRequests  == {r1, r2}
MCEmails    == {e1, e2}
MCSpellings == {e1, e2, s1, s2}
MCNormal    == [s \in MCSpellings |-> IF s \in {e1, s1} THEN e1 ELSE e2]

\* An address takes its spellings along.
Along(p) == [s \in MCSpellings |-> CASE s = s1 -> IF p[e1] = e1 THEN s1 ELSE s2
                                      [] s = s2 -> IF p[e2] = e2 THEN s2 ELSE s1
                                      [] OTHER  -> p[s]]

MCSymmetry == Permutations(MCRequests) \cup {Along(p) : p \in Permutations(MCEmails)}
=============================================================================
