-------------------------- MODULE MCBookmarkTables --------------------------
(* Small instances of BookmarkTables for TLC. *)
EXTENDS BookmarkTables, TLC

CONSTANTS a, b, c, D, F, v, w

MCBookmarks3 == {a, b, c}
MCFolders    == {D, F}
MCVerses     == {v, w}
MCClocks     == 1..3

Symmetry3 == Permutations(MCBookmarks3) \cup Permutations(MCVerses)
=============================================================================
