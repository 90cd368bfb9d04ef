--------------------------- MODULE MCBookmarkStore ---------------------------
(* Small instances of BookmarkStore for TLC: one or two tabs, few entities. *)
EXTENDS BookmarkStore

CONSTANTS s, t, a, b, D, F, v

MCTabs    == {s, t}
MCOne     == {a}
MCTwo     == {a, b}
MCNone    == {}
MCFolder  == {D}
MCFolders == {D, F}
MCVerse   == {v}
MCClock1  == {1}
MCClocks2 == 1..2

TabSymmetry == Permutations(MCTabs)
=============================================================================
