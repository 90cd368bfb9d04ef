--------------------------- MODULE BookmarkTables ---------------------------
(***************************************************************************)
(* The sync rounds of one account on the server (bookmark_v1/controller.rs *)
(* over the tables of BookmarkRows).                                       *)
(*                                                                         *)
(* A round is one SQLite transaction: it makes the default folder live,    *)
(* applies each mutation of the request under last-writer-wins, and        *)
(* commits, or rolls the whole round back.  Rounds of two devices never    *)
(* interleave: the first statement of a round is a write, and SQLite has   *)
(* one writer.  What two devices pushed shows as the order of rounds and   *)
(* as the stamps their clocks put on the mutations, which are arbitrary.   *)
(***************************************************************************)
EXTENDS BookmarkRows

CONSTANTS MaxBatch,        \* mutations a request may carry
          Skew,            \* CLOCK_SKEW_ALLOWANCE_SECS
          MaxNow           \* bound on the server's clock

ASSUME ClockAssumption   == Skew \in Nat /\ MaxNow \in Nat
ASSUME BatchAssumption   == MaxBatch \in Nat

VARIABLES db,      \* the committed tables
          tx,      \* the tables as the open round sees them
          open,    \* is a round open
          done,    \* mutations the open round has applied
          now      \* the server's clock

vars == <<db, tx, open, done, now>>

-----------------------------------------------------------------------------
(* The round. *)

\* Faulty: the device's clock is believed.
Unclamped(ts) == ts

\* A fast device cannot stamp a write past the server's clock and the skew.
Clamp(ts) == IF ts > now + Skew THEN now + Skew ELSE ts

Init == /\ db = NoTables
        /\ tx = db
        /\ open = FALSE
        /\ done = 0
        /\ now = 0

Begin == /\ ~open
         /\ open' = TRUE
         /\ tx' = EnsureDefault(db)
         /\ done' = 0
         /\ UNCHANGED <<db, now>>

\* Faulty: the length of a request is not limited.
ApplyUnlimited(m) == /\ open
                     /\ done' = done + 1
                     /\ tx' = ApplyMutation(tx, m, Clamp(m.ts))
                     /\ UNCHANGED <<db, open, now>>

Apply(m) == /\ open
            /\ done < MaxBatch
            /\ done' = done + 1
            /\ tx' = ApplyMutation(tx, m, Clamp(m.ts))
            /\ UNCHANGED <<db, open, now>>

Commit == /\ open
          /\ open' = FALSE
          /\ db' = tx
          /\ done' = 0
          /\ UNCHANGED <<tx, now>>

\* A failed statement, a dropped request or a crash loses the whole round.
Rollback == /\ open
            /\ open' = FALSE
            /\ tx' = db
            /\ done' = 0
            /\ UNCHANGED <<db, now>>

Tick == /\ now < MaxNow
        /\ now' = now + 1
        /\ UNCHANGED <<db, tx, open, done>>

Next == \/ Begin
        \/ \E m \in Mutations : Apply(m)
        \/ Commit
        \/ Rollback
        \/ Tick

Spec == Init /\ [][Next]_vars
-----------------------------------------------------------------------------
(* Properties. *)

Tables(t) == /\ t = [folders |-> t.folders, bookmarks |-> t.bookmarks]
             /\ DOMAIN t.folders \subseteq FolderIds
             /\ t.folders \in [DOMAIN t.folders -> Folder]
             /\ DOMAIN t.bookmarks \subseteq BookmarkIds
             /\ t.bookmarks \in [DOMAIN t.bookmarks -> Bookmark]

\* Type invariant: both tables hold well-formed rows of this account, in the
\* committed state and in the open round.
TypeOK == /\ Tables(db) /\ Tables(tx)
          /\ open \in BOOLEAN
          /\ done \in 0..MaxBatch
          /\ now \in 0..MaxNow

KeyUnique(t) ==
    \A b, c \in LiveBookmarks(t) :
        /\ t.bookmarks[b].folder = t.bookmarks[c].folder
        /\ t.bookmarks[b].verse = t.bookmarks[c].verse
        => b = c

\* No statement of a round ever meets the unique index on the live key: a
\* folder holds a verse at most once, however upserts, moves, re-homings and
\* resurrections are ordered (a violation would fail the device's round for
\* good, bookmark/actions.rs upsert_lww and bookmark_folder/actions.rs
\* delete_lww).
LiveKeyUnique == KeyUnique(db) /\ KeyUnique(tx)

Homed(t) == \A b \in LiveBookmarks(t) : t.bookmarks[b].folder \in LiveFolders(t)

\* A live bookmark always lies in a live folder, so the snapshot of a round
\* never shows a bookmark whose folder it does not show: what
\* resolve_folder_id and the cascade of delete_lww are for.
LiveBookmarkHasLiveFolder == Homed(db) /\ Homed(tx)

WithinQuota(t) == Cardinality(LiveBookmarks(t)) <= BookmarkQuota

\* The live bookmarks of an account never exceed the quota, although the
\* quota is asked only when the id is not live already.
BookmarkQuotaHolds == WithinQuota(db) /\ WithinQuota(tx)

\* However fast a device's clock runs, no row is stamped beyond the skew the
\* server grants, so an honest write wins again once the skew has passed
\* (controller.rs clamp_ts).
NoStampFromTheFuture ==
    \A t \in {db, tx} :
        /\ \A f \in DOMAIN t.folders   : t.folders[f].at <= now + Skew
        /\ \A b \in DOMAIN t.bookmarks : t.bookmarks[b].at <= now + Skew

Bookmarked(t, v) == \E b \in LiveBookmarks(t) : t.bookmarks[b].verse = v

\* Last writer wins: a mutation never takes the bookmark off a verse that was
\* bookmarked at a later instant than the mutation's, not even when it
\* deletes the folder the bookmark lies in.
NewerBookmarkSurvives ==
    [][\A m \in Mutations : Apply(m) =>
          \A b \in LiveBookmarks(tx) :
             tx.bookmarks[b].at > Clamp(m.ts) => Bookmarked(tx', tx.bookmarks[b].verse)]_vars

\* A mutation leaves a live bookmark as it was unless it names it, its verse or,
\* to delete it, its folder: the writes of upsert_lww and of the
\* cascade touch only the rows of their key and of their folder.
OthersUntouched ==
    [][\A m \in Mutations : Apply(m) =>
          \A b \in LiveBookmarks(tx) :
             \/ m.kind = "folder.delete" /\ tx.bookmarks[b].folder = m.id
             \/ m.kind \in {"bookmark.upsert", "bookmark.delete"} /\ b = m.id
             \/ m.kind = "bookmark.upsert" /\ tx.bookmarks[b].verse = m.verse
             \/ tx'.bookmarks[b] = tx.bookmarks[b]]_vars

\* Stamps only grow, which is what makes a replayed mutation stale: no mutation
\* takes a row, live or tombstoned, back to an earlier instant, with the one
\* exception of the bookmarks that go down with their folder.
StampsFallOnlyInCascade ==
    [][\A m \in Mutations : Apply(m) =>
          /\ \A f \in DOMAIN tx.folders : tx'.folders[f].at >= tx.folders[f].at
          /\ \A b \in DOMAIN tx.bookmarks :
                \/ tx'.bookmarks[b].at >= tx.bookmarks[b].at
                \/ m.kind = "folder.delete" /\ tx.bookmarks[b].folder = m.id]_vars

\* Does not hold.  What the quota's comment says (bookmark_folder/actions.rs, "A NEW live folder
\* past the cap is refused"): the live folders never exceed the quota.
FolderQuotaHolds == \A t \in {db, tx} : Cardinality(LiveFolders(t)) <= FolderQuota
=============================================================================
