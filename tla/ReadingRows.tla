----------------------------- MODULE ReadingRows -----------------------------
(***************************************************************************)
(* The reading threads and the progress of one account on the server       *)
(* (reading_session.rs, reading_session_v1): rows with tombstones, the     *)
(* statements of a sync round, and the snapshot it answers with.           *)
(*                                                                         *)
(* A thread is what decides about it: the instant of its last change,      *)
(* whether it has ended and whether it is live.  Threads that have gone    *)
(* stale by age are left out, and the progress is that of one surah.       *)
(***************************************************************************)
EXTENDS Integers, FiniteSets, SequencesExt

CONSTANTS ThreadIds,      \* client-minted ids, ordered like the strings they are
          Clocks,         \* instants a device can stamp
          Ayahs,          \* ayahs that can be reached in the surah
          ThreadQuota,    \* LIVE_SESSION_QUOTA
          SnapshotLimit   \* OPEN_SNAPSHOT_LIMIT

ASSUME RowsAssumption ==
    /\ ThreadIds \subseteq Nat /\ IsFiniteSet(ThreadIds)
    /\ Clocks \subseteq Nat /\ Ayahs \subseteq Nat
    /\ ThreadQuota \in Nat \ {0} /\ SnapshotLimit \in Nat \ {0}

Row  == [at : Clocks, ended : BOOLEAN, live : BOOLEAN]
Rows == UNION {[ids -> Row] : ids \in SUBSET ThreadIds}
Account == [rows : Rows, furthest : Ayahs \cup {0}]

NoAccount == [rows |-> [i \in {} |-> i], furthest |-> 0]

Mutations == [kind : {"session.upsert"}, id : ThreadIds, ts : Clocks, ended : BOOLEAN]
                \cup [kind : {"session.delete"}, id : ThreadIds, ts : Clocks]
                \cup [kind : {"progress.upsert"}, ayah : Ayahs]

LiveThreads(rows) == {i \in DOMAIN rows : rows[i].live}

Put(rows, i, row) == [j \in DOMAIN rows \cup {i} |-> IF j = i THEN row ELSE rows[j]]

\* The stored row is as new as the write.
UpToDate(rows, i, ts) == i \in DOMAIN rows /\ rows[i].at >= ts

\* upsert_lww: a newer upsert clears the tombstone and may reopen the thread.
UpsertThread(rows, i, ts, ended) ==
    IF \/ i \notin DOMAIN rows /\ Cardinality(LiveThreads(rows)) >= ThreadQuota
       \/ UpToDate(rows, i, ts)
    THEN rows
    ELSE Put(rows, i, [at |-> ts, ended |-> ended, live |-> TRUE])

\* Faulty: no tombstone stays.
DeleteThreadHard(rows, i, ts) ==
    [j \in {j \in DOMAIN rows : j = i => rows[j].at > ts} |-> rows[j]]

\* delete_lww: a tombstone, unless the row is strictly newer.
DeleteThread(rows, i, ts) ==
    IF i \in DOMAIN rows /\ rows[i].at <= ts
    THEN Put(rows, i, [rows[i] EXCEPT !.at = ts, !.live = FALSE])
    ELSE rows

\* upsert_progress: the greater ayah stays.
Further(furthest, ayah) == IF ayah > furthest THEN ayah ELSE furthest

\* clamp_ts: a stamp goes no further than the limit.
Clamp(ts, limit) == IF ts > limit THEN limit ELSE ts

ApplyMutation(account, m, limit) ==
    CASE m.kind = "session.upsert" ->
           [account EXCEPT !.rows = UpsertThread(@, m.id, Clamp(m.ts, limit), m.ended)]
      [] m.kind = "session.delete" ->
           [account EXCEPT !.rows = DeleteThread(@, m.id, Clamp(m.ts, limit))]
      [] m.kind = "progress.upsert" ->
           [account EXCEPT !.furthest = Further(@, m.ayah)]

\* sync_round, in one transaction.
Round(account, batch, limit) ==
    LET after[k \in 0..Len(batch)] ==
            IF k = 0 THEN account ELSE ApplyMutation(after[k - 1], batch[k], limit)
    IN  after[Len(batch)]

\* Newest first, ties by id.
Newer(rows, i, j) == \/ rows[i].at > rows[j].at
                     \/ rows[i].at = rows[j].at /\ i > j

\* list_open: the newest open threads.
OpenThreads(rows) ==
    LET open == {i \in LiveThreads(rows) : ~rows[i].ended}
    IN  {i \in open : Cardinality({j \in open : Newer(rows, j, i)}) < SnapshotLimit}

\* What a round answers.
Snapshot(account) ==
    [threads  |-> [i \in OpenThreads(account.rows) |->
                     [at |-> account.rows[i].at, ended |-> FALSE]],
     furthest |-> account.furthest]
=============================================================================
