---------------------------- MODULE ReadingThreads ----------------------------
(***************************************************************************)
(* Reading threads on one device (lib/sessions/store.svelte.ts): the tabs  *)
(* that read, the envelope they share through local storage, the outbox of *)
(* each account, and the accounts on the server.                           *)
(*                                                                         *)
(* A tab keeps its own copy of the owner's threads and writes it back      *)
(* after a pause, merged with what is stored.  Rows it has changed are     *)
(* dirty until a push, after a longer pause, queues them; from then on     *)
(* they are pending until their mutation drains.  A round answers with the *)
(* newest open threads only: one that is missing has ended elsewhere, or   *)
(* was cut.  Tabs are closed with and without warning, requests get lost   *)
(* or arrive late, the reader signs in and out, and other devices write.   *)
(*                                                                         *)
(* An operator marked "Faulty" is a plausible bug in the operator after it *)
(* and part of no specification: the checks swap it in to see that the     *)
(* properties notice.                                                      *)
(***************************************************************************)
EXTENDS ReadingRows, Outbox

CONSTANTS Tabs,           \* tabs of the device
          Accounts,       \* accounts the reader signs in to
          Local,          \* LOCAL_OWNER: nobody signed in
          None,           \* no thread
          ThreadCap,      \* LOCAL_THREAD_CAP
          FlushBatch,     \* FLUSH_BATCH
          MaxSwitches,    \* bound on the changes of owner
          MaxRemote,      \* bound on the mutations of other devices
          MaxFaults       \* bound on losses, rejections, restarts, failed writes and
                          \* rounds that find a stamp ahead of the server's clock

Owners == Accounts \cup {Local}

ASSUME ThreadsAssumption ==
    /\ Local \notin Accounts /\ None \notin ThreadIds
    /\ ThreadCap \in Nat \ {0} /\ FlushBatch \in Nat \ {0}

VARIABLES
    db,        \* account -> its tables on the server
    outbox,    \* account -> queued mutations, oldest first (durable)
    stored,    \* owner -> the envelope in local storage (durable)
    tab,       \* tab -> its state in memory
    told,      \* tabs with a storage event on its way
    round,     \* tab -> the sync round under way
    strays,    \* requests without a sender that may still reach the server
    homes,     \* id given out -> owners it was read under or has joined (history)
    issued,    \* account -> every mutation this device has queued for it
    clock,     \* the device's clock
    switches, remote, faults,  \* spent of the three bounds
    \* for the properties:
    buried,    \* account -> mutations dead-lettered by this device
    clamped    \* whether the server has taken a stamp down

bounds == <<switches, remote, faults>>
past   == <<buried, clamped>>
vars == <<db, outbox, stored, tab, told, round, strays, homes, issued, clock, bounds, past>>

NoRows  == [i \in {} |-> i]
NoStore == [threads |-> NoRows, removed |-> {}, furthest |-> 0]
Envelope(s) == [threads |-> s.threads, removed |-> s.removed, furthest |-> s.furthest]

\* draft: the thread opened and not read in yet; at: the thread the tab reads.
Fresh(owner) ==
    [owner |-> owner, threads |-> NoRows, removed |-> {}, furthest |-> 0,
     draft |-> None, at |-> None, dirty |-> {}, dirtyProgress |-> FALSE,
     pending |-> NoRows, deletes |-> {}, persist |-> FALSE, push |-> FALSE]

NoRound == [at |-> "idle", owner |-> Local, batch |-> <<>>,
            answer |-> [threads |-> NoRows, furthest |-> 0]]

Init == /\ db = [a \in Accounts |-> NoAccount]
        /\ outbox = [a \in Accounts |-> <<>>]
        /\ issued = [a \in Accounts |-> {}]
        /\ stored = [o \in Owners |-> NoStore]
        /\ \E o \in Owners : tab = [t \in Tabs |-> Fresh(o)]
        /\ round = [t \in Tabs |-> NoRound]
        /\ told = {} /\ strays = {} /\ homes = NoRows
        /\ clock = 0 /\ switches = 0 /\ remote = 0 /\ faults = 0
        /\ buried = [a \in Accounts |-> {}] /\ clamped = FALSE

Fault == faults < MaxFaults /\ faults' = faults + 1

Without(f, ids) == [i \in DOMAIN f \ ids |-> f[i]]

Minted == DOMAIN homes

Joined(ids, o) == [i \in Minted |-> IF i \in ids THEN homes[i] \cup {o} ELSE homes[i]]

-----------------------------------------------------------------------------
(* Threads in memory. *)

\* The cap keeps open threads before ended ones, and the newest of each.
Capped(threads) ==
    LET before(i, j) == IF threads[i].ended = threads[j].ended
                        THEN Newer(threads, i, j) ELSE threads[j].ended
    IN  [i \in {i \in DOMAIN threads :
                   Cardinality({j \in DOMAIN threads : before(j, i)}) < ThreadCap}
           |-> threads[i]]

\* Faulty: the other side's row wins whatever its age.
TheirRow(a, b, i) == IF i \in DOMAIN b THEN b[i] ELSE a[i]

\* newerOf
NewerRow(a, b, i) ==
    IF i \in DOMAIN b /\ (i \in DOMAIN a => b[i].at > a[i].at) THEN b[i] ELSE a[i]

Merge(a, b, removed) ==
    Capped([i \in (DOMAIN a \cup DOMAIN b) \ removed |-> NewerRow(a, b, i)])

MergeProgress(mine, theirs) == Further(mine, theirs)

SignedIn(s) == s.owner \in Accounts

\* Faulty: a push is due for whoever reads.
PushAlways(s) == TRUE

\* Only an account has something to push to.
PushDue(s) == s.push \/ SignedIn(s)

Stamp == clock + 1

\* #write: a draft becomes a thread the first time something is read in it.
Written(s, i, ended) ==
    [s EXCEPT !.draft = IF @ = i THEN None ELSE @,
              !.removed = @ \ {i},
              !.threads = Merge(Without(@, {i}), Put(NoRows, i, [at |-> Stamp, ended |-> ended]),
                                s.removed \ {i}),
              !.dirty = @ \cup {i},
              !.persist = TRUE,
              !.push = PushDue(s)]

\* #bumpProgress
Bumped(s, ayah) ==
    IF ayah <= s.furthest THEN s
    ELSE [s EXCEPT !.furthest = ayah, !.dirtyProgress = TRUE,
                   !.persist = TRUE, !.push = PushDue(s)]

\* Another tab's writes are folded in.
Reloaded(s, env) ==
    LET removed == s.removed \cup env.removed
    IN  [s EXCEPT !.removed = removed,
                  !.threads = Merge(@, env.threads, removed),
                  !.furthest = MergeProgress(@, env.furthest)]

\* #writeNow, and #flushPending for a write that is due.
Saved(s) == [Reloaded(s, stored[s.owner]) EXCEPT !.persist = FALSE]
Flushed(s) == IF s.persist THEN Saved(s) ELSE s

\* The mutations of a push: the dirty rows that are there, and the progress.
Dirty(s) ==
    LET rows == SetToSeq(s.dirty \cap DOMAIN s.threads)
    IN  [k \in DOMAIN rows |->
           [kind |-> "session.upsert", id |-> rows[k], ts |-> s.threads[rows[k]].at,
            ended |-> s.threads[rows[k]].ended]]
        \o (IF s.dirtyProgress THEN <<[kind |-> "progress.upsert", ayah |-> s.furthest]>>
                               ELSE <<>>)

Pushed(s) ==
    [s EXCEPT !.pending = [i \in DOMAIN @ \cup (s.dirty \cap DOMAIN s.threads) |->
                             IF i \in s.dirty \cap DOMAIN s.threads
                             THEN s.threads[i].at ELSE @[i]],
              !.dirty = {}, !.dirtyProgress = FALSE, !.push = FALSE]

-----------------------------------------------------------------------------
(* The reader. *)

Current(s) == IF s.at # None /\ (s.draft = s.at \/ s.at \in DOMAIN s.threads)
              THEN s.at ELSE None

Change(t, s) == tab' = [tab EXCEPT ![t] = s]

Tick == Stamp \in Clocks /\ clock' = Stamp

\* enter, and a position reported without it: a new draft.
Open(t, i) ==
    /\ i \notin Minted
    /\ homes' = Put(homes, i, {})
    /\ Change(t, [tab[t] EXCEPT !.draft = i, !.at = i])
    /\ UNCHANGED <<db, outbox, stored, told, round, strays, issued, clock, bounds, past>>

\* enter: the tab takes up an open thread of its scope, or one asked for.
Resume(t, i) ==
    /\ i \in DOMAIN tab[t].threads \ tab[t].deletes
    /\ ~tab[t].threads[i].ended
    /\ tab[t].at # i
    /\ Change(t, [tab[t] EXCEPT !.at = i])
    /\ UNCHANGED <<db, outbox, stored, told, round, strays, homes, issued, clock, bounds, past>>

\* enter with an explicit resume of an ended thread reopens it.
Reopen(t, i) ==
    /\ i \in DOMAIN tab[t].threads
    /\ tab[t].threads[i].ended
    /\ Tick
    /\ Change(t, [Written(tab[t], i, FALSE) EXCEPT !.at = i])
    /\ UNCHANGED <<db, outbox, stored, told, round, strays, homes, issued, bounds, past>>

Ended(s, i) == i \in DOMAIN s.threads /\ s.threads[i].ended

\* cursor, anchor and noteRead; done: the verse read is the end of a bounded thread.
Read(t, ayah, done) ==
    LET i == Current(tab[t])
    IN  /\ i # None
        /\ done => ~Ended(tab[t], i)
        /\ Tick
        /\ Change(t, Bumped(Written(tab[t], i, Ended(tab[t], i) \/ done), ayah))
        /\ homes' = Joined({i}, tab[t].owner)
        /\ UNCHANGED <<db, outbox, stored, told, round, strays, issued, bounds, past>>

Dismiss(t, i) ==
    /\ i \in DOMAIN tab[t].threads
    /\ ~tab[t].threads[i].ended
    /\ Tick
    /\ Change(t, Written(tab[t], i, TRUE))
    /\ UNCHANGED <<db, outbox, stored, told, round, strays, homes, issued, bounds, past>>

\* startOver: the thread ends and a draft takes its place.
StartOver(t, i) ==
    LET s == tab[t]
    IN  /\ Current(s) # None
        /\ i \notin Minted
        /\ homes' = Put(homes, i, {})
        /\ IF s.draft = s.at
           THEN UNCHANGED clock /\ Change(t, [s EXCEPT !.draft = i, !.at = i])
           ELSE Tick /\ Change(t, [Written(s, s.at, TRUE) EXCEPT !.draft = i, !.at = i])
        /\ UNCHANGED <<db, outbox, stored, told, round, strays, issued, bounds, past>>

Queue(a, ms) == /\ outbox' = [outbox EXCEPT ![a] = @ \o ms]
                /\ issued' = [issued EXCEPT ![a] = @ \cup ToSet(ms)]

NothingQueued == UNCHANGED <<outbox, issued>>

\* remove: from the history, everywhere, unless the queue cannot be written.
RemoveThread(t, i) ==
    LET s == tab[t]
        out == [s EXCEPT !.removed = @ \cup {i}, !.dirty = @ \ {i},
                         !.pending = Without(@, {i}), !.threads = Without(@, {i}),
                         !.at = IF @ = i THEN None ELSE @,
                         !.draft = IF s.at = i THEN None ELSE @,
                         !.persist = TRUE]
    IN  /\ i \in DOMAIN s.threads
        /\ Tick
        /\ \/ /\ SignedIn(s)
              /\ Change(t, [out EXCEPT !.deletes = @ \cup {i}])
              /\ Queue(s.owner, <<[kind |-> "session.delete", id |-> i, ts |-> Stamp]>>)
              /\ UNCHANGED faults
           \/ /\ IF SignedIn(s) THEN Fault ELSE UNCHANGED faults
              /\ Change(t, out)
              /\ NothingQueued
        /\ UNCHANGED <<db, stored, told, round, strays, homes, switches, remote, past>>

-----------------------------------------------------------------------------
(* The device. *)

\* A write that changes the envelope is an event in the other tabs.
Write(t, o, env) ==
    /\ stored' = [stored EXCEPT ![o] = env]
    /\ told' = IF env = stored[o] THEN told ELSE told \cup (Tabs \ {t})

\* 400 ms after a change.
Persist(t) ==
    /\ tab[t].persist
    /\ Change(t, Saved(tab[t]))
    /\ Write(t, tab[t].owner, Envelope(Saved(tab[t])))
    /\ UNCHANGED <<db, outbox, round, strays, homes, issued, clock, bounds, past>>

StorageEvent(t) ==
    /\ t \in told
    /\ told' = told \ {t}
    /\ Change(t, Reloaded(tab[t], stored[tab[t].owner]))
    /\ UNCHANGED <<db, outbox, stored, round, strays, homes, issued, clock, bounds, past>>

\* 4 s after the last change.
Push(t) ==
    /\ tab[t].push
    /\ Change(t, Pushed(tab[t]))
    /\ Queue(tab[t].owner, Dirty(tab[t]))
    /\ UNCHANGED <<db, stored, told, round, strays, homes, clock, bounds, past>>

\* The queue could not be written: the rows are dirty again.
PushFails(t) ==
    /\ tab[t].push
    /\ Fault
    /\ Change(t, [tab[t] EXCEPT !.pending = Without(@, tab[t].dirty), !.push = FALSE])
    /\ UNCHANGED <<db, outbox, stored, told, round, strays, homes, issued, clock,
                   switches, remote, past>>

Orphaned(t) == IF round[t].at = "sent" /\ round[t].batch # <<>>
               THEN strays \cup {[owner |-> round[t].owner, batch |-> round[t].batch]}
               ELSE strays

Aborted(t) == /\ strays' = Orphaned(t)
              /\ round' = [round EXCEPT ![t] = NoRound]

\* A tab that starts finds the stored envelope, and the thread it was reading.
Started(o, at, env) == [Fresh(o) EXCEPT !.threads = env.threads, !.removed = env.removed,
                                        !.furthest = env.furthest, !.at = at]

\* The page is left and comes back: what is due is written and pushed first.
Leave(t) ==
    LET s == Flushed(tab[t])
    IN  /\ Fault
        /\ Write(t, s.owner, IF tab[t].persist THEN Envelope(s) ELSE stored[s.owner])
        /\ IF s.push THEN Queue(s.owner, Dirty(s)) ELSE NothingQueued
        /\ Change(t, Started(s.owner, s.at, stored'[s.owner]))
        /\ Aborted(t)
        /\ UNCHANGED <<db, homes, clock, switches, remote, past>>

\* The tab is killed and comes back.
Crash(t) ==
    /\ Fault
    /\ Change(t, Started(tab[t].owner, tab[t].at, stored[tab[t].owner]))
    /\ Aborted(t)
    /\ UNCHANGED <<db, outbox, stored, told, homes, issued, clock, switches, remote, past>>

\* Faulty: the rows of the last owner come along.
AbsorbAny(from) == TRUE

\* Only the device's own threads join an account.
Absorbs(from) == from = Local

\* syncOwner and registerFor.  What is due goes to the old owner; signing in,
\* the device's threads join the account and are pushed at once.
Switch(t, o) ==
    LET s     == Flushed(tab[t])
        saved == IF tab[t].persist THEN [stored EXCEPT ![s.owner] = Envelope(s)] ELSE stored
        new   == [Started(o, s.at, saved[o]) EXCEPT !.draft = s.draft]
        absorbs == /\ o # Local /\ Absorbs(s.owner)
                   /\ s.threads # NoRows \/ s.furthest > 0
        joined == [new EXCEPT !.threads = Merge(@, s.threads, new.removed),
                              !.furthest = MergeProgress(@, s.furthest),
                              !.dirty = DOMAIN s.threads,
                              !.dirtyProgress = s.furthest > 0,
                              !.persist = TRUE]
        due   == IF s.push THEN Dirty(s) ELSE <<>>
        first == IF absorbs THEN Dirty(joined) ELSE <<>>
    IN  /\ tab[t].owner # o
        /\ switches < MaxSwitches /\ switches' = switches + 1
        /\ outbox' = [a \in Accounts |-> outbox[a] \o IF a = s.owner THEN due
                                                      ELSE IF a = o THEN first ELSE <<>>]
        /\ issued' = [a \in Accounts |-> issued[a] \cup IF a = s.owner THEN ToSet(due)
                                                        ELSE IF a = o THEN ToSet(first) ELSE {}]
        /\ Change(t, IF absorbs THEN [Pushed(joined) EXCEPT !.push = TRUE] ELSE new)
        /\ stored' = IF absorbs THEN [saved EXCEPT ![Local] = NoStore] ELSE saved
        /\ told' = IF stored' = stored THEN told ELSE told \cup (Tabs \ {t})
        /\ homes' = IF absorbs THEN Joined(DOMAIN s.threads, o) ELSE homes
        /\ Aborted(t)
        /\ UNCHANGED <<db, clock, remote, faults, past>>

-----------------------------------------------------------------------------
(* Sync rounds. *)

Batch(a) == SubSeq(outbox[a], 1,
                   IF Len(outbox[a]) < FlushBatch THEN Len(outbox[a]) ELSE FlushBatch)

Send(t) ==
    LET a == tab[t].owner
    IN  /\ round[t].at = "idle"
        /\ SignedIn(tab[t])
        /\ round' = [round EXCEPT ![t] = [NoRound EXCEPT !.at = "sent", !.owner = a,
                                                         !.batch = Batch(a)]]
        /\ UNCHANGED <<db, outbox, stored, tab, told, strays, homes, issued, clock, bounds, past>>

\* The limit is what the server's clock says at the time, and the skew.
SyncRound(a, batch) ==
    \E limit \in Clocks :
        /\ db' = [db EXCEPT ![a] = Round(@, batch, limit)]
        /\ IF \E m \in ToSet(batch) : m.kind # "progress.upsert" /\ m.ts > limit
           THEN Fault /\ clamped' = TRUE
           ELSE UNCHANGED <<faults, clamped>>

Serve(t) ==
    LET a == round[t].owner
    IN  /\ round[t].at = "sent"
        /\ SyncRound(a, round[t].batch)
        /\ round' = [round EXCEPT ![t].at = "answered", ![t].answer = Snapshot(db'[a])]
        /\ UNCHANGED <<outbox, stored, tab, told, strays, homes, issued, clock, switches,
                       remote, buried>>

\* The request or the answer does not arrive, the batch is rejected, or it cannot be
\* erased; the round failed.
Lose(t) ==
    /\ round[t].at \in {"sent", "answered"}
    /\ Fault
    /\ Aborted(t)
    /\ UNCHANGED <<db, outbox, stored, tab, told, homes, issued, clock, switches, remote, past>>

\* A batch has been rejected too often: the oldest of it goes to the dead letters.
Bury(t) ==
    LET a == round[t].owner
        poison == Head(round[t].batch)
    IN  /\ round[t].at = "sent" /\ round[t].batch # <<>>
        /\ Fault
        /\ outbox' = [outbox EXCEPT ![a] = Erased(@, <<poison>>)]
        /\ buried' = [buried EXCEPT ![a] = @ \cup ({poison} \cap ToSet(outbox[a]))]
        /\ round' = [round EXCEPT ![t] = NoRound]
        /\ UNCHANGED <<db, stored, tab, told, strays, homes, issued, clock, switches, remote,
                       clamped>>

ServeStray(stray) ==
    /\ SyncRound(stray.owner, stray.batch)
    /\ strays' = strays \ {stray}
    /\ UNCHANGED <<outbox, stored, tab, told, round, homes, issued, clock, switches, remote,
                   buried>>

\* Pending rows and removals stand until the mutation that made them drains.
Drained(s, batch) ==
    [s EXCEPT !.pending = [i \in {i \in DOMAIN @ :
                             \A m \in batch : ~(m.kind = "session.upsert" /\ m.id = i
                                                  /\ m.ts = @[i])} |-> @[i]],
              !.deletes = @ \ {m.id : m \in {m \in batch : m.kind = "session.delete"}}]

\* Faulty: only the rows that wait for the next push are kept.
Unpushed(s) == s.dirty

\* Rows the server cannot know yet.
Ours(s) == DOMAIN s.pending \cup s.dirty

\* Faulty: the thread being read is dropped as well.
OnlyOurs(s) == Ours(s)

Kept(s) == Ours(s) \cup {s.at}

\* applyServer.  An open thread that is missing from the snapshot has ended
\* elsewhere, unless it is older than the last of a full one.
Applied(s, snap) ==
    LET news  == [i \in DOMAIN snap.threads \ (s.deletes \cup s.removed \cup Ours(s))
                    |-> snap.threads[i]]
        all   == [i \in DOMAIN s.threads \cup DOMAIN news |-> NewerRow(s.threads, news, i)]
        full  == Cardinality(DOMAIN snap.threads) >= SnapshotLimit
        cut(i) == full /\ \A j \in DOMAIN snap.threads : all[i].at < snap.threads[j].at
        ended == {i \in DOMAIN all \ (DOMAIN snap.threads \cup Kept(s)) :
                     ~all[i].ended /\ ~cut(i)}
    IN  [s EXCEPT !.threads = Merge(Without(all, ended), NoRows, s.removed),
                  !.furthest = MergeProgress(@, snap.furthest),
                  !.persist = TRUE]

\* The batch leaves the outbox.  The tab goes on when the transaction has committed.
Erase(t) ==
    /\ round[t].at = "answered" /\ round[t].batch # <<>>
    /\ outbox' = [outbox EXCEPT ![round[t].owner] = Erased(@, round[t].batch)]
    /\ round' = [round EXCEPT ![t].at = "erased"]
    /\ UNCHANGED <<db, stored, tab, told, strays, homes, issued, clock, bounds, past>>

Receive(t) ==
    /\ \/ round[t].at = "erased"
       \/ round[t].at = "answered" /\ round[t].batch = <<>>
    /\ Change(t, Applied(Drained(tab[t], ToSet(round[t].batch)), round[t].answer))
    /\ round' = [round EXCEPT ![t] = NoRound]
    /\ UNCHANGED <<db, outbox, stored, told, strays, homes, issued, clock, bounds, past>>

\* Another device pushes a change, made at any time, of what it has seen or minted.
OtherDevice(a, m) ==
    /\ remote < MaxRemote
    /\ remote' = remote + 1
    /\ \/ m.kind = "progress.upsert" /\ UNCHANGED homes
       \/ m.kind # "progress.upsert" /\ m.id \in DOMAIN db[a].rows /\ UNCHANGED homes
       \/ m.kind = "session.upsert" /\ m.id \notin Minted /\ homes' = Put(homes, m.id, {a})
    /\ SyncRound(a, <<m>>)
    /\ UNCHANGED <<outbox, stored, tab, told, round, strays, issued, clock, switches, buried>>

-----------------------------------------------------------------------------
Reader(t) == \/ \E i \in ThreadIds : \/ Open(t, i) \/ Resume(t, i) \/ Reopen(t, i)
                                     \/ Dismiss(t, i) \/ RemoveThread(t, i) \/ StartOver(t, i)
             \/ \E ayah \in Ayahs, done \in BOOLEAN : Read(t, ayah, done)

Device(t) == \/ Persist(t) \/ StorageEvent(t) \/ Push(t) \/ PushFails(t)
             \/ Leave(t) \/ Crash(t)
             \/ \E o \in Owners : Switch(t, o)

Sync(t) == Send(t) \/ Serve(t) \/ Lose(t) \/ Bury(t) \/ Erase(t) \/ Receive(t)

Next == \/ \E t \in Tabs : Reader(t) \/ Device(t) \/ Sync(t)
        \/ \E stray \in strays : ServeStray(stray)
        \/ \E a \in Accounts, m \in Mutations : OtherDevice(a, m)

Spec == Init /\ [][Next]_vars
-----------------------------------------------------------------------------
(* Properties. *)

Threads == UNION {[ids -> [at : Clocks, ended : BOOLEAN]] : ids \in SUBSET ThreadIds}

TabOK(s) ==
    /\ s.owner \in Owners
    /\ s.threads \in Threads /\ Cardinality(DOMAIN s.threads) <= ThreadCap
    /\ s.removed \cup s.dirty \cup DOMAIN s.pending \cup s.deletes \subseteq ThreadIds
    /\ s.furthest \in Ayahs \cup {0}
    /\ {s.draft, s.at} \subseteq ThreadIds \cup {None}
    /\ s.push => SignedIn(s)

\* Type invariant.
TypeOK == /\ \A a \in Accounts : db[a] \in Account /\ outbox[a] \in Seq(issued[a])
          /\ \A o \in Owners : stored[o].threads \in Threads
          /\ \A t \in Tabs : TabOK(tab[t])

\* The ids of an account or of the device.
ThreadsOf(o) == {i \in Minted : o \in homes[i]}

\* What the device has sent and not dead-lettered.
Sent(a) == issued[a] \ (ToSet(outbox[a]) \cup buried[a])

\* What has left the outbox of an account, other than to the dead letters, has been
\* digested: the server would skip each of those changes now, so that a request which
\* arrives late or twice brings back no older position and no removed thread.  As long as
\* the account keeps within its quota (a thread refused over the quota comes in when a
\* late request finds room), and as long as no stamp was ahead of the server's clock:
\* FastClockDigested.  (A removal that found no row leaves no tombstone: see
\* RemovedEverywhere.)
ChangesDigested ==
    ~clamped =>
        \A a \in Accounts : Cardinality(ThreadsOf(a)) <= ThreadQuota =>
            \A m \in Sent(a), limit \in Clocks :
                m.kind # "session.delete" => Round(db[a], <<m>>, limit) = db[a]

\* Does not hold.  "a fast device cannot dominate LWW forever" (controller.rs): a change that
\* was taken down to the server's clock is taken down less when it comes again, and wins
\* against what was done since; a thread that was removed comes back.
FastClockDigested ==
    \A a \in Accounts : Cardinality(ThreadsOf(a)) <= ThreadQuota =>
        \A m \in Sent(a), limit \in Clocks :
            m.kind # "session.delete" => Round(db[a], <<m>>, limit) = db[a]

\* Does not hold.  "Delete from history everywhere (tombstone on the server)" (remove in
\* store.svelte.ts): a thread whose removal is the last thing the device did to it
\* is not live on the server once everything has drained.
RemovedEverywhere ==
    \A a \in Accounts : \A m \in issued[a] :
        LET i == m.id IN
        /\ outbox[a] = <<>>
        /\ m.kind = "session.delete"
        /\ \A n \in issued[a] : n.kind = "session.upsert" /\ n.id = i => n.ts < m.ts
        => (i \in LiveThreads(db[a].rows) => db[a].rows[i].at > m.ts)

\* "They beat any snapshot row until their mutation drains" (store.svelte.ts): as
\* long as the threads fit under the cap, a change that has yet to reach the
\* server is not lost to an older row, whatever snapshots, other tabs and storage
\* events bring meanwhile.  (A row that the reader changes again under a clock
\* that lags may be older than the change queued before; it is dirty then.)
OwnChangesShown ==
    Cardinality(Minted) <= ThreadCap =>
        \A t \in Tabs : LET s == tab[t] IN
            /\ s.dirty \subseteq DOMAIN s.threads \cup s.removed
            /\ \A i \in DOMAIN s.pending \ s.removed :
                  /\ i \in DOMAIN s.threads
                  /\ i \in s.dirty \/ s.threads[i].at >= s.pending[i]

\* Nothing that comes in takes a tab back in a thread: the row of a thread is not
\* replaced by an older one (other than by the reader, under a clock that lags),
\* and the progress of a surah "never regresses".  Only a tab that starts again or
\* changes its owner shows another state.
Restarted(t) == tab'[t] \in {Started(o, tab[t].at, stored'[o]) : o \in Owners}
NeverBackwards ==
    [][\A t \in Tabs :
          \/ /\ tab'[t].furthest >= tab[t].furthest
             /\ \A i \in DOMAIN tab[t].threads \cap DOMAIN tab'[t].threads :
                   \/ tab'[t].threads[i].at >= tab[t].threads[i].at
                   \/ clock' # clock
          \/ tab'[t].owner # tab[t].owner \/ Restarted(t)]_vars

\* The open thread a tab reads stays there under every snapshot and every write of
\* another tab, unless a tab of the device has removed it or the cap is reached.
ReadingGoesOn ==
    [][\A t \in Tabs :
          LET s == tab[t] IN
          s.at \in DOMAIN s.threads /\ ~s.threads[s.at].ended =>
             \/ s.at \in DOMAIN tab'[t].threads \cup tab'[t].removed
             \/ Cardinality(DOMAIN tab'[t].threads) = ThreadCap
             \/ tab'[t].owner # s.owner \/ Restarted(t)]_vars

\* A thread belongs to the account it was read in: nothing of one account is shown
\* under another one, stored or queued for it or on the server there, however the
\* reader signs in and out.  Only the device's own threads join an account, and one
\* alone unless two tabs hold them.
IdsOf(ms) == {m.id : m \in {m \in ms : m.kind # "progress.upsert"}}
OneAccountEach ==
    /\ \A o \in Owners : DOMAIN stored[o].threads \subseteq ThreadsOf(o)
    /\ \A t \in Tabs : DOMAIN tab[t].threads \subseteq ThreadsOf(tab[t].owner)
    /\ \A a \in Accounts : IdsOf(issued[a]) \cup DOMAIN db[a].rows \subseteq ThreadsOf(a)
    /\ \A i \in Minted : \A a, b \in homes[i] \cap Accounts :
          a # b => Local \in homes[i] /\ \E t, u \in Tabs : t # u
=============================================================================
