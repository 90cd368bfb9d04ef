--------------------------- MODULE BookmarkStore ---------------------------
(***************************************************************************)
(* The bookmarks of one signed-in account as its tabs show them            *)
(* (lib/bookmarks/store.svelte.ts), from the tap to the server and back.   *)
(*                                                                         *)
(* The tabs of one device share the durable outbox of the account; each    *)
(* keeps the last server snapshot and, above it, overlays of its own edits *)
(* that stand until their mutation has drained.  A sync round of a tab     *)
(* pushes the oldest mutations and brings a snapshot back; a tab that      *)
(* drained mutations tells the others.  Requests and answers get lost, a   *)
(* lost request may still reach the server late, tabs are reloaded, and    *)
(* other devices of the account write to the same tables.                  *)
(*                                                                         *)
(* The server is BookmarkRows, one atomic round per request.  Its clock is *)
(* its own: a round may find a stamp ahead of it, and takes it down.  What *)
(* the engine of a tab does with failures is the subject of SyncEngine: here a *)
(* tab may start a round whenever none of its own is under way.            *)
(*                                                                         *)
(* An operator marked "Faulty" is a plausible bug in the operator after it *)
(* and part of no specification: the checks swap it in to see that the     *)
(* properties notice.                                                      *)
(***************************************************************************)
EXTENDS BookmarkRows, Outbox

CONSTANTS Tabs,              \* tabs of one device, all signed in
          OldFolders,        \* folders the account holds from before
          FlushBatch,        \* FLUSH_BATCH
          MaxFolderDeletes,  \* bound on the folders deleted on this device
          MaxRemote,         \* bound on the mutations of other devices
          MaxFaults          \* bound on losses, reloads, storage failures and
                             \* rounds that find a stamp ahead of the server's clock

ASSUME StoreAssumption ==
    /\ FlushBatch \in Nat \ {0}
    /\ IsFiniteSet(BookmarkIds) /\ IsFiniteSet(FolderIds)
    /\ BookmarkIds \cap FolderIds = {}
    /\ OldFolders \subseteq FolderIds

VARIABLES
    db,        \* the tables of the account on the server
    outbox,    \* queued mutations, oldest first (durable, shared by the tabs)
    cache,     \* the snapshot last written to local storage (shared)
    snapshot,  \* tab -> the last server snapshot
    overlay,   \* tab -> entity -> row, dead when the edit removes it
    mine,      \* tab -> its mutations whose entity it remembers
    undo,      \* tab -> entity -> row: what its last removal took
    round,     \* tab -> the sync round under way
    notices,   \* tab -> drain notices on their way to it
    strays,    \* requests without a sender that may still reach the server
    issued,    \* every mutation this device has enqueued
    clock,     \* the device's clock
    deletes, remote, faults,  \* spent of the three bounds
    \* for the properties:
    hidden,       \* tab -> bookmarks it hid with their folder
    unannounced,  \* mutations that drained in a tab that died before it told the others
    clamped       \* whether the server has taken a stamp down

tabState == <<snapshot, overlay, mine, undo, round, notices>>
bounds   == <<deletes, remote, faults>>
past     == <<hidden, unannounced, clamped>>
vars == <<db, outbox, cache, tabState, strays, issued, clock, bounds, past>>

Entities == BookmarkIds \cup FolderIds
Gone     == [live |-> FALSE]
Nothing  == [e \in {} |-> e]
Without(f, es) == Restrict(f, DOMAIN f \ es)
Laid(changes, rows) == [e \in DOMAIN changes \cup DOMAIN rows |->
                          IF e \in DOMAIN changes THEN changes[e] ELSE rows[e]]
IdsOf(ms) == {m.id : m \in ms}

\* Faulty: tombstones are listed too.
SnapshotWithDead(t) == [folders   |-> LiveFolders(t), bookmarks |-> t.bookmarks]

\* What a round answers: the live rows.
Snapshot(t) == [folders   |-> LiveFolders(t),
                bookmarks |-> [b \in LiveBookmarks(t) |-> t.bookmarks[b]]]

NoSnapshot == [folders |-> {}, bookmarks |-> Nothing]
NoRound    == [at |-> "idle", batch |-> <<>>, answer |-> NoSnapshot]

\* The tabs start in step with what the account holds from before.
Init == /\ db = [NoTables EXCEPT !.folders = [f \in OldFolders |-> [at |-> 0, live |-> TRUE]]]
        /\ outbox = <<>> /\ strays = {} /\ issued = {}
        /\ cache = Snapshot(db)
        /\ snapshot = [t \in Tabs |-> Snapshot(db)]
        /\ overlay = [t \in Tabs |-> Nothing]
        /\ undo = [t \in Tabs |-> Nothing]
        /\ mine = [t \in Tabs |-> {}]
        /\ notices = [t \in Tabs |-> {}]
        /\ round = [t \in Tabs |-> NoRound]
        /\ clock = 0 /\ deletes = 0 /\ remote = 0 /\ faults = 0
        /\ hidden = [t \in Tabs |-> {}] /\ unannounced = {} /\ clamped = FALSE

Fault == faults < MaxFaults /\ faults' = faults + 1

-----------------------------------------------------------------------------
(* What a tab shows. *)

Folders(t) ==
    {DefaultFolder}
      \cup (snapshot[t].folders \ DOMAIN overlay[t])
      \cup {f \in DOMAIN overlay[t] \cap FolderIds : overlay[t][f].live}

Row(t, b) == IF b \in DOMAIN overlay[t] THEN overlay[t][b]
                                        ELSE snapshot[t].bookmarks[b]

Present(t) ==
    {b \in (DOMAIN overlay[t] \cup DOMAIN snapshot[t].bookmarks) \cap BookmarkIds :
        Row(t, b).live /\ Row(t, b).folder \in Folders(t)}

KeyOf(t, b) == <<Row(t, b).folder, Row(t, b).verse>>
View(t)     == {KeyOf(t, b) : b \in Present(t)}

\* Of two rows on one key a pending one is shown, or the newer.
Shown(t) ==
    {b \in Present(t) :
        \/ b \in DOMAIN overlay[t]
        \/ \A p \in Present(t) \cap DOMAIN overlay[t] :
              KeyOf(t, p) = KeyOf(t, b) => Row(t, p).at < Row(t, b).at}

ShownIn(t, f) == {b \in Shown(t) : Row(t, b).folder = f}

-----------------------------------------------------------------------------
(* Edits.  An edit overlays the rows it changes and queues their mutations, *)
(* stamped by the device's clock, which bounds the edits.  A tab offers to  *)
(* undo its last removal until its next edit (never, once the clock has no  *)
(* stamp left).                                                             *)

Stamp == clock + 1

Upsert(e, row) ==
    IF e \in FolderIds
    THEN [kind |-> "folder.upsert", id |-> e, ts |-> Stamp]
    ELSE [kind |-> "bookmark.upsert", id |-> e, folder |-> row.folder,
          verse |-> row.verse, ts |-> Stamp]

Edit(t, changes, ms, removed) ==
    /\ Stamp \in Clocks
    /\ clock' = Stamp
    /\ overlay' = [overlay EXCEPT ![t] = Laid(changes, @)]
    /\ outbox' = outbox \o ms
    /\ mine' = [mine EXCEPT ![t] = @ \cup ToSet(ms)]
    /\ issued' = issued \cup ToSet(ms)
    /\ undo' = IF Stamp + 1 \in Clocks THEN [undo EXCEPT ![t] = removed]
                                       ELSE [u \in Tabs |-> Nothing]
    /\ hidden' = [hidden EXCEPT ![t] = (@ \cup DOMAIN changes) \ IdsOf(ToSet(ms))]
    /\ UNCHANGED <<db, cache, snapshot, round, notices, strays, remote, faults,
                   unannounced, clamped>>

\* Folders go first, so that a bookmark never precedes its folder.
PutRows(t, rows) ==
    LET order == SetToSeq(DOMAIN rows \cap FolderIds)
                   \o SetToSeq(DOMAIN rows \cap BookmarkIds)
    IN  Edit(t, [e \in DOMAIN rows |-> [rows[e] EXCEPT !.at = Stamp]],
             [i \in DOMAIN order |-> Upsert(order[i], rows[order[i]])], Nothing)

DropRows(t, bs, removed) ==
    LET order == SetToSeq(bs)
    IN  Edit(t, [b \in bs |-> Gone],
             [i \in DOMAIN order |->
                [kind |-> "bookmark.delete", id |-> order[i], ts |-> Stamp]], removed)

Fresh(e) == /\ e \notin IdsOf(issued)
            /\ e \notin DOMAIN db.folders \cup DOMAIN db.bookmarks

\* toggle of an unsaved verse, setInFolder, toggleRange.  The id is minted: any unused
\* one does.
Save(t, b, f, v) ==
    /\ Fresh(b) /\ b = CHOOSE c \in BookmarkIds : Fresh(c)
    /\ f \in Folders(t)
    /\ \A c \in ShownIn(t, f) : Row(t, c).verse # v
    /\ PutRows(t, [e \in {b} |-> [folder |-> f, verse |-> v, at |-> 0, live |-> TRUE]])
    /\ UNCHANGED deletes

\* toggle of a saved verse takes it out of every folder; remove and setInFolder
\* take out one row.
Unsave(t, bs) ==
    /\ bs # {}
    /\ \/ \E b \in Shown(t) : bs = {b}
       \/ \E v \in Verses : bs = {b \in Shown(t) : Row(t, b).verse = v}
    /\ DropRows(t, bs, [b \in bs |-> Row(t, b)])
    /\ UNCHANGED deletes

\* A move into a folder that holds the verse already collapses into that row.
Move(t, b, f) ==
    /\ b \in Shown(t)
    /\ f \in Folders(t) \ {Row(t, b).folder}
    /\ IF \E c \in ShownIn(t, f) : Row(t, c).verse = Row(t, b).verse
       THEN DropRows(t, {b}, Nothing)
       ELSE PutRows(t, [e \in {b} |-> [Row(t, e) EXCEPT !.folder = f]])
    /\ UNCHANGED deletes

\* createFolder, renameFolder, setFolderPosition.
PutFolder(t, f) ==
    /\ f \in Folders(t) \/ (f # DefaultFolder /\ Fresh(f))
    /\ PutRows(t, [e \in {f} |-> [at |-> 0, live |-> TRUE]])
    /\ UNCHANGED deletes

\* deleteFolder: one mutation removes the folder and, on the server, the bookmarks in it.
RemoveFolder(t, f) ==
    LET taken == {f} \cup ShownIn(t, f)
    IN  /\ f \in Folders(t) \ {DefaultFolder}
        /\ deletes < MaxFolderDeletes
        /\ deletes' = deletes + 1
        /\ Edit(t, [e \in taken |-> Gone],
                <<[kind |-> "folder.delete", id |-> f, ts |-> Stamp]>>,
                [e \in taken |-> IF e = f THEN [at |-> 0, live |-> TRUE] ELSE Row(t, e)])

\* restore and restoreFolder: the same ids under a fresh stamp.
Undo(t) == /\ undo[t] # Nothing
           /\ PutRows(t, undo[t])
           /\ UNCHANGED deletes

\* The durable write of an edit fails: its overlay goes again, and with it
\* what an earlier edit of the same entity had laid.
EditFails(t, e) ==
    /\ e \in DOMAIN overlay[t]
    /\ Fault
    /\ overlay' = [overlay EXCEPT ![t] = Without(@, {e})]
    /\ UNCHANGED <<db, outbox, cache, snapshot, mine, undo, round, notices, strays,
                   issued, clock, deletes, remote, past>>

-----------------------------------------------------------------------------
(* Sync rounds. *)

\* clamp_ts.
Clamp(ts, limit) == IF ts > limit THEN limit ELSE ts

Round(d, batch, limit) ==
    LET after[k \in 0..Len(batch)] ==
            IF k = 0 THEN EnsureDefault(d)
            ELSE ApplyMutation(after[k - 1], batch[k], Clamp(batch[k].ts, limit))
    IN  after[Len(batch)]

\* The limit is what the server's clock says at the time, and the skew.
Push(batch) ==
    \E limit \in Clocks :
        /\ db' = Round(db, batch, limit)
        /\ IF \E m \in ToSet(batch) : m.ts > limit
           THEN Fault /\ clamped' = TRUE
           ELSE UNCHANGED <<faults, clamped>>

Batch == SubSeq(outbox, 1, IF Len(outbox) < FlushBatch THEN Len(outbox) ELSE FlushBatch)

Send(t) ==
    /\ round[t].at = "idle"
    /\ round' = [round EXCEPT ![t] = [NoRound EXCEPT !.at = "sent", !.batch = Batch]]
    /\ UNCHANGED <<db, outbox, cache, snapshot, overlay, mine, undo, notices, strays,
                   issued, clock, bounds, past>>

Serve(t) ==
    /\ round[t].at = "sent"
    /\ Push(round[t].batch)
    /\ round' = [round EXCEPT ![t].at = "answered", ![t].answer = Snapshot(db')]
    /\ UNCHANGED <<outbox, cache, snapshot, overlay, mine, undo, notices, strays,
                   issued, clock, deletes, remote, hidden, unannounced>>

Orphaned(t) == IF round[t].at = "sent" /\ round[t].batch # <<>>
               THEN strays \cup {round[t].batch} ELSE strays

\* The request or the answer does not arrive, or the batch cannot be erased; the round
\* failed.
Lose(t) ==
    /\ round[t].at \in {"sent", "answered"}
    /\ Fault
    /\ strays' = Orphaned(t)
    /\ round' = [round EXCEPT ![t] = NoRound]
    /\ UNCHANGED <<db, outbox, cache, snapshot, overlay, mine, undo, notices,
                   issued, clock, deletes, remote, past>>

ServeStray(batch) ==
    /\ Push(batch)
    /\ strays' = strays \ {batch}
    /\ UNCHANGED <<outbox, cache, tabState, issued, clock, deletes, remote, hidden,
                   unannounced>>

\* Faulty: the overlays stay, or those of folders do.
NothingRetired(t, ms)   == overlay[t]
BookmarksRetired(t, ms) == Without(overlay[t], IdsOf(ms) \cap BookmarkIds)

Retired(t, ms) == Without(overlay[t], IdsOf(ms))

\* The batch leaves the outbox.  The tab goes on when the transaction has committed.
Erase(t) ==
    /\ round[t].at = "answered" /\ round[t].batch # <<>>
    /\ outbox' = Erased(outbox, round[t].batch)
    /\ round' = [round EXCEPT ![t].at = "erased"]
    /\ UNCHANGED <<db, cache, snapshot, overlay, mine, undo, notices, strays,
                   issued, clock, bounds, past>>

\* The other tabs are told, the overlays of the entities of the batch are retired and the
\* snapshot replaces the last one.
Receive(t) ==
    LET batch == ToSet(round[t].batch)
    IN  /\ \/ round[t].at = "erased"
           \/ round[t].at = "answered" /\ round[t].batch = <<>>
        /\ notices' = [u \in Tabs |-> IF u = t THEN notices[u] ELSE notices[u] \cup batch]
        /\ overlay' = [overlay EXCEPT ![t] = Retired(t, batch)]
        /\ mine' = [mine EXCEPT ![t] = @ \ batch]
        /\ snapshot' = [snapshot EXCEPT ![t] = round[t].answer]
        /\ round' = [round EXCEPT ![t] = NoRound]
        /\ UNCHANGED <<db, outbox, cache, undo, strays, issued, clock, bounds, past>>

\* Another tab has drained some of ours; the flush it asks for is a Send.
Notice(t) ==
    /\ notices[t] # {}
    /\ overlay' = [overlay EXCEPT ![t] = Retired(t, notices[t] \cap mine[t])]
    /\ mine' = [mine EXCEPT ![t] = @ \ notices[t]]
    /\ notices' = [notices EXCEPT ![t] = {}]
    /\ UNCHANGED <<db, outbox, cache, snapshot, undo, round, strays, issued, clock,
                   bounds, past>>

\* The debounced write of the snapshot to local storage (left out once no
\* reload can follow that would read it).
Persist(t) ==
    /\ cache # snapshot[t]
    /\ faults < MaxFaults
    /\ cache' = snapshot[t]
    /\ UNCHANGED <<db, outbox, tabState, strays, issued, clock, bounds, past>>

\* What a tab has erased without telling the others.
Erasing(t) == IF round[t].at = "erased" THEN ToSet(round[t].batch) ELSE {}

\* The tab starts again with the cached snapshot and what the outbox kept.
Reload(t) ==
    /\ Fault
    /\ snapshot' = [snapshot EXCEPT ![t] = cache]
    /\ overlay' = [overlay EXCEPT ![t] = Nothing]
    /\ mine' = [mine EXCEPT ![t] = {}]
    /\ undo' = [undo EXCEPT ![t] = Nothing]
    /\ notices' = [notices EXCEPT ![t] = {}]
    /\ strays' = Orphaned(t)
    /\ round' = [round EXCEPT ![t] = NoRound]
    /\ hidden' = [hidden EXCEPT ![t] = {}]
    /\ unannounced' = unannounced \cup Erasing(t)
    /\ UNCHANGED <<db, outbox, cache, issued, clock, deletes, remote, clamped>>

\* Another device pushes an edit, made at any time, of what it has seen or
\* minted.
OtherDevice(m) ==
    /\ remote < MaxRemote
    /\ remote' = remote + 1
    /\ IF m.kind = "bookmark.upsert"
       THEN /\ m.folder \in DOMAIN db.folders
            /\ \/ Fresh(m.id)
               \/ m.id \in DOMAIN db.bookmarks /\ db.bookmarks[m.id].verse = m.verse
       ELSE \/ m.id \in DOMAIN db.folders \cup DOMAIN db.bookmarks
            \/ m.kind = "folder.upsert" /\ m.id # DefaultFolder /\ Fresh(m.id)
    /\ Push(<<m>>)
    /\ UNCHANGED <<outbox, cache, tabState, strays, issued, clock, deletes, hidden,
                   unannounced>>

-----------------------------------------------------------------------------
Tap(t) == /\ Stamp \in Clocks
          /\ \/ \E b \in BookmarkIds, f \in FolderIds : Move(t, b, f)
             \/ \E b \in BookmarkIds, f \in FolderIds, v \in Verses : Save(t, b, f, v)
             \/ \E bs \in SUBSET BookmarkIds : Unsave(t, bs)
             \/ \E f \in FolderIds : PutFolder(t, f) \/ RemoveFolder(t, f)
             \/ Undo(t)

Sync(t) == Send(t) \/ Serve(t) \/ Lose(t) \/ Erase(t) \/ Receive(t) \/ Notice(t)

Next == \/ \E t \in Tabs : Tap(t) \/ Sync(t) \/ Persist(t) \/ Reload(t)
        \/ \E t \in Tabs, e \in Entities : EditFails(t, e)
        \/ \E batch \in strays : ServeStray(batch)
        \/ \E m \in Mutations : OtherDevice(m)

Spec == Init /\ [][Next]_vars

\* A tab syncs at least every 30 seconds, a request is answered or fails, and
\* a message to a tab arrives.
Fairness == \A t \in Tabs : /\ WF_vars(Send(t))
                            /\ WF_vars(Serve(t) \/ Lose(t))
                            /\ WF_vars(Erase(t) \/ Receive(t))
                            /\ WF_vars(Notice(t))

FairSpec == Spec /\ Fairness
-----------------------------------------------------------------------------
(* Properties. *)

TabOK(t) ==
    /\ snapshot[t].folders \subseteq FolderIds
    /\ \A b \in DOMAIN snapshot[t].bookmarks :
          snapshot[t].bookmarks[b] \in Bookmark /\ snapshot[t].bookmarks[b].live
    /\ DOMAIN overlay[t] \subseteq Entities
    /\ \A b \in DOMAIN overlay[t] \cap BookmarkIds :
          overlay[t][b] = Gone \/ overlay[t][b] \in Bookmark
    /\ round[t].at \in {"idle", "sent", "answered", "erased"}
    /\ ToSet(round[t].batch) \cup notices[t] \cup mine[t] \subseteq issued
    /\ hidden[t] \subseteq BookmarkIds

\* Type invariant.
TypeOK == /\ issued \subseteq Mutations
          /\ outbox \in Seq(issued)
          /\ \A batch \in strays : ToSet(batch) \subseteq issued
          /\ unannounced \subseteq issued
          /\ DOMAIN db.bookmarks \subseteq BookmarkIds
          /\ DOMAIN db.folders \subseteq FolderIds
          /\ \A t \in Tabs : TabOK(t)

\* The account keeps within its quotas, whatever becomes of the ids used.
Used == IdsOf(issued) \cup DOMAIN db.folders \cup DOMAIN db.bookmarks
InQuota == /\ Cardinality(Used \cap BookmarkIds) <= BookmarkQuota
           /\ Cardinality(Used \cap FolderIds) <= FolderQuota

\* What has left the outbox has been digested: the server would skip each of
\* those mutations now, so a request that arrives late, a second tab that
\* pushed the same batch and a retry after a lost answer undo nothing that
\* was edited since.  As long as no other device has written: a rival of its own,
\* newer and moved away since, lets a mutation in that it had kept out, as does a
\* place that comes free in a full account.  And as long as no stamp was ahead of the
\* server's clock: FastClockDigested.
DrainedIsDigested ==
    remote = 0 /\ InQuota /\ ~clamped =>
        \A m \in issued \ ToSet(outbox), limit \in Clocks : Round(db, <<m>>, limit) = db

\* Does not hold.  "a fast device cannot stamp a write into the future and win every later LWW
\* comparison" (controller.rs): a mutation that was taken down to the server's clock is
\* taken down less when it comes again, and wins against what was edited since.
FastClockDigested ==
    remote = 0 /\ InQuota =>
        \A m \in issued \ ToSet(outbox), limit \in Clocks : Round(db, <<m>>, limit) = db

Queued(t) == IdsOf(ToSet(outbox) \cup notices[t] \cup UNION {Erasing(u) : u \in Tabs})

\* "Account overlays ... until drained" (store.svelte.ts): an overlay stands no
\* longer than a mutation of its entity is queued, on its way out of the queue, or
\* announced to the tab as drained by another.  Excepted are the bookmarks the tab hid
\* with their folder, which have no mutation, and what drained in a tab that died
\* between the removal from the queue and the notice.
OverlaysRetired ==
    \A t \in Tabs : DOMAIN overlay[t] \subseteq Queued(t) \cup hidden[t] \cup IdsOf(unannounced)

\* Does not hold.  "Account overlays ... until drained", of every overlay: with nothing queued
\* and no notice on its way none stands.
NoOverlayWithoutQueue ==
    outbox = <<>> =>
        \A t \in Tabs : notices[t] = {} => DOMAIN overlay[t] = {}

\* Does not hold.  "pending overlays win until their mutation drains" (store.svelte.ts): a tab
\* shows its own edit of an entity as long as the mutation is queued.
PendingEditShown ==
    \A t \in Tabs : IdsOf(mine[t] \cap ToSet(outbox)) \subseteq DOMAIN overlay[t]

\* When the taps end, and however many losses, reloads and failed writes there were,
\* every tab comes to hold what the server holds with nothing left to push, and shows it:
\* no edit is stuck, no snapshot keeps what other tabs and devices have changed, and no
\* overlay hides it but the two kinds OverlaysRetired excepts.
ViewConverges ==
    <>[](/\ outbox = <<>>
         /\ \A t \in Tabs :
               /\ snapshot[t] = Snapshot(db)
               /\ DOMAIN overlay[t] \subseteq hidden[t] \cup IdsOf(unannounced)
               /\ DOMAIN overlay[t] = {} =>
                     View(t) = {<<db.bookmarks[b].folder, db.bookmarks[b].verse>> :
                                   b \in LiveBookmarks(db)})
=============================================================================
