------------------------ MODULE BookmarkTablesProofs ------------------------
(***************************************************************************)
(* What holds of the bookmark tables for every number of ids, folders and  *)
(* verses, every quota, skew and batch size.                               *)
(*                                                                         *)
(* The argument is by table operation.  Sound(t) is what the committed     *)
(* tables satisfy; inside a round the default folder is live as well, and  *)
(* that is what the operations need: a bookmark whose folder is dead is    *)
(* filed there, and a deleted folder's newer bookmarks move there.  Each   *)
(* operation takes Ready(t) to Ready(t); the rounds do the rest.           *)
(*                                                                         *)
(* Five promises of the rounds follow: the bookmark quota holds, no row is *)
(* stamped beyond the skew, a mutation never takes a newer bookmark off    *)
(* its verse, it writes within its id, verse and folder, and it takes no   *)
(* stamp back outside the cascade.  Each rests on a lemma about what a     *)
(* mutation does, and on TablesInv.                                        *)
(***************************************************************************)
EXTENDS BookmarkTables, FiniteSetTheorems, TLAPS

Sound(t) == Tables(t) /\ KeyUnique(t) /\ Homed(t)

Ready(t) == Sound(t) /\ DefaultFolder \in LiveFolders(t)

\* The inductive invariant: what the round has opened with, and what it keeps.
TablesInv == /\ TypeOK
             /\ Sound(db)
             /\ Sound(tx)
             /\ open => Ready(tx)

-----------------------------------------------------------------------------
(* The operations. *)

\* ensure_default leaves every row's meaning alone and makes the default live.
LEMMA EnsureDefaultReady ==
    ASSUME NEW t, Sound(t)
    PROVE  Ready(EnsureDefault(t))
<1> DEFINE u == EnsureDefault(t)
<1>1. u.bookmarks = t.bookmarks /\ u = [folders |-> u.folders, bookmarks |-> u.bookmarks]
  BY DEF EnsureDefault, Sound, Tables
<1>2. /\ DOMAIN u.folders \subseteq FolderIds
      /\ u.folders \in [DOMAIN u.folders -> Folder]
  BY DefaultAssumption DEF EnsureDefault, Sound, Tables, Put, Folder
<1>3. /\ DefaultFolder \in LiveFolders(u)
      /\ LiveFolders(t) \subseteq LiveFolders(u)
  BY DEF EnsureDefault, Sound, Tables, Put, LiveFolders
<1>4. LiveBookmarks(u) = LiveBookmarks(t)
  BY <1>1 DEF LiveBookmarks
<1>5. Tables(u) /\ KeyUnique(u) /\ Homed(u)
  BY <1>1, <1>2, <1>3, <1>4 DEF Sound, Tables, KeyUnique, Homed
<1> QED
  BY <1>3, <1>5 DEF Ready, Sound

\* An upsert of a folder revives or mints it and disturbs no bookmark.
LEMMA UpsertFolderReady ==
    ASSUME NEW t, Ready(t), NEW f \in FolderIds, NEW ts \in Nat
    PROVE  Ready(UpsertFolder(t, f, ts))
<1> DEFINE u == [t EXCEPT !.folders = Put(@, f, [at |-> ts, live |-> TRUE])]
<1>1. u.bookmarks = t.bookmarks /\ u = [folders |-> u.folders, bookmarks |-> u.bookmarks]
  BY DEF Ready, Sound, Tables
<1>2. /\ DOMAIN u.folders \subseteq FolderIds
      /\ u.folders \in [DOMAIN u.folders -> Folder]
  BY DEF Ready, Sound, Tables, Put, Folder
<1>3. LiveFolders(t) \subseteq LiveFolders(u)
  BY DEF Ready, Sound, Tables, Put, LiveFolders
<1>4. LiveBookmarks(u) = LiveBookmarks(t)
  BY <1>1 DEF LiveBookmarks
<1>5. Ready(u)
  BY <1>1, <1>2, <1>3, <1>4 DEF Ready, Sound, Tables, KeyUnique, Homed
<1> QED
  BY <1>5 DEF UpsertFolder

\* Deleting a folder empties it: what is newer moves to a free place in the
\* default folder, the rest is tombstoned, and no two movers share a verse
\* because they shared the folder they leave.
LEMMA DeleteFolderReady ==
    ASSUME NEW t, Ready(t), NEW f \in FolderIds, NEW ts \in Nat
    PROVE  Ready(DeleteFolder(t, f, ts))
<1> DEFINE u == DeleteFolder(t, f, ts)
<1>1. CASE f = DefaultFolder \/ f \notin DOMAIN t.folders \/ t.folders[f].at > ts
  BY <1>1 DEF DeleteFolder
<1>2. CASE ~(f = DefaultFolder \/ f \notin DOMAIN t.folders \/ t.folders[f].at > ts)
  <2> DEFINE row(b) == IF b \in Rehomed(t, f, ts)
                       THEN [t.bookmarks[b] EXCEPT !.folder = DefaultFolder]
                       ELSE IF b \in LiveIn(t, f)
                       THEN Tombstone(t.bookmarks[b], ts)
                       ELSE t.bookmarks[b]
             fs == [t.folders EXCEPT ![f] = Tombstone(@, ts)]
             bs == [b \in DOMAIN t.bookmarks |-> row(b)]
  <2>1. u = [folders |-> fs, bookmarks |-> bs]
    BY <1>2 DEF DeleteFolder
  <2>2. DOMAIN fs = DOMAIN t.folders /\ DOMAIN bs = DOMAIN t.bookmarks
    OBVIOUS
  <2>3. fs \in [DOMAIN fs -> Folder]
    BY <1>2 DEF Ready, Sound, Tables, Folder, Tombstone
  <2>4. \A b \in DOMAIN t.bookmarks : row(b) \in Bookmark
    BY DefaultAssumption DEF Ready, Sound, Tables, Bookmark, Tombstone
  <2>5. Tables(u)
    BY <2>1, <2>2, <2>3, <2>4 DEF Tables, Ready, Sound
  <2>6. LiveFolders(u) = LiveFolders(t) \ {f}
    <3>1. t.folders[f] \in Folder
      BY <1>2 DEF Ready, Sound, Tables
    <3>2. fs[f].live = FALSE
      BY <1>2, <3>1 DEF Tombstone, Folder
    <3>3. \A g \in DOMAIN t.folders \ {f} : fs[g] = t.folders[g]
      OBVIOUS
    <3> HIDE DEF fs
    <3> QED
      BY <2>1, <2>2, <3>2, <3>3 DEF LiveFolders
  <2>7. \A b \in LiveBookmarks(u) :
           /\ b \in LiveBookmarks(t)
           /\ u.bookmarks[b].verse = t.bookmarks[b].verse
           /\ \/ /\ b \in Rehomed(t, f, ts)
                 /\ u.bookmarks[b].folder = DefaultFolder
              \/ /\ b \notin LiveIn(t, f)
                 /\ u.bookmarks[b].folder = t.bookmarks[b].folder
    <3> SUFFICES ASSUME NEW b \in LiveBookmarks(u)
                 PROVE  /\ b \in LiveBookmarks(t)
                        /\ row(b).verse = t.bookmarks[b].verse
                        /\ \/ /\ b \in Rehomed(t, f, ts)
                              /\ row(b).folder = DefaultFolder
                           \/ /\ b \notin LiveIn(t, f)
                              /\ row(b).folder = t.bookmarks[b].folder
      <4>1. \A b \in LiveBookmarks(u) : u.bookmarks[b] = row(b)
        BY <2>1, <2>2 DEF LiveBookmarks
      <4> HIDE DEF row, u
      <4> QED
        BY <4>1
    <3>1. b \in DOMAIN t.bookmarks /\ row(b).live
      BY <2>1, <2>2 DEF LiveBookmarks
    <3>2. t.bookmarks[b] \in Bookmark
      BY <3>1 DEF Ready, Sound, Tables
    <3>3. CASE b \in Rehomed(t, f, ts)
      BY <3>2, <3>3 DEF Rehomed, LiveIn, Bookmark
    <3>4. CASE b \notin Rehomed(t, f, ts)
      <4>1. b \notin LiveIn(t, f)
        BY <3>1, <3>2, <3>4 DEF Tombstone, Bookmark
      <4> QED
        BY <3>1, <3>4, <4>1 DEF LiveBookmarks
    <3> QED
      BY <3>3, <3>4
  <2>8. Homed(u)
    BY <2>6, <2>7, <1>2 DEF Homed, LiveIn, Ready, Sound
  <2>9. KeyUnique(u)
    BY <2>7 DEF KeyUnique, Rehomed, LiveIn, Ready, Sound
  <2> QED
    BY <2>5, <2>6, <2>8, <2>9, <1>2 DEF Ready, Sound
<1> QED
  BY <1>1, <1>2

\* An upsert of a bookmark puts it in a live folder and tombstones whatever
\* live row held its key.
LEMMA UpsertBookmarkReady ==
    ASSUME NEW t, Ready(t), NEW b \in BookmarkIds, NEW f \in LiveFolders(t),
           NEW v \in Verses, NEW ts \in Nat
    PROVE  Ready(UpsertBookmark(t, b, f, v, ts))
<1> DEFINE beaten == Rivals(t, b, f, v) \cap LiveBookmarks(t)
           yielded == [i \in DOMAIN t.bookmarks |->
                         IF i \in beaten THEN Tombstone(t.bookmarks[i], ts)
                                         ELSE t.bookmarks[i]]
           new == [folder |-> f, verse |-> v, at |-> ts, live |-> TRUE]
           bs  == Put(yielded, b, new)
           u   == [t EXCEPT !.bookmarks = bs]
<1>1. u = [folders |-> t.folders, bookmarks |-> bs]
  BY DEF Ready, Sound, Tables
<1>2. DOMAIN bs = DOMAIN t.bookmarks \cup {b}
  BY DEF Put
<1>3. bs[b] = new /\ \A i \in DOMAIN t.bookmarks \ {b} :
         bs[i] = IF i \in beaten THEN Tombstone(t.bookmarks[i], ts) ELSE t.bookmarks[i]
  BY DEF Put
<1>4. new \in Bookmark /\ \A i \in DOMAIN t.bookmarks : Tombstone(t.bookmarks[i], ts) \in Bookmark
  BY DEF Bookmark, Tombstone, Ready, Sound, Tables, LiveFolders
<1>5. \A i \in DOMAIN bs : bs[i] \in Bookmark
  BY <1>2, <1>3, <1>4 DEF Ready, Sound, Tables
<1>6. bs \in [DOMAIN bs -> Bookmark]
  BY <1>5 DEF Put
<1>7. Tables(u)
  BY <1>1, <1>2, <1>6 DEF Ready, Sound, Tables
<1>8. LiveFolders(u) = LiveFolders(t)
  BY <1>1 DEF LiveFolders
<1>9. \A i \in LiveBookmarks(u) : i # b =>
         /\ i \in LiveBookmarks(t)
         /\ i \notin Rivals(t, b, f, v)
         /\ u.bookmarks[i] = t.bookmarks[i]
  BY ZenonT(60), <1>1, <1>2, <1>3 DEF LiveBookmarks, Tombstone, Ready, Sound, Tables, Bookmark
<1>10. u.bookmarks[b].folder = f /\ u.bookmarks[b].verse = v
  BY <1>1, <1>3
<1> HIDE DEF u, bs, new, yielded, beaten
<1>11. Homed(u)
  BY <1>8, <1>9, <1>10 DEF Homed, Ready, Sound
<1>12. KeyUnique(u)
  BY <1>9, <1>10 DEF KeyUnique, Rivals, LiveBookmarks, Ready, Sound
<1>13. Ready(u)
  BY <1>7, <1>8, <1>11, <1>12 DEF Ready, Sound
<1> QED
  BY <1>13 DEF UpsertBookmark, u, bs, new, yielded, beaten

\* Deleting a bookmark only takes a live row away.
LEMMA DeleteBookmarkReady ==
    ASSUME NEW t, Ready(t), NEW b \in BookmarkIds, NEW ts \in Nat
    PROVE  Ready(DeleteBookmark(t, b, ts))
<1> DEFINE u == [t EXCEPT !.bookmarks[b] = Tombstone(@, ts)]
<1> SUFFICES ASSUME b \in DOMAIN t.bookmarks
             PROVE  Ready(u)
  BY DEF DeleteBookmark
<1>1. u = [folders |-> t.folders,
           bookmarks |-> [t.bookmarks EXCEPT ![b] = Tombstone(@, ts)]]
  BY DEF Ready, Sound, Tables
<1>2. Tables(u)
  <2>1. Tombstone(t.bookmarks[b], ts) \in Bookmark
    BY DEF Ready, Sound, Tables, Tombstone, Bookmark
  <2> QED
    BY <1>1, <2>1 DEF Ready, Sound, Tables
<1>3. LiveFolders(u) = LiveFolders(t)
  BY <1>1 DEF LiveFolders
<1>4. \A i \in LiveBookmarks(u) :
         i \in LiveBookmarks(t) /\ u.bookmarks[i] = t.bookmarks[i]
  BY <1>1 DEF LiveBookmarks, Tombstone, Ready, Sound, Tables, Bookmark
<1>5. KeyUnique(u) /\ Homed(u)
  BY <1>3, <1>4 DEF KeyUnique, Homed, Ready, Sound
<1> QED
  BY <1>2, <1>3, <1>5 DEF Ready, Sound

\* Every mutation a request can carry keeps the tables ready.
LEMMA ApplyMutationReady ==
    ASSUME NEW t, Ready(t), NEW m \in Mutations, NEW ts \in Nat
    PROVE  Ready(ApplyMutation(t, m, ts))
<1>1. CASE m.kind = "folder.upsert"
  <2>1. m.id \in FolderIds
    BY <1>1 DEF Mutations
  <2> QED
    BY <1>1, <2>1, UpsertFolderReady DEF ApplyMutation
<1>2. CASE m.kind = "folder.delete"
  <2>1. m.id \in FolderIds
    BY <1>2 DEF Mutations
  <2> QED
    BY <1>2, <2>1, DeleteFolderReady DEF ApplyMutation
<1>3. CASE m.kind = "bookmark.upsert"
  <2>1. m.id \in BookmarkIds /\ m.verse \in Verses
    BY <1>3 DEF Mutations
  <2>2. ResolveFolder(t, m.folder) \in LiveFolders(t)
    BY DEF ResolveFolder, Ready
  <2> QED
    BY <1>3, <2>1, <2>2, UpsertBookmarkReady DEF ApplyMutation
<1>4. CASE m.kind = "bookmark.delete"
  <2>1. m.id \in BookmarkIds
    BY <1>4 DEF Mutations
  <2> QED
    BY <1>4, <2>1, DeleteBookmarkReady DEF ApplyMutation
<1> QED
  BY <1>1, <1>2, <1>3, <1>4 DEF Mutations

\* The instant a mutation is applied at is a stamp.
LEMMA ClampNat ==
    ASSUME TypeOK, NEW m \in Mutations
    PROVE  Clamp(m.ts) \in Nat
<1>1. m.ts \in Nat
  BY StampAssumption DEF Mutations
<1>2. now + Skew \in Nat
  BY ClockAssumption DEF TypeOK
<1> QED
  BY <1>1, <1>2 DEF Clamp

-----------------------------------------------------------------------------
(* The rounds. *)

LEMMA InitTablesInv == Init => TablesInv
<1> SUFFICES ASSUME Init PROVE TablesInv
  OBVIOUS
<1>1. Tables(db)
  BY DEF Init, Tables, NoTables, NoRows, Folder, Bookmark
<1>2. LiveBookmarks(db) = {}
  BY DEF Init, LiveBookmarks, NoTables, NoRows
<1>3. Sound(db)
  BY <1>1, <1>2 DEF Sound, KeyUnique, Homed
<1>4. Sound(tx)
  BY <1>3 DEF Init
<1>5. done \in 0..MaxBatch /\ now \in 0..MaxNow
  BY ClockAssumption, BatchAssumption DEF Init
<1>6. open \in BOOLEAN
  BY DEF Init
<1>7. TypeOK
  BY <1>3, <1>4, <1>5, <1>6 DEF TypeOK, Sound
<1> QED
  BY <1>3, <1>4, <1>7 DEF Init, TablesInv

LEMMA NextTablesInv == TablesInv /\ [Next]_vars => TablesInv'
<1> SUFFICES ASSUME TablesInv, [Next]_vars PROVE TablesInv'
  OBVIOUS
<1> USE DEF TablesInv
<1>1. CASE Begin
  <2>1. Ready(tx')
    BY <1>1, EnsureDefaultReady DEF Begin
  <2>2. Sound(db') /\ Sound(tx') /\ Tables(db') /\ Tables(tx')
    BY <1>1, <2>1 DEF Begin, Ready, Sound
  <2> QED
    BY <1>1, <2>1, <2>2, BatchAssumption DEF Begin, TypeOK, Sound, Ready, Tables, KeyUnique, Homed
<1>2. ASSUME NEW m \in Mutations, Apply(m) PROVE TablesInv'
  <2>1. Ready(tx')
    BY <1>2, ApplyMutationReady, ClampNat DEF Apply
  <2>2. done' \in 0..MaxBatch
    BY <1>2, BatchAssumption DEF Apply, TypeOK
  <2> QED
    BY <1>2, <2>1, <2>2 DEF Apply, TypeOK, Ready, Sound
<1>3. CASE Commit
  <2>1. Sound(db') /\ Sound(tx')
    BY <1>3 DEF Commit
  <2>2. done' \in 0..MaxBatch /\ now' \in 0..MaxNow
    BY <1>3, BatchAssumption DEF Commit, TypeOK
  <2>3. ~open' /\ open' \in BOOLEAN
    BY <1>3 DEF Commit
  <2> QED
    BY <2>1, <2>2, <2>3 DEF TypeOK, Sound
<1>4. CASE Rollback
  <2>1. Sound(db') /\ Sound(tx')
    BY <1>4 DEF Rollback
  <2>2. done' \in 0..MaxBatch /\ now' \in 0..MaxNow
    BY <1>4, BatchAssumption DEF Rollback, TypeOK
  <2>3. ~open' /\ open' \in BOOLEAN
    BY <1>4 DEF Rollback
  <2> QED
    BY <2>1, <2>2, <2>3 DEF TypeOK, Sound
<1>5. CASE Tick
  <2>1. now' \in 0..MaxNow
    BY <1>5, ClockAssumption DEF Tick, TypeOK
  <2> QED
    BY <1>5, <2>1 DEF Tick, TypeOK, Ready, Sound
<1>6. CASE UNCHANGED vars
  BY <1>6 DEF vars, TypeOK, Ready, Sound
<1> QED
  BY <1>1, <1>2, <1>3, <1>4, <1>5, <1>6 DEF Next

\* In every state the tables are well-formed, keys are unique and bookmarks homed, and a
\* round works on a live default folder: what ensure_default and the statements keep.
THEOREM TablesInvariant == Spec => []TablesInv
<1>1. Init => TablesInv
  BY InitTablesInv
<1>2. TablesInv /\ [Next]_vars => TablesInv'
  BY NextTablesInv
<1> QED
  BY <1>1, <1>2, PTL DEF Spec

\* The rows of both tables stay well formed and of this account, for every
\* sequence of rounds.
THEOREM TypeCorrect == Spec => []TypeOK
<1>1. TablesInv => TypeOK
  BY DEF TablesInv
<1> QED
  BY <1>1, TablesInvariant, PTL

\* The unique index on the live key is never met: no round can fail on it.
THEOREM LiveKeysUnique == Spec => []LiveKeyUnique
<1>1. TablesInv => LiveKeyUnique
  BY DEF TablesInv, LiveKeyUnique, Sound
<1> QED
  BY <1>1, TablesInvariant, PTL

\* A live bookmark lies in a live folder after every statement of every round.
THEOREM LiveBookmarksHomed == Spec => []LiveBookmarkHasLiveFolder
<1>1. TablesInv => LiveBookmarkHasLiveFolder
  BY DEF TablesInv, LiveBookmarkHasLiveFolder, Sound
<1> QED
  BY <1>1, TablesInvariant, PTL

-----------------------------------------------------------------------------
(* The live bookmarks. *)

\* Only an upsert of a bookmark adds a live row, and only its own.
LEMMA LiveAfterMutation ==
    ASSUME NEW t, Ready(t), NEW m \in Mutations, NEW ts \in Nat
    PROVE  LET u == ApplyMutation(t, m, ts)
           IN  \/ LiveBookmarks(u) \subseteq LiveBookmarks(t)
               \/ /\ m.kind = "bookmark.upsert"
                  /\ ~BookmarkRefused(t, m.id)
                  /\ LiveBookmarks(u) \subseteq LiveBookmarks(t) \cup {m.id}
<1> DEFINE u == ApplyMutation(t, m, ts)
<1> USE DEF LiveBookmarks
<1>1. CASE m.kind = "folder.upsert"
  BY <1>1 DEF ApplyMutation, UpsertFolder, Ready, Sound, Tables
<1>2. CASE m.kind = "folder.delete"
  <2>1. u = DeleteFolder(t, m.id, ts)
    BY <1>2 DEF ApplyMutation
  <2>2. \A b \in DOMAIN t.bookmarks :
           /\ [t.bookmarks[b] EXCEPT !.folder = DefaultFolder].live => t.bookmarks[b].live
           /\ ~Tombstone(t.bookmarks[b], ts).live
    BY DEF Ready, Sound, Tables, Bookmark, Tombstone
  <2> QED
    BY <2>1, <2>2 DEF DeleteFolder
<1>3. CASE m.kind = "bookmark.upsert"
  <2> DEFINE f == ResolveFolder(t, m.folder)
             beaten == Rivals(t, m.id, f, m.verse) \cap LiveBookmarks(t)
  <2>1. u = UpsertBookmark(t, m.id, f, m.verse, ts)
    BY <1>3 DEF ApplyMutation
  <2>2. CASE u = t
    BY <2>2
  <2>3. CASE u # t
    <3>1. ~BookmarkRefused(t, m.id)
      BY <2>1, <2>3 DEF UpsertBookmark
    <3> DEFINE yielded == [i \in DOMAIN t.bookmarks |->
                             IF i \in beaten THEN Tombstone(t.bookmarks[i], ts)
                                             ELSE t.bookmarks[i]]
               new == [folder |-> f, verse |-> m.verse, at |-> ts, live |-> TRUE]
    <3>2. u = [t EXCEPT !.bookmarks = Put(yielded, m.id, new)]
      BY <2>1, <2>3 DEF UpsertBookmark
    <3>3. u.bookmarks = Put(yielded, m.id, new)
      BY <3>2 DEF Ready, Sound, Tables
    <3>4. \A i \in DOMAIN t.bookmarks : ~Tombstone(t.bookmarks[i], ts).live
      BY DEF Ready, Sound, Tables, Bookmark, Tombstone
    <3>5. \A i \in LiveBookmarks(u) : i # m.id => i \in LiveBookmarks(t)
      BY <3>3, <3>4 DEF Put
    <3> QED
      BY <3>1, <3>5, <1>3
  <2> QED
    BY <2>2, <2>3
<1>4. CASE m.kind = "bookmark.delete"
  <2>1. u = DeleteBookmark(t, m.id, ts)
    BY <1>4 DEF ApplyMutation
  <2>2. m.id \in DOMAIN t.bookmarks => ~Tombstone(t.bookmarks[m.id], ts).live
    BY DEF Ready, Sound, Tables, Bookmark, Tombstone
  <2> QED
    BY <2>1, <2>2 DEF DeleteBookmark, Ready, Sound, Tables
<1> QED
  BY <1>1, <1>2, <1>3, <1>4 DEF Mutations

-----------------------------------------------------------------------------
(* The quota. *)

Capped(t) == IsFiniteSet(LiveBookmarks(t)) /\ WithinQuota(t)

LEMMA CappedSubset ==
    ASSUME NEW t, NEW u, Capped(t), LiveBookmarks(u) \subseteq LiveBookmarks(t)
    PROVE  Capped(u)
<1>1. /\ IsFiniteSet(LiveBookmarks(u))
      /\ Cardinality(LiveBookmarks(u)) <= Cardinality(LiveBookmarks(t))
  BY FS_Subset DEF Capped
<1>2. Cardinality(LiveBookmarks(u)) \in Nat /\ Cardinality(LiveBookmarks(t)) \in Nat
  BY <1>1, FS_CardinalityType DEF Capped
<1> QED
  BY <1>1, <1>2, QuotaAssumption DEF Capped, WithinQuota

LEMMA CappedMutation ==
    ASSUME NEW t, Ready(t), Capped(t), NEW m \in Mutations, NEW ts \in Nat
    PROVE  Capped(ApplyMutation(t, m, ts))
<1> DEFINE u == ApplyMutation(t, m, ts)
           grown == LiveBookmarks(t) \cup {m.id}
<1>1. CASE LiveBookmarks(u) \subseteq LiveBookmarks(t)
  BY <1>1, CappedSubset
<1>2. CASE m.id \in LiveBookmarks(t) /\ LiveBookmarks(u) \subseteq grown
  BY <1>2, CappedSubset
<1>3. CASE /\ m.id \notin LiveBookmarks(t)
           /\ ~BookmarkRefused(t, m.id)
           /\ LiveBookmarks(u) \subseteq grown
  <2>1. /\ Cardinality(LiveBookmarks(t)) \in Nat
        /\ Cardinality(LiveBookmarks(t)) < BookmarkQuota
    BY <1>3, FS_CardinalityType, QuotaAssumption DEF BookmarkRefused, Capped
  <2>2. /\ IsFiniteSet(grown)
        /\ Cardinality(grown) = Cardinality(LiveBookmarks(t)) + 1
    BY <1>3, FS_AddElement DEF Capped
  <2>3. /\ IsFiniteSet(LiveBookmarks(u))
        /\ Cardinality(LiveBookmarks(u)) <= Cardinality(grown)
    BY <1>3, <2>2, FS_Subset
  <2>4. Cardinality(LiveBookmarks(u)) \in Nat
    BY <2>3, FS_CardinalityType
  <2> QED
    BY <2>1, <2>2, <2>3, <2>4, QuotaAssumption DEF Capped, WithinQuota
<1> QED
  BY <1>1, <1>2, <1>3, LiveAfterMutation

\* The live bookmarks never exceed the quota.
THEOREM BookmarkQuotaKept == Spec => []BookmarkQuotaHolds
<1> DEFINE CapInv == Capped(db) /\ Capped(tx)
<1>1. Init => CapInv
  <2> SUFFICES ASSUME Init PROVE CapInv
    OBVIOUS
  <2>1. LiveBookmarks(db) = {}
    BY DEF Init, NoTables, NoRows, LiveBookmarks
  <2>2. Capped(db)
    BY <2>1, FS_EmptySet, QuotaAssumption DEF Capped, WithinQuota
  <2> QED
    BY <2>2 DEF Init
<1>2. TablesInv /\ CapInv /\ [Next]_vars => CapInv'
  <2> SUFFICES ASSUME TablesInv, CapInv, [Next]_vars PROVE CapInv'
    OBVIOUS
  <2>1. CASE Begin
    <3>1. LiveBookmarks(tx') = LiveBookmarks(db)
      BY <2>1 DEF Begin, EnsureDefault, LiveBookmarks, TablesInv, Sound, Tables
    <3>2. Capped(tx')
      BY <3>1, CappedSubset
    <3> QED
      BY <2>1, <3>2 DEF Begin
  <2>2. ASSUME NEW m \in Mutations, Apply(m) PROVE CapInv'
    <3>1. Capped(tx')
      BY <2>2, CappedMutation, ClampNat DEF Apply, TablesInv
    <3> QED
      BY <2>2, <3>1 DEF Apply
  <2>3. CASE Commit \/ Rollback \/ Tick \/ UNCHANGED vars
    BY <2>3 DEF Commit, Rollback, Tick, vars
  <2> QED
    BY <2>1, <2>2, <2>3 DEF Next
<1>3. CapInv => BookmarkQuotaHolds
  BY DEF Capped, BookmarkQuotaHolds
<1> QED
  BY <1>1, <1>2, <1>3, TablesInvariant, PTL DEF Spec

-----------------------------------------------------------------------------
(* Stamps. *)

Stamped(t, n) == /\ \A f \in DOMAIN t.folders   : t.folders[f].at <= n
                 /\ \A b \in DOMAIN t.bookmarks : t.bookmarks[b].at <= n

\* A mutation stamps rows with its own instant or leaves their stamps alone.
LEMMA StampedMutation ==
    ASSUME NEW t, Ready(t), NEW n \in Nat, Stamped(t, n),
           NEW m \in Mutations, NEW ts \in Nat, ts <= n
    PROVE  Stamped(ApplyMutation(t, m, ts), n)
<1> DEFINE u == ApplyMutation(t, m, ts)
<1>1. /\ \A f \in DOMAIN t.folders : t.folders[f] \in Folder
      /\ \A b \in DOMAIN t.bookmarks : t.bookmarks[b] \in Bookmark
  BY DEF Ready, Sound, Tables
<1>2. /\ \A f \in DOMAIN t.folders : Tombstone(t.folders[f], ts).at = ts
      /\ \A b \in DOMAIN t.bookmarks : Tombstone(t.bookmarks[b], ts).at = ts
  BY <1>1 DEF Tombstone, Folder, Bookmark
<1>3. CASE m.kind = "folder.upsert"
  BY <1>3 DEF ApplyMutation, UpsertFolder, Put, Stamped, Ready, Sound, Tables
<1>4. CASE m.kind = "folder.delete"
  <2>1. u = DeleteFolder(t, m.id, ts)
    BY <1>4 DEF ApplyMutation
  <2>2. \A b \in DOMAIN t.bookmarks :
           [t.bookmarks[b] EXCEPT !.folder = DefaultFolder].at = t.bookmarks[b].at
    BY <1>1 DEF Bookmark
  <2> QED
    BY <2>1, <2>2, <1>2 DEF DeleteFolder, Stamped, Ready, Sound, Tables
<1>5. CASE m.kind = "bookmark.upsert"
  <2>1. u = UpsertBookmark(t, m.id, ResolveFolder(t, m.folder), m.verse, ts)
    BY <1>5 DEF ApplyMutation
  <2> QED
    BY <2>1, <1>2 DEF UpsertBookmark, Put, Stamped, Ready, Sound, Tables
<1>6. CASE m.kind = "bookmark.delete"
  <2>1. u = DeleteBookmark(t, m.id, ts)
    BY <1>6 DEF ApplyMutation
  <2> QED
    BY <2>1, <1>2 DEF DeleteBookmark, Stamped, Ready, Sound, Tables
<1> QED
  BY <1>3, <1>4, <1>5, <1>6 DEF Mutations

\* No row is ever stamped beyond the server's clock and the skew, whatever the
\* devices' clocks say.
THEOREM StampsBounded == Spec => []NoStampFromTheFuture
<1> DEFINE StampInv == Stamped(db, now + Skew) /\ Stamped(tx, now + Skew)
<1>1. Init => StampInv
  BY DEF Init, NoTables, NoRows, Stamped
<1>2. TablesInv /\ StampInv /\ [Next]_vars => StampInv'
  <2> SUFFICES ASSUME TablesInv, StampInv, [Next]_vars PROVE StampInv'
    OBVIOUS
  <2>0. now + Skew \in Nat
    BY ClockAssumption DEF TablesInv, TypeOK
  <2>1. CASE Begin
    <3>1. Stamped(EnsureDefault(db), now + Skew)
      BY <2>0 DEF EnsureDefault, Put, Stamped, TablesInv, Sound, Tables
    <3> QED
      BY <2>1, <3>1 DEF Begin
  <2>2. ASSUME NEW m \in Mutations, Apply(m) PROVE StampInv'
    <3>1. Clamp(m.ts) \in Nat /\ m.ts \in Nat
      BY ClampNat, StampAssumption DEF TablesInv, Mutations
    <3>2. Clamp(m.ts) <= now + Skew
      BY <2>0, <3>1 DEF Clamp
    <3>3. Stamped(tx', now + Skew)
      BY <2>0, <2>2, <3>1, <3>2, StampedMutation DEF Apply, TablesInv
    <3> QED
      BY <2>2, <3>3 DEF Apply
  <2>3. CASE Tick
    <3>1. ASSUME NEW t, Stamped(t, now + Skew), Tables(t)
          PROVE  Stamped(t, now + 1 + Skew)
      <4>1. /\ \A f \in DOMAIN t.folders : t.folders[f].at \in Nat
            /\ \A b \in DOMAIN t.bookmarks : t.bookmarks[b].at \in Nat
        BY <3>1 DEF Tables, Folder, Bookmark
      <4>2. now \in Nat /\ Skew \in Nat
        BY ClockAssumption DEF TablesInv, TypeOK
      <4> QED
        BY <3>1, <4>1, <4>2 DEF Stamped
    <3> QED
      BY <2>3, <3>1 DEF Tick, TablesInv, Sound
  <2>4. CASE Commit \/ Rollback \/ UNCHANGED vars
    BY <2>4 DEF Commit, Rollback, vars
  <2> QED
    BY <2>1, <2>2, <2>3, <2>4 DEF Next
<1>3. StampInv => NoStampFromTheFuture
  BY DEF Stamped, NoStampFromTheFuture
<1> QED
  BY <1>1, <1>2, <1>3, TablesInvariant, PTL DEF Spec

-----------------------------------------------------------------------------
(* Last writer wins. *)

\* Whatever is bookmarked later than the mutation's instant stays bookmarked:
\* a newer row of the id or of the key refuses the upsert, and a newer row of
\* a deleted folder moves to the default folder unless its verse is there.
LEMMA NewerSurvivesMutation ==
    ASSUME NEW t, Ready(t), NEW m \in Mutations, NEW ts \in Nat,
           NEW b \in LiveBookmarks(t), t.bookmarks[b].at > ts
    PROVE  Bookmarked(ApplyMutation(t, m, ts), t.bookmarks[b].verse)
<1> DEFINE u == ApplyMutation(t, m, ts)
<1>1. /\ b \in DOMAIN t.bookmarks
      /\ t.bookmarks[b] \in Bookmark
      /\ t.bookmarks[b].live
      /\ t.bookmarks[b].at \in Nat
  BY DEF LiveBookmarks, Ready, Sound, Tables, Bookmark
<1>2. SUFFICES ASSUME u # t
               PROVE  Bookmarked(u, t.bookmarks[b].verse)
  BY DEF Bookmarked
<1>3. CASE m.kind = "folder.upsert"
  <2>1. u.bookmarks = t.bookmarks
    BY <1>3 DEF ApplyMutation, UpsertFolder, Ready, Sound, Tables
  <2> QED
    BY <2>1 DEF Bookmarked, LiveBookmarks
<1>4. CASE m.kind = "folder.delete"
  <2> DEFINE f == m.id
  <2>1. u = DeleteFolder(t, f, ts) /\ f # DefaultFolder
    BY <1>2, <1>4 DEF ApplyMutation, DeleteFolder
  <2>2. \A c \in DOMAIN t.bookmarks :
           /\ c \in DOMAIN u.bookmarks
           /\ c \notin LiveIn(t, f) => u.bookmarks[c] = t.bookmarks[c]
           /\ c \in Rehomed(t, f, ts) =>
                 u.bookmarks[c] = [t.bookmarks[c] EXCEPT !.folder = DefaultFolder]
    BY <1>2, <2>1 DEF DeleteFolder, Rehomed
  <2>3. CASE b \notin LiveIn(t, f)
    BY <1>1, <2>2, <2>3 DEF Bookmarked, LiveBookmarks
  <2>4. CASE b \in Rehomed(t, f, ts)
    BY <1>1, <2>2, <2>4 DEF Bookmarked, LiveBookmarks, Bookmark
  <2>5. CASE b \in LiveIn(t, f) /\ b \notin Rehomed(t, f, ts)
    <3>1. PICK d \in LiveIn(t, DefaultFolder) :
             t.bookmarks[d].verse = t.bookmarks[b].verse
      BY <2>5 DEF Rehomed
    <3>2. d \in DOMAIN t.bookmarks /\ t.bookmarks[d].live /\ d \notin LiveIn(t, f)
      BY <2>1, <3>1 DEF LiveIn, LiveBookmarks
    <3> QED
      BY <2>2, <3>1, <3>2 DEF Bookmarked, LiveBookmarks
  <2> QED
    BY <2>3, <2>4, <2>5
<1>5. CASE m.kind = "bookmark.upsert"
  <2> DEFINE f == ResolveFolder(t, m.folder)
             beaten == Rivals(t, m.id, f, m.verse) \cap LiveBookmarks(t)
             yielded == [i \in DOMAIN t.bookmarks |->
                           IF i \in beaten THEN Tombstone(t.bookmarks[i], ts)
                                           ELSE t.bookmarks[i]]
             new == [folder |-> f, verse |-> m.verse, at |-> ts, live |-> TRUE]
  <2>1. u = UpsertBookmark(t, m.id, f, m.verse, ts)
    BY <1>5 DEF ApplyMutation
  <2>2. /\ ~(m.id \in DOMAIN t.bookmarks /\ t.bookmarks[m.id].at >= ts)
        /\ ~\E r \in Rivals(t, m.id, f, m.verse) : t.bookmarks[r].at > ts
        /\ u = [t EXCEPT !.bookmarks = Put(yielded, m.id, new)]
    BY <1>2, <2>1 DEF UpsertBookmark
  <2>3. b # m.id /\ b \notin beaten
    BY <1>1, <2>2
  <2>4. b \in DOMAIN u.bookmarks /\ u.bookmarks[b] = t.bookmarks[b]
    BY <1>1, <2>2, <2>3 DEF Put, Ready, Sound, Tables
  <2> QED
    BY <1>1, <2>4 DEF Bookmarked, LiveBookmarks
<1>6. CASE m.kind = "bookmark.delete"
  <2>1. u = DeleteBookmark(t, m.id, ts)
    BY <1>6 DEF ApplyMutation
  <2>2. b # m.id
    BY <1>1, <1>2, <2>1 DEF DeleteBookmark
  <2>3. b \in DOMAIN u.bookmarks /\ u.bookmarks[b] = t.bookmarks[b]
    BY <1>1, <2>1, <2>2 DEF DeleteBookmark, Ready, Sound, Tables
  <2> QED
    BY <1>1, <2>3 DEF Bookmarked, LiveBookmarks
<1> QED
  BY <1>3, <1>4, <1>5, <1>6 DEF Mutations

\* A mutation never takes the bookmark off a verse bookmarked at a later
\* instant than its own.
THEOREM NewerBookmarksSurvive == Spec => NewerBookmarkSurvives
<1> DEFINE Kept == \A m \in Mutations : Apply(m) =>
             \A b \in LiveBookmarks(tx) :
                tx.bookmarks[b].at > Clamp(m.ts) => Bookmarked(tx', tx.bookmarks[b].verse)
<1>1. TablesInv /\ [Next]_vars => [Kept]_vars
  <2> SUFFICES ASSUME TablesInv, NEW m \in Mutations, Apply(m),
                      NEW b \in LiveBookmarks(tx), tx.bookmarks[b].at > Clamp(m.ts)
               PROVE  Bookmarked(tx', tx.bookmarks[b].verse)
    OBVIOUS
  <2>1. Ready(tx) /\ tx' = ApplyMutation(tx, m, Clamp(m.ts))
    BY DEF Apply, TablesInv
  <2> QED
    BY <2>1, NewerSurvivesMutation, ClampNat DEF TablesInv
<1> QED
  BY <1>1, TablesInvariant, PTL DEF Spec, NewerBookmarkSurvives
-----------------------------------------------------------------------------
(* What a mutation leaves alone. *)

\* The rows after a mutation: only the deletion of a folder writes rows of
\* other ids and verses, and only those in the folder.
LEMMA RowsAfterMutation ==
    ASSUME NEW t, Ready(t), NEW m \in Mutations, NEW ts \in Nat,
           NEW b \in DOMAIN t.bookmarks
    PROVE  LET u == ApplyMutation(t, m, ts)
           IN  /\ b \in DOMAIN u.bookmarks
               /\ \/ u.bookmarks[b] = t.bookmarks[b]
                  \/ m.kind = "folder.delete" /\ t.bookmarks[b].folder = m.id
                  \/ /\ m.kind = "bookmark.upsert"
                     /\ b = m.id \/ t.bookmarks[b].verse = m.verse
                     /\ u.bookmarks[b].at = ts
                     /\ t.bookmarks[b].at <= ts
                  \/ /\ m.kind = "bookmark.delete" /\ b = m.id
                     /\ u.bookmarks[b].at = ts
                     /\ t.bookmarks[b].at <= ts
<1> DEFINE u == ApplyMutation(t, m, ts)
<1>1. t.bookmarks[b] \in Bookmark /\ t.bookmarks[b].at \in Nat
  BY DEF Ready, Sound, Tables, Bookmark
<1>2. Tombstone(t.bookmarks[b], ts).at = ts
  BY <1>1 DEF Tombstone, Bookmark
<1>3. CASE u = t
  BY <1>3
<1>4. CASE m.kind = "folder.upsert"
  BY <1>4 DEF ApplyMutation, UpsertFolder, Ready, Sound, Tables
<1>5. CASE m.kind = "folder.delete" /\ u # t
  <2>1. u = DeleteFolder(t, m.id, ts)
    BY <1>5 DEF ApplyMutation
  <2>2. b \in DOMAIN u.bookmarks
    BY <1>5, <2>1 DEF DeleteFolder
  <2>3. t.bookmarks[b].folder # m.id => u.bookmarks[b] = t.bookmarks[b]
    BY <1>5, <2>1 DEF DeleteFolder, Rehomed, LiveIn
  <2> QED
    BY <1>5, <2>2, <2>3
<1>6. CASE m.kind = "bookmark.upsert" /\ u # t
  <2> DEFINE f == ResolveFolder(t, m.folder)
             beaten == Rivals(t, m.id, f, m.verse) \cap LiveBookmarks(t)
             yielded == [i \in DOMAIN t.bookmarks |->
                           IF i \in beaten THEN Tombstone(t.bookmarks[i], ts)
                                           ELSE t.bookmarks[i]]
             new == [folder |-> f, verse |-> m.verse, at |-> ts, live |-> TRUE]
  <2>1. u = UpsertBookmark(t, m.id, f, m.verse, ts)
    BY <1>6 DEF ApplyMutation
  <2>2. /\ ~(m.id \in DOMAIN t.bookmarks /\ t.bookmarks[m.id].at >= ts)
        /\ ~\E r \in Rivals(t, m.id, f, m.verse) : t.bookmarks[r].at > ts
        /\ u = [t EXCEPT !.bookmarks = Put(yielded, m.id, new)]
    BY <1>6, <2>1 DEF UpsertBookmark
  <2>3. u.bookmarks = Put(yielded, m.id, new)
    BY <2>2 DEF Ready, Sound, Tables
  <2>4. CASE b = m.id
    BY <1>1, <1>6, <2>2, <2>3, <2>4 DEF Put
  <2>5. CASE b # m.id /\ b \in beaten
    <3>1. t.bookmarks[b].verse = m.verse /\ t.bookmarks[b].at <= ts
      BY <1>1, <2>2, <2>5 DEF Rivals
    <3>2. b \in DOMAIN u.bookmarks /\ u.bookmarks[b] = Tombstone(t.bookmarks[b], ts)
      BY <2>3, <2>5 DEF Put
    <3> QED
      BY <1>2, <1>6, <3>1, <3>2
  <2>6. CASE b # m.id /\ b \notin beaten
    BY <2>3, <2>6 DEF Put
  <2> QED
    BY <2>4, <2>5, <2>6
<1>7. CASE m.kind = "bookmark.delete" /\ u # t
  <2>1. u = DeleteBookmark(t, m.id, ts)
    BY <1>7 DEF ApplyMutation
  <2>2. /\ m.id \in DOMAIN t.bookmarks
        /\ ~(t.bookmarks[m.id].at > ts)
        /\ u.bookmarks = [t.bookmarks EXCEPT ![m.id] = Tombstone(@, ts)]
    BY <1>7, <2>1 DEF DeleteBookmark, Ready, Sound, Tables
  <2>3. b = m.id => u.bookmarks[b].at = ts /\ t.bookmarks[b].at <= ts
    BY <1>1, <1>2, <2>2
  <2> QED
    BY <1>7, <2>2, <2>3
<1> QED
  BY <1>3, <1>4, <1>5, <1>6, <1>7 DEF Mutations

\* A folder's stamp never goes back.
LEMMA FoldersAfterMutation ==
    ASSUME NEW t, Ready(t), NEW m \in Mutations, NEW ts \in Nat,
           NEW f \in DOMAIN t.folders
    PROVE  ApplyMutation(t, m, ts).folders[f].at >= t.folders[f].at
<1> DEFINE u == ApplyMutation(t, m, ts)
<1>1. t.folders[f] \in Folder /\ t.folders[f].at \in Nat
  BY DEF Ready, Sound, Tables, Folder
<1>2. CASE u.folders[f] = t.folders[f]
  BY <1>1, <1>2
<1>3. CASE u.folders[f] # t.folders[f] /\ m.kind = "folder.upsert"
  BY <1>1, <1>3 DEF ApplyMutation, UpsertFolder, Put, Ready, Sound, Tables
<1>4. CASE u.folders[f] # t.folders[f] /\ m.kind = "folder.delete"
  <2>1. Tombstone(t.folders[f], ts).at = ts
    BY <1>1 DEF Tombstone, Folder
  <2>2. u = DeleteFolder(t, m.id, ts)
    BY <1>4 DEF ApplyMutation
  <2> QED
    BY <1>1, <1>4, <2>1, <2>2 DEF DeleteFolder
<1>5. CASE m.kind \in {"bookmark.upsert", "bookmark.delete"}
  <2>1. u.folders = t.folders
    BY <1>5 DEF ApplyMutation, UpsertBookmark, DeleteBookmark, Ready, Sound, Tables
  <2> QED
    BY <1>1, <2>1
<1> QED
  BY <1>2, <1>3, <1>4, <1>5 DEF Mutations

\* The writes of a mutation stay within its id, its verse and its folder.
THEOREM OthersLeftAlone == Spec => OthersUntouched
<1> DEFINE Alone == \A m \in Mutations : Apply(m) =>
             \A b \in LiveBookmarks(tx) :
                \/ m.kind = "folder.delete" /\ tx.bookmarks[b].folder = m.id
                \/ m.kind \in {"bookmark.upsert", "bookmark.delete"} /\ b = m.id
                \/ m.kind = "bookmark.upsert" /\ tx.bookmarks[b].verse = m.verse
                \/ tx'.bookmarks[b] = tx.bookmarks[b]
<1>1. TablesInv /\ [Next]_vars => [Alone]_vars
  <2> SUFFICES ASSUME TablesInv, NEW m \in Mutations, Apply(m), NEW b \in LiveBookmarks(tx)
               PROVE  \/ m.kind = "folder.delete" /\ tx.bookmarks[b].folder = m.id
                      \/ m.kind \in {"bookmark.upsert", "bookmark.delete"} /\ b = m.id
                      \/ m.kind = "bookmark.upsert" /\ tx.bookmarks[b].verse = m.verse
                      \/ tx'.bookmarks[b] = tx.bookmarks[b]
    OBVIOUS
  <2>1. /\ Ready(tx) /\ tx' = ApplyMutation(tx, m, Clamp(m.ts))
        /\ Clamp(m.ts) \in Nat
    BY ClampNat DEF Apply, TablesInv
  <2>2. b \in DOMAIN tx.bookmarks
    BY DEF LiveBookmarks
  <2> QED
    BY <2>1, <2>2, RowsAfterMutation
<1> QED
  BY <1>1, TablesInvariant, PTL DEF Spec, OthersUntouched

\* Only the cascade of a folder's deletion takes a stamp back.
THEOREM StampsGrow == Spec => StampsFallOnlyInCascade
<1> DEFINE Grown == \A m \in Mutations : Apply(m) =>
             /\ \A f \in DOMAIN tx.folders : tx'.folders[f].at >= tx.folders[f].at
             /\ \A b \in DOMAIN tx.bookmarks :
                   \/ tx'.bookmarks[b].at >= tx.bookmarks[b].at
                   \/ m.kind = "folder.delete" /\ tx.bookmarks[b].folder = m.id
<1>1. TablesInv /\ [Next]_vars => [Grown]_vars
  <2> SUFFICES ASSUME TablesInv, NEW m \in Mutations, Apply(m)
               PROVE  /\ \A f \in DOMAIN tx.folders : tx'.folders[f].at >= tx.folders[f].at
                      /\ \A b \in DOMAIN tx.bookmarks :
                            \/ tx'.bookmarks[b].at >= tx.bookmarks[b].at
                            \/ m.kind = "folder.delete" /\ tx.bookmarks[b].folder = m.id
    OBVIOUS
  <2> DEFINE ts == Clamp(m.ts)
  <2>1. Ready(tx) /\ tx' = ApplyMutation(tx, m, ts) /\ ts \in Nat
    BY ClampNat DEF Apply, TablesInv
  <2> HIDE DEF ts
  <2>2. \A f \in DOMAIN tx.folders : tx'.folders[f].at >= tx.folders[f].at
    BY <2>1, FoldersAfterMutation
  <2>3. ASSUME NEW b \in DOMAIN tx.bookmarks
        PROVE  \/ tx'.bookmarks[b].at >= tx.bookmarks[b].at
               \/ m.kind = "folder.delete" /\ tx.bookmarks[b].folder = m.id
    <3>1. tx.bookmarks[b].at \in Nat
      BY <2>1 DEF Ready, Sound, Tables, Bookmark
    <3> QED
      BY <2>1, <3>1, RowsAfterMutation
  <2> QED
    BY <2>2, <2>3
<1> QED
  BY <1>1, TablesInvariant, PTL DEF Spec, StampsFallOnlyInCascade
=============================================================================
