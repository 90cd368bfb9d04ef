---------------------------- MODULE BookmarkRows ----------------------------
(***************************************************************************)
(* The two bookmark tables of one account as values, and what each         *)
(* statement group of the sea_models bookmark and bookmark_folder does to  *)
(* them under last-writer-wins.                                            *)
(*                                                                         *)
(* An operator marked "Faulty" is a plausible bug in the operator after it *)
(* and part of no specification: the checks swap it in to see that the     *)
(* properties notice.                                                      *)
(*                                                                         *)
(* A table is a function from the ids of its rows, live and tombstoned, to *)
(* the row without its id.  A bookmark's four coordinates are one verse;   *)
(* names, positions, context and creation times decide nothing and are     *)
(* left out.  A stamp is a natural number, the epoch of the seed row is 0. *)
(***************************************************************************)
EXTENDS Naturals, FiniteSets

CONSTANTS BookmarkIds,     \* ids a device may mint for a bookmark
          FolderIds,       \* ids a device may mint for a folder
          DefaultFolder,   \* the account's derived default folder id
          Verses,          \* verse ranges a bookmark may point at
          Clocks,          \* stamps the devices' clocks may put on a mutation
          BookmarkQuota,   \* LIVE_BOOKMARK_QUOTA
          FolderQuota      \* LIVE_FOLDER_QUOTA

ASSUME DefaultAssumption == DefaultFolder \in FolderIds
ASSUME QuotaAssumption   == BookmarkQuota \in Nat /\ FolderQuota \in Nat
ASSUME StampAssumption   == Clocks \subseteq Nat

Folder   == [at : Nat, live : BOOLEAN]
Bookmark == [folder : FolderIds, verse : Verses, at : Nat, live : BOOLEAN]

Mutations ==
    [kind : {"folder.upsert", "folder.delete"}, id : FolderIds, ts : Clocks]
      \cup
    [kind : {"bookmark.upsert"}, id : BookmarkIds, folder : FolderIds,
     verse : Verses, ts : Clocks]
      \cup
    [kind : {"bookmark.delete"}, id : BookmarkIds, ts : Clocks]

LiveFolders(t)   == {f \in DOMAIN t.folders : t.folders[f].live}
LiveBookmarks(t) == {b \in DOMAIN t.bookmarks : t.bookmarks[b].live}
LiveIn(t, f)     == {b \in LiveBookmarks(t) : t.bookmarks[b].folder = f}

\* INSERT OR REPLACE of one row.
Put(table, id, row) ==
    [i \in DOMAIN table \cup {id} |-> IF i = id THEN row ELSE table[i]]

Tombstone(row, ts) == [row EXCEPT !.live = FALSE, !.at = ts]

-----------------------------------------------------------------------------
(* The folder table. *)

EnsureDefault(t) ==
    LET seed == IF DefaultFolder \in DOMAIN t.folders
                THEN t.folders[DefaultFolder].at ELSE 0
    IN  [t EXCEPT !.folders = Put(@, DefaultFolder, [at |-> seed, live |-> TRUE])]

\* The quota is asked only for an id the table does not hold at all.
FolderRefused(t, f) ==
    f \notin DOMAIN t.folders /\ Cardinality(LiveFolders(t)) >= FolderQuota

UpsertFolder(t, f, ts) ==
    IF \/ FolderRefused(t, f)
       \/ f \in DOMAIN t.folders /\ t.folders[f].at >= ts
    THEN t
    ELSE [t EXCEPT !.folders = Put(@, f, [at |-> ts, live |-> TRUE])]

\* Faulty: no look at what the default folder holds already.
RehomedBlindly(t, f, ts) == {b \in LiveIn(t, f) : t.bookmarks[b].at > ts}

\* Faulty: the cascade comes first and leaves nothing to re-home.
RehomedNone(t, f, ts) == {}

\* Newer bookmarks of a deleted folder whose verse is free in the default one.
Rehomed(t, f, ts) ==
    {b \in LiveIn(t, f) :
        /\ t.bookmarks[b].at > ts
        /\ \A d \in LiveIn(t, DefaultFolder) :
              t.bookmarks[d].verse # t.bookmarks[b].verse}

DeleteFolder(t, f, ts) ==
    IF \/ f = DefaultFolder
       \/ f \notin DOMAIN t.folders
       \/ t.folders[f].at > ts
    THEN t
    ELSE [folders   |-> [t.folders EXCEPT ![f] = Tombstone(@, ts)],
          bookmarks |-> [b \in DOMAIN t.bookmarks |->
              IF b \in Rehomed(t, f, ts)
              THEN [t.bookmarks[b] EXCEPT !.folder = DefaultFolder]
              ELSE IF b \in LiveIn(t, f)
              THEN Tombstone(t.bookmarks[b], ts)
              ELSE t.bookmarks[b]]]

-----------------------------------------------------------------------------
(* The bookmark table. *)

\* Faulty: a tombstoned folder still takes bookmarks.
ResolveKnownFolder(t, f) == IF f \in DOMAIN t.folders THEN f ELSE DefaultFolder

\* A dead or unknown folder files the bookmark in the default folder.
ResolveFolder(t, f) == IF f \in LiveFolders(t) THEN f ELSE DefaultFolder

\* Faulty: the quota is asked for unknown ids only, as it is for folders.
UnknownBookmarkRefused(t, b) ==
    b \notin DOMAIN t.bookmarks /\ Cardinality(LiveBookmarks(t)) >= BookmarkQuota

\* The quota is asked for an id that is not live.
BookmarkRefused(t, b) ==
    b \notin LiveBookmarks(t) /\ Cardinality(LiveBookmarks(t)) >= BookmarkQuota

\* Faulty: the verse is left out of the key.
RivalsInFolder(t, b, f, v) ==
    {r \in DOMAIN t.bookmarks \ {b} : t.bookmarks[r].folder = f}

\* Other ids on the same folder and verse, live or tombstoned.
Rivals(t, b, f, v) ==
    {r \in DOMAIN t.bookmarks \ {b} :
        t.bookmarks[r].folder = f /\ t.bookmarks[r].verse = v}

UpsertBookmark(t, b, f, v, ts) ==
    IF \/ BookmarkRefused(t, b)
       \/ b \in DOMAIN t.bookmarks /\ t.bookmarks[b].at >= ts
       \/ \E r \in Rivals(t, b, f, v) : t.bookmarks[r].at > ts
    THEN t
    ELSE LET beaten == Rivals(t, b, f, v) \cap LiveBookmarks(t)
             yielded == [i \in DOMAIN t.bookmarks |->
                           IF i \in beaten THEN Tombstone(t.bookmarks[i], ts)
                                           ELSE t.bookmarks[i]]
         IN  [t EXCEPT !.bookmarks =
                Put(yielded, b, [folder |-> f, verse |-> v, at |-> ts, live |-> TRUE])]

\* Faulty: no look at how new the row is.
DeleteBookmarkAlways(t, b, ts) ==
    IF b \notin DOMAIN t.bookmarks
    THEN t
    ELSE [t EXCEPT !.bookmarks[b] = Tombstone(@, ts)]

\* Faulty: the row is erased and leaves no tombstone.
DeleteBookmarkHard(t, b, ts) ==
    IF b \notin DOMAIN t.bookmarks \/ t.bookmarks[b].at > ts
    THEN t
    ELSE [t EXCEPT !.bookmarks = [i \in DOMAIN @ \ {b} |-> @[i]]]

DeleteBookmark(t, b, ts) ==
    IF b \notin DOMAIN t.bookmarks \/ t.bookmarks[b].at > ts
    THEN t
    ELSE [t EXCEPT !.bookmarks[b] = Tombstone(@, ts)]

-----------------------------------------------------------------------------
(* One mutation of a request, and the tables before the first round. *)

ApplyMutation(t, m, ts) ==
    CASE m.kind = "folder.upsert"   -> UpsertFolder(t, m.id, ts)
      [] m.kind = "folder.delete"   -> DeleteFolder(t, m.id, ts)
      [] m.kind = "bookmark.upsert" ->
            UpsertBookmark(t, m.id, ResolveFolder(t, m.folder), m.verse, ts)
      [] m.kind = "bookmark.delete" -> DeleteBookmark(t, m.id, ts)

NoRows == [i \in {} |-> i]

NoTables == [folders |-> NoRows, bookmarks |-> NoRows]
=============================================================================
