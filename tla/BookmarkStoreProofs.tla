------------------------ MODULE BookmarkStoreProofs ------------------------
(***************************************************************************)
(* Theorems about BookmarkStore, for any number of tabs, ids, verses and   *)
(* clock stamps, any batch size and any bound on faults:                   *)
(*                                                                         *)
(*   - the type invariant and OverlaysRetired, from TypeInv, which adds    *)
(*     that a tab remembers a mutation for every overlay that is not a     *)
(*     hidden bookmark, and that what it remembers is queued, on its way   *)
(*     out of the queue, announced, or drained where nobody announced it;  *)
(*   - DrainedIsDigested, from Known and DigestInv.                        *)
(*                                                                         *)
(* The argument for the last: a mutation is Settled when the server would  *)
(* skip it.  Settled is stable under a write that only raises stamps       *)
(* (Overwrites), which every mutation of this device is, provided that     *)
(* none overtakes an older one.  Requests are prefixes of the outbox and   *)
(* a batch leaves it once it is settled, so that whatever is older than a  *)
(* mutation of a request is settled or precedes it there (Ordered), and a  *)
(* row newer than a mutation was written after that one (Frontier): it is  *)
(* settled already or wins.  The quota refuses none of them, and a removal *)
(* speaks of an id the server knows by then (Originated): what can be      *)
(* removed on the device was put there by an older mutation or came with a *)
(* snapshot (Known).                                                       *)
(***************************************************************************)
EXTENDS BookmarkStore, FiniteSetTheorems, WellFoundedInduction, TLAPS

-----------------------------------------------------------------------------
(* Counting and queues. *)

\* Induction, as the principle of the least number.
LEMMA LeastNatural ==
    ASSUME NEW T, T \subseteq Nat, T # {}
    PROVE  \E x \in T : \A y \in T : x <= y
<1>1. IsWellFoundedOn(OpToRel(<, Nat), Nat)
  BY NatLessThanWellFounded
<1>2. PICK x \in T : \A y \in T : ~ (<<y, x>> \in OpToRel(<, Nat))
  BY <1>1, WFMin
<1>3. \A y \in T : ~ (y < x)
  BY <1>2 DEF OpToRel
<1>. QED BY <1>3

LEMMA SmallerSet ==
    ASSUME NEW S, IsFiniteSet(S), NEW T, T \subseteq S
    PROVE  /\ IsFiniteSet(T) /\ Cardinality(T) \in Nat /\ Cardinality(S) \in Nat
           /\ Cardinality(T) <= Cardinality(S)
           /\ T # S => Cardinality(T) < Cardinality(S)
<1>1. T \in SUBSET S
  OBVIOUS
<1>2. /\ IsFiniteSet(T) /\ Cardinality(T) <= Cardinality(S)
      /\ Cardinality(S) = Cardinality(T) => S = T
  BY <1>1, FS_Subset
<1>3. Cardinality(T) \in Nat /\ Cardinality(S) \in Nat
  BY <1>2, FS_CardinalityType
<1>. QED BY <1>2, <1>3

\* What the queue keeps of a drained batch: everything else, in its order.
LEMMA ErasedQueue ==
    ASSUME NEW S, NEW q \in Seq(S), NEW b \in Seq(S)
    PROVE  /\ Erased(q, b) \in Seq(S)
           /\ ToSet(Erased(q, b)) = ToSet(q) \ ToSet(b)
           /\ \A k \in DOMAIN Erased(q, b) : \E i \in DOMAIN q :
                 /\ q[i] = Erased(q, b)[k]
                 /\ \A j \in 1..(i - 1) : q[j] \in ToSet(b) \/
                       \E h \in 1..(k - 1) : Erased(q, b)[h] = q[j]
<1>. DEFINE kept == {i \in DOMAIN q : q[i] \notin ToSet(b)}
            nth(k) == CHOOSE i \in kept : Cardinality(kept \cap 1..i) = k
            l == Cardinality(kept)
            upTo == [i \in 0..Len(q) |-> kept \cap 1..i]
            count == [i \in 0..Len(q) |-> Cardinality(upTo[i])]
<1>1. kept \subseteq 1..Len(q) /\ Len(q) \in Nat /\ kept \subseteq Nat
  OBVIOUS
<1>2. \A i \in kept : q[i] \in S /\ q[i] \in ToSet(q) \ ToSet(b)
  BY DEF ToSet
<1>3. \A m \in ToSet(q) \ ToSet(b) : \E i \in kept : q[i] = m
  BY DEF ToSet
<1>4. \A i \in 0..Len(q) : /\ upTo[i] \subseteq kept /\ count[i] = Cardinality(upTo[i])
                            /\ \A j \in kept : j \in upTo[i] <=> j <= i
  BY <1>1
<1>5. Erased(q, b) = [k \in 1..l |-> q[nth(k)]]
  BY DEF Erased
<1>. HIDE DEF kept
<1>6. IsFiniteSet(kept) /\ l \in Nat
  <2>1. IsFiniteSet(1..Len(q))
    BY <1>1, FS_Interval
  <2>. QED BY <1>1, <2>1, SmallerSet
<1>. HIDE DEF upTo, count, l
<1>7. \A i \in 0..Len(q) : IsFiniteSet(upTo[i]) /\ count[i] \in 0..l
  BY <1>4, <1>6, SmallerSet DEF l
<1>8. ASSUME NEW i \in kept, NEW j \in kept, i < j
      PROVE  count[i] < count[j]
  <2>1. i \in 0..Len(q) /\ j \in 0..Len(q)
    BY <1>1
  <2>2. \A k \in kept : k <= i => k <= j
    BY <1>1, <1>8
  <2>3. upTo[i] \subseteq upTo[j]
    BY <1>4, <2>1, <2>2
  <2>4. j \in upTo[j] /\ j \notin upTo[i]
    BY <1>1, <1>4, <1>8, <2>1
  <2>5. upTo[i] # upTo[j]
    BY <2>4
  <2>. QED BY <1>4, <1>7, <2>1, <2>3, <2>5, SmallerSet
<1>9. ASSUME NEW k \in 1..l
      PROVE  \E i \in kept : count[i] = k
  <2>. DEFINE T == {i \in 0..Len(q) : count[i] >= k}
  <2>1. Len(q) \in T
    <3>1. Len(q) \in 0..Len(q) /\ \A j \in kept : j <= Len(q)
      BY <1>1
    <3>2. upTo[Len(q)] = kept
      BY <1>4, <3>1
    <3>. QED BY <1>4, <1>6, <3>1, <3>2 DEF l
  <2>2. 0 \notin T
    <3>1. 0 \in 0..Len(q) /\ \A j \in kept : ~ (j <= 0)
      BY <1>1
    <3>2. upTo[0] = {}
      BY <1>4, <3>1
    <3>3. count[0] = 0
      BY <1>4, <3>1, <3>2, FS_EmptySet
    <3>. QED BY <3>3
  <2>3. PICK i \in T : \A j \in T : i <= j
    <3>1. T \subseteq Nat /\ T # {}
      BY <2>1
    <3>. HIDE DEF T
    <3>. QED BY <3>1, LeastNatural
  <2>4. i \in 1..Len(q) /\ i \in 0..Len(q) /\ i - 1 \in 0..Len(q) /\ count[i] >= k
        /\ ~ (count[i - 1] >= k)
    BY <1>1, <2>2, <2>3
  <2>5. upTo[i - 1] = upTo[i] \ {i} /\ (i \notin kept => upTo[i - 1] = upTo[i])
    <3>1. \A j \in kept : j <= i - 1 <=> j <= i /\ j # i
      BY <1>1, <2>4
    <3>. QED BY <1>4, <2>4, <3>1
  <2>6. i \in kept
    BY <1>4, <2>4, <2>5
  <2>7. i \in upTo[i]
    BY <1>4, <2>4, <2>6
  <2>8. Cardinality(upTo[i] \ {i}) = Cardinality(upTo[i]) - 1
    BY <1>7, <2>4, <2>7, FS_RemoveElement
  <2>9. count[i - 1] = count[i] - 1
    BY <1>4, <2>4, <2>5, <2>8
  <2>. QED BY <1>6, <1>7, <2>4, <2>6, <2>9
<1>10. ASSUME NEW i \in kept PROVE count[i] \in 1..l
  <2>1. i \in 0..Len(q) /\ i \in upTo[i]
    BY <1>1, <1>4
  <2>2. Cardinality(upTo[i]) # 0
    BY <1>7, <2>1, FS_EmptySet
  <2>. QED BY <1>4, <1>6, <1>7, <2>1, <2>2
<1>11. \A i \in kept : Cardinality(kept \cap 1..i) = count[i]
  BY <1>1 DEF count, upTo
<1>12. \A k \in 1..l : nth(k) \in kept /\ count[nth(k)] = k
  BY <1>9, <1>11
<1>13. \A i \in kept : nth(count[i]) = i
  <2>. SUFFICES ASSUME NEW i \in kept PROVE nth(count[i]) = i
    OBVIOUS
  <2>. DEFINE j == nth(count[i])
  <2>1. j \in kept /\ count[j] = count[i]
    BY <1>10, <1>12
  <2>. HIDE DEF j
  <2>2. i \in Nat /\ j \in Nat /\ count[i] \in Nat /\ ~ (i < j) /\ ~ (j < i)
    BY <1>1, <1>6, <1>8, <1>10, <2>1
  <2>3. i = j
    BY <2>2
  <2>. QED BY <2>3 DEF j
<1>. DEFINE r == [k \in 1..l |-> q[nth(k)]]
<1>. HIDE DEF nth
<1>14. r \in Seq(S)
  BY <1>2, <1>6, <1>12
<1>15. ToSet(r) \subseteq ToSet(q) \ ToSet(b)
  BY <1>2, <1>12 DEF ToSet
<1>16. ASSUME NEW m \in ToSet(q) \ ToSet(b) PROVE m \in ToSet(r)
  <2>1. PICK i \in kept : q[i] = m
    BY <1>3
  <2>2. count[i] \in DOMAIN r /\ r[count[i]] = m
    BY <1>10, <1>13, <2>1
  <2>. QED BY <2>2 DEF ToSet
<1>17. ASSUME NEW k \in DOMAIN r
       PROVE  \E i \in DOMAIN q :
                 /\ q[i] = r[k]
                 /\ \A j \in 1..(i - 1) : q[j] \in ToSet(b) \/ \E h \in 1..(k - 1) : r[h] = q[j]
  <2>0. k \in 1..l /\ r[k] = q[nth(k)]
    OBVIOUS
  <2>1. /\ k \in 1..l /\ r[k] = q[nth(k)]
        /\ nth(k) \in kept /\ nth(k) \in DOMAIN q /\ nth(k) \in Nat /\ count[nth(k)] = k
    <3>. HIDE DEF r
    <3>1. nth(k) \in kept /\ count[nth(k)] = k
      BY <1>12, <2>0
    <3>2. DOMAIN q = 1..Len(q)
      OBVIOUS
    <3>. QED BY <1>1, <2>0, <3>1, <3>2
  <2>2. ASSUME NEW j \in 1..(nth(k) - 1), q[j] \notin ToSet(b)
        PROVE  \E h \in 1..(k - 1) : r[h] = q[j]
    <3>1. j \in DOMAIN q /\ j < nth(k)
      BY <1>1, <2>1
    <3>2. j \in kept
      BY <2>2, <3>1 DEF kept
    <3>3. count[j] \in 1..l /\ count[j] < k
      BY <1>8, <1>10, <2>1, <3>1, <3>2
    <3>4. r[count[j]] = q[j]
      BY <1>13, <3>2, <3>3
    <3>. QED BY <1>6, <2>1, <3>3, <3>4
  <2>. QED BY <2>1, <2>2
<1>18. Erased(q, b) = r
  BY <1>5
<1>. HIDE DEF r
<1>. QED BY <1>14, <1>15, <1>16, <1>17, <1>18

\* The elements of a finite set in some order.
LEMMA InOrder ==
    ASSUME NEW S, IsFiniteSet(S)
    PROVE  SetToSeq(S) \in Seq(S) /\ ToSet(SetToSeq(S)) = S
<1>. DEFINE f == SetToSeq(S)
            n == Cardinality(S)
<1>1. n \in Nat /\ ExistsBijection(1..n, S)
  BY FS_CardinalityType
<1>2. \E g \in [1..n -> S] : IsInjective(g)
  BY <1>1 DEF ExistsBijection, Bijection, Injection
<1>3. f \in [1..n -> S] /\ IsInjective(f)
  BY <1>2 DEF SetToSeq
<1>4. f \in Injection(1..n, S) /\ IsFiniteSet(1..n) /\ Cardinality(1..n) = Cardinality(S)
  BY <1>1, <1>3, FS_Interval DEF Injection
<1>. HIDE DEF f, n
<1>5. f \in Surjection(1..n, S)
  BY <1>4, FS_Injection
<1>6. \A x \in S : \E k \in 1..n : f[k] = x
  BY <1>5 DEF Surjection
<1>7. f \in Seq(S)
  BY <1>1, <1>3
<1>8. ToSet(f) = S
  BY <1>3, <1>6 DEF ToSet
<1>. QED BY <1>7, <1>8 DEF f
-----------------------------------------------------------------------------
(* The tables. *)

Tables(t) == /\ t = [folders |-> t.folders, bookmarks |-> t.bookmarks]
             /\ DOMAIN t.folders \subseteq FolderIds
             /\ t.folders \in [DOMAIN t.folders -> Folder]
             /\ DOMAIN t.bookmarks \subseteq BookmarkIds
             /\ t.bookmarks \in [DOMAIN t.bookmarks -> Bookmark]

LEMMA NoTablesTyped ==
    /\ Tables(NoTables)
    /\ Tables([NoTables EXCEPT !.folders = [f \in OldFolders |-> [at |-> 0, live |-> TRUE]]])
<1>. DEFINE fs == [f \in OldFolders |-> [at |-> 0, live |-> TRUE]]
<1>1. [NoTables EXCEPT !.folders = fs] = [folders |-> fs, bookmarks |-> NoRows]
  <2>. HIDE DEF fs
  <2>. QED BY DEF NoTables
<1>2. fs \in [OldFolders -> Folder] /\ DOMAIN fs \subseteq FolderIds
  BY StoreAssumption DEF Folder
<1>3. NoRows \in [{} -> Bookmark] /\ DOMAIN NoRows = {} /\ NoRows \in [{} -> Folder]
  BY DEF NoRows
<1>. HIDE DEF fs
<1>4. DOMAIN fs = OldFolders
  BY DEF fs
<1>5. NoTables.folders = NoRows /\ NoTables.bookmarks = NoRows
      /\ NoTables = [folders |-> NoTables.folders, bookmarks |-> NoTables.bookmarks]
  BY DEF NoTables
<1>. DEFINE u == [NoTables EXCEPT !.folders = fs]
<1>6. u.folders = fs /\ u.bookmarks = NoRows /\ u = [folders |-> u.folders, bookmarks |-> u.bookmarks]
  BY <1>1
<1>. HIDE DEF u
<1>7. Tables(NoTables)
  BY <1>3, <1>5 DEF Tables
<1>8. Tables(u)
  BY <1>2, <1>3, <1>4, <1>6 DEF Tables
<1>. QED BY <1>7, <1>8 DEF u, fs

LEMMA EnsureDefaultTyped ==
    ASSUME NEW t, Tables(t)
    PROVE  LET u == EnsureDefault(t)
           IN  /\ Tables(u) /\ u.bookmarks = t.bookmarks
               /\ DOMAIN u.folders = DOMAIN t.folders \cup {DefaultFolder}
               /\ \A f \in DOMAIN t.folders \ {DefaultFolder} : u.folders[f] = t.folders[f]
               /\ u.folders[DefaultFolder].live
               /\ u.folders[DefaultFolder].at =
                     IF DefaultFolder \in DOMAIN t.folders THEN t.folders[DefaultFolder].at ELSE 0
<1>. DEFINE seed == IF DefaultFolder \in DOMAIN t.folders THEN t.folders[DefaultFolder].at ELSE 0
            row == [at |-> seed, live |-> TRUE]
            fs == Put(t.folders, DefaultFolder, row)
<1>1. EnsureDefault(t) = [folders |-> fs, bookmarks |-> t.bookmarks]
  BY DEF EnsureDefault, Tables
<1>2. seed \in Nat /\ row \in Folder
  BY DEF Tables, Folder
<1>3. /\ DOMAIN fs = DOMAIN t.folders \cup {DefaultFolder}
      /\ fs[DefaultFolder] = row
      /\ \A f \in DOMAIN t.folders \ {DefaultFolder} : fs[f] = t.folders[f]
      /\ fs = [i \in DOMAIN fs |-> fs[i]]
  BY DEF Put
<1>. HIDE DEF fs
<1>4. fs \in [DOMAIN fs -> Folder] /\ DOMAIN fs \subseteq FolderIds
  BY <1>2, <1>3, DefaultAssumption DEF Tables
<1>. QED BY <1>1, <1>3, <1>4 DEF Tables

\* What each operation on the tables writes.
FolderPut(t, u, f, ts) ==
    /\ f \in DOMAIN t.folders => t.folders[f].at < ts
    /\ f \in DOMAIN u.folders /\ u.folders[f] = [at |-> ts, live |-> TRUE]
    /\ \A g \in DOMAIN t.folders \ {f} : u.folders[g] = t.folders[g]

FolderDeleted(t, u, f, ts) ==
    /\ f \in DOMAIN t.folders \ {DefaultFolder} /\ t.folders[f].at <= ts
    /\ u.folders[f].at = ts /\ ~u.folders[f].live
    /\ \A g \in DOMAIN t.folders \ {f} : u.folders[g] = t.folders[g]
    /\ \A b \in DOMAIN t.bookmarks :
          u.bookmarks[b] = IF b \in Rehomed(t, f, ts)
                           THEN [t.bookmarks[b] EXCEPT !.folder = DefaultFolder]
                           ELSE IF b \in LiveIn(t, f)
                           THEN Tombstone(t.bookmarks[b], ts)
                           ELSE t.bookmarks[b]

BookmarkPut(t, u, b, f, v, ts) ==
    /\ b \in DOMAIN t.bookmarks => t.bookmarks[b].at < ts
    /\ \A r \in Rivals(t, b, f, v) : t.bookmarks[r].at <= ts
    /\ b \in DOMAIN u.bookmarks
    /\ u.bookmarks[b] = [folder |-> f, verse |-> v, at |-> ts, live |-> TRUE]
    /\ \A i \in DOMAIN t.bookmarks \ {b} :
          u.bookmarks[i] = IF i \in Rivals(t, b, f, v) \cap LiveBookmarks(t)
                           THEN Tombstone(t.bookmarks[i], ts) ELSE t.bookmarks[i]

BookmarkDeleted(t, u, b, ts) ==
    /\ b \in DOMAIN t.bookmarks /\ t.bookmarks[b].at <= ts
    /\ u.bookmarks[b] = Tombstone(t.bookmarks[b], ts)
    /\ \A i \in DOMAIN t.bookmarks \ {b} : u.bookmarks[i] = t.bookmarks[i]

LEMMA UpsertFolderTyped ==
    ASSUME NEW t, Tables(t), NEW f \in FolderIds, NEW ts \in Nat
    PROVE  LET u == UpsertFolder(t, f, ts)
           IN  /\ Tables(u) /\ u.bookmarks = t.bookmarks
               /\ DOMAIN t.folders \subseteq DOMAIN u.folders
               /\ DOMAIN u.folders \subseteq DOMAIN t.folders \cup {f}
               /\ \/ u = t /\ (FolderRefused(t, f) \/ (f \in DOMAIN t.folders /\ t.folders[f].at >= ts))
                  \/ FolderPut(t, u, f, ts)
<1>. DEFINE u == UpsertFolder(t, f, ts)
            row == [at |-> ts, live |-> TRUE]
            fs == Put(t.folders, f, row)
            w == [folders |-> fs, bookmarks |-> t.bookmarks]
<1>1. \/ u = t /\ (FolderRefused(t, f) \/ (f \in DOMAIN t.folders /\ t.folders[f].at >= ts))
      \/ u = w /\ (f \in DOMAIN t.folders => ~(t.folders[f].at >= ts))
  BY DEF UpsertFolder, Tables
<1>2. row \in Folder
  BY DEF Folder
<1>3. /\ DOMAIN fs = DOMAIN t.folders \cup {f} /\ fs[f] = row
      /\ \A g \in DOMAIN t.folders \ {f} : fs[g] = t.folders[g]
      /\ fs = [i \in DOMAIN fs |-> fs[i]]
  BY DEF Put
<1>. HIDE DEF fs, u
<1>4. fs \in [DOMAIN fs -> Folder] /\ DOMAIN fs \subseteq FolderIds
  BY <1>2, <1>3 DEF Tables
<1>5. Tables(w) /\ w.folders = fs /\ w.bookmarks = t.bookmarks
  BY <1>4 DEF Tables
<1>. HIDE DEF w
<1>6. f \in DOMAIN t.folders => t.folders[f].at \in Nat
  BY DEF Tables, Folder
<1>7. CASE u = t /\ (FolderRefused(t, f) \/ (f \in DOMAIN t.folders /\ t.folders[f].at >= ts))
  BY <1>7 DEF u
<1>8. CASE u = w /\ (f \in DOMAIN t.folders => ~(t.folders[f].at >= ts))
  <2>1. f \in DOMAIN t.folders => t.folders[f].at < ts
    BY <1>6, <1>8
  <2>2. /\ Tables(u) /\ u.bookmarks = t.bookmarks
        /\ DOMAIN t.folders \subseteq DOMAIN u.folders
        /\ DOMAIN u.folders \subseteq DOMAIN t.folders \cup {f}
        /\ u.folders[f] = row
        /\ f \in DOMAIN u.folders
        /\ \A g \in DOMAIN t.folders \ {f} : u.folders[g] = t.folders[g]
    BY <1>3, <1>5, <1>8
  <2>3. FolderPut(t, u, f, ts)
    BY <2>1, <2>2 DEF FolderPut
  <2>. QED BY <2>2, <2>3 DEF u
<1>. QED BY <1>1, <1>7, <1>8

LEMMA DeleteFolderTyped ==
    ASSUME NEW t, Tables(t), NEW f \in FolderIds, NEW ts \in Nat
    PROVE  LET u == DeleteFolder(t, f, ts)
           IN  /\ Tables(u)
               /\ DOMAIN u.folders = DOMAIN t.folders
               /\ DOMAIN u.bookmarks = DOMAIN t.bookmarks
               /\ \/ u = t /\ (f = DefaultFolder \/ f \notin DOMAIN t.folders \/ t.folders[f].at > ts)
                  \/ FolderDeleted(t, u, f, ts)
<1>. DEFINE u == DeleteFolder(t, f, ts)
            row(b) == IF b \in Rehomed(t, f, ts)
                      THEN [t.bookmarks[b] EXCEPT !.folder = DefaultFolder]
                      ELSE IF b \in LiveIn(t, f)
                      THEN Tombstone(t.bookmarks[b], ts)
                      ELSE t.bookmarks[b]
            dead == Tombstone(t.folders[f], ts)
            fs == [t.folders EXCEPT ![f] = dead]
            bs == [b \in DOMAIN t.bookmarks |-> row(b)]
<1>1. CASE f = DefaultFolder \/ f \notin DOMAIN t.folders \/ t.folders[f].at > ts
  <2>1. u = t
    BY <1>1 DEF DeleteFolder
  <2>. HIDE DEF u
  <2>. QED BY <1>1, <2>1 DEF u
<1>2. CASE ~(f = DefaultFolder \/ f \notin DOMAIN t.folders \/ t.folders[f].at > ts)
  <2>1. u = [folders |-> fs, bookmarks |-> bs]
    BY <1>2 DEF DeleteFolder
  <2>2. t.folders[f] \in Folder
    BY <1>2 DEF Tables
  <2>3. t.folders[f].at \in Nat /\ t.folders[f].at <= ts
    <3>1. t.folders[f].at \in Nat
      BY <2>2 DEF Folder
    <3>. HIDE DEF u
    <3>. QED BY <1>2, <3>1
  <2>4. dead \in Folder /\ dead.at = ts /\ ~dead.live
    <3>. DEFINE r == t.folders[f]
    <3>1. r \in Folder
      BY <2>2
    <3>. HIDE DEF r
    <3>2. Tombstone(r, ts) \in Folder /\ Tombstone(r, ts).at = ts /\ Tombstone(r, ts).live = FALSE
      BY <3>1 DEF Folder, Tombstone
    <3>. QED BY <3>2 DEF r
  <2>. HIDE DEF dead
  <2>5. /\ fs \in [DOMAIN t.folders -> Folder] /\ DOMAIN fs = DOMAIN t.folders
        /\ fs[f] = dead
        /\ \A g \in DOMAIN t.folders \ {f} : fs[g] = t.folders[g]
    BY <1>2, <2>4 DEF Tables
  <2>6. \A b \in DOMAIN t.bookmarks : row(b) \in Bookmark
    BY DefaultAssumption DEF Tables, Bookmark, Tombstone
  <2>. HIDE DEF fs, row
  <2>7. bs \in [DOMAIN t.bookmarks -> Bookmark] /\ \A b \in DOMAIN t.bookmarks : bs[b] = row(b)
    BY <2>6
  <2>. HIDE DEF bs, u
  <2>8. Tables(u) /\ u.folders = fs /\ u.bookmarks = bs
    BY <2>1, <2>5, <2>7 DEF Tables
  <2>9. /\ DOMAIN u.folders = DOMAIN t.folders
        /\ DOMAIN u.bookmarks = DOMAIN t.bookmarks
        /\ f \in DOMAIN t.folders \ {DefaultFolder} /\ t.folders[f].at <= ts
        /\ u.folders[f].at = ts /\ ~u.folders[f].live
        /\ \A g \in DOMAIN t.folders \ {f} : u.folders[g] = t.folders[g]
        /\ \A b \in DOMAIN t.bookmarks : u.bookmarks[b] = row(b)
    BY <1>2, <2>3, <2>4, <2>5, <2>7, <2>8
  <2>10. FolderDeleted(t, u, f, ts)
    BY <2>9 DEF FolderDeleted, row
  <2>. QED BY <2>8, <2>9, <2>10 DEF u
<1>. QED BY <1>1, <1>2

LEMMA UpsertBookmarkTyped ==
    ASSUME NEW t, Tables(t), NEW b \in BookmarkIds, NEW f \in FolderIds,
           NEW v \in Verses, NEW ts \in Nat
    PROVE  LET u == UpsertBookmark(t, b, f, v, ts)
           IN  /\ Tables(u) /\ u.folders = t.folders
               /\ DOMAIN t.bookmarks \subseteq DOMAIN u.bookmarks
               /\ DOMAIN u.bookmarks \subseteq DOMAIN t.bookmarks \cup {b}
               /\ \/ /\ u = t
                     /\ \/ BookmarkRefused(t, b)
                        \/ b \in DOMAIN t.bookmarks /\ t.bookmarks[b].at >= ts
                        \/ \E r \in Rivals(t, b, f, v) : t.bookmarks[r].at > ts
                  \/ BookmarkPut(t, u, b, f, v, ts)
<1>. DEFINE u == UpsertBookmark(t, b, f, v, ts)
            beaten == Rivals(t, b, f, v) \cap LiveBookmarks(t)
            row(i) == IF i \in beaten THEN Tombstone(t.bookmarks[i], ts) ELSE t.bookmarks[i]
            yielded == [i \in DOMAIN t.bookmarks |-> row(i)]
            new == [folder |-> f, verse |-> v, at |-> ts, live |-> TRUE]
            bs  == Put(yielded, b, new)
            w   == [t EXCEPT !.bookmarks = bs]
<1>1. \/ /\ u = t
         /\ \/ BookmarkRefused(t, b)
            \/ b \in DOMAIN t.bookmarks /\ t.bookmarks[b].at >= ts
            \/ \E r \in Rivals(t, b, f, v) : t.bookmarks[r].at > ts
      \/ /\ u = w
         /\ b \in DOMAIN t.bookmarks => ~(t.bookmarks[b].at >= ts)
         /\ \A r \in Rivals(t, b, f, v) : ~(t.bookmarks[r].at > ts)
  BY DEF UpsertBookmark
<1>2. new \in Bookmark /\ \A i \in DOMAIN t.bookmarks : t.bookmarks[i].at \in Nat
  BY DEF Bookmark, Tables
<1>3. \A i \in DOMAIN t.bookmarks : row(i) \in Bookmark
  BY DEF Bookmark, Tombstone, Tables
<1>. HIDE DEF row
<1>4. /\ DOMAIN bs = DOMAIN t.bookmarks \cup {b} /\ bs[b] = new
      /\ \A i \in DOMAIN t.bookmarks \ {b} : bs[i] = row(i)
      /\ bs = [i \in DOMAIN bs |-> bs[i]]
  BY DEF Put
<1>. HIDE DEF bs, new
<1>5. w = [folders |-> t.folders, bookmarks |-> bs]
  BY DEF Tables
<1>6. bs \in [DOMAIN bs -> Bookmark] /\ DOMAIN bs \subseteq BookmarkIds
  BY <1>2, <1>3, <1>4 DEF Tables
<1>. HIDE DEF w, u
<1>7. Tables(w) /\ w.folders = t.folders /\ w.bookmarks = bs
  BY <1>5, <1>6 DEF Tables
<1>8. \A r \in Rivals(t, b, f, v) : r \in DOMAIN t.bookmarks
  BY DEF Rivals
<1>9. CASE /\ u = t
           /\ \/ BookmarkRefused(t, b)
              \/ b \in DOMAIN t.bookmarks /\ t.bookmarks[b].at >= ts
              \/ \E r \in Rivals(t, b, f, v) : t.bookmarks[r].at > ts
  BY <1>9 DEF u
<1>10. CASE /\ u = w
            /\ b \in DOMAIN t.bookmarks => ~(t.bookmarks[b].at >= ts)
            /\ \A r \in Rivals(t, b, f, v) : ~(t.bookmarks[r].at > ts)
  <2>1. /\ b \in DOMAIN t.bookmarks => t.bookmarks[b].at < ts
        /\ \A r \in Rivals(t, b, f, v) : t.bookmarks[r].at <= ts
    BY <1>2, <1>8, <1>10
  <2>2. /\ Tables(u) /\ u.folders = t.folders
        /\ DOMAIN t.bookmarks \subseteq DOMAIN u.bookmarks
        /\ DOMAIN u.bookmarks \subseteq DOMAIN t.bookmarks \cup {b}
        /\ b \in DOMAIN u.bookmarks /\ u.bookmarks[b] = new
        /\ \A i \in DOMAIN t.bookmarks \ {b} : u.bookmarks[i] = row(i)
    BY <1>4, <1>7, <1>10
  <2>3. BookmarkPut(t, u, b, f, v, ts)
    BY <2>1, <2>2 DEF BookmarkPut, new, row
  <2>. QED BY <2>2, <2>3 DEF u
<1>. QED BY <1>1, <1>9, <1>10

LEMMA DeleteBookmarkTyped ==
    ASSUME NEW t, Tables(t), NEW b \in BookmarkIds, NEW ts \in Nat
    PROVE  LET u == DeleteBookmark(t, b, ts)
           IN  /\ Tables(u) /\ u.folders = t.folders
               /\ DOMAIN u.bookmarks = DOMAIN t.bookmarks
               /\ \/ u = t /\ (b \notin DOMAIN t.bookmarks \/ t.bookmarks[b].at > ts)
                  \/ BookmarkDeleted(t, u, b, ts)
<1>. DEFINE u == DeleteBookmark(t, b, ts)
            row == Tombstone(t.bookmarks[b], ts)
            bs == [t.bookmarks EXCEPT ![b] = row]
<1>1. CASE b \notin DOMAIN t.bookmarks \/ t.bookmarks[b].at > ts
  <2>1. u = t
    BY <1>1 DEF DeleteBookmark
  <2>. HIDE DEF u
  <2>. QED BY <1>1, <2>1 DEF u
<1>2. CASE ~(b \notin DOMAIN t.bookmarks \/ t.bookmarks[b].at > ts)
  <2>1. u = [t EXCEPT !.bookmarks[b] = row]
    BY <1>2 DEF DeleteBookmark
  <2>2. t.bookmarks[b] \in Bookmark
    BY <1>2 DEF Tables
  <2>3. row \in Bookmark /\ t.bookmarks[b].at <= ts
    <3>1. t.bookmarks[b].at \in Nat
      BY <2>2 DEF Bookmark
    <3>2. row \in Bookmark
      BY <2>2 DEF Bookmark, Tombstone
    <3>. HIDE DEF row
    <3>. QED BY <1>2, <3>1, <3>2
  <2>. HIDE DEF row
  <2>4. u = [folders |-> t.folders, bookmarks |-> bs]
    BY <2>1 DEF Tables
  <2>5. /\ bs \in [DOMAIN t.bookmarks -> Bookmark] /\ bs[b] = row
        /\ \A i \in DOMAIN t.bookmarks \ {b} : bs[i] = t.bookmarks[i]
    BY <1>2, <2>3 DEF Tables
  <2>. HIDE DEF bs, u
  <2>6. Tables(u) /\ u.folders = t.folders /\ u.bookmarks = bs
    BY <2>4, <2>5 DEF Tables
  <2>7. /\ DOMAIN u.bookmarks = DOMAIN t.bookmarks
        /\ b \in DOMAIN t.bookmarks /\ t.bookmarks[b].at <= ts
        /\ u.bookmarks[b] = row
        /\ \A i \in DOMAIN t.bookmarks \ {b} : u.bookmarks[i] = t.bookmarks[i]
    BY <1>2, <2>3, <2>5, <2>6
  <2>8. BookmarkDeleted(t, u, b, ts)
    BY <2>7 DEF BookmarkDeleted, row
  <2>. QED BY <2>6, <2>7, <2>8 DEF u
<1>. QED BY <1>1, <1>2

LEMMA ApplyTyped ==
    ASSUME NEW t, Tables(t), NEW m \in Mutations, NEW ts \in Nat
    PROVE  LET u == ApplyMutation(t, m, ts)
           IN  /\ Tables(u)
               /\ DOMAIN t.folders \subseteq DOMAIN u.folders
               /\ DOMAIN t.bookmarks \subseteq DOMAIN u.bookmarks
               /\ DOMAIN u.folders \cup DOMAIN u.bookmarks
                     \subseteq DOMAIN t.folders \cup DOMAIN t.bookmarks \cup {m.id}
<1>. DEFINE u == ApplyMutation(t, m, ts)
<1>. DEFINE Grows(x) == /\ Tables(x)
                        /\ DOMAIN t.folders \subseteq DOMAIN x.folders
                        /\ DOMAIN t.bookmarks \subseteq DOMAIN x.bookmarks
                        /\ DOMAIN x.folders \cup DOMAIN x.bookmarks
                             \subseteq DOMAIN t.folders \cup DOMAIN t.bookmarks \cup {m.id}
<1>. SUFFICES Grows(u)
  OBVIOUS
<1>2. CASE m.kind = "folder.upsert"
  <2>1. m.id \in FolderIds /\ u = UpsertFolder(t, m.id, ts)
    BY <1>2 DEF Mutations, ApplyMutation
  <2>3. Grows(UpsertFolder(t, m.id, ts))
    BY <2>1, UpsertFolderTyped
  <2>. QED BY <2>1, <2>3
<1>3. CASE m.kind = "folder.delete"
  <2>1. m.id \in FolderIds /\ u = DeleteFolder(t, m.id, ts)
    BY <1>3 DEF Mutations, ApplyMutation
  <2>3. Grows(DeleteFolder(t, m.id, ts))
    <3>. DEFINE w == DeleteFolder(t, m.id, ts)
    <3>1. Tables(w) /\ DOMAIN w.folders = DOMAIN t.folders /\ DOMAIN w.bookmarks = DOMAIN t.bookmarks
      BY <2>1, DeleteFolderTyped
    <3>. HIDE DEF w
    <3>2. Grows(w)
      BY <3>1
    <3>. QED BY <3>2 DEF w
  <2>. QED BY <2>1, <2>3
<1>4. CASE m.kind = "bookmark.upsert"
  <2>1. /\ m.id \in BookmarkIds /\ m.folder \in FolderIds /\ m.verse \in Verses
        /\ u = UpsertBookmark(t, m.id, ResolveFolder(t, m.folder), m.verse, ts)
    BY <1>4 DEF Mutations, ApplyMutation
  <2>2. ResolveFolder(t, m.folder) \in FolderIds
    BY <2>1, DefaultAssumption DEF ResolveFolder
  <2>3. Grows(UpsertBookmark(t, m.id, ResolveFolder(t, m.folder), m.verse, ts))
    BY <2>1, <2>2, UpsertBookmarkTyped
  <2>. QED BY <2>1, <2>3
<1>5. CASE m.kind = "bookmark.delete"
  <2>1. m.id \in BookmarkIds /\ u = DeleteBookmark(t, m.id, ts)
    BY <1>5 DEF Mutations, ApplyMutation
  <2>3. Grows(DeleteBookmark(t, m.id, ts))
    BY <2>1, DeleteBookmarkTyped
  <2>. QED BY <2>1, <2>3
<1>6. m.kind \in {"folder.upsert", "folder.delete", "bookmark.upsert", "bookmark.delete"}
  BY DEF Mutations
<1>. QED BY <1>2, <1>3, <1>4, <1>5, <1>6

LEMMA ClampedStamp ==
    ASSUME NEW m \in Mutations, NEW limit \in Nat
    PROVE  /\ m.ts \in Nat /\ Clamp(m.ts, limit) \in Nat /\ Clamp(m.ts, limit) <= m.ts
           /\ m.ts <= limit => Clamp(m.ts, limit) = m.ts
<1>1. m.ts \in Nat
  BY StampAssumption DEF Mutations
<1>. QED BY <1>1 DEF Clamp

\* f are the tables of a round, mutation by mutation.
RoundRun(f, d, batch, limit) ==
    /\ \A k \in 0..Len(batch) : Tables(f[k])
    /\ f[0] = EnsureDefault(d) /\ Round(d, batch, limit) = f[Len(batch)]
    /\ \A k \in 1..Len(batch) :
          f[k] = ApplyMutation(f[k - 1], batch[k], Clamp(batch[k].ts, limit))

LEMMA RoundStates ==
    ASSUME NEW d, Tables(d), NEW batch \in Seq(Mutations), NEW limit \in Nat
    PROVE  \E f : RoundRun(f, d, batch, limit)
<1>. DEFINE n == Len(batch)
            a == EnsureDefault(d)
            Applied(x, k) == ApplyMutation(x, batch[k], Clamp(batch[k].ts, limit))
            TablesSet == {[folders |-> fs, bookmarks |-> bs] :
                            fs \in UNION {[D -> Folder] : D \in SUBSET FolderIds},
                            bs \in UNION {[D -> Bookmark] : D \in SUBSET BookmarkIds}}
            Runs(k) == {f \in [0..k -> TablesSet] :
                           f[0] = a /\ \A j \in 1..k : f[j] = Applied(f[j - 1], j)}
            T == {k \in 0..n : Runs(k) = {}}
<1>1. n \in Nat /\ \A k \in 1..n : batch[k] \in Mutations
  OBVIOUS
<1>. HIDE DEF Applied
<1>2. \A x : Tables(x) <=> x \in TablesSet
  <2>1. ASSUME NEW x, Tables(x) PROVE x \in TablesSet
    <3>1. /\ x.folders \in UNION {[D -> Folder] : D \in SUBSET FolderIds}
          /\ x.bookmarks \in UNION {[D -> Bookmark] : D \in SUBSET BookmarkIds}
      BY <2>1 DEF Tables
    <3>2. x = [folders |-> x.folders, bookmarks |-> x.bookmarks]
      BY <2>1 DEF Tables
    <3>. QED BY <3>1, <3>2
  <2>2. ASSUME NEW x \in TablesSet PROVE Tables(x)
    <3>1. PICK fs \in UNION {[D -> Folder] : D \in SUBSET FolderIds},
               bs \in UNION {[D -> Bookmark] : D \in SUBSET BookmarkIds} :
                  x = [folders |-> fs, bookmarks |-> bs]
      OBVIOUS
    <3>2. x.folders = fs /\ x.bookmarks = bs
      BY <3>1
    <3>3. DOMAIN fs \subseteq FolderIds /\ fs \in [DOMAIN fs -> Folder]
      OBVIOUS
    <3>4. DOMAIN bs \subseteq BookmarkIds /\ bs \in [DOMAIN bs -> Bookmark]
      OBVIOUS
    <3>. QED BY <3>1, <3>2, <3>3, <3>4 DEF Tables
  <2>. QED BY <2>1, <2>2
<1>. HIDE DEF TablesSet
<1>3. a \in TablesSet
  BY <1>2, EnsureDefaultTyped
<1>4. \A x \in TablesSet : \A k \in 1..n : Applied(x, k) \in TablesSet
  <2>1. \A k \in 1..n : Clamp(batch[k].ts, limit) \in Nat
    BY <1>1, ClampedStamp
  <2>. QED BY <1>1, <1>2, <2>1, ApplyTyped DEF Applied
<1>. HIDE DEF a, n
<1>5. Runs(0) # {}
  <2>1. [j \in 0..0 |-> a] \in Runs(0)
    BY <1>3
  <2>. QED BY <2>1
<1>6. ASSUME NEW k \in Nat, k + 1 \in 0..n, Runs(k) # {} PROVE Runs(k + 1) # {}
  <2>1. PICK f \in Runs(k) : TRUE
    BY <1>6
  <2>. DEFINE next == Applied(f[k], k + 1)
              g == [j \in 0..(k + 1) |-> IF j = k + 1 THEN next ELSE f[j]]
  <2>2. f \in [0..k -> TablesSet] /\ f[k] \in TablesSet /\ k + 1 \in 1..n
    BY <1>1, <1>6, <2>1 DEF n
  <2>3. next \in TablesSet
    BY <1>4, <2>2
  <2>. HIDE DEF next
  <2>4. g \in [0..(k + 1) -> TablesSet] /\ g[0] = a
    BY <2>1, <2>2, <2>3
  <2>5. ASSUME NEW j \in 1..(k + 1) PROVE g[j] = Applied(g[j - 1], j)
    <3>1. CASE j = k + 1
      <4>1. g[j] = next /\ g[j - 1] = f[k]
        BY <3>1
      <4>. QED BY <3>1, <4>1 DEF next
    <3>2. CASE j # k + 1
      <4>1. j \in 1..k /\ g[j] = f[j] /\ g[j - 1] = f[j - 1]
        BY <3>2
      <4>. QED BY <2>1, <4>1
    <3>. QED BY <3>1, <3>2
  <2>6. g \in Runs(k + 1)
    BY <2>4, <2>5
  <2>. QED BY <2>6
<1>7. Runs(n) # {}
  <2>. HIDE DEF Runs
  <2>. SUFFICES ASSUME T # {} PROVE FALSE
    BY <1>1 DEF n
  <2>1. PICK x \in T : \A y \in T : x <= y
    <3>1. T \subseteq Nat
      OBVIOUS
    <3>. HIDE DEF T
    <3>. QED BY <3>1, LeastNatural
  <2>2. x \in Nat /\ x # 0 /\ x - 1 \in 0..n
    BY <1>1, <1>5, <2>1 DEF n
  <2>3. x - 1 \notin T
    BY <2>1, <2>2
  <2>4. Runs(x - 1) # {}
    BY <2>2, <2>3
  <2>5. Runs((x - 1) + 1) # {}
    BY <1>6, <2>1, <2>2, <2>4
  <2>. QED BY <2>1, <2>2, <2>5
<1>8. PICK f \in [0..n -> TablesSet] :
         f[0] = a /\ \A j \in 1..n : f[j] = Applied(f[j - 1], j)
  BY <1>7
<1>. HIDE DEF Runs, T
<1>. DEFINE step(g) == [k \in 0..n |-> IF k = 0 THEN a ELSE Applied(g[k - 1], k)]
            after == CHOOSE g : g = step(g)
<1>9. f = step(f)
  <2>1. \A k \in 0..n : f[k] = step(f)[k]
    BY <1>1, <1>8 DEF n
  <2>. QED BY <1>8, <2>1
<1>10. after = step(after)
  <2>. HIDE DEF step
  <2>. QED BY <1>9
<1>11. /\ after[0] = a
       /\ \A k \in 1..n : after[k] = Applied(after[k - 1], k)
  <2>. HIDE DEF after
  <2>1. \A k \in 0..n : step(after)[k] = IF k = 0 THEN a ELSE Applied(after[k - 1], k)
    OBVIOUS
  <2>. HIDE DEF step
  <2>. QED BY <1>1, <1>10, <2>1 DEF n
<1>12. after[n] = f[n]
  <2>. HIDE DEF after
  <2>. DEFINE U == {k \in 0..n : after[k] # f[k]}
  <2>. SUFFICES ASSUME U # {} PROVE FALSE
    BY <1>1 DEF n
  <2>1. PICK x \in U : \A y \in U : x <= y
    <3>1. U \subseteq Nat
      OBVIOUS
    <3>. HIDE DEF U
    <3>. QED BY <3>1, LeastNatural
  <2>2. x # 0 /\ x \in 1..n /\ x - 1 \in 0..n
    BY <1>1, <1>8, <1>11, <2>1 DEF n
  <2>3. x - 1 \notin U
    BY <2>1, <2>2
  <2>4. after[x - 1] = f[x - 1]
    BY <2>2, <2>3
  <2>. QED BY <1>8, <1>11, <2>1, <2>2, <2>4
<1>13. Round(d, batch, limit) = after[n]
  BY DEF Round, Applied, a, n
<1>14. \A k \in 0..n : Tables(f[k])
  BY <1>2, <1>8
<1>. HIDE DEF after, step
<1>15. /\ f[0] = a /\ Round(d, batch, limit) = f[n]
       /\ \A k \in 1..n : f[k] = Applied(f[k - 1], k)
  BY <1>8, <1>12, <1>13
<1>. QED BY <1>14, <1>15 DEF RoundRun, Applied, a, n
-----------------------------------------------------------------------------
(* Types. *)

Kept     == {f \in UNION {[D -> Bookmark] : D \in SUBSET BookmarkIds} :
                \A b \in DOMAIN f : f[b].live}
Answers  == [folders : SUBSET FolderIds, bookmarks : Kept]
RowsOf(e) == {Gone} \cup (IF e \in BookmarkIds THEN Bookmark ELSE Folder)
Overlays == {f \in UNION {[D -> UNION {RowsOf(e) : e \in Entities}] : D \in SUBSET Entities} :
                \A e \in DOMAIN f : f[e] \in RowsOf(e)}
Undos    == {f \in Overlays : \A e \in DOMAIN f : f[e].live}
Requests == [at : {"idle", "sent", "answered", "erased"}, batch : Seq(Mutations), answer : Answers]

LEMMA KeptMaps ==
    ASSUME NEW f
    PROVE  f \in Kept <=> /\ DOMAIN f \subseteq BookmarkIds /\ f \in [DOMAIN f -> Bookmark]
                          /\ \A b \in DOMAIN f : f[b].live
BY DEF Kept

LEMMA OverlayMaps ==
    ASSUME NEW f
    PROVE  f \in Overlays <=> /\ DOMAIN f \subseteq Entities
                              /\ f = [e \in DOMAIN f |-> f[e]]
                              /\ \A e \in DOMAIN f : f[e] \in RowsOf(e)
<1>. DEFINE All == UNION {RowsOf(e) : e \in Entities}
<1>1. \A e \in Entities : RowsOf(e) \subseteq All
  OBVIOUS
<1>2. Overlays = {g \in UNION {[D -> All] : D \in SUBSET Entities} :
                     \A e \in DOMAIN g : g[e] \in RowsOf(e)}
  BY DEF Overlays
<1>. HIDE DEF All
<1>3. ASSUME f \in Overlays
      PROVE  DOMAIN f \subseteq Entities /\ f = [e \in DOMAIN f |-> f[e]]
             /\ \A e \in DOMAIN f : f[e] \in RowsOf(e)
  BY <1>2, <1>3
<1>4. ASSUME DOMAIN f \subseteq Entities, f = [e \in DOMAIN f |-> f[e]],
             \A e \in DOMAIN f : f[e] \in RowsOf(e)
      PROVE  f \in Overlays
  <2>1. \A e \in DOMAIN f : f[e] \in All
    BY <1>1, <1>4
  <2>2. f \in [DOMAIN f -> All]
    BY <1>4, <2>1
  <2>. QED BY <1>2, <1>4, <2>2
<1>. QED BY <1>3, <1>4

LEMMA UndoMaps ==
    ASSUME NEW f
    PROVE  f \in Undos <=> /\ DOMAIN f \subseteq Entities
                           /\ f = [e \in DOMAIN f |-> f[e]]
                           /\ \A e \in DOMAIN f : f[e] \in RowsOf(e) /\ f[e].live
BY OverlayMaps DEF Undos

LEMMA LiveRow ==
    ASSUME NEW e \in Entities, NEW r \in RowsOf(e), r.live
    PROVE  r \in IF e \in BookmarkIds THEN Bookmark ELSE Folder
BY DEF RowsOf, Gone

LEMMA NothingTyped == Nothing \in Overlays /\ Nothing \in Undos /\ DOMAIN Nothing = {}
<1>1. DOMAIN Nothing = {} /\ Nothing = [e \in DOMAIN Nothing |-> Nothing[e]]
  BY DEF Nothing
<1>. QED BY <1>1, OverlayMaps, UndoMaps

LEMMA SnapshotTyped ==
    ASSUME NEW d, Tables(d)
    PROVE  /\ Snapshot(d) \in Answers
           /\ Snapshot(d).folders \subseteq DOMAIN d.folders
           /\ DOMAIN Snapshot(d).bookmarks \subseteq DOMAIN d.bookmarks
<1>. DEFINE bs == [b \in LiveBookmarks(d) |-> d.bookmarks[b]]
<1>1. /\ LiveBookmarks(d) \subseteq DOMAIN d.bookmarks /\ LiveFolders(d) \subseteq DOMAIN d.folders
      /\ \A b \in LiveBookmarks(d) : d.bookmarks[b].live /\ d.bookmarks[b] \in Bookmark
  BY DEF LiveBookmarks, LiveFolders, Tables
<1>2. /\ LiveBookmarks(d) \subseteq BookmarkIds /\ LiveFolders(d) \subseteq FolderIds
  BY <1>1 DEF Tables
<1>3. DOMAIN bs = LiveBookmarks(d) /\ bs \in [LiveBookmarks(d) -> Bookmark]
      /\ \A b \in LiveBookmarks(d) : bs[b].live
  BY <1>1
<1>4. Snapshot(d) = [folders |-> LiveFolders(d), bookmarks |-> bs]
  BY DEF Snapshot
<1>. HIDE DEF bs
<1>5. bs \in Kept
  BY <1>2, <1>3, KeptMaps
<1>. QED BY <1>1, <1>2, <1>3, <1>4, <1>5 DEF Answers

LEMMA NoRoundTyped ==
    NoRound \in Requests /\ NoRound.at = "idle" /\ NoRound.batch = <<>> /\ NoSnapshot \in Answers
<1>1. DOMAIN Nothing = {} /\ Nothing \in [{} -> Bookmark]
  BY DEF Nothing
<1>2. Nothing \in Kept
  BY <1>1, KeptMaps
<1>3. NoSnapshot \in Answers
  BY <1>2 DEF NoSnapshot, Answers
<1>. QED BY <1>3 DEF NoRound, Requests

Data == /\ Tables(db)
        /\ issued \in SUBSET Mutations
        /\ outbox \in Seq(issued)
        /\ strays \subseteq Seq(issued)
        /\ cache \in Answers
        /\ clock \in Nat
        /\ unannounced \subseteq issued

TabData == /\ snapshot \in [Tabs -> Answers]
           /\ overlay \in [Tabs -> Overlays]
           /\ undo \in [Tabs -> Undos]
           /\ mine \in [Tabs -> SUBSET issued]
           /\ notices \in [Tabs -> SUBSET issued]
           /\ round \in [Tabs -> Requests]
           /\ \A t \in Tabs : round[t].batch \in Seq(issued)
           /\ hidden \in [Tabs -> SUBSET BookmarkIds]

\* For an overlay that hides no bookmark with its folder the tab remembers the mutation,
\* which is queued, on its way out of the queue, reported as drained, or drained in a tab
\* that could not report it.
Backed(t, e) == e \in hidden[t] \/ \E m \in mine[t] : m.id = e

Awaited(t, m) == \/ m \in ToSet(outbox) \cup notices[t] \cup unannounced
                 \/ \E u \in Tabs : m \in Erasing(u)

Remembered == \A t \in Tabs : /\ \A m \in mine[t] : Awaited(t, m)
                              /\ \A e \in DOMAIN overlay[t] : Backed(t, e)

TypeInv == Data /\ TabData /\ Remembered

LEMMA InitTypeInv == Init => TypeInv
<1>. SUFFICES ASSUME Init PROVE TypeInv
  OBVIOUS
<1>1. Tables(db) /\ db = [NoTables EXCEPT !.folders = [f \in OldFolders |-> [at |-> 0, live |-> TRUE]]]
  BY NoTablesTyped DEF Init
<1>2. Snapshot(db) \in Answers
  BY <1>1, SnapshotTyped
<1>3. Data
  <2>1. /\ issued = {} /\ outbox = <<>> /\ strays = {} /\ clock = 0 /\ unannounced = {}
        /\ cache = Snapshot(db)
    BY DEF Init
  <2>. QED BY <1>1, <1>2, <2>1 DEF Data
<1>4. TabData
  <2>1. /\ snapshot \in [Tabs -> Answers] /\ overlay \in [Tabs -> Overlays]
        /\ undo \in [Tabs -> Undos]
    BY <1>2, NothingTyped DEF Init
  <2>5. hidden \in [Tabs -> SUBSET BookmarkIds]
    BY DEF Init
  <2>2. mine \in [Tabs -> SUBSET issued] /\ notices \in [Tabs -> SUBSET issued]
    BY DEF Init
  <2>3. round \in [Tabs -> Requests] /\ \A t \in Tabs : round[t].batch = <<>>
    BY NoRoundTyped DEF Init
  <2>4. <<>> \in Seq(issued)
    OBVIOUS
  <2>. QED BY <2>1, <2>2, <2>3, <2>4, <2>5 DEF TabData
<1>5. Remembered
  BY NothingTyped DEF Init, Remembered
<1>. QED BY <1>3, <1>4, <1>5 DEF TypeInv

\* A bookmark a tab presents has a live row.
LEMMA PresentRow ==
    ASSUME TypeInv, NEW t \in Tabs, NEW b \in Present(t)
    PROVE  b \in BookmarkIds /\ Row(t, b) \in Bookmark /\ Row(t, b).live
<1>1. /\ b \in BookmarkIds /\ Row(t, b).live
      /\ b \in DOMAIN overlay[t] \cup DOMAIN snapshot[t].bookmarks
  BY DEF Present
<1>2. overlay[t] \in Overlays /\ snapshot[t] \in Answers
  BY DEF TypeInv, TabData
<1>3. CASE b \in DOMAIN overlay[t]
  <2>1. Row(t, b) = overlay[t][b] /\ overlay[t][b] \in RowsOf(b)
    BY <1>2, <1>3, OverlayMaps DEF Row
  <2>. QED BY <1>1, <2>1, LiveRow DEF Entities
<1>4. CASE b \notin DOMAIN overlay[t]
  <2>1. Row(t, b) = snapshot[t].bookmarks[b] /\ b \in DOMAIN snapshot[t].bookmarks
    BY <1>1, <1>4 DEF Row
  <2>2. snapshot[t].bookmarks \in Kept
    BY <1>2 DEF Answers
  <2>. QED BY <1>1, <2>1, <2>2, KeptMaps
<1>. QED BY <1>3, <1>4

\* The folder a tab shows is one of the account.
LEMMA ShownFolder ==
    ASSUME TypeInv, NEW t \in Tabs
    PROVE  Folders(t) \subseteq FolderIds
<1>1. snapshot[t].folders \subseteq FolderIds
  BY DEF TypeInv, TabData, Answers
<1>. QED BY <1>1, DefaultAssumption DEF Folders
-----------------------------------------------------------------------------
(* Edits. *)

Upserts == {"folder.upsert", "bookmark.upsert"}

\* What a tab shows as live, the default folder aside.
Standing(t) == (Folders(t) \ {DefaultFolder}) \cup Present(t)

\* The mutations of an edit speak for the rows it lays.
Sensible(t, changes, ms, removed) ==
    /\ changes \in Overlays /\ removed \in Undos
    /\ ms \in Seq(Mutations)
    /\ \A m \in ToSet(ms) : m.ts = Stamp
    /\ \A m \in ToSet(ms) : m.kind \in Upserts \/ m.id \in Standing(t)
    /\ \A e \in DOMAIN changes :
          \/ changes[e] = Gone /\ e \in BookmarkIds
          \/ \E m \in ToSet(ms) : m.id = e
    /\ \A e \in DOMAIN changes :
          \/ changes[e] = Gone /\ e # DefaultFolder
          \/ \E m \in ToSet(ms) : m.id = e /\ m.kind \in Upserts

Edits(t) == \E changes, ms, removed : Sensible(t, changes, ms, removed)
                                        /\ Edit(t, changes, ms, removed)

LEMMA IdKinds ==
    /\ Entities = BookmarkIds \cup FolderIds
    /\ \A e \in FolderIds : e \notin BookmarkIds
    /\ DefaultFolder \in FolderIds /\ DefaultFolder \notin BookmarkIds
BY StoreAssumption, DefaultAssumption DEF Entities

LEMMA PutRowsEdits ==
    ASSUME TypeInv, NEW t \in Tabs, NEW rows \in Undos, PutRows(t, rows)
    PROVE  Edits(t)
<1>. DEFINE order == SetToSeq(DOMAIN rows \cap FolderIds)
                       \o SetToSeq(DOMAIN rows \cap BookmarkIds)
            changes == [e \in DOMAIN rows |-> [rows[e] EXCEPT !.at = Stamp]]
            ms == [i \in DOMAIN order |-> Upsert(order[i], rows[order[i]])]
<1>1. Edit(t, changes, ms, Nothing)
  BY DEF PutRows
<1>2. Stamp \in Clocks /\ Stamp \in Nat
  BY <1>1, StampAssumption DEF Edit
<1>3. /\ DOMAIN rows \subseteq Entities
      /\ \A e \in DOMAIN rows : rows[e] \in RowsOf(e) /\ rows[e].live
  BY UndoMaps
<1>4. /\ \A e \in DOMAIN rows \cap BookmarkIds : rows[e] \in Bookmark
      /\ \A e \in DOMAIN rows \cap FolderIds : rows[e] \in Folder
  BY <1>3, LiveRow, IdKinds
<1>5. order \in Seq(DOMAIN rows) /\ ToSet(order) = DOMAIN rows
  <2>. DEFINE A == DOMAIN rows \cap FolderIds
              B == DOMAIN rows \cap BookmarkIds
              p == SetToSeq(A)
              q == SetToSeq(B)
  <2>1. IsFiniteSet(A) /\ IsFiniteSet(B)
    BY StoreAssumption, FS_Subset
  <2>2. p \in Seq(A) /\ ToSet(p) = A /\ q \in Seq(B) /\ ToSet(q) = B
    BY <2>1, InOrder
  <2>3. A \cup B = DOMAIN rows
    BY <1>3, IdKinds
  <2>. HIDE DEF A, B, p, q
  <2>4. p \in Seq(DOMAIN rows) /\ q \in Seq(DOMAIN rows)
    BY <2>2, <2>3
  <2>5. /\ p \o q \in Seq(DOMAIN rows)
        /\ \A x \in ToSet(p) \cup ToSet(q) : x \in ToSet(p \o q)
    <3>1. p \o q \in Seq(DOMAIN rows)
      BY <2>4
    <3>2. \A k \in DOMAIN p : k \in DOMAIN (p \o q) /\ (p \o q)[k] = p[k]
      BY <2>4
    <3>3. \A k \in DOMAIN q : Len(p) + k \in DOMAIN (p \o q) /\ (p \o q)[Len(p) + k] = q[k]
      BY <2>4
    <3>. QED BY <3>1, <3>2, <3>3 DEF ToSet
  <2>6. ToSet(p \o q) \subseteq DOMAIN rows
    BY <2>5 DEF ToSet
  <2>. QED BY <2>2, <2>3, <2>5, <2>6 DEF p, q, A, B
<1>. HIDE DEF order
<1>6. \A e \in DOMAIN rows : /\ [rows[e] EXCEPT !.at = Stamp] \in RowsOf(e)
                             /\ [rows[e] EXCEPT !.at = Stamp].live
  <2>. SUFFICES ASSUME NEW e \in DOMAIN rows
                PROVE  [rows[e] EXCEPT !.at = Stamp] \in RowsOf(e) /\ [rows[e] EXCEPT !.at = Stamp].live
    OBVIOUS
  <2>. DEFINE r == rows[e]
              s == Stamp
  <2>1. CASE e \in BookmarkIds
    <3>1. r \in Bookmark /\ r.live /\ s \in Nat
      BY <1>2, <1>3, <1>4, <2>1
    <3>. HIDE DEF r, s
    <3>2. [r EXCEPT !.at = s] \in Bookmark /\ [r EXCEPT !.at = s].live
      BY <3>1 DEF Bookmark
    <3>. QED BY <2>1, <3>2 DEF r, s, RowsOf
  <2>2. CASE e \notin BookmarkIds
    <3>1. r \in Folder /\ r.live /\ s \in Nat
      BY <1>2, <1>3, <1>4, <2>2, IdKinds
    <3>. HIDE DEF r, s
    <3>2. [r EXCEPT !.at = s] \in Folder /\ [r EXCEPT !.at = s].live
      BY <3>1 DEF Folder
    <3>. QED BY <2>2, <3>2 DEF r, s, RowsOf
  <2>. QED BY <2>1, <2>2
<1>7. /\ DOMAIN changes = DOMAIN rows
      /\ changes \in Overlays
      /\ \A e \in DOMAIN changes : changes[e].live
  <2>1. /\ DOMAIN changes = DOMAIN rows
        /\ \A e \in DOMAIN changes : changes[e] \in RowsOf(e) /\ changes[e].live
    BY <1>6
  <2>2. changes = [e \in DOMAIN changes |-> changes[e]]
    OBVIOUS
  <2>. HIDE DEF changes
  <2>. QED BY <1>3, <2>1, <2>2, OverlayMaps
<1>8. \A e \in DOMAIN rows : LET m == Upsert(e, rows[e])
                             IN  /\ m \in Mutations /\ m.id = e /\ m.ts = Stamp
                                 /\ m.kind \in Upserts
  <2>. SUFFICES ASSUME NEW e \in DOMAIN rows
                PROVE  LET m == Upsert(e, rows[e])
                       IN  /\ m \in Mutations /\ m.id = e /\ m.ts = Stamp
                           /\ m.kind \in Upserts
    OBVIOUS
  <2>1. CASE e \in FolderIds
    BY <1>2, <2>1 DEF Upsert, Mutations, Upserts
  <2>2. CASE e \notin FolderIds
    <3>1. e \in BookmarkIds /\ rows[e].folder \in FolderIds /\ rows[e].verse \in Verses
      BY <1>3, <1>4, <2>2, IdKinds DEF Bookmark
    <3>. QED BY <1>2, <2>2, <3>1 DEF Upsert, Mutations, Upserts
  <2>. QED BY <2>1, <2>2
<1>9. /\ ms \in Seq(Mutations)
      /\ \A m \in ToSet(ms) : m.ts = Stamp /\ m.kind \in Upserts
      /\ \A e \in DOMAIN rows : \E m \in ToSet(ms) : m.id = e /\ m.kind \in Upserts
  <2>1. /\ \A i \in DOMAIN order : order[i] \in DOMAIN rows
        /\ \A e \in DOMAIN rows : \E i \in DOMAIN order : order[i] = e
        /\ DOMAIN order = 1..Len(order) /\ Len(order) \in Nat
    BY <1>5 DEF ToSet
  <2>2. \A i \in DOMAIN order : /\ ms[i] \in Mutations /\ ms[i].ts = Stamp
                                /\ ms[i].kind \in Upserts /\ ms[i].id = order[i]
    BY <1>8, <2>1
  <2>3. DOMAIN ms = 1..Len(order) /\ ms = [i \in 1..Len(order) |-> ms[i]]
    BY <2>1
  <2>. HIDE DEF ms
  <2>4. ms \in Seq(Mutations)
    BY <2>1, <2>2, <2>3
  <2>. QED BY <2>1, <2>2, <2>3, <2>4 DEF ToSet
<1>. HIDE DEF changes, ms
<1>10. Sensible(t, changes, ms, Nothing)
  BY <1>7, <1>9, NothingTyped DEF Sensible
<1>. QED BY <1>1, <1>10 DEF Edits

LEMMA DropRowsEdits ==
    ASSUME TypeInv, NEW t \in Tabs, NEW bs, bs \subseteq Present(t), NEW removed \in Undos,
           DropRows(t, bs, removed)
    PROVE  Edits(t)
<1>. DEFINE order == SetToSeq(bs)
            changes == [b \in bs |-> Gone]
            ms == [i \in DOMAIN order |->
                     [kind |-> "bookmark.delete", id |-> order[i], ts |-> Stamp]]
<1>1. Edit(t, changes, ms, removed)
  BY DEF DropRows
<1>2. Stamp \in Clocks
  BY <1>1 DEF Edit
<1>3. bs \subseteq BookmarkIds /\ IsFiniteSet(bs)
  BY PresentRow, StoreAssumption, FS_Subset
<1>4. order \in Seq(bs) /\ ToSet(order) = bs
  BY <1>3, InOrder
<1>. HIDE DEF order
<1>5. /\ changes \in Overlays /\ DOMAIN changes = bs
      /\ \A e \in bs : changes[e] = Gone /\ e \in BookmarkIds /\ e # DefaultFolder
  <2>1. /\ DOMAIN changes = bs /\ bs \subseteq Entities
        /\ \A e \in bs : changes[e] \in RowsOf(e)
    BY <1>3, IdKinds DEF RowsOf
  <2>2. changes = [e \in DOMAIN changes |-> changes[e]] /\ \A e \in bs : changes[e] = Gone
    OBVIOUS
  <2>. HIDE DEF changes
  <2>. QED BY <1>3, <2>1, <2>2, OverlayMaps, IdKinds
<1>6. /\ ms \in Seq(Mutations)
      /\ \A m \in ToSet(ms) : m.ts = Stamp /\ m.id \in bs
      /\ \A e \in bs : \E m \in ToSet(ms) : m.id = e
  <2>1. /\ \A i \in DOMAIN order : order[i] \in bs
        /\ \A e \in bs : \E i \in DOMAIN order : order[i] = e
        /\ DOMAIN order = 1..Len(order) /\ Len(order) \in Nat
    BY <1>4 DEF ToSet
  <2>2. \A i \in DOMAIN order : /\ ms[i] \in Mutations /\ ms[i].ts = Stamp
                                /\ ms[i].id = order[i]
    BY <1>2, <1>3, <2>1 DEF Mutations
  <2>3. DOMAIN ms = 1..Len(order) /\ ms = [i \in 1..Len(order) |-> ms[i]]
    BY <2>1
  <2>. HIDE DEF ms
  <2>4. ms \in Seq(Mutations)
    BY <2>1, <2>2, <2>3
  <2>. QED BY <2>1, <2>2, <2>3, <2>4 DEF ToSet
<1>. HIDE DEF changes, ms
<1>7. Sensible(t, changes, ms, removed)
  BY <1>5, <1>6 DEF Sensible, Standing
<1>. QED BY <1>1, <1>7 DEF Edits

LEMMA ShownPresent ==
    ASSUME NEW t, NEW f
    PROVE  Shown(t) \subseteq Present(t) /\ ShownIn(t, f) \subseteq Present(t)
BY DEF Shown, ShownIn

\* What an undo would lay again.
LEMMA RowsTaken ==
    ASSUME TypeInv, NEW t \in Tabs, NEW bs, bs \subseteq Present(t)
    PROVE  [b \in bs |-> Row(t, b)] \in Undos
<1>. DEFINE g == [b \in bs |-> Row(t, b)]
<1>1. \A b \in bs : b \in BookmarkIds /\ Row(t, b) \in Bookmark /\ Row(t, b).live
  BY PresentRow
<1>2. g = [e \in DOMAIN g |-> g[e]] /\ DOMAIN g = bs /\ \A b \in bs : g[b] = Row(t, b)
  OBVIOUS
<1>. HIDE DEF g
<1>3. g \in Undos
  BY <1>1, <1>2, UndoMaps, IdKinds DEF RowsOf
<1>. QED BY <1>3 DEF g

LEMMA SaveEdits ==
    ASSUME TypeInv, NEW t \in Tabs, NEW b \in BookmarkIds, NEW f \in FolderIds, NEW v \in Verses,
           Save(t, b, f, v)
    PROVE  Edits(t)
<1>. DEFINE r == [folder |-> f, verse |-> v, at |-> 0, live |-> TRUE]
            rows == [e \in {b} |-> r]
<1>1. PutRows(t, rows)
  BY DEF Save
<1>2. r \in Bookmark /\ r.live
  BY DEF Bookmark
<1>. HIDE DEF r
<1>3. rows = [e \in DOMAIN rows |-> rows[e]] /\ DOMAIN rows = {b} /\ rows[b] = r
  OBVIOUS
<1>. HIDE DEF rows
<1>4. rows \in Undos
  BY <1>2, <1>3, UndoMaps, IdKinds DEF RowsOf
<1>. QED BY <1>1, <1>4, PutRowsEdits

LEMMA UnsaveEdits ==
    ASSUME TypeInv, NEW t \in Tabs, NEW bs \in SUBSET BookmarkIds, Unsave(t, bs)
    PROVE  Edits(t)
<1>1. bs \subseteq Shown(t)
  BY DEF Unsave
<1>2. bs \subseteq Present(t)
  BY <1>1, ShownPresent
<1>3. DropRows(t, bs, [b \in bs |-> Row(t, b)])
  BY DEF Unsave
<1>4. [b \in bs |-> Row(t, b)] \in Undos
  BY <1>2, RowsTaken
<1>. QED BY <1>2, <1>3, <1>4, DropRowsEdits

LEMMA MoveEdits ==
    ASSUME TypeInv, NEW t \in Tabs, NEW b \in BookmarkIds, NEW f \in FolderIds, Move(t, b, f)
    PROVE  Edits(t)
<1>1. b \in Present(t)
  BY ShownPresent DEF Move
<1>2. Row(t, b) \in Bookmark /\ Row(t, b).live
  BY <1>1, PresentRow
<1>3. CASE DropRows(t, {b}, Nothing)
  BY <1>1, <1>3, DropRowsEdits, NothingTyped
<1>4. CASE PutRows(t, [e \in {b} |-> [Row(t, e) EXCEPT !.folder = f]])
  <2>. DEFINE x == Row(t, b)
              r == [x EXCEPT !.folder = f]
              rows == [e \in {b} |-> [Row(t, e) EXCEPT !.folder = f]]
  <2>1. r \in Bookmark /\ r.live
    <3>1. x \in Bookmark /\ x.live
      BY <1>2
    <3>. HIDE DEF x
    <3>. QED BY <3>1 DEF Bookmark
  <2>2. rows = [e \in DOMAIN rows |-> rows[e]] /\ DOMAIN rows = {b} /\ rows[b] = r
    OBVIOUS
  <2>. HIDE DEF rows, r
  <2>3. rows \in Undos
    BY <2>1, <2>2, UndoMaps, IdKinds DEF RowsOf
  <2>4. PutRows(t, rows)
    BY <1>4 DEF rows
  <2>. QED BY <2>3, <2>4, PutRowsEdits
<1>. QED BY <1>3, <1>4 DEF Move

LEMMA PutFolderEdits ==
    ASSUME TypeInv, NEW t \in Tabs, NEW f \in FolderIds, PutFolder(t, f)
    PROVE  Edits(t)
<1>. DEFINE r == [at |-> 0, live |-> TRUE]
            rows == [e \in {f} |-> r]
<1>1. PutRows(t, rows)
  BY DEF PutFolder
<1>2. r \in Folder /\ r.live
  BY DEF Folder
<1>. HIDE DEF r
<1>3. rows = [e \in DOMAIN rows |-> rows[e]] /\ DOMAIN rows = {f} /\ rows[f] = r
  OBVIOUS
<1>. HIDE DEF rows
<1>4. rows \in Undos
  BY <1>2, <1>3, UndoMaps, IdKinds DEF RowsOf
<1>. QED BY <1>1, <1>4, PutRowsEdits

LEMMA RemoveFolderEdits ==
    ASSUME TypeInv, NEW t \in Tabs, NEW f \in FolderIds, RemoveFolder(t, f)
    PROVE  Edits(t)
<1>. DEFINE taken == {f} \cup ShownIn(t, f)
            r == [at |-> 0, live |-> TRUE]
            m == [kind |-> "folder.delete", id |-> f, ts |-> Stamp]
            ms == <<m>>
            changes == [e \in taken |-> Gone]
            removed == [e \in taken |-> IF e = f THEN r ELSE Row(t, e)]
<1>1. Edit(t, changes, ms, removed) /\ f \in Folders(t) \ {DefaultFolder}
  BY DEF RemoveFolder
<1>2. Stamp \in Clocks
  BY <1>1 DEF Edit
<1>3. /\ taken \subseteq Entities
      /\ \A e \in taken : e # DefaultFolder
      /\ \A e \in taken \ {f} : e \in BookmarkIds /\ Row(t, e) \in Bookmark /\ Row(t, e).live
  BY <1>1, ShownPresent, PresentRow, IdKinds
<1>4. r \in Folder /\ r.live
  BY DEF Folder
<1>5. m \in Mutations /\ m.id = f /\ m.ts = Stamp
  BY <1>2 DEF Mutations
<1>. HIDE DEF taken, r, m
<1>6. /\ changes \in Overlays /\ DOMAIN changes = taken
      /\ \A e \in taken : changes[e] = Gone
  <2>1. changes = [e \in DOMAIN changes |-> changes[e]] /\ DOMAIN changes = taken
        /\ \A e \in taken : changes[e] = Gone
    OBVIOUS
  <2>2. \A e \in taken : Gone \in RowsOf(e)
    BY DEF RowsOf
  <2>. HIDE DEF changes
  <2>. QED BY <1>3, <2>1, <2>2, OverlayMaps
<1>7. removed \in Undos
  <2>1. removed = [e \in DOMAIN removed |-> removed[e]] /\ DOMAIN removed = taken
        /\ \A e \in taken : removed[e] = IF e = f THEN r ELSE Row(t, e)
    OBVIOUS
  <2>. HIDE DEF removed
  <2>2. \A e \in taken : removed[e] \in RowsOf(e) /\ removed[e].live
    BY <1>3, <1>4, <2>1, IdKinds DEF RowsOf
  <2>. QED BY <1>3, <2>1, <2>2, UndoMaps
<1>8. ms \in Seq(Mutations) /\ ToSet(ms) = {m}
  BY <1>5 DEF ToSet
<1>9. f \in taken
  BY DEF taken
<1>. HIDE DEF changes, removed, ms
<1>10. Sensible(t, changes, ms, removed)
  <2>1. f \in Standing(t)
    BY <1>1 DEF Standing
  <2>2. \A e \in taken : e = f \/ e \in BookmarkIds
    BY <1>3
  <2>. QED BY <1>3, <1>5, <1>6, <1>7, <1>8, <2>1, <2>2 DEF Sensible
<1>. QED BY <1>1, <1>10 DEF Edits

\* A tap edits.
LEMMA TapEdits ==
    ASSUME TypeInv, NEW t \in Tabs, Tap(t)
    PROVE  Edits(t)
<1>1. CASE Undo(t)
  <2>1. undo[t] \in Undos /\ PutRows(t, undo[t])
    BY <1>1 DEF TypeInv, TabData, Undo
  <2>. QED BY <2>1, PutRowsEdits
<1>. QED BY <1>1, SaveEdits, UnsaveEdits, MoveEdits, PutFolderEdits, RemoveFolderEdits DEF Tap

-----------------------------------------------------------------------------
(* Types are kept. *)

LEMMA SeqGrows ==
    ASSUME NEW S, NEW T, S \subseteq T, NEW q \in Seq(S)
    PROVE  q \in Seq(T)
OBVIOUS

LEMMA JoinedSeq ==
    ASSUME NEW S, NEW p \in Seq(S), NEW q \in Seq(S)
    PROVE  p \o q \in Seq(S) /\ ToSet(p \o q) = ToSet(p) \cup ToSet(q)
<1>1. p \o q \in Seq(S)
  OBVIOUS
<1>2. \A k \in DOMAIN p : k \in DOMAIN (p \o q) /\ (p \o q)[k] = p[k]
  OBVIOUS
<1>3. \A k \in DOMAIN q : Len(p) + k \in DOMAIN (p \o q) /\ (p \o q)[Len(p) + k] = q[k]
  OBVIOUS
<1>4. \A k \in DOMAIN (p \o q) : \/ k \in DOMAIN p
                                 \/ k - Len(p) \in DOMAIN q /\ (p \o q)[k] = q[k - Len(p)]
  OBVIOUS
<1>. DEFINE r == p \o q
<1>. HIDE DEF r
<1>5. ToSet(p) \subseteq ToSet(r) /\ ToSet(q) \subseteq ToSet(r)
  BY <1>2, <1>3 DEF ToSet, r
<1>6. ToSet(r) \subseteq ToSet(p) \cup ToSet(q)
  <2>1. \A k \in DOMAIN p : r[k] = p[k]
    BY <1>2 DEF r
  <2>. QED BY <1>4, <2>1 DEF ToSet, r
<1>. QED BY <1>1, <1>5, <1>6 DEF r

LEMMA SeqElements ==
    ASSUME NEW S, NEW q \in Seq(S)
    PROVE  ToSet(q) \subseteq S /\ q \in Seq(ToSet(q))
BY DEF ToSet

\* The rows u are c over o.
Covers(u, c, o) == /\ u \in Overlays /\ DOMAIN u = DOMAIN c \cup DOMAIN o
                   /\ \A e \in DOMAIN u : u[e] = IF e \in DOMAIN c THEN c[e] ELSE o[e]

LEMMA LaidTyped ==
    ASSUME NEW c \in Overlays, NEW o \in Overlays
    PROVE  Covers(Laid(c, o), c, o)
<1>. DEFINE u == Laid(c, o)
<1>1. /\ u = [e \in DOMAIN u |-> u[e]] /\ DOMAIN u = DOMAIN c \cup DOMAIN o
      /\ \A e \in DOMAIN u : u[e] = IF e \in DOMAIN c THEN c[e] ELSE o[e]
  BY DEF Laid
<1>. HIDE DEF u
<1>2. u \in Overlays
  BY <1>1, OverlayMaps
<1>. QED BY <1>1, <1>2 DEF u, Covers

LEMMA WithoutTyped ==
    ASSUME NEW o \in Overlays, NEW es
    PROVE  /\ Without(o, es) \in Overlays /\ DOMAIN Without(o, es) = DOMAIN o \ es
           /\ \A e \in DOMAIN Without(o, es) : Without(o, es)[e] = o[e]
<1>. DEFINE u == Without(o, es)
<1>1. /\ u = [e \in DOMAIN u |-> u[e]] /\ DOMAIN u = DOMAIN o \ es
      /\ \A e \in DOMAIN u : u[e] = o[e]
  BY DEF Without, Restrict
<1>. HIDE DEF u
<1>2. u \in Overlays
  BY <1>1, OverlayMaps
<1>. QED BY <1>1, <1>2 DEF u

LEMMA AwaitedStays ==
    ASSUME NEW t \in Tabs, NEW m, Awaited(t, m),
           ToSet(outbox) \subseteq ToSet(outbox)', unannounced \subseteq unannounced',
           notices[t] \subseteq notices'[t], \A u \in Tabs : Erasing(u) \subseteq Erasing(u)'
    PROVE  Awaited(t, m)'
BY DEF Awaited

LEMMA RememberedStays ==
    ASSUME Remembered, UNCHANGED <<mine, hidden>>,
           ToSet(outbox) \subseteq ToSet(outbox)', unannounced \subseteq unannounced',
           \A t \in Tabs : /\ notices[t] \subseteq notices'[t] /\ Erasing(t) \subseteq Erasing(t)'
                          /\ DOMAIN overlay'[t] \subseteq DOMAIN overlay[t]
    PROVE  Remembered'
<1>1. ASSUME NEW t \in Tabs, NEW m \in mine'[t] PROVE Awaited(t, m)'
  <2>1. Awaited(t, m)
    BY <1>1 DEF Remembered
  <2>. QED BY <2>1, AwaitedStays
<1>2. ASSUME NEW t \in Tabs, NEW e \in DOMAIN overlay'[t] PROVE Backed(t, e)'
  <2>1. Backed(t, e)
    BY <1>2 DEF Remembered
  <2>. QED BY <2>1 DEF Backed
<1>. QED BY <1>1, <1>2 DEF Remembered

LEMMA EditsKeep ==
    ASSUME TypeInv, NEW t \in Tabs, Edits(t)
    PROVE  TypeInv'
<1>1. PICK changes, ms, removed : Sensible(t, changes, ms, removed)
                                    /\ Edit(t, changes, ms, removed)
  BY DEF Edits
<1>2. /\ changes \in Overlays /\ removed \in Undos /\ ms \in Seq(Mutations)
      /\ \A e \in DOMAIN changes : \/ changes[e] = Gone /\ e \in BookmarkIds
                                   \/ \E m \in ToSet(ms) : m.id = e
  BY <1>1 DEF Sensible
<1>3. ToSet(ms) \subseteq Mutations /\ ms \in Seq(ToSet(ms))
  BY <1>2, SeqElements
<1>4. /\ Stamp \in Clocks /\ clock' = Stamp
      /\ overlay' = [overlay EXCEPT ![t] = Laid(changes, @)]
      /\ outbox' = outbox \o ms
      /\ mine' = [mine EXCEPT ![t] = @ \cup ToSet(ms)]
      /\ issued' = issued \cup ToSet(ms)
      /\ undo' = IF Stamp + 1 \in Clocks THEN [undo EXCEPT ![t] = removed]
                                         ELSE [u \in Tabs |-> Nothing]
      /\ hidden' = [hidden EXCEPT ![t] = (@ \cup DOMAIN changes) \ IdsOf(ToSet(ms))]
  BY <1>1 DEF Edit
<1>5. UNCHANGED <<db, cache, snapshot, round, notices, strays, unannounced>>
  BY <1>1 DEF Edit
<1>6. Data /\ TabData /\ Remembered
  BY DEF TypeInv
<1>7. issued' \in SUBSET Mutations /\ issued \subseteq issued' /\ ToSet(ms) \subseteq issued'
  BY <1>3, <1>4, <1>6 DEF Data
<1>8. outbox \in Seq(issued') /\ ms \in Seq(issued')
  BY <1>3, <1>6, <1>7, SeqGrows DEF Data
<1>9. outbox' \in Seq(issued') /\ ToSet(outbox') = ToSet(outbox) \cup ToSet(ms)
  BY <1>4, <1>8, JoinedSeq
<1>10. strays' \subseteq Seq(issued')
  BY <1>5, <1>6, <1>7, SeqGrows DEF Data
<1>11. Data'
  <2>1. clock' \in Nat
    BY <1>4, StampAssumption
  <2>2. Tables(db') /\ cache' \in Answers
    BY <1>5, <1>6 DEF Data
  <2>3. unannounced' \subseteq issued'
    BY <1>5, <1>6, <1>7 DEF Data
  <2>. QED BY <1>7, <1>9, <1>10, <2>1, <2>2, <2>3 DEF Data
<1>12. overlay[t] \in Overlays
  BY <1>6 DEF TabData
<1>13. /\ Laid(changes, overlay[t]) \in Overlays
       /\ DOMAIN Laid(changes, overlay[t]) = DOMAIN changes \cup DOMAIN overlay[t]
       /\ \A e \in DOMAIN Laid(changes, overlay[t]) :
             Laid(changes, overlay[t])[e] = IF e \in DOMAIN changes THEN changes[e] ELSE overlay[t][e]
  <2>1. Covers(Laid(changes, overlay[t]), changes, overlay[t])
    BY <1>2, <1>12, LaidTyped
  <2>. QED BY <2>1 DEF Covers
<1>14. TabData'
  <2>1. snapshot' \in [Tabs -> Answers] /\ round' \in [Tabs -> Requests]
    BY <1>5, <1>6 DEF TabData
  <2>2. \A u \in Tabs : round'[u].batch \in Seq(issued')
    <3>1. \A u \in Tabs : round[u].batch \in Seq(issued)
      BY <1>6 DEF TabData
    <3>. QED BY <1>5, <1>7, <3>1, SeqGrows
  <2>3. overlay' \in [Tabs -> Overlays]
    BY <1>4, <1>6, <1>13 DEF TabData
  <2>4. undo' \in [Tabs -> Undos]
    BY <1>2, <1>4, <1>6, NothingTyped DEF TabData
  <2>5. mine' \in [Tabs -> SUBSET issued'] /\ notices' \in [Tabs -> SUBSET issued']
    BY <1>4, <1>5, <1>6, <1>7 DEF TabData
  <2>6. hidden' \in [Tabs -> SUBSET BookmarkIds]
    <3>1. \A e \in DOMAIN changes : e \in BookmarkIds \/ e \in IdsOf(ToSet(ms))
      BY <1>2 DEF IdsOf
    <3>. QED BY <1>4, <1>6, <3>1 DEF TabData
  <2>. QED BY <2>1, <2>2, <2>3, <2>4, <2>5, <2>6 DEF TabData
<1>15. Remembered'
  <2>1. /\ mine'[t] = mine[t] \cup ToSet(ms) /\ overlay'[t] = Laid(changes, overlay[t])
        /\ hidden'[t] = (hidden[t] \cup DOMAIN changes) \ IdsOf(ToSet(ms))
        /\ \A u \in Tabs \ {t} : /\ mine'[u] = mine[u] /\ overlay'[u] = overlay[u]
                                 /\ hidden'[u] = hidden[u]
    BY <1>4, <1>6 DEF TabData
  <2>2. ASSUME NEW u \in Tabs, NEW m \in mine'[u] PROVE Awaited(u, m)'
    <3>1. \A x \in Tabs : Erasing(x) = Erasing(x)'
      BY <1>5 DEF Erasing
    <3>2. m \in mine[u] \/ m \in ToSet(ms)
      BY <2>1, <2>2
    <3>3. CASE m \in mine[u]
      <4>1. Awaited(u, m)
        BY <1>6, <3>3 DEF Remembered
      <4>. QED BY <1>5, <1>9, <3>1, <4>1 DEF Awaited
    <3>4. CASE m \in ToSet(ms)
      BY <1>9, <3>4 DEF Awaited
    <3>. QED BY <3>2, <3>3, <3>4
  <2>3. ASSUME NEW u \in Tabs \ {t}, NEW e \in DOMAIN overlay'[u] PROVE Backed(u, e)'
    <3>1. Backed(u, e)
      BY <1>6, <2>1, <2>3 DEF Remembered
    <3>. QED BY <2>1, <2>3, <3>1 DEF Backed
  <2>4. ASSUME NEW e \in DOMAIN overlay'[t] PROVE Backed(t, e)'
    <3>1. CASE e \in DOMAIN changes
      BY <2>1, <3>1 DEF Backed, IdsOf
    <3>2. CASE e \notin DOMAIN changes
      <4>1. e \in DOMAIN overlay[t] /\ overlay'[t][e] = overlay[t][e]
        BY <1>13, <2>1, <2>4, <3>2
      <4>2. Backed(t, e)
        BY <1>6, <4>1 DEF Remembered
      <4>. QED BY <2>1, <4>1, <4>2 DEF Backed, IdsOf
    <3>. QED BY <3>1, <3>2
  <2>. QED BY <2>2, <2>3, <2>4 DEF Remembered
<1>. QED BY <1>11, <1>14, <1>15 DEF TypeInv

LEMMA EditFailsKeeps ==
    ASSUME TypeInv, NEW t \in Tabs, NEW e \in Entities, EditFails(t, e)
    PROVE  TypeInv'
<1>1. /\ overlay' = [overlay EXCEPT ![t] = Without(@, {e})]
      /\ UNCHANGED <<db, outbox, cache, snapshot, mine, undo, round, notices, strays, issued, clock,
                     hidden, unannounced>>
  BY DEF EditFails, past
<1>2. Data /\ TabData /\ Remembered
  BY DEF TypeInv
<1>3. Data'
  BY <1>1, <1>2 DEF Data
<1>4. overlay[t] \in Overlays
  BY <1>2 DEF TabData
<1>5. /\ Without(overlay[t], {e}) \in Overlays
      /\ DOMAIN Without(overlay[t], {e}) = DOMAIN overlay[t] \ {e}
      /\ \A x \in DOMAIN Without(overlay[t], {e}) : Without(overlay[t], {e})[x] = overlay[t][x]
  BY <1>4, WithoutTyped
<1>6. TabData'
  BY <1>1, <1>2, <1>5 DEF TabData
<1>7. Remembered'
  <2>1. /\ \A u \in Tabs : /\ DOMAIN overlay'[u] \subseteq DOMAIN overlay[u]
                           /\ \A x \in DOMAIN overlay'[u] : overlay'[u][x] = overlay[u][x]
    BY <1>1, <1>2, <1>5 DEF TabData
  <2>. QED BY <1>1, <1>2, <2>1, RememberedStays DEF Erasing
<1>. QED BY <1>3, <1>6, <1>7 DEF TypeInv

LEMMA SendKeeps ==
    ASSUME TypeInv, NEW t \in Tabs, Send(t)
    PROVE  TypeInv' /\ Batch \in Seq(issued) /\ round'[t].batch = Batch
<1>1. /\ round' = [round EXCEPT ![t] = [NoRound EXCEPT !.at = "sent", !.batch = Batch]]
      /\ UNCHANGED <<db, outbox, cache, snapshot, overlay, mine, undo, notices, strays,
                     issued, clock, hidden, unannounced>>
      /\ round[t].at = "idle"
  BY DEF Send, past
<1>2. Data /\ TabData /\ Remembered
  BY DEF TypeInv
<1>3. Data' /\ Remembered'
  <2>1. \A u \in Tabs : Erasing(u) \subseteq Erasing(u)'
    BY <1>1, <1>2 DEF Erasing, TabData
  <2>. QED BY <1>1, <1>2, <2>1, RememberedStays DEF Data
<1>4. Batch \in Seq(issued) /\ issued \subseteq Mutations
  <2>1. outbox \in Seq(issued) /\ FlushBatch \in Nat
    BY <1>2, StoreAssumption DEF Data
  <2>. QED BY <1>2, <2>1 DEF Batch, Data
<1>5. Batch \in Seq(Mutations)
  BY <1>4, SeqGrows
<1>. DEFINE r == [NoRound EXCEPT !.at = "sent", !.batch = Batch]
<1>6. r \in Requests /\ r.batch = Batch
  <2>. HIDE DEF r
  <2>1. r = [NoRound EXCEPT !.at = "sent", !.batch = Batch]
    BY DEF r
  <2>. QED BY <1>5, <2>1, NoRoundTyped DEF Requests
<1>. HIDE DEF r
<1>7. round' = [round EXCEPT ![t] = r]
  BY <1>1 DEF r
<1>8. TabData'
  BY <1>1, <1>2, <1>4, <1>6, <1>7 DEF TabData
<1>9. round'[t] = r
  BY <1>2, <1>7 DEF TabData
<1>. QED BY <1>3, <1>4, <1>6, <1>8, <1>9 DEF TypeInv

LEMMA RoundTyped ==
    ASSUME TypeInv, NEW batch \in Seq(issued), NEW limit \in Nat
    PROVE  Tables(Round(db, batch, limit)) /\ Snapshot(Round(db, batch, limit)) \in Answers
<1>1. Tables(db) /\ batch \in Seq(Mutations)
  BY SeqGrows DEF TypeInv, Data
<1>2. Len(batch) \in Nat
  BY <1>1
<1>3. PICK f : /\ \A k \in 0..Len(batch) : Tables(f[k])
               /\ Round(db, batch, limit) = f[Len(batch)]
  BY <1>1, RoundStates DEF RoundRun
<1>4. Tables(Round(db, batch, limit))
  BY <1>2, <1>3
<1>. QED BY <1>4, SnapshotTyped

LEMMA ServeKeeps ==
    ASSUME TypeInv, NEW t \in Tabs, Serve(t)
    PROVE  TypeInv'
<1>. SUFFICES ASSUME NEW limit \in Clocks, db' = Round(db, round[t].batch, limit)
              PROVE  TypeInv'
  BY DEF Serve, Push
<1>1. /\ round[t].at = "sent" /\ limit \in Nat
      /\ round' = [round EXCEPT ![t].at = "answered", ![t].answer = Snapshot(db')]
      /\ UNCHANGED <<outbox, cache, snapshot, overlay, mine, undo, notices, strays,
                     issued, clock, hidden, unannounced>>
  BY StampAssumption DEF Serve
<1>2. Data /\ TabData /\ Remembered
  BY DEF TypeInv
<1>3. round[t].batch \in Seq(issued) /\ round[t] \in Requests
  BY <1>2 DEF TabData
<1>4. Tables(db') /\ Snapshot(db') \in Answers
  BY <1>1, <1>3, RoundTyped
<1>5. Data' /\ Remembered'
  <2>1. \A u \in Tabs : Erasing(u) \subseteq Erasing(u)'
    BY <1>1, <1>2 DEF Erasing, TabData
  <2>. QED BY <1>1, <1>2, <1>4, <2>1, RememberedStays DEF Data
<1>. DEFINE q == round[t]
            a == Snapshot(db')
            r == [q EXCEPT !.at = "answered", !.answer = a]
<1>6. round' = [round EXCEPT ![t] = r]
  BY <1>1, <1>2 DEF TabData
<1>7. q \in Requests /\ a \in Answers /\ q.batch \in Seq(issued)
  BY <1>3, <1>4
<1>. HIDE DEF q, a
<1>8. r \in Requests /\ r.batch = q.batch
  BY <1>7 DEF Requests
<1>. HIDE DEF r
<1>9. TabData'
  BY <1>1, <1>2, <1>6, <1>7, <1>8 DEF TabData
<1>. QED BY <1>5, <1>9 DEF TypeInv

LEMMA OrphanedTyped ==
    ASSUME TypeInv, NEW t \in Tabs
    PROVE  Orphaned(t) \subseteq Seq(issued)
BY DEF Orphaned, TypeInv, Data, TabData

LEMMA LoseKeeps ==
    ASSUME TypeInv, NEW t \in Tabs, Lose(t)
    PROVE  TypeInv'
<1>1. /\ strays' = Orphaned(t) /\ round' = [round EXCEPT ![t] = NoRound]
      /\ UNCHANGED <<db, outbox, cache, snapshot, overlay, mine, undo, notices, issued,
                     clock, hidden, unannounced>>
      /\ round[t].at \in {"sent", "answered"}
  BY DEF Lose, past
<1>2. Data /\ TabData /\ Remembered
  BY DEF TypeInv
<1>3. Data' /\ Remembered'
  <2>1. \A u \in Tabs : Erasing(u) \subseteq Erasing(u)'
    BY <1>1, <1>2 DEF Erasing, TabData
  <2>. QED BY <1>1, <1>2, <2>1, OrphanedTyped, RememberedStays DEF Data
<1>4. NoRound \in Requests /\ NoRound.batch \in Seq(issued)
  BY NoRoundTyped
<1>5. TabData'
  BY <1>1, <1>2, <1>4 DEF TabData
<1>. QED BY <1>3, <1>5 DEF TypeInv

LEMMA EraseKeeps ==
    ASSUME TypeInv, NEW t \in Tabs, Erase(t)
    PROVE  TypeInv'
<1>. DEFINE b == round[t].batch
<1>1. /\ round[t].at = "answered" /\ outbox' = Erased(outbox, b)
      /\ round' = [round EXCEPT ![t].at = "erased"]
      /\ UNCHANGED <<db, cache, snapshot, overlay, mine, undo, notices, strays, issued, clock,
                     hidden, unannounced>>
  BY DEF Erase, past
<1>2. Data /\ TabData /\ Remembered
  BY DEF TypeInv
<1>3. /\ round[t] \in Requests /\ b \in Seq(issued) /\ outbox \in Seq(issued)
  BY <1>2 DEF Data, TabData
<1>4. /\ round' \in [Tabs -> Requests] /\ round'[t].at = "erased" /\ round'[t].batch = b
      /\ \A u \in Tabs \ {t} : round'[u] = round[u]
  BY <1>1, <1>2, <1>3 DEF TabData, Requests
<1>. HIDE DEF b
<1>5. outbox' \in Seq(issued) /\ ToSet(outbox') = ToSet(outbox) \ ToSet(b)
  BY <1>1, <1>3, ErasedQueue
<1>6. Erasing(t)' = ToSet(b) /\ \A u \in Tabs : Erasing(u) \subseteq Erasing(u)'
  BY <1>1, <1>4 DEF Erasing
<1>7. Data' /\ TabData'
  <2>1. \A u \in Tabs : round'[u].batch \in Seq(issued)
    BY <1>2, <1>3, <1>4 DEF TabData
  <2>. QED BY <1>1, <1>2, <1>4, <1>5, <2>1 DEF Data, TabData
<1>8. ASSUME NEW u \in Tabs, NEW m \in mine'[u] PROVE Awaited(u, m)'
  <2>1. Awaited(u, m)
    BY <1>1, <1>2, <1>8 DEF Remembered
  <2>. QED BY <1>1, <1>5, <1>6, <2>1 DEF Awaited
<1>9. ASSUME NEW u \in Tabs, NEW e \in DOMAIN overlay'[u] PROVE Backed(u, e)'
  <2>1. Backed(u, e)
    BY <1>1, <1>2, <1>9 DEF Remembered
  <2>. QED BY <1>1, <2>1 DEF Backed
<1>10. Remembered'
  BY <1>8, <1>9 DEF Remembered
<1>. QED BY <1>7, <1>10 DEF TypeInv

LEMMA ReceiveKeeps ==
    ASSUME TypeInv, NEW t \in Tabs, Receive(t)
    PROVE  TypeInv'
<1>. DEFINE batch == ToSet(round[t].batch)
<1>1. /\ round[t].at = "erased" \/ batch = {}
      /\ notices' = [u \in Tabs |-> IF u = t THEN notices[u] ELSE notices[u] \cup batch]
      /\ overlay' = [overlay EXCEPT ![t] = Retired(t, batch)]
      /\ mine' = [mine EXCEPT ![t] = @ \ batch]
      /\ snapshot' = [snapshot EXCEPT ![t] = round[t].answer]
      /\ round' = [round EXCEPT ![t] = NoRound]
  BY DEF Receive, ToSet
<1>2. UNCHANGED <<db, outbox, cache, undo, strays, issued, clock, hidden, unannounced>>
  BY DEF Receive, past
<1>3. Data /\ TabData /\ Remembered
  BY DEF TypeInv
<1>4. /\ round[t].batch \in Seq(issued) /\ round[t].answer \in Answers /\ overlay[t] \in Overlays
  BY <1>3 DEF Data, TabData, Requests
<1>5. batch \subseteq issued
  BY <1>4, SeqElements
<1>6. /\ Erasing(t) \subseteq batch
      /\ \A u \in Tabs \ {t} : Erasing(u)' = Erasing(u)
  BY <1>1, <1>3 DEF Erasing, TabData
<1>7. Data'
  BY <1>2, <1>3 DEF Data
<1>. HIDE DEF batch
<1>8. /\ Retired(t, batch) \in Overlays
      /\ DOMAIN Retired(t, batch) = DOMAIN overlay[t] \ IdsOf(batch)
      /\ \A e \in DOMAIN Retired(t, batch) : Retired(t, batch)[e] = overlay[t][e]
  BY <1>4, WithoutTyped DEF Retired
<1>9. TabData'
  <2>1. snapshot' \in [Tabs -> Answers] /\ overlay' \in [Tabs -> Overlays]
        /\ undo' \in [Tabs -> Undos]
    BY <1>1, <1>2, <1>3, <1>4, <1>8 DEF TabData
  <2>2. mine' \in [Tabs -> SUBSET issued'] /\ notices' \in [Tabs -> SUBSET issued']
    BY <1>1, <1>2, <1>3, <1>5 DEF TabData
  <2>3. NoRound \in Requests /\ NoRound.batch \in Seq(issued)
    BY NoRoundTyped
  <2>4. round' \in [Tabs -> Requests] /\ \A u \in Tabs : round'[u].batch \in Seq(issued')
    BY <1>1, <1>2, <1>3, <2>3 DEF TabData
  <2>5. hidden' \in [Tabs -> SUBSET BookmarkIds]
    BY <1>2, <1>3 DEF TabData
  <2>. QED BY <2>1, <2>2, <2>4, <2>5 DEF TabData
<1>10. Remembered'
  <2>1. /\ mine'[t] = mine[t] \ batch /\ overlay'[t] = Retired(t, batch) /\ notices'[t] = notices[t]
        /\ \A u \in Tabs \ {t} : /\ mine'[u] = mine[u] /\ overlay'[u] = overlay[u]
                                 /\ notices'[u] = notices[u] \cup batch
    BY <1>1, <1>3 DEF TabData
  <2>2. ASSUME NEW u \in Tabs, NEW m \in mine'[u] PROVE Awaited(u, m)'
    <3>1. m \in mine[u] /\ (u = t => m \notin batch)
      BY <2>1, <2>2
    <3>2. Awaited(u, m)
      BY <1>3, <3>1 DEF Remembered
    <3>3. m \in batch => m \in notices'[u]
      BY <2>1, <3>1
    <3>. QED BY <1>2, <1>6, <2>1, <3>1, <3>2, <3>3 DEF Awaited
  <2>3. ASSUME NEW u \in Tabs \ {t}, NEW e \in DOMAIN overlay'[u] PROVE Backed(u, e)'
    <3>1. Backed(u, e)
      BY <1>3, <2>1, <2>3 DEF Remembered
    <3>. QED BY <1>2, <2>1, <2>3, <3>1 DEF Backed
  <2>4. ASSUME NEW e \in DOMAIN overlay'[t] PROVE Backed(t, e)'
    <3>1. e \in DOMAIN overlay[t] /\ e \notin IdsOf(batch) /\ overlay'[t][e] = overlay[t][e]
      BY <1>8, <2>1, <2>4
    <3>2. Backed(t, e)
      BY <1>3, <3>1 DEF Remembered
    <3>3. \A m \in mine[t] : m.id = e => m \in mine'[t]
      BY <2>1, <3>1 DEF IdsOf
    <3>. QED BY <1>2, <3>1, <3>2, <3>3 DEF Backed
  <2>. QED BY <2>2, <2>3, <2>4 DEF Remembered
<1>. QED BY <1>7, <1>9, <1>10 DEF TypeInv

LEMMA NoticeKeeps ==
    ASSUME TypeInv, NEW t \in Tabs, Notice(t)
    PROVE  TypeInv'
<1>. DEFINE heard == notices[t] \cap mine[t]
<1>1. /\ overlay' = [overlay EXCEPT ![t] = Retired(t, heard)]
      /\ mine' = [mine EXCEPT ![t] = @ \ notices[t]]
      /\ notices' = [notices EXCEPT ![t] = {}]
      /\ UNCHANGED <<db, outbox, cache, snapshot, undo, round, strays, issued, clock,
                     hidden, unannounced>>
  BY DEF Notice, past
<1>2. Data /\ TabData /\ Remembered
  BY DEF TypeInv
<1>3. Data'
  BY <1>1, <1>2 DEF Data
<1>4. overlay[t] \in Overlays
  BY <1>2 DEF TabData
<1>5. /\ Retired(t, heard) \in Overlays
      /\ DOMAIN Retired(t, heard) = DOMAIN overlay[t] \ IdsOf(heard)
      /\ \A e \in DOMAIN Retired(t, heard) : Retired(t, heard)[e] = overlay[t][e]
  <2>. HIDE DEF heard
  <2>. QED BY <1>4, WithoutTyped DEF Retired
<1>6. TabData'
  <2>. HIDE DEF heard
  <2>. QED BY <1>1, <1>2, <1>5 DEF TabData
<1>7. Remembered'
  <2>1. /\ mine'[t] = mine[t] \ notices[t] /\ overlay'[t] = Retired(t, heard) /\ notices'[t] = {}
        /\ \A u \in Tabs \ {t} : /\ mine'[u] = mine[u] /\ overlay'[u] = overlay[u]
                                 /\ notices'[u] = notices[u]
    BY <1>1, <1>2 DEF TabData
  <2>2. ASSUME NEW u \in Tabs, NEW m \in mine'[u] PROVE Awaited(u, m)'
    <3>1. m \in mine[u] /\ (u = t => m \notin notices[t])
      BY <2>1, <2>2
    <3>2. Awaited(u, m)
      BY <1>2, <3>1 DEF Remembered
    <3>3. \A x \in Tabs : Erasing(x)' = Erasing(x)
      BY <1>1 DEF Erasing
    <3>. QED BY <1>1, <2>1, <3>1, <3>2, <3>3 DEF Awaited
  <2>3. ASSUME NEW u \in Tabs \ {t}, NEW e \in DOMAIN overlay'[u] PROVE Backed(u, e)'
    <3>1. Backed(u, e)
      BY <1>2, <2>1, <2>3 DEF Remembered
    <3>. QED BY <1>1, <2>1, <2>3, <3>1 DEF Backed
  <2>4. ASSUME NEW e \in DOMAIN overlay'[t] PROVE Backed(t, e)'
    <3>1. e \in DOMAIN overlay[t] /\ e \notin IdsOf(heard) /\ overlay'[t][e] = overlay[t][e]
      BY <1>5, <2>1, <2>4
    <3>2. Backed(t, e)
      BY <1>2, <3>1 DEF Remembered
    <3>3. \A m \in mine[t] : m.id = e => m \in mine'[t]
      BY <2>1, <3>1 DEF IdsOf
    <3>. QED BY <1>1, <3>1, <3>2, <3>3 DEF Backed
  <2>. QED BY <2>2, <2>3, <2>4 DEF Remembered
<1>. QED BY <1>3, <1>6, <1>7 DEF TypeInv

LEMMA PersistKeeps ==
    ASSUME TypeInv, NEW t \in Tabs, Persist(t)
    PROVE  TypeInv'
<1>1. /\ cache' = snapshot[t]
      /\ UNCHANGED <<db, outbox, snapshot, overlay, mine, undo, round, notices, strays, issued,
                     clock, hidden, unannounced>>
  BY DEF Persist, tabState, past
<1>2. Data /\ TabData /\ Remembered
  BY DEF TypeInv
<1>3. snapshot[t] \in Answers
  BY <1>2 DEF TabData
<1>4. Remembered'
  BY <1>1, <1>2, RememberedStays DEF Erasing
<1>. QED BY <1>1, <1>2, <1>3, <1>4 DEF TypeInv, Data, TabData

LEMMA ReloadKeeps ==
    ASSUME TypeInv, NEW t \in Tabs, Reload(t)
    PROVE  TypeInv'
<1>1. /\ snapshot' = [snapshot EXCEPT ![t] = cache]
      /\ overlay' = [overlay EXCEPT ![t] = Nothing]
      /\ mine' = [mine EXCEPT ![t] = {}]
      /\ undo' = [undo EXCEPT ![t] = Nothing]
      /\ notices' = [notices EXCEPT ![t] = {}]
      /\ strays' = Orphaned(t)
      /\ round' = [round EXCEPT ![t] = NoRound]
      /\ hidden' = [hidden EXCEPT ![t] = {}]
      /\ unannounced' = unannounced \cup Erasing(t)
      /\ UNCHANGED <<db, outbox, cache, issued, clock>>
  BY DEF Reload
<1>2. Data /\ TabData /\ Remembered
  BY DEF TypeInv
<1>3. Data'
  <2>1. round[t].batch \in Seq(issued)
    BY <1>2 DEF TabData
  <2>2. Erasing(t) \subseteq issued
    BY <2>1, SeqElements DEF Erasing
  <2>. QED BY <1>1, <1>2, <2>2, OrphanedTyped DEF Data
<1>4. TabData'
  <2>1. NoRound \in Requests /\ NoRound.batch \in Seq(issued) /\ cache \in Answers
    BY <1>2, NoRoundTyped DEF Data
  <2>2. snapshot' \in [Tabs -> Answers] /\ overlay' \in [Tabs -> Overlays]
        /\ undo' \in [Tabs -> Undos]
    BY <1>1, <1>2, <2>1, NothingTyped DEF TabData
  <2>3. mine' \in [Tabs -> SUBSET issued'] /\ notices' \in [Tabs -> SUBSET issued']
    BY <1>1, <1>2 DEF TabData
  <2>4. round' \in [Tabs -> Requests] /\ \A u \in Tabs : round'[u].batch \in Seq(issued')
    BY <1>1, <1>2, <2>1 DEF TabData
  <2>5. hidden' \in [Tabs -> SUBSET BookmarkIds]
    BY <1>1, <1>2 DEF TabData
  <2>. QED BY <2>2, <2>3, <2>4, <2>5 DEF TabData
<1>5. Remembered'
  <2>1. /\ mine'[t] = {} /\ DOMAIN overlay'[t] = {}
        /\ \A u \in Tabs \ {t} : /\ mine'[u] = mine[u] /\ overlay'[u] = overlay[u]
                                 /\ notices'[u] = notices[u] /\ hidden'[u] = hidden[u]
                                 /\ Erasing(u)' = Erasing(u)
    BY <1>1, <1>2, NothingTyped DEF TabData, Erasing
  <2>2. ASSUME NEW u \in Tabs, NEW m \in mine'[u] PROVE Awaited(u, m)'
    <3>1. u # t /\ m \in mine[u]
      BY <2>1, <2>2
    <3>2. Awaited(u, m)
      BY <1>2, <3>1 DEF Remembered
    <3>. QED BY <1>1, <2>1, <3>1, <3>2 DEF Awaited
  <2>3. ASSUME NEW u \in Tabs \ {t}, NEW e \in DOMAIN overlay'[u] PROVE Backed(u, e)'
    <3>1. Backed(u, e)
      BY <1>2, <2>1, <2>3 DEF Remembered
    <3>. QED BY <2>1, <2>3, <3>1 DEF Backed
  <2>. QED BY <2>1, <2>2, <2>3 DEF Remembered
<1>. QED BY <1>3, <1>4, <1>5 DEF TypeInv

LEMMA ServeStrayKeeps ==
    ASSUME TypeInv, NEW batch \in strays, ServeStray(batch)
    PROVE  TypeInv'
<1>. SUFFICES ASSUME NEW limit \in Clocks, db' = Round(db, batch, limit)
              PROVE  TypeInv'
  BY DEF ServeStray, Push
<1>1. /\ strays' = strays \ {batch} /\ limit \in Nat
      /\ UNCHANGED <<outbox, cache, snapshot, overlay, mine, undo, round, notices, issued,
                     clock, hidden, unannounced>>
  BY StampAssumption DEF ServeStray, tabState
<1>2. Data /\ TabData /\ Remembered /\ batch \in Seq(issued)
  BY DEF TypeInv, Data
<1>3. Tables(db')
  BY <1>1, <1>2, RoundTyped
<1>4. Remembered'
  BY <1>1, <1>2, RememberedStays DEF Erasing
<1>. QED BY <1>1, <1>2, <1>3, <1>4 DEF TypeInv, Data, TabData

LEMMA OtherDeviceKeeps ==
    ASSUME TypeInv, NEW m \in Mutations, OtherDevice(m)
    PROVE  TypeInv'
<1>. SUFFICES ASSUME NEW limit \in Clocks, db' = Round(db, <<m>>, limit)
              PROVE  TypeInv'
  BY DEF OtherDevice, Push
<1>1. /\ limit \in Nat
      /\ UNCHANGED <<outbox, cache, snapshot, overlay, mine, undo, round, notices, strays,
                     issued, clock, hidden, unannounced>>
  BY StampAssumption DEF OtherDevice, tabState
<1>2. Data /\ TabData /\ Remembered /\ Tables(db)
  BY DEF TypeInv, Data
<1>3. Tables(db')
  <2>. DEFINE q == <<m>>
  <2>1. q \in Seq(Mutations) /\ Len(q) \in Nat
    OBVIOUS
  <2>. HIDE DEF q
  <2>2. PICK f : (\A k \in 0..Len(q) : Tables(f[k])) /\ Round(db, q, limit) = f[Len(q)]
    BY <1>1, <1>2, <2>1, RoundStates DEF RoundRun
  <2>3. Tables(Round(db, q, limit))
    BY <2>1, <2>2
  <2>. QED BY <2>3 DEF q
<1>4. Remembered'
  BY <1>1, <1>2, RememberedStays DEF Erasing
<1>. QED BY <1>1, <1>2, <1>3, <1>4 DEF TypeInv, Data, TabData

LEMMA NextTypeInv == TypeInv /\ [Next]_vars => TypeInv'
<1>. SUFFICES ASSUME TypeInv, [Next]_vars PROVE TypeInv'
  OBVIOUS
<1>1. ASSUME NEW t \in Tabs, Tap(t) PROVE TypeInv'
  BY <1>1, TapEdits, EditsKeep
<1>2. ASSUME NEW t \in Tabs, Sync(t) PROVE TypeInv'
  BY <1>2, SendKeeps, ServeKeeps, LoseKeeps, EraseKeeps, ReceiveKeeps, NoticeKeeps DEF Sync
<1>3. CASE UNCHANGED vars
  <2>1. /\ Data' /\ TabData' /\ UNCHANGED <<mine, hidden, outbox, unannounced, notices, overlay, round>>
    BY <1>3 DEF vars, tabState, past, TypeInv, Data, TabData
  <2>2. Remembered'
    BY <2>1, RememberedStays DEF TypeInv, Erasing
  <2>. QED BY <2>1, <2>2 DEF TypeInv
<1>. QED
  BY <1>1, <1>2, <1>3, PersistKeeps, ReloadKeeps, ServeStrayKeeps, OtherDeviceKeeps,
     EditFailsKeeps DEF Next

\* The inductive invariant.
THEOREM TypedAlways == Spec => []TypeInv
BY InitTypeInv, NextTypeInv, PTL DEF Spec

\* The tabs, the queue and the tables hold what they are meant to hold: rows and mutations of
\* this account, of the right kind, and no tombstone in a snapshot.
THEOREM BookmarkStoreTyped == Spec => []TypeOK
<1>1. TypeInv => TypeOK
  <2>. SUFFICES ASSUME TypeInv PROVE TypeOK
    OBVIOUS
  <2>1. Data /\ TabData
    BY DEF TypeInv
  <2>2. /\ issued \subseteq Mutations /\ outbox \in Seq(issued)
        /\ \A batch \in strays : ToSet(batch) \subseteq issued
        /\ DOMAIN db.bookmarks \subseteq BookmarkIds
        /\ DOMAIN db.folders \subseteq FolderIds /\ unannounced \subseteq issued
    BY <2>1, SeqElements DEF Data, Tables
  <2>3. ASSUME NEW t \in Tabs PROVE TabOK(t)
    <3>1. snapshot[t].folders \subseteq FolderIds /\ snapshot[t].bookmarks \in Kept
      BY <2>1 DEF TabData, Answers
    <3>2. \A b \in DOMAIN snapshot[t].bookmarks :
             snapshot[t].bookmarks[b] \in Bookmark /\ snapshot[t].bookmarks[b].live
      BY <3>1, KeptMaps
    <3>3. overlay[t] \in Overlays
      BY <2>1 DEF TabData
    <3>4. /\ DOMAIN overlay[t] \subseteq Entities
          /\ \A b \in DOMAIN overlay[t] \cap BookmarkIds :
                overlay[t][b] = Gone \/ overlay[t][b] \in Bookmark
      BY <3>3, OverlayMaps DEF RowsOf
    <3>5. /\ round[t].at \in {"idle", "sent", "answered", "erased"} /\ round[t].batch \in Seq(issued)
          /\ mine[t] \subseteq issued /\ notices[t] \subseteq issued
          /\ hidden[t] \subseteq BookmarkIds
      BY <2>1 DEF TabData, Requests
    <3>6. ToSet(round[t].batch) \subseteq issued
      BY <3>5, SeqElements
    <3>. QED BY <3>1, <3>2, <3>4, <3>5, <3>6 DEF TabOK
  <2>. QED BY <2>2, <2>3 DEF TypeOK
<1>. QED BY <1>1, TypedAlways, PTL

\* An overlay stands no longer than a mutation of its entity is queued, on its way out of the
\* queue, or announced to the tab, but for the bookmarks hidden with their folder and what
\* drained in a tab that died before the notice.
THEOREM OverlaysRetiredAlways == Spec => []OverlaysRetired
<1>1. TypeInv => OverlaysRetired
  <2>. SUFFICES ASSUME TypeInv, NEW t \in Tabs, NEW e \in DOMAIN overlay[t]
                PROVE  e \in Queued(t) \cup hidden[t] \cup IdsOf(unannounced)
    BY DEF OverlaysRetired
  <2>1. CASE e \in hidden[t]
    BY <2>1
  <2>2. ASSUME NEW m \in mine[t], m.id = e
        PROVE  e \in Queued(t) \cup IdsOf(unannounced)
    <3>1. Awaited(t, m)
      BY <2>2 DEF TypeInv, Remembered
    <3>2. \/ m \in ToSet(outbox) \cup notices[t] \cup UNION {Erasing(u) : u \in Tabs}
          \/ m \in unannounced
      BY <3>1 DEF Awaited
    <3>. QED BY <2>2, <3>2 DEF Queued, IdsOf
  <2>3. Backed(t, e)
    BY DEF TypeInv, Remembered
  <2>. QED BY <2>1, <2>2, <2>3 DEF Backed
<1>. QED BY <1>1, TypedAlways, PTL
-----------------------------------------------------------------------------
(* What has been digested. *)

\* The tables have taken the mutation in, or what is newer: it would be skipped.
Settled(d, m) ==
    \/ /\ m.kind = "folder.upsert"
       /\ m.id \in DOMAIN d.folders /\ d.folders[m.id].at >= m.ts
    \/ m.kind = "folder.delete" /\ m.id = DefaultFolder
    \/ /\ m.kind = "folder.delete"
       /\ m.id \in DOMAIN d.folders
       /\ \/ d.folders[m.id].at > m.ts
          \/ /\ d.folders[m.id].at = m.ts /\ ~d.folders[m.id].live
             /\ LiveIn(d, m.id) = {}
    \/ /\ m.kind = "bookmark.upsert"
       /\ m.id \in DOMAIN d.bookmarks /\ d.bookmarks[m.id].at >= m.ts
    \/ /\ m.kind = "bookmark.delete"
       /\ m.id \in DOMAIN d.bookmarks
       /\ \/ d.bookmarks[m.id].at > m.ts
          \/ d.bookmarks[m.id].at = m.ts /\ ~d.bookmarks[m.id].live

\* A row of table s after a write at ts: as it was, or stamped by it, and dead if it had
\* that stamp already.
Restamped(r, s, i, ts) ==
    \/ i \in DOMAIN r /\ s[i] = r[i]
    \/ /\ s[i].at = ts
       /\ i \in DOMAIN r => r[i].at <= ts /\ (r[i].at = ts => ~s[i].live)

Overwrites(d, e, ts) ==
    /\ DOMAIN d.folders \subseteq DOMAIN e.folders
    /\ DOMAIN d.bookmarks \subseteq DOMAIN e.bookmarks
    /\ \A f \in DOMAIN e.folders : Restamped(d.folders, e.folders, f, ts)
    /\ \A b \in DOMAIN e.bookmarks : Restamped(d.bookmarks, e.bookmarks, b, ts)
    /\ \A f \in FolderIds \ (LiveFolders(d) \cup LiveFolders(e)) :
          LiveIn(d, f) = {} => LiveIn(e, f) = {}

\* No row is newer than ts.
Old(d, ts) == /\ \A f \in DOMAIN d.folders : d.folders[f].at <= ts
              /\ \A b \in DOMAIN d.bookmarks : d.bookmarks[b].at <= ts

IdsIn(d) == DOMAIN d.folders \cup DOMAIN d.bookmarks

LEMMA RowTypes ==
    ASSUME NEW d, Tables(d)
    PROVE  /\ \A f \in DOMAIN d.folders : /\ f \in FolderIds /\ d.folders[f] \in Folder
                                          /\ d.folders[f].at \in Nat
           /\ \A b \in DOMAIN d.bookmarks : /\ b \in BookmarkIds /\ d.bookmarks[b] \in Bookmark
                                            /\ d.bookmarks[b].at \in Nat
                                            /\ d.bookmarks[b].live \in BOOLEAN
BY DEF Tables, Folder, Bookmark

LEMMA TombstoneRow ==
    /\ \A r \in Folder : \A ts \in Nat : /\ Tombstone(r, ts) \in Folder /\ Tombstone(r, ts).at = ts
                                         /\ ~Tombstone(r, ts).live
    /\ \A r \in Bookmark : \A ts \in Nat :
          /\ Tombstone(r, ts) \in Bookmark /\ Tombstone(r, ts).at = ts
          /\ ~Tombstone(r, ts).live /\ Tombstone(r, ts).folder = r.folder
          /\ Tombstone(r, ts).verse = r.verse
BY DEF Tombstone, Folder, Bookmark

LEMMA SameFolder ==
    ASSUME NEW x \in Folder, NEW y \in Folder, x.at = y.at, ~x.live, ~y.live
    PROVE  x = y
<1>1. PICK a \in Nat, l \in BOOLEAN : x = [at |-> a, live |-> l]
  BY DEF Folder
<1>2. PICK b \in Nat, k \in BOOLEAN : y = [at |-> b, live |-> k]
  BY DEF Folder
<1>3. a = b /\ l = k
  BY <1>1, <1>2
<1>. QED BY <1>1, <1>2, <1>3

LEMMA SameBookmark ==
    ASSUME NEW x \in Bookmark, NEW y \in Bookmark, x.at = y.at, ~x.live, ~y.live,
           x.folder = y.folder, x.verse = y.verse
    PROVE  x = y
<1>1. PICK f \in FolderIds, v \in Verses, a \in Nat, l \in BOOLEAN :
         x = [folder |-> f, verse |-> v, at |-> a, live |-> l]
  BY DEF Bookmark
<1>2. PICK g \in FolderIds, w \in Verses, b \in Nat, k \in BOOLEAN :
         y = [folder |-> g, verse |-> w, at |-> b, live |-> k]
  BY DEF Bookmark
<1>3. a = b /\ l = k /\ f = g /\ v = w
  BY <1>1, <1>2
<1>. QED BY <1>1, <1>2, <1>3

LEMMA SameTables ==
    ASSUME NEW d, NEW e, Tables(d), Tables(e),
           DOMAIN d.folders = DOMAIN e.folders, DOMAIN d.bookmarks = DOMAIN e.bookmarks,
           \A f \in DOMAIN d.folders : d.folders[f] = e.folders[f],
           \A b \in DOMAIN d.bookmarks : d.bookmarks[b] = e.bookmarks[b]
    PROVE  d = e
<1>1. d.folders = [f \in DOMAIN d.folders |-> d.folders[f]]
      /\ e.folders = [f \in DOMAIN e.folders |-> e.folders[f]]
      /\ d.bookmarks = [f \in DOMAIN d.bookmarks |-> d.bookmarks[f]]
      /\ e.bookmarks = [f \in DOMAIN e.bookmarks |-> e.bookmarks[f]]
  BY DEF Tables
<1>2. d.folders = e.folders /\ d.bookmarks = e.bookmarks
  BY <1>1
<1>. QED BY <1>2 DEF Tables

\* A settled mutation is skipped, under an earlier stamp too.
LEMMA SettledSkipped ==
    ASSUME NEW d, Tables(d), NEW m \in Mutations, Settled(d, m),
           NEW ts \in Nat, ts <= m.ts
    PROVE  ApplyMutation(d, m, ts) = d
<1>. DEFINE e == ApplyMutation(d, m, ts)
<1>. SUFFICES e = d
  OBVIOUS
<1>1. m.ts \in Nat
  BY StampAssumption DEF Mutations
<1>2. CASE m.kind = "folder.upsert"
  <2>1. m.id \in FolderIds /\ e = UpsertFolder(d, m.id, ts)
        /\ m.id \in DOMAIN d.folders /\ d.folders[m.id].at >= m.ts
    BY <1>2 DEF Mutations, ApplyMutation, Settled
  <2>2. UpsertFolder(d, m.id, ts) = d
    BY <1>1, <2>1, RowTypes DEF UpsertFolder
  <2>. QED BY <2>1, <2>2
<1>3. CASE m.kind = "folder.delete"
  <2>. DEFINE w == DeleteFolder(d, m.id, ts)
  <2>1. m.id \in FolderIds /\ e = w
    BY <1>3 DEF Mutations, ApplyMutation
  <2>2. /\ Tables(w) /\ DOMAIN w.folders = DOMAIN d.folders /\ DOMAIN w.bookmarks = DOMAIN d.bookmarks
        /\ w = d \/ FolderDeleted(d, w, m.id, ts)
    BY <1>1, <2>1, DeleteFolderTyped
  <2>. HIDE DEF w, e
  <2>3. CASE FolderDeleted(d, w, m.id, ts)
    <3>1. /\ m.id \in DOMAIN d.folders /\ d.folders[m.id].at <= ts /\ m.id # DefaultFolder
          /\ w.folders[m.id].at = ts /\ ~w.folders[m.id].live
          /\ \A g \in DOMAIN d.folders \ {m.id} : w.folders[g] = d.folders[g]
      BY <2>3 DEF FolderDeleted
    <3>2. ts = m.ts /\ d.folders[m.id].at = m.ts /\ ~d.folders[m.id].live /\ LiveIn(d, m.id) = {}
      BY <1>1, <1>3, <3>1, RowTypes DEF Settled
    <3>3. w.folders[m.id] = d.folders[m.id]
      <4>1. w.folders[m.id] \in Folder /\ d.folders[m.id] \in Folder
        BY <2>2, <3>1, RowTypes
      <4>. QED BY <3>1, <3>2, <4>1, SameFolder
    <3>4. \A b \in DOMAIN d.bookmarks : w.bookmarks[b] = d.bookmarks[b]
      BY <2>3, <3>2 DEF FolderDeleted, Rehomed
    <3>5. \A g \in DOMAIN d.folders : w.folders[g] = d.folders[g]
      BY <3>1, <3>3
    <3>6. w = d
      BY <2>2, <3>4, <3>5, SameTables
    <3>. QED BY <2>1, <3>6
  <2>. QED BY <2>1, <2>2, <2>3
<1>4. CASE m.kind = "bookmark.upsert"
  <2>1. m.id \in DOMAIN d.bookmarks /\ d.bookmarks[m.id].at >= m.ts
        /\ e = UpsertBookmark(d, m.id, ResolveFolder(d, m.folder), m.verse, ts)
    BY <1>4 DEF ApplyMutation, Settled
  <2>2. UpsertBookmark(d, m.id, ResolveFolder(d, m.folder), m.verse, ts) = d
    BY <1>1, <2>1, RowTypes DEF UpsertBookmark
  <2>. QED BY <2>1, <2>2
<1>5. CASE m.kind = "bookmark.delete"
  <2>. DEFINE w == DeleteBookmark(d, m.id, ts)
  <2>1. m.id \in BookmarkIds /\ e = w
    BY <1>5 DEF Mutations, ApplyMutation
  <2>2. /\ Tables(w) /\ w.folders = d.folders /\ DOMAIN w.bookmarks = DOMAIN d.bookmarks
        /\ w = d \/ BookmarkDeleted(d, w, m.id, ts)
    BY <1>1, <2>1, DeleteBookmarkTyped
  <2>. HIDE DEF w, e
  <2>3. CASE BookmarkDeleted(d, w, m.id, ts)
    <3>1. /\ m.id \in DOMAIN d.bookmarks /\ d.bookmarks[m.id].at <= ts
          /\ w.bookmarks[m.id] = Tombstone(d.bookmarks[m.id], ts)
          /\ \A i \in DOMAIN d.bookmarks \ {m.id} : w.bookmarks[i] = d.bookmarks[i]
      BY <2>3 DEF BookmarkDeleted
    <3>2. ts = m.ts /\ d.bookmarks[m.id].at = m.ts /\ ~d.bookmarks[m.id].live
      BY <1>1, <1>5, <3>1, RowTypes DEF Settled
    <3>3. w.bookmarks[m.id] = d.bookmarks[m.id]
      <4>. DEFINE x == d.bookmarks[m.id]
                  y == Tombstone(x, ts)
      <4>1. x \in Bookmark /\ x.at = m.ts /\ ~x.live
        BY <3>1, <3>2, RowTypes
      <4>. HIDE DEF x
      <4>2. /\ y \in Bookmark /\ y.at = ts /\ ~y.live /\ y.folder = x.folder /\ y.verse = x.verse
        BY <1>1, <4>1, TombstoneRow
      <4>. HIDE DEF y
      <4>3. x = y
        BY <3>2, <4>1, <4>2, SameBookmark
      <4>. QED BY <3>1, <4>3 DEF x, y
    <3>4. \A b \in DOMAIN d.bookmarks : w.bookmarks[b] = d.bookmarks[b]
      BY <3>1, <3>3
    <3>5. w = d
      BY <2>2, <3>4, SameTables
    <3>. QED BY <2>1, <3>5
  <2>. QED BY <2>1, <2>2, <2>3
<1>. QED BY <1>2, <1>3, <1>4, <1>5 DEF Settled

\* What is settled stays so under a write.
LEMMA SettledStays ==
    ASSUME NEW d, NEW e, Tables(d), Tables(e), NEW ts \in Nat, Overwrites(d, e, ts),
           NEW m \in Mutations, Settled(d, m)
    PROVE  Settled(e, m)
<1>1. m.ts \in Nat
  BY StampAssumption DEF Mutations
<1>2. ASSUME NEW f \in DOMAIN d.folders
      PROVE  /\ f \in DOMAIN e.folders /\ f \in FolderIds
             /\ d.folders[f].at \in Nat /\ e.folders[f].at \in Nat
             /\ \/ e.folders[f] = d.folders[f]
                \/ /\ e.folders[f].at = ts /\ d.folders[f].at <= ts
                   /\ d.folders[f].at = ts => ~e.folders[f].live
  <2>1. f \in DOMAIN e.folders /\ Restamped(d.folders, e.folders, f, ts)
    BY DEF Overwrites
  <2>. QED BY <2>1, RowTypes DEF Restamped
<1>3. ASSUME NEW b \in DOMAIN d.bookmarks
      PROVE  /\ b \in DOMAIN e.bookmarks
             /\ d.bookmarks[b].at \in Nat /\ e.bookmarks[b].at \in Nat
             /\ \/ e.bookmarks[b] = d.bookmarks[b]
                \/ /\ e.bookmarks[b].at = ts /\ d.bookmarks[b].at <= ts
                   /\ d.bookmarks[b].at = ts => ~e.bookmarks[b].live
  <2>1. b \in DOMAIN e.bookmarks /\ Restamped(d.bookmarks, e.bookmarks, b, ts)
    BY DEF Overwrites
  <2>. QED BY <2>1, RowTypes DEF Restamped
<1>4. CASE /\ m.kind = "folder.upsert"
           /\ m.id \in DOMAIN d.folders /\ d.folders[m.id].at >= m.ts
  <2>1. m.id \in DOMAIN e.folders /\ e.folders[m.id].at >= m.ts
    BY <1>1, <1>2, <1>4
  <2>. QED BY <1>4, <2>1 DEF Settled
<1>5. CASE m.kind = "folder.delete" /\ m.id = DefaultFolder
  BY <1>5 DEF Settled
<1>6. CASE /\ m.kind = "folder.delete"
           /\ m.id \in DOMAIN d.folders
           /\ d.folders[m.id].at > m.ts
  <2>1. m.id \in DOMAIN e.folders /\ e.folders[m.id].at > m.ts
    BY <1>1, <1>2, <1>6
  <2>. QED BY <1>6, <2>1 DEF Settled
<1>7. CASE /\ m.kind = "folder.delete"
           /\ m.id \in DOMAIN d.folders
           /\ d.folders[m.id].at = m.ts /\ ~d.folders[m.id].live
           /\ LiveIn(d, m.id) = {}
  <2>1. /\ m.id \in DOMAIN e.folders /\ m.id \in FolderIds
        /\ \/ e.folders[m.id].at > m.ts
           \/ e.folders[m.id].at = m.ts /\ ~e.folders[m.id].live
    BY <1>1, <1>2, <1>7
  <2>2. m.id \notin LiveFolders(d)
    BY <1>7 DEF LiveFolders
  <2>3. m.id \in LiveFolders(e) \/ LiveIn(e, m.id) = {}
    BY <1>7, <2>1, <2>2 DEF Overwrites
  <2>4. e.folders[m.id].live <=> m.id \in LiveFolders(e)
    BY <2>1 DEF LiveFolders
  <2>. QED BY <1>7, <2>1, <2>3, <2>4 DEF Settled
<1>8. CASE /\ m.kind = "bookmark.upsert"
           /\ m.id \in DOMAIN d.bookmarks /\ d.bookmarks[m.id].at >= m.ts
  <2>1. m.id \in DOMAIN e.bookmarks /\ e.bookmarks[m.id].at >= m.ts
    BY <1>1, <1>3, <1>8
  <2>. QED BY <1>8, <2>1 DEF Settled
<1>9. CASE /\ m.kind = "bookmark.delete"
           /\ m.id \in DOMAIN d.bookmarks
           /\ \/ d.bookmarks[m.id].at > m.ts
              \/ d.bookmarks[m.id].at = m.ts /\ ~d.bookmarks[m.id].live
  <2>1. /\ m.id \in DOMAIN e.bookmarks
        /\ \/ e.bookmarks[m.id].at > m.ts
           \/ e.bookmarks[m.id].at = m.ts /\ ~e.bookmarks[m.id].live
    BY <1>1, <1>3, <1>9
  <2>. QED BY <1>9, <2>1 DEF Settled
<1>. QED BY <1>4, <1>5, <1>6, <1>7, <1>8, <1>9 DEF Settled

LEMMA OverwritesSelf ==
    ASSUME NEW d, NEW ts
    PROVE  Overwrites(d, d, ts)
BY DEF Overwrites, Restamped

Within(ids) == /\ Cardinality(ids \cap BookmarkIds) <= BookmarkQuota
               /\ Cardinality(ids \cap FolderIds) <= FolderQuota

\* Within the quotas no id is refused.
LEMMA Room ==
    ASSUME NEW d, Tables(d), NEW ids, Within(ids), IdsIn(d) \subseteq ids, NEW i \in ids
    PROVE  /\ i \in FolderIds => ~FolderRefused(d, i)
           /\ i \in BookmarkIds => ~BookmarkRefused(d, i)
<1>1. /\ LiveFolders(d) \subseteq ids \cap FolderIds /\ LiveFolders(d) \subseteq DOMAIN d.folders
      /\ LiveBookmarks(d) \subseteq ids \cap BookmarkIds
  BY DEF LiveFolders, LiveBookmarks, Tables, IdsIn
<1>2. /\ IsFiniteSet(ids \cap FolderIds) /\ IsFiniteSet(ids \cap BookmarkIds)
  BY StoreAssumption, FS_Subset
<1>3. ASSUME i \in FolderIds, FolderRefused(d, i) PROVE FALSE
  <2>1. i \in ids \cap FolderIds /\ i \notin LiveFolders(d) /\ Cardinality(LiveFolders(d)) >= FolderQuota
    BY <1>1, <1>3 DEF FolderRefused
  <2>2. LiveFolders(d) # ids \cap FolderIds
    BY <2>1
  <2>3. /\ Cardinality(LiveFolders(d)) < Cardinality(ids \cap FolderIds)
        /\ Cardinality(LiveFolders(d)) \in Nat /\ Cardinality(ids \cap FolderIds) \in Nat
    BY <1>1, <1>2, <2>2, SmallerSet
  <2>. QED BY <2>1, <2>3, QuotaAssumption DEF Within
<1>4. ASSUME i \in BookmarkIds, BookmarkRefused(d, i) PROVE FALSE
  <2>1. i \in ids \cap BookmarkIds /\ i \notin LiveBookmarks(d)
        /\ Cardinality(LiveBookmarks(d)) >= BookmarkQuota
    BY <1>1, <1>4 DEF BookmarkRefused
  <2>2. LiveBookmarks(d) # ids \cap BookmarkIds
    BY <2>1
  <2>3. /\ Cardinality(LiveBookmarks(d)) < Cardinality(ids \cap BookmarkIds)
        /\ Cardinality(LiveBookmarks(d)) \in Nat /\ Cardinality(ids \cap BookmarkIds) \in Nat
    BY <1>1, <1>2, <2>2, SmallerSet
  <2>. QED BY <2>1, <2>3, QuotaAssumption DEF Within
<1>. QED BY <1>3, <1>4

\* What a mutation does to tables that hold nothing newer.
Digests(d, e, m) ==
    /\ Tables(e) /\ DefaultFolder \in LiveFolders(e)
    /\ Overwrites(d, e, m.ts) /\ Settled(e, m)
    /\ IdsIn(e) \subseteq IdsIn(d) \cup {m.id}

LEMMA UpsertFolderDigests ==
    ASSUME NEW d, Tables(d), DefaultFolder \in LiveFolders(d),
           NEW m \in Mutations, m.kind = "folder.upsert", Old(d, m.ts), ~FolderRefused(d, m.id)
    PROVE  Digests(d, UpsertFolder(d, m.id, m.ts), m)
<1>. DEFINE e == UpsertFolder(d, m.id, m.ts)
<1>1. m.ts \in Nat /\ m.id \in FolderIds
  BY StampAssumption DEF Mutations
<1>2. /\ Tables(e) /\ e.bookmarks = d.bookmarks
      /\ DOMAIN d.folders \subseteq DOMAIN e.folders
      /\ DOMAIN e.folders \subseteq DOMAIN d.folders \cup {m.id}
      /\ \/ e = d /\ (FolderRefused(d, m.id) \/ (m.id \in DOMAIN d.folders /\ d.folders[m.id].at >= m.ts))
         \/ FolderPut(d, e, m.id, m.ts)
  BY <1>1, UpsertFolderTyped
<1>. HIDE DEF e
<1>3. CASE e = d /\ m.id \in DOMAIN d.folders /\ d.folders[m.id].at >= m.ts
  <2>1. Settled(e, m) /\ Overwrites(d, e, m.ts)
    BY <1>3, OverwritesSelf DEF Settled
  <2>. QED BY <1>3, <2>1 DEF Digests, e
<1>4. CASE FolderPut(d, e, m.id, m.ts)
  <2>1. /\ m.id \in DOMAIN d.folders => d.folders[m.id].at < m.ts
        /\ m.id \in DOMAIN e.folders /\ e.folders[m.id].at = m.ts /\ e.folders[m.id].live
        /\ \A g \in DOMAIN d.folders \ {m.id} : e.folders[g] = d.folders[g]
    BY <1>4 DEF FolderPut
  <2>2. DefaultFolder \in LiveFolders(e)
    BY <1>2, <2>1 DEF LiveFolders
  <2>3. \A f \in DOMAIN e.folders : Restamped(d.folders, e.folders, f, m.ts)
    BY <1>1, <1>2, <2>1, RowTypes DEF Restamped
  <2>4. \A b \in DOMAIN e.bookmarks : Restamped(d.bookmarks, e.bookmarks, b, m.ts)
    BY <1>2 DEF Restamped
  <2>5. \A f : LiveIn(e, f) = LiveIn(d, f)
    BY <1>2 DEF LiveIn, LiveBookmarks
  <2>6. Overwrites(d, e, m.ts)
    BY <1>2, <2>3, <2>4, <2>5 DEF Overwrites
  <2>7. Settled(e, m)
    BY <1>1, <2>1 DEF Settled
  <2>8. IdsIn(e) \subseteq IdsIn(d) \cup {m.id}
    BY <1>2 DEF IdsIn
  <2>. QED BY <1>2, <2>2, <2>6, <2>7, <2>8 DEF Digests, e
<1>. QED BY <1>2, <1>3, <1>4

LEMMA DeleteFolderDigests ==
    ASSUME NEW d, Tables(d), DefaultFolder \in LiveFolders(d),
           NEW m \in Mutations, m.kind = "folder.delete", Old(d, m.ts), m.id \in IdsIn(d)
    PROVE  Digests(d, DeleteFolder(d, m.id, m.ts), m)
<1>. DEFINE e == DeleteFolder(d, m.id, m.ts)
<1>1. m.ts \in Nat /\ m.id \in FolderIds
  BY StampAssumption DEF Mutations
<1>2. m.id \in DOMAIN d.folders /\ d.folders[m.id].at <= m.ts
  BY <1>1, IdKinds DEF IdsIn, Tables, Old
<1>3. /\ Tables(e) /\ DOMAIN e.folders = DOMAIN d.folders /\ DOMAIN e.bookmarks = DOMAIN d.bookmarks
      /\ \/ e = d /\ (m.id = DefaultFolder \/ m.id \notin DOMAIN d.folders \/ d.folders[m.id].at > m.ts)
         \/ FolderDeleted(d, e, m.id, m.ts)
  BY <1>1, DeleteFolderTyped
<1>. HIDE DEF e
<1>4. CASE e = d /\ m.id = DefaultFolder
  <2>1. Settled(e, m) /\ Overwrites(d, e, m.ts)
    BY <1>4, OverwritesSelf DEF Settled
  <2>. QED BY <1>4, <2>1 DEF Digests, e
<1>5. CASE FolderDeleted(d, e, m.id, m.ts)
  <2>1. /\ m.id # DefaultFolder
        /\ e.folders[m.id].at = m.ts /\ ~e.folders[m.id].live
        /\ \A g \in DOMAIN d.folders \ {m.id} : e.folders[g] = d.folders[g]
    BY <1>5 DEF FolderDeleted
  <2>2. Rehomed(d, m.id, m.ts) = {}
    <3>1. \A b \in DOMAIN d.bookmarks : ~(d.bookmarks[b].at > m.ts)
      BY <1>1, RowTypes DEF Old
    <3>2. LiveIn(d, m.id) \subseteq DOMAIN d.bookmarks
      BY DEF LiveIn, LiveBookmarks
    <3>. QED BY <3>1, <3>2 DEF Rehomed
  <2>3. \A b \in DOMAIN d.bookmarks :
           \/ b \notin LiveIn(d, m.id) /\ e.bookmarks[b] = d.bookmarks[b]
           \/ /\ b \in LiveIn(d, m.id)
              /\ e.bookmarks[b].at = m.ts /\ ~e.bookmarks[b].live
    BY <1>1, <1>5, <2>2, RowTypes, TombstoneRow DEF FolderDeleted
  <2>4. DefaultFolder \in LiveFolders(e)
    BY <1>3, <2>1 DEF LiveFolders
  <2>5. \A f \in DOMAIN e.folders : Restamped(d.folders, e.folders, f, m.ts)
    BY <1>2, <1>3, <2>1 DEF Restamped
  <2>6. \A b \in DOMAIN e.bookmarks : Restamped(d.bookmarks, e.bookmarks, b, m.ts)
    BY <1>3, <2>3 DEF Restamped, Old
  <2>7. \A f : LiveIn(e, f) \subseteq LiveIn(d, f) \ LiveIn(d, m.id)
    BY <1>3, <2>3 DEF LiveIn, LiveBookmarks
  <2>8. Overwrites(d, e, m.ts)
    <3>1. \A f : LiveIn(d, f) = {} => LiveIn(e, f) = {}
      BY <2>7
    <3>. QED BY <1>3, <2>5, <2>6, <3>1 DEF Overwrites
  <2>9. LiveIn(e, m.id) = {}
    BY <2>7
  <2>10. Settled(e, m)
    BY <1>2, <1>3, <2>1, <2>9 DEF Settled
  <2>11. IdsIn(e) \subseteq IdsIn(d) \cup {m.id}
    BY <1>3 DEF IdsIn
  <2>. QED BY <1>3, <2>4, <2>8, <2>10, <2>11 DEF Digests, e
<1>6. ~(d.folders[m.id].at > m.ts)
  BY <1>1, <1>2, RowTypes
<1>. QED BY <1>2, <1>3, <1>4, <1>5, <1>6

LEMMA UpsertBookmarkDigests ==
    ASSUME NEW d, Tables(d), DefaultFolder \in LiveFolders(d),
           NEW m \in Mutations, m.kind = "bookmark.upsert", Old(d, m.ts), ~BookmarkRefused(d, m.id)
    PROVE  Digests(d, UpsertBookmark(d, m.id, ResolveFolder(d, m.folder), m.verse, m.ts), m)
<1>. DEFINE g == ResolveFolder(d, m.folder)
            e == UpsertBookmark(d, m.id, g, m.verse, m.ts)
<1>1. m.ts \in Nat /\ m.id \in BookmarkIds /\ m.folder \in FolderIds /\ m.verse \in Verses
  BY StampAssumption DEF Mutations
<1>2. g \in LiveFolders(d) /\ g \in FolderIds
  BY <1>1, DefaultAssumption DEF ResolveFolder
<1>. HIDE DEF g
<1>3. /\ Tables(e) /\ e.folders = d.folders
      /\ DOMAIN d.bookmarks \subseteq DOMAIN e.bookmarks
      /\ DOMAIN e.bookmarks \subseteq DOMAIN d.bookmarks \cup {m.id}
      /\ \/ /\ e = d
            /\ \/ BookmarkRefused(d, m.id)
               \/ m.id \in DOMAIN d.bookmarks /\ d.bookmarks[m.id].at >= m.ts
               \/ \E r \in Rivals(d, m.id, g, m.verse) : d.bookmarks[r].at > m.ts
         \/ BookmarkPut(d, e, m.id, g, m.verse, m.ts)
  BY <1>1, <1>2, UpsertBookmarkTyped
<1>4. \A r \in Rivals(d, m.id, g, m.verse) : ~(d.bookmarks[r].at > m.ts)
  <2>1. \A r \in Rivals(d, m.id, g, m.verse) : r \in DOMAIN d.bookmarks
    BY DEF Rivals
  <2>. QED BY <1>1, <2>1, RowTypes DEF Old
<1>. HIDE DEF e
<1>5. CASE e = d /\ m.id \in DOMAIN d.bookmarks /\ d.bookmarks[m.id].at >= m.ts
  <2>1. Settled(e, m) /\ Overwrites(d, e, m.ts)
    BY <1>5, OverwritesSelf DEF Settled
  <2>. QED BY <1>5, <2>1 DEF Digests, e, g
<1>6. CASE BookmarkPut(d, e, m.id, g, m.verse, m.ts)
  <2>1. /\ m.id \in DOMAIN d.bookmarks => d.bookmarks[m.id].at < m.ts
        /\ m.id \in DOMAIN e.bookmarks
        /\ e.bookmarks[m.id].at = m.ts /\ e.bookmarks[m.id].folder = g
    BY <1>6 DEF BookmarkPut
  <2>2. \A i \in DOMAIN d.bookmarks \ {m.id} :
           \/ e.bookmarks[i] = d.bookmarks[i]
           \/ e.bookmarks[i].at = m.ts /\ ~e.bookmarks[i].live
    BY <1>1, <1>6, RowTypes, TombstoneRow DEF BookmarkPut
  <2>3. DefaultFolder \in LiveFolders(e) /\ LiveFolders(e) = LiveFolders(d)
    BY <1>3 DEF LiveFolders
  <2>4. \A f \in DOMAIN e.folders : Restamped(d.folders, e.folders, f, m.ts)
    BY <1>3 DEF Restamped
  <2>5. ASSUME NEW i \in DOMAIN e.bookmarks PROVE Restamped(d.bookmarks, e.bookmarks, i, m.ts)
    <3>1. CASE i = m.id
      BY <1>1, <2>1, <3>1, RowTypes DEF Restamped
    <3>2. CASE i # m.id
      <4>1. i \in DOMAIN d.bookmarks /\ d.bookmarks[i].at <= m.ts
        BY <1>3, <2>5, <3>2 DEF Old
      <4>. QED BY <2>2, <3>2, <4>1 DEF Restamped
    <3>. QED BY <3>1, <3>2
  <2>6. ASSUME NEW f, f \notin LiveFolders(d) PROVE LiveIn(e, f) \subseteq LiveIn(d, f)
    <3>1. SUFFICES ASSUME NEW i \in LiveIn(e, f) PROVE i \in LiveIn(d, f)
      OBVIOUS
    <3>2. i \in DOMAIN e.bookmarks /\ e.bookmarks[i].live /\ e.bookmarks[i].folder = f
      BY DEF LiveIn, LiveBookmarks
    <3>3. i # m.id
      BY <1>2, <2>1, <2>6, <3>2
    <3>4. i \in DOMAIN d.bookmarks /\ e.bookmarks[i] = d.bookmarks[i]
      BY <1>3, <2>2, <3>2, <3>3
    <3>. QED BY <3>2, <3>4 DEF LiveIn, LiveBookmarks
  <2>7. Overwrites(d, e, m.ts)
    <3>1. \A f \in FolderIds \ (LiveFolders(d) \cup LiveFolders(e)) :
             LiveIn(d, f) = {} => LiveIn(e, f) = {}
      BY <2>6
    <3>. QED BY <1>3, <2>4, <2>5, <3>1 DEF Overwrites
  <2>8. Settled(e, m)
    BY <1>1, <2>1 DEF Settled
  <2>9. IdsIn(e) \subseteq IdsIn(d) \cup {m.id}
    BY <1>3 DEF IdsIn
  <2>. QED BY <1>3, <2>3, <2>7, <2>8, <2>9 DEF Digests, e, g
<1>. QED BY <1>3, <1>4, <1>5, <1>6

LEMMA DeleteBookmarkDigests ==
    ASSUME NEW d, Tables(d), DefaultFolder \in LiveFolders(d),
           NEW m \in Mutations, m.kind = "bookmark.delete", Old(d, m.ts), m.id \in IdsIn(d)
    PROVE  Digests(d, DeleteBookmark(d, m.id, m.ts), m)
<1>. DEFINE e == DeleteBookmark(d, m.id, m.ts)
<1>1. m.ts \in Nat /\ m.id \in BookmarkIds
  BY StampAssumption DEF Mutations
<1>2. m.id \in DOMAIN d.bookmarks /\ d.bookmarks[m.id].at <= m.ts
  BY <1>1, IdKinds DEF IdsIn, Tables, Old
<1>3. /\ Tables(e) /\ e.folders = d.folders /\ DOMAIN e.bookmarks = DOMAIN d.bookmarks
      /\ \/ e = d /\ (m.id \notin DOMAIN d.bookmarks \/ d.bookmarks[m.id].at > m.ts)
         \/ BookmarkDeleted(d, e, m.id, m.ts)
  BY <1>1, DeleteBookmarkTyped
<1>. HIDE DEF e
<1>4. BookmarkDeleted(d, e, m.id, m.ts)
  <2>1. ~(d.bookmarks[m.id].at > m.ts)
    BY <1>1, <1>2, RowTypes
  <2>. QED BY <1>2, <1>3, <2>1
<1>5. /\ e.bookmarks[m.id].at = m.ts /\ ~e.bookmarks[m.id].live
      /\ \A i \in DOMAIN d.bookmarks \ {m.id} : e.bookmarks[i] = d.bookmarks[i]
  <2>1. e.bookmarks[m.id] = Tombstone(d.bookmarks[m.id], m.ts)
    BY <1>4 DEF BookmarkDeleted
  <2>2. d.bookmarks[m.id] \in Bookmark
    BY <1>2, RowTypes
  <2>. QED BY <1>1, <1>4, <2>1, <2>2, TombstoneRow DEF BookmarkDeleted
<1>6. DefaultFolder \in LiveFolders(e)
  BY <1>3 DEF LiveFolders
<1>7. \A f \in DOMAIN e.folders : Restamped(d.folders, e.folders, f, m.ts)
  BY <1>3 DEF Restamped
<1>8. \A b \in DOMAIN e.bookmarks : Restamped(d.bookmarks, e.bookmarks, b, m.ts)
  BY <1>2, <1>3, <1>5 DEF Restamped
<1>9. \A f : LiveIn(e, f) \subseteq LiveIn(d, f)
  BY <1>3, <1>5 DEF LiveIn, LiveBookmarks
<1>10. Overwrites(d, e, m.ts)
  <2>1. \A f : LiveIn(d, f) = {} => LiveIn(e, f) = {}
    BY <1>9
  <2>. QED BY <1>3, <1>7, <1>8, <2>1 DEF Overwrites
<1>11. Settled(e, m)
  BY <1>2, <1>3, <1>5 DEF Settled
<1>12. IdsIn(e) \subseteq IdsIn(d) \cup {m.id}
  BY <1>3 DEF IdsIn
<1>. QED BY <1>3, <1>6, <1>10, <1>11, <1>12 DEF Digests, e

LEMMA MutationDigests ==
    ASSUME NEW d, Tables(d), DefaultFolder \in LiveFolders(d), NEW m \in Mutations,
           Settled(d, m) \/ Old(d, m.ts),
           m.kind \in Upserts \/ m.id \in IdsIn(d),
           NEW ids, Within(ids), IdsIn(d) \subseteq ids, m.id \in ids
    PROVE  Digests(d, ApplyMutation(d, m, m.ts), m)
<1>1. CASE Settled(d, m)
  <2>1. ApplyMutation(d, m, m.ts) = d
    <3>1. m.ts \in Nat
      BY StampAssumption DEF Mutations
    <3>. QED BY <1>1, <3>1, SettledSkipped
  <2>2. Digests(d, d, m)
    BY <1>1, OverwritesSelf DEF Digests
  <2>. QED BY <2>1, <2>2
<1>2. CASE Old(d, m.ts)
  <2>1. CASE m.kind = "folder.upsert"
    <3>1. m.id \in FolderIds /\ ApplyMutation(d, m, m.ts) = UpsertFolder(d, m.id, m.ts)
      BY <2>1 DEF Mutations, ApplyMutation
    <3>2. ~FolderRefused(d, m.id)
      BY <3>1, Room
    <3>. QED BY <1>2, <2>1, <3>1, <3>2, UpsertFolderDigests
  <2>2. CASE m.kind = "folder.delete"
    <3>1. m.id \in IdsIn(d) /\ ApplyMutation(d, m, m.ts) = DeleteFolder(d, m.id, m.ts)
      BY <2>2 DEF ApplyMutation, Upserts
    <3>. QED BY <1>2, <2>2, <3>1, DeleteFolderDigests
  <2>3. CASE m.kind = "bookmark.upsert"
    <3>1. m.id \in BookmarkIds /\ ApplyMutation(d, m, m.ts) =
             UpsertBookmark(d, m.id, ResolveFolder(d, m.folder), m.verse, m.ts)
      BY <2>3 DEF Mutations, ApplyMutation
    <3>2. ~BookmarkRefused(d, m.id)
      BY <3>1, Room
    <3>. QED BY <1>2, <2>3, <3>1, <3>2, UpsertBookmarkDigests
  <2>4. CASE m.kind = "bookmark.delete"
    <3>1. m.id \in IdsIn(d) /\ ApplyMutation(d, m, m.ts) = DeleteBookmark(d, m.id, m.ts)
      BY <2>4 DEF ApplyMutation, Upserts
    <3>. QED BY <1>2, <2>4, <3>1, DeleteBookmarkDigests
  <2>5. m.kind \in {"folder.upsert", "folder.delete", "bookmark.upsert", "bookmark.delete"}
    BY DEF Mutations
  <2>. QED BY <2>1, <2>2, <2>3, <2>4, <2>5
<1>. QED BY <1>1, <1>2
-----------------------------------------------------------------------------
(* Rounds digest. *)

\* Induction up to n.
LEMMA Climb ==
    ASSUME NEW n \in Nat, NEW S, 0 \in S,
           \A k \in 0..n : k \in S /\ k # n => k + 1 \in S
    PROVE  \A k \in 0..n : k \in S
<1>. DEFINE T == {k \in 0..n : k \notin S}
<1>. SUFFICES ASSUME T # {} PROVE FALSE
  OBVIOUS
<1>1. PICK x \in T : \A y \in T : x <= y
  <2>1. T \subseteq Nat
    OBVIOUS
  <2>. HIDE DEF T
  <2>. QED BY <2>1, LeastNatural
<1>2. x # 0 /\ x - 1 \in 0..n /\ x - 1 # n /\ (x - 1) + 1 = x
  BY <1>1
<1>3. x - 1 \in S
  BY <1>1, <1>2
<1>. QED BY <1>1, <1>2, <1>3

\* No round forgets a row.
LEMMA RoundKeepsIds ==
    ASSUME NEW d, Tables(d), NEW batch \in Seq(Mutations), NEW limit \in Nat
    PROVE  /\ Tables(Round(d, batch, limit))
           /\ DOMAIN d.folders \cup {DefaultFolder} \subseteq DOMAIN Round(d, batch, limit).folders
           /\ DOMAIN d.bookmarks \subseteq DOMAIN Round(d, batch, limit).bookmarks
<1>. DEFINE n == Len(batch)
<1>1. n \in Nat /\ \A k \in 1..n : batch[k] \in Mutations
  OBVIOUS
<1>2. PICK f : /\ \A k \in 0..n : Tables(f[k])
               /\ f[0] = EnsureDefault(d) /\ Round(d, batch, limit) = f[n]
               /\ \A k \in 1..n : f[k] = ApplyMutation(f[k - 1], batch[k], Clamp(batch[k].ts, limit))
  <2>1. PICK f : RoundRun(f, d, batch, limit)
    BY RoundStates
  <2>. QED BY <2>1 DEF RoundRun
<1>. HIDE DEF n
<1>. DEFINE P(x) == /\ DOMAIN d.folders \cup {DefaultFolder} \subseteq DOMAIN x.folders
                    /\ DOMAIN d.bookmarks \subseteq DOMAIN x.bookmarks
            S == {k \in 0..n : P(f[k])}
<1>3. P(f[0])
  BY <1>2, EnsureDefaultTyped
<1>4. ASSUME NEW k \in 0..n, k \in S, k # n PROVE k + 1 \in S
  <2>1. k + 1 \in 1..n /\ (k + 1) - 1 = k
    BY <1>1, <1>4
  <2>2. Tables(f[k]) /\ batch[k + 1] \in Mutations
        /\ f[k + 1] = ApplyMutation(f[k], batch[k + 1], Clamp(batch[k + 1].ts, limit))
    BY <1>1, <1>2, <2>1
  <2>3. /\ DOMAIN f[k].folders \subseteq DOMAIN f[k + 1].folders
        /\ DOMAIN f[k].bookmarks \subseteq DOMAIN f[k + 1].bookmarks
    BY <2>2, ClampedStamp, ApplyTyped
  <2>4. P(f[k])
    BY <1>4
  <2>5. P(f[k + 1]) /\ k + 1 \in 0..n
    BY <1>1, <2>1, <2>3, <2>4
  <2>. QED BY <2>5
<1>5. 0 \in S /\ n \in 0..n
  BY <1>1, <1>3
<1>. HIDE DEF P
<1>6. \A k \in 0..n : k \in S
  <2>. HIDE DEF S
  <2>. QED BY <1>1, <1>4, <1>5, Climb
<1>7. P(f[n])
  BY <1>5, <1>6
<1>. QED BY <1>2, <1>5, <1>7 DEF P

LEMMA EnsureSkips ==
    ASSUME NEW d, Tables(d), DefaultFolder \in LiveFolders(d)
    PROVE  EnsureDefault(d) = d
<1>. DEFINE e == EnsureDefault(d)
<1>1. DefaultFolder \in DOMAIN d.folders /\ d.folders[DefaultFolder].live
  BY DEF LiveFolders
<1>2. /\ Tables(e) /\ e.bookmarks = d.bookmarks
      /\ DOMAIN e.folders = DOMAIN d.folders
      /\ \A f \in DOMAIN d.folders \ {DefaultFolder} : e.folders[f] = d.folders[f]
  BY <1>1, EnsureDefaultTyped
<1>3. e.folders = Put(d.folders, DefaultFolder, [at |-> d.folders[DefaultFolder].at, live |-> TRUE])
  BY <1>1 DEF EnsureDefault, Tables
<1>4. e.folders[DefaultFolder] = [at |-> d.folders[DefaultFolder].at, live |-> TRUE]
  BY <1>1, <1>3 DEF Put
<1>5. d.folders[DefaultFolder] = [at |-> d.folders[DefaultFolder].at, live |-> TRUE]
  <2>1. PICK a \in Nat, l \in BOOLEAN : d.folders[DefaultFolder] = [at |-> a, live |-> l]
    BY <1>1, RowTypes DEF Folder
  <2>. QED BY <1>1, <2>1
<1>. HIDE DEF e
<1>6. \A f \in DOMAIN d.folders : e.folders[f] = d.folders[f]
  BY <1>2, <1>4, <1>5
<1>7. e = d
  BY <1>2, <1>6, SameTables
<1>. QED BY <1>7 DEF e

\* The default folder is made live under the stamp it had, or under the epoch.
LEMMA EnsureSettles ==
    ASSUME NEW d, Tables(d), NEW m \in Mutations
    PROVE  LET e == EnsureDefault(d)
           IN  /\ Settled(d, m) => Settled(e, m)
               /\ \A ts \in Nat : Old(d, ts) => Old(e, ts)
               /\ DefaultFolder \in LiveFolders(e)
               /\ IdsIn(e) = IdsIn(d) \cup {DefaultFolder}
<1>. DEFINE e == EnsureDefault(d)
<1>1. /\ Tables(e) /\ e.bookmarks = d.bookmarks
      /\ DOMAIN e.folders = DOMAIN d.folders \cup {DefaultFolder}
      /\ \A f \in DOMAIN d.folders \ {DefaultFolder} : e.folders[f] = d.folders[f]
      /\ e.folders[DefaultFolder].live
      /\ e.folders[DefaultFolder].at =
            IF DefaultFolder \in DOMAIN d.folders THEN d.folders[DefaultFolder].at ELSE 0
  BY EnsureDefaultTyped
<1>. HIDE DEF e
<1>2. \A f : LiveIn(e, f) = LiveIn(d, f)
  BY <1>1 DEF LiveIn, LiveBookmarks
<1>3. Settled(d, m) => Settled(e, m)
  <2>. SUFFICES ASSUME Settled(d, m) PROVE Settled(e, m)
    OBVIOUS
  <2>1. m.id \in DOMAIN d.folders => m.id \in DOMAIN e.folders /\ e.folders[m.id].at = d.folders[m.id].at
    BY <1>1
  <2>2. m.id \in DOMAIN d.folders /\ m.id # DefaultFolder => e.folders[m.id] = d.folders[m.id]
    BY <1>1
  <2>3. CASE m.kind = "folder.upsert"
    BY <2>1, <2>3 DEF Settled
  <2>4. CASE m.kind = "folder.delete"
    BY <1>2, <2>1, <2>2, <2>4 DEF Settled
  <2>5. CASE m.kind \in {"bookmark.upsert", "bookmark.delete"}
    BY <1>1, <2>5 DEF Settled
  <2>. QED BY <2>3, <2>4, <2>5 DEF Settled
<1>4. ASSUME NEW ts \in Nat, Old(d, ts) PROVE Old(e, ts)
  BY <1>1, <1>4 DEF Old
<1>5. DefaultFolder \in LiveFolders(e) /\ IdsIn(e) = IdsIn(d) \cup {DefaultFolder}
  BY <1>1 DEF LiveFolders, IdsIn
<1>. QED BY <1>3, <1>4, <1>5 DEF e

\* Whatever the tables hold that is newer than a mutation came after it was settled.
Frontier(d) == /\ Old(d, clock)
               /\ \A m \in issued : Settled(d, m) \/ Old(d, m.ts)

\* A mutation that deletes speaks of a row the server knows, or will by then.
Originated(m) ==
    \/ m.kind \in Upserts
    \/ m.id \in IdsIn(db)
    \/ \E u \in issued : u.kind \in Upserts /\ u.id = m.id /\ u.ts < m.ts

\* Every older mutation is settled, or goes first.
Ordered(q) ==
    \A k \in DOMAIN q : \A m \in issued :
        m.ts < q[k].ts => Settled(db, m) \/ \E j \in 1..(k - 1) : q[j] = m

\* What a round leaves behind.
Digested(e, batch) ==
    /\ Tables(e) /\ DefaultFolder \in LiveFolders(e) /\ Frontier(e)
    /\ \A m \in issued : Settled(db, m) => Settled(e, m)
    /\ \A k \in DOMAIN batch : Settled(e, batch[k])

LEMMA FrontierMoves ==
    ASSUME issued \subseteq Mutations, clock \in Nat, NEW d, NEW e, Tables(d), Tables(e),
           Frontier(d), NEW n \in issued, n.ts <= clock, Overwrites(d, e, n.ts),
           \A m \in issued : m.ts < n.ts => Settled(d, m)
    PROVE  Frontier(e)
<1>1. n.ts \in Nat /\ \A m \in issued : m \in Mutations /\ m.ts \in Nat
  BY StampAssumption DEF Mutations
<1>2. ASSUME NEW ts \in Nat, n.ts <= ts, Old(d, ts) PROVE Old(e, ts)
  <2>1. \A f \in DOMAIN e.folders : e.folders[f].at <= ts
    BY <1>2 DEF Overwrites, Restamped, Old
  <2>2. \A f \in DOMAIN e.bookmarks : e.bookmarks[f].at <= ts
    BY <1>2 DEF Overwrites, Restamped, Old
  <2>. QED BY <2>1, <2>2 DEF Old
<1>3. Old(e, clock)
  BY <1>2 DEF Frontier
<1>4. ASSUME NEW m \in issued PROVE Settled(e, m) \/ Old(e, m.ts)
  <2>1. CASE Settled(d, m)
    BY <1>1, <2>1, SettledStays
  <2>2. CASE ~Settled(d, m)
    <3>1. Old(d, m.ts) /\ n.ts <= m.ts
      BY <1>1, <2>2 DEF Frontier
    <3>. QED BY <1>1, <1>2, <3>1
  <2>. QED BY <2>1, <2>2
<1>. QED BY <1>3, <1>4 DEF Frontier

\* The tables x after k mutations of the batch.
Reached(x, batch, k, ids) ==
    /\ Tables(x) /\ DefaultFolder \in LiveFolders(x) /\ Frontier(x)
    /\ IdsIn(x) \subseteq ids /\ IdsIn(db) \subseteq IdsIn(x)
    /\ \A m \in issued : Settled(db, m) => Settled(x, m)
    /\ \A j \in 1..k : Settled(x, batch[j])

LEMMA ReachedNext ==
    ASSUME Tables(db), issued \subseteq Mutations, clock \in Nat,
           \A m \in issued : m.ts <= clock /\ Originated(m),
           NEW batch \in Seq(issued), Ordered(batch),
           NEW ids, Within(ids), IdsOf(issued) \subseteq ids,
           NEW k \in Nat, k + 1 \in DOMAIN batch, NEW x, Reached(x, batch, k, ids)
    PROVE  Reached(ApplyMutation(x, batch[k + 1], batch[k + 1].ts), batch, k + 1, ids)
<1>. DEFINE n == batch[k + 1]
            e == ApplyMutation(x, n, n.ts)
<1>1. n \in issued /\ n \in Mutations /\ n.ts \in Nat /\ n.ts <= clock
  <2>1. n \in issued
    OBVIOUS
  <2>. HIDE DEF n
  <2>2. n.ts \in Clocks
    BY <2>1 DEF Mutations
  <2>. QED BY <2>1, <2>2, StampAssumption
<1>2. /\ Tables(x) /\ DefaultFolder \in LiveFolders(x) /\ Frontier(x)
      /\ IdsIn(x) \subseteq ids /\ IdsIn(db) \subseteq IdsIn(x)
      /\ \A m \in issued : Settled(db, m) => Settled(x, m)
      /\ \A j \in 1..k : Settled(x, batch[j])
  BY DEF Reached
<1>3. ASSUME NEW m \in issued, m.ts < n.ts PROVE Settled(x, m)
  <2>1. Settled(db, m) \/ \E j \in 1..((k + 1) - 1) : batch[j] = m
    BY <1>3 DEF Ordered
  <2>2. (k + 1) - 1 = k
    OBVIOUS
  <2>. QED BY <1>2, <2>1, <2>2
<1>. HIDE DEF n
<1>4. n.kind \in Upserts \/ n.id \in IdsIn(x)
  <2>1. Originated(n)
    BY <1>1
  <2>2. ASSUME NEW u \in issued, u.kind \in Upserts, u.id = n.id, u.ts < n.ts PROVE n.id \in IdsIn(x)
    <3>1. Settled(x, u)
      BY <1>3, <2>2
    <3>. QED BY <2>2, <3>1 DEF Settled, Upserts, IdsIn
  <2>. QED BY <1>2, <2>1, <2>2 DEF Originated
<1>5. n.id \in ids /\ (Settled(x, n) \/ Old(x, n.ts))
  BY <1>1, <1>2 DEF IdsOf, Frontier
<1>6. Digests(x, e, n)
  BY <1>1, <1>2, <1>4, <1>5, MutationDigests
<1>. HIDE DEF e
<1>7. /\ Tables(e) /\ DefaultFolder \in LiveFolders(e) /\ Overwrites(x, e, n.ts) /\ Settled(e, n)
      /\ IdsIn(e) \subseteq IdsIn(x) \cup {n.id} /\ IdsIn(x) \subseteq IdsIn(e)
  BY <1>6 DEF Digests, Overwrites, IdsIn
<1>8. Frontier(e)
  BY <1>1, <1>2, <1>3, <1>7, FrontierMoves
<1>9. ASSUME NEW m \in issued, Settled(x, m) PROVE Settled(e, m)
  BY <1>1, <1>2, <1>7, <1>9, SettledStays
<1>10. \A j \in 1..(k + 1) : Settled(e, batch[j])
  <2>1. ASSUME NEW j \in 1..(k + 1), j # k + 1 PROVE Settled(e, batch[j])
    <3>1. j \in 1..k /\ j \in DOMAIN batch
      BY <2>1
    <3>2. batch[j] \in issued
      BY <3>1
    <3>. QED BY <1>2, <1>9, <3>1, <3>2
  <2>. QED BY <1>7, <2>1 DEF n
<1>11. Reached(e, batch, k + 1, ids)
  BY <1>2, <1>5, <1>7, <1>8, <1>9, <1>10 DEF Reached
<1>. QED BY <1>11 DEF e, n

\* A round of mutations none of which overtakes an older one digests them all.
LEMMA RoundDigests ==
    ASSUME Tables(db), issued \subseteq Mutations, clock \in Nat, Frontier(db),
           \A m \in issued : m.ts <= clock /\ Originated(m),
           NEW batch \in Seq(issued), Ordered(batch),
           NEW limit \in Nat, \A m \in ToSet(batch) : m.ts <= limit,
           NEW ids, Within(ids), IdsIn(db) \cup IdsOf(issued) \cup {DefaultFolder} \subseteq ids
    PROVE  Digested(Round(db, batch, limit), batch)
<1>. DEFINE n == Len(batch)
<1>1. n \in Nat /\ batch \in Seq(Mutations) /\ DOMAIN batch = 1..n
  BY SeqGrows
<1>2. PICK f : /\ \A k \in 0..n : Tables(f[k])
               /\ f[0] = EnsureDefault(db) /\ Round(db, batch, limit) = f[n]
               /\ \A k \in 1..n : f[k] = ApplyMutation(f[k - 1], batch[k], batch[k].ts)
  <2>1. \A k \in 1..n : Clamp(batch[k].ts, limit) = batch[k].ts
    <3>1. \A k \in 1..n : batch[k] \in Mutations /\ batch[k].ts <= limit
      BY <1>1 DEF ToSet
    <3>. QED BY <3>1, ClampedStamp
  <2>2. PICK g : RoundRun(g, db, batch, limit)
    BY <1>1, RoundStates
  <2>3. \A k \in 1..n : g[k] = ApplyMutation(g[k - 1], batch[k], batch[k].ts)
    BY <2>1, <2>2 DEF RoundRun
  <2>. QED BY <2>2, <2>3 DEF RoundRun
<1>. HIDE DEF n
<1>. DEFINE S == {k \in 0..n : Reached(f[k], batch, k, ids)}
<1>3. Reached(f[0], batch, 0, ids)
  <2>. DEFINE e == EnsureDefault(db)
  <2>1. Tables(e)
    BY <1>1, <1>2
  <2>2. ASSUME NEW m \in Mutations PROVE Settled(db, m) => Settled(e, m)
    BY EnsureSettles
  <2>3. /\ DefaultFolder \in LiveFolders(e) /\ IdsIn(e) = IdsIn(db) \cup {DefaultFolder}
    <3>1. DefaultFolder \in DOMAIN e.folders /\ e.folders[DefaultFolder].live
          /\ e.bookmarks = db.bookmarks
          /\ DOMAIN e.folders = DOMAIN db.folders \cup {DefaultFolder}
      BY EnsureDefaultTyped
    <3>. QED BY <3>1 DEF LiveFolders, IdsIn
  <2>4. ASSUME NEW ts \in Nat, Old(db, ts) PROVE Old(e, ts)
    <3>1. /\ Tables(e) /\ e.bookmarks = db.bookmarks
          /\ DOMAIN e.folders = DOMAIN db.folders \cup {DefaultFolder}
          /\ \A g \in DOMAIN db.folders \ {DefaultFolder} : e.folders[g] = db.folders[g]
          /\ e.folders[DefaultFolder].at =
                IF DefaultFolder \in DOMAIN db.folders THEN db.folders[DefaultFolder].at ELSE 0
      BY EnsureDefaultTyped
    <3>. QED BY <2>4, <3>1 DEF Old
  <2>. HIDE DEF e
  <2>5. \A m \in issued : m.ts \in Nat
    BY StampAssumption DEF Mutations
  <2>6. Frontier(e)
    BY <2>2, <2>4, <2>5 DEF Frontier
  <2>7. \A m \in issued : Settled(db, m) => Settled(e, m)
    BY <2>2
  <2>8. Reached(e, batch, 0, ids)
    BY <2>1, <2>3, <2>6, <2>7 DEF Reached
  <2>. QED BY <1>2, <2>8 DEF e
<1>4. ASSUME NEW k \in 0..n, k \in S, k # n PROVE k + 1 \in S
  <2>1. k + 1 \in 1..n /\ (k + 1) - 1 = k /\ k \in Nat /\ k + 1 \in 0..n
    BY <1>1, <1>4
  <2>2. Reached(f[k], batch, k, ids)
    BY <1>4
  <2>3. f[k + 1] = ApplyMutation(f[k], batch[k + 1], batch[k + 1].ts)
    BY <1>2, <2>1
  <2>4. Reached(ApplyMutation(f[k], batch[k + 1], batch[k + 1].ts), batch, k + 1, ids)
    BY <1>1, <2>1, <2>2, ReachedNext
  <2>. QED BY <2>1, <2>3, <2>4
<1>5. 0 \in S /\ n \in 0..n
  BY <1>1, <1>3
<1>6. \A k \in 0..n : k \in S
  <2>. HIDE DEF S
  <2>. QED BY <1>1, <1>4, <1>5, Climb
<1>7. Reached(Round(db, batch, limit), batch, n, ids)
  BY <1>2, <1>5, <1>6
<1>. QED BY <1>1, <1>7 DEF Reached, Digested
-----------------------------------------------------------------------------
(* What the device knows of. *)

Born(e) == \/ e \in IdsIn(db)
           \/ \E u \in issued : u.kind \in Upserts /\ u.id = e

SeenIn(a) == a.folders \cup DOMAIN a.bookmarks \subseteq IdsIn(db)

\* No mutation is from the future, none removes what nobody put there, and the tabs show
\* nothing else.
Known ==
    /\ remote \in Nat
    /\ \A m \in issued : m.ts <= clock /\ Originated(m)
    /\ SeenIn(cache)
    /\ \A t \in Tabs : /\ SeenIn(snapshot[t]) /\ SeenIn(round[t].answer)
                       /\ \A e \in DOMAIN overlay[t] : overlay[t][e].live => Born(e)

LEMMA InitKnown == Init => Known
<1>. SUFFICES ASSUME Init PROVE Known
  OBVIOUS
<1>1. /\ Tables(db) /\ issued = {} /\ remote = 0 /\ cache = Snapshot(db)
      /\ \A t \in Tabs : snapshot[t] = Snapshot(db) /\ overlay[t] = Nothing /\ round[t] = NoRound
  BY NoTablesTyped DEF Init
<1>2. SeenIn(Snapshot(db))
  BY <1>1, SnapshotTyped DEF SeenIn, IdsIn
<1>3. SeenIn(NoRound.answer)
  BY DEF SeenIn, NoRound, NoSnapshot, Nothing
<1>4. DOMAIN Nothing = {}
  BY NothingTyped
<1>. QED BY <1>1, <1>2, <1>3, <1>4 DEF Known

\* Whatever can be removed was once put.
LEMMA StandingBorn ==
    ASSUME TypeInv, Known, NEW t \in Tabs, NEW e \in Standing(t)
    PROVE  Born(e)
<1>1. /\ SeenIn(snapshot[t])
      /\ \A i \in DOMAIN overlay[t] : overlay[t][i].live => Born(i)
  BY DEF Known
<1>2. CASE e \in Folders(t) \ {DefaultFolder}
  BY <1>1, <1>2 DEF Folders, SeenIn, Born
<1>3. CASE e \in Present(t)
  BY <1>1, <1>3 DEF Present, Row, SeenIn, Born
<1>. QED BY <1>2, <1>3 DEF Standing

\* Rows are never forgotten and mutations neither.
LEMMA KnownGrows ==
    ASSUME IdsIn(db) \subseteq IdsIn(db'), issued \subseteq issued'
    PROVE  /\ \A e : Born(e) => Born(e)'
           /\ \A m : Originated(m) => Originated(m)'
           /\ \A a : a.folders \cup DOMAIN a.bookmarks \subseteq IdsIn(db)
                        => a.folders \cup DOMAIN a.bookmarks \subseteq IdsIn(db')
BY DEF Born, Originated

LEMMA EditsKnown ==
    ASSUME TypeInv, Known, NEW t \in Tabs, Edits(t)
    PROVE  Known'
<1>1. PICK changes, ms, removed : Sensible(t, changes, ms, removed) /\ Edit(t, changes, ms, removed)
  BY DEF Edits
<1>2. /\ clock' = clock + 1 /\ issued' = issued \cup ToSet(ms)
      /\ overlay' = [overlay EXCEPT ![t] = Laid(changes, @)]
      /\ UNCHANGED <<db, cache, snapshot, round, remote>>
  BY <1>1 DEF Edit, Stamp
<1>3. /\ changes \in Overlays
      /\ \A m \in ToSet(ms) : m.ts = clock + 1 /\ (m.kind \in Upserts \/ m.id \in Standing(t))
      /\ \A e \in DOMAIN changes : changes[e] = Gone \/ \E m \in ToSet(ms) : m.id = e /\ m.kind \in Upserts
  BY <1>1 DEF Sensible, Stamp
<1>4. Data /\ TabData /\ clock \in Nat /\ issued \subseteq Mutations /\ overlay \in [Tabs -> Overlays]
  BY DEF TypeInv, Data, TabData
<1>5. \A m \in issued : m.ts \in Nat
  BY <1>4, StampAssumption DEF Mutations
<1>6. IdsIn(db) \subseteq IdsIn(db') /\ issued \subseteq issued'
  BY <1>2
<1>7. \A e : Born(e) => Born(e)'
  BY <1>6, KnownGrows
<1>8. ASSUME NEW m \in issued PROVE m.ts <= clock' /\ Originated(m)'
  <2>1. m.ts <= clock /\ Originated(m)
    BY DEF Known
  <2>2. Originated(m)'
    BY <1>6, <2>1, KnownGrows
  <2>. QED BY <1>2, <1>4, <1>5, <2>1, <2>2
<1>9. ASSUME NEW m \in ToSet(ms) PROVE m.ts <= clock' /\ Originated(m)'
  <2>1. m.ts = clock + 1 /\ (m.kind \in Upserts \/ m.id \in Standing(t))
    BY <1>3
  <2>2. m.ts <= clock'
    BY <1>2, <1>4, <2>1
  <2>3. CASE m.kind \in Upserts
    BY <2>2, <2>3 DEF Originated
  <2>4. CASE m.id \in Standing(t)
    <3>1. Born(m.id)
      BY <2>4, StandingBorn
    <3>2. ASSUME NEW u \in issued, u.kind \in Upserts, u.id = m.id PROVE u.ts < m.ts /\ u \in issued'
      <4>1. u.ts <= clock
        BY DEF Known
      <4>. QED BY <1>2, <1>4, <1>5, <2>1, <4>1
    <3>. QED BY <1>2, <2>2, <3>1, <3>2 DEF Born, Originated
  <2>. QED BY <2>1, <2>3, <2>4
<1>10. ASSUME NEW u \in Tabs, NEW e \in DOMAIN overlay'[u], overlay'[u][e].live PROVE Born(e)'
  <2>1. CASE u # t
    <3>1. overlay'[u] = overlay[u]
      BY <1>2, <1>4, <2>1
    <3>2. Born(e)
      BY <1>10, <3>1 DEF Known
    <3>. QED BY <1>7, <3>2
  <2>2. CASE u = t
    <3>1. overlay'[t] = Laid(changes, overlay[t]) /\ overlay[t] \in Overlays
      BY <1>2, <1>4
    <3>2. Covers(Laid(changes, overlay[t]), changes, overlay[t])
      BY <1>3, <3>1, LaidTyped
    <3>3. \/ e \in DOMAIN changes /\ overlay'[t][e] = changes[e]
          \/ e \in DOMAIN overlay[t] /\ overlay'[t][e] = overlay[t][e]
      BY <1>10, <2>2, <3>1, <3>2 DEF Covers
    <3>4. CASE e \in DOMAIN changes /\ overlay'[t][e] = changes[e]
      <4>1. changes[e] # Gone
        BY <1>10, <2>2, <3>4 DEF Gone
      <4>2. \E m \in ToSet(ms) : m.id = e /\ m.kind \in Upserts
        BY <1>3, <3>4, <4>1
      <4>. QED BY <1>2, <4>2 DEF Born
    <3>5. CASE e \in DOMAIN overlay[t] /\ overlay'[t][e] = overlay[t][e]
      <4>1. Born(e)
        BY <1>10, <2>2, <3>5 DEF Known
      <4>. QED BY <1>7, <4>1
    <3>. QED BY <3>3, <3>4, <3>5
  <2>. QED BY <2>1, <2>2
<1>11. remote' \in Nat /\ SeenIn(cache)' /\ \A u \in Tabs : SeenIn(snapshot[u])' /\ SeenIn(round[u].answer)'
  BY <1>2 DEF Known, SeenIn
<1>. QED BY <1>2, <1>8, <1>9, <1>10, <1>11 DEF Known

\* A step that puts no overlay and takes snapshots only from the server or from one another.
LEMMA OthersKnown ==
    ASSUME TypeInv, Known, IdsIn(db) \subseteq IdsIn(db'), issued' = issued, clock' = clock, remote' \in Nat,
           SeenIn(cache)', \A t \in Tabs : SeenIn(snapshot[t])' /\ SeenIn(round[t].answer)',
           \A t \in Tabs : \A e \in DOMAIN overlay'[t] :
              e \in DOMAIN overlay[t] /\ overlay'[t][e] = overlay[t][e]
    PROVE  Known'
<1>1. \A e : Born(e) => Born(e)'
  BY KnownGrows
<1>2. ASSUME NEW m \in issued PROVE m.ts <= clock' /\ Originated(m)'
  <2>1. m.ts <= clock /\ Originated(m)
    BY DEF Known
  <2>. QED BY <2>1, KnownGrows
<1>3. ASSUME NEW t \in Tabs, NEW e \in DOMAIN overlay'[t], overlay'[t][e].live PROVE Born(e)'
  <2>1. Born(e)
    BY <1>3 DEF Known
  <2>. QED BY <1>1, <2>1
<1>. QED BY <1>2, <1>3 DEF Known

LEMMA Uncovered ==
    ASSUME overlay \in [Tabs -> Overlays], NEW t \in Tabs, NEW es,
           overlay' = [overlay EXCEPT ![t] = Without(overlay[t], es)]
    PROVE  \A u \in Tabs : \A e \in DOMAIN overlay'[u] :
              e \in DOMAIN overlay[u] /\ overlay'[u][e] = overlay[u][e]
<1>. DEFINE w == Without(overlay[t], es)
<1>1. /\ DOMAIN w = DOMAIN overlay[t] \ es
      /\ \A e \in DOMAIN w : w[e] = overlay[t][e]
  BY WithoutTyped
<1>. HIDE DEF w
<1>2. overlay'[t] = w /\ \A u \in Tabs \ {t} : overlay'[u] = overlay[u]
  BY DEF w
<1>. QED BY <1>1, <1>2

LEMMA RoundKnown ==
    ASSUME TypeInv, NEW batch \in Seq(Mutations),
           NEW limit \in Clocks, db' = Round(db, batch, limit)
    PROVE  /\ Tables(db') /\ IdsIn(db) \cup {DefaultFolder} \subseteq IdsIn(db')
           /\ Snapshot(db').folders \cup DOMAIN Snapshot(db').bookmarks \subseteq IdsIn(db')
<1>1. Tables(db) /\ limit \in Nat
  BY StampAssumption DEF TypeInv, Data
<1>2. Tables(db') /\ IdsIn(db) \cup {DefaultFolder} \subseteq IdsIn(db')
  BY <1>1, RoundKeepsIds DEF IdsIn
<1>. QED BY <1>2, SnapshotTyped DEF IdsIn

LEMMA NextKnown == TypeInv /\ Known /\ [Next]_vars => Known'
<1>. SUFFICES ASSUME TypeInv, Known, [Next]_vars PROVE Known'
  OBVIOUS
<1>. DEFINE Same == \A u \in Tabs : \A e \in DOMAIN overlay'[u] :
                        e \in DOMAIN overlay[u] /\ overlay'[u][e] = overlay[u][e]
            Seen == SeenIn(cache)' /\ \A u \in Tabs : SeenIn(snapshot[u])' /\ SeenIn(round[u].answer)'
<1>1. /\ remote \in Nat /\ SeenIn(cache)
      /\ \A u \in Tabs : SeenIn(snapshot[u]) /\ SeenIn(round[u].answer)
  BY DEF Known
<1>2. /\ issued \subseteq Mutations /\ strays \subseteq Seq(issued) /\ overlay \in [Tabs -> Overlays]
      /\ snapshot \in [Tabs -> Answers] /\ round \in [Tabs -> Requests]
      /\ \A u \in Tabs : round[u].batch \in Seq(issued)
  BY DEF TypeInv, Data, TabData
<1>3. \A q \in Seq(issued) : q \in Seq(Mutations)
  BY <1>2, SeqGrows
<1>4. SeenIn(NoRound.answer) /\ NoRound.answer.folders = {} /\ DOMAIN NoRound.answer.bookmarks = {}
  BY DEF SeenIn, NoRound, NoSnapshot, Nothing
<1>5. ASSUME NEW t \in Tabs, Tap(t) PROVE Known'
  BY <1>5, TapEdits, EditsKnown
<1>12. ASSUME NEW t \in Tabs, NEW e \in Entities, EditFails(t, e) PROVE Known'
  <2>1. /\ overlay' = [overlay EXCEPT ![t] = Without(@, {e})]
        /\ UNCHANGED <<db, cache, snapshot, round, issued, clock, remote>>
    BY <1>12 DEF EditFails
  <2>2. Seen
    BY <1>1, <2>1 DEF SeenIn
  <2>3. Same
    BY <1>2, <2>1, Uncovered
  <2>. QED BY <1>1, <2>1, <2>2, <2>3, OthersKnown
<1>6. ASSUME NEW t \in Tabs, Sync(t) PROVE Known'
  <2>1. CASE Send(t)
    <3>1. /\ round' = [round EXCEPT ![t] = [NoRound EXCEPT !.at = "sent", !.batch = Batch]]
          /\ UNCHANGED <<db, cache, snapshot, overlay, issued, clock, remote>>
      BY <2>1 DEF Send, bounds
    <3>2. \A u \in Tabs : round'[u].answer \in {round[u].answer, NoRound.answer}
      BY <1>2, <3>1 DEF NoRound
    <3>3. Seen
      BY <1>1, <1>4, <3>1, <3>2 DEF SeenIn
    <3>4. Same
      BY <3>1
    <3>. QED BY <1>1, <3>1, <3>3, <3>4, OthersKnown
  <2>2. CASE Serve(t)
    <3>. SUFFICES ASSUME NEW limit \in Clocks, db' = Round(db, round[t].batch, limit)
                  PROVE  Known'
      BY <2>2 DEF Serve, Push
    <3>1. /\ round' = [round EXCEPT ![t].at = "answered", ![t].answer = Snapshot(db')]
          /\ UNCHANGED <<cache, snapshot, overlay, issued, clock, remote>>
      BY <2>2 DEF Serve
    <3>2. /\ IdsIn(db) \subseteq IdsIn(db')
          /\ Snapshot(db').folders \cup DOMAIN Snapshot(db').bookmarks \subseteq IdsIn(db')
      BY <1>2, <1>3, <3>1, RoundKnown
    <3>3. \A u \in Tabs : round'[u].answer \in {round[u].answer, Snapshot(db')}
      BY <1>2, <3>1 DEF Requests
    <3>4. Seen
      BY <1>1, <3>1, <3>2, <3>3 DEF SeenIn
    <3>5. Same
      BY <3>1
    <3>. QED BY <1>1, <3>1, <3>2, <3>4, <3>5, OthersKnown
  <2>3. CASE Lose(t)
    <3>1. /\ round' = [round EXCEPT ![t] = NoRound]
          /\ UNCHANGED <<db, cache, snapshot, overlay, issued, clock, remote>>
      BY <2>3 DEF Lose
    <3>2. \A u \in Tabs : round'[u].answer \in {round[u].answer, NoRound.answer}
      BY <1>2, <3>1
    <3>3. Seen
      BY <1>1, <1>4, <3>1, <3>2 DEF SeenIn
    <3>4. Same
      BY <3>1
    <3>. QED BY <1>1, <3>1, <3>3, <3>4, OthersKnown
  <2>4. CASE Receive(t)
    <3>1. /\ round' = [round EXCEPT ![t] = NoRound]
          /\ snapshot' = [snapshot EXCEPT ![t] = round[t].answer]
          /\ overlay' = [overlay EXCEPT ![t] = Retired(t, ToSet(round[t].batch))]
          /\ UNCHANGED <<db, cache, issued, clock, remote>>
      BY <2>4 DEF Receive, bounds
    <3>2. \A u \in Tabs : /\ round'[u].answer \in {round[u].answer, NoRound.answer}
                          /\ snapshot'[u] \in {snapshot[u], round[u].answer}
      BY <1>2, <3>1
    <3>3. Seen
      BY <1>1, <1>4, <3>1, <3>2 DEF SeenIn
    <3>4. Same
      BY <1>2, <3>1, Uncovered DEF Retired
    <3>. QED BY <1>1, <3>1, <3>3, <3>4, OthersKnown
  <2>5. CASE Notice(t)
    <3>1. /\ overlay' = [overlay EXCEPT ![t] = Retired(t, notices[t] \cap mine[t])]
          /\ UNCHANGED <<db, cache, snapshot, round, issued, clock, remote>>
      BY <2>5 DEF Notice, bounds
    <3>3. Seen
      BY <1>1, <3>1 DEF SeenIn
    <3>4. Same
      BY <1>2, <3>1, Uncovered DEF Retired
    <3>. QED BY <1>1, <3>1, <3>3, <3>4, OthersKnown
  <2>6. CASE Erase(t)
    <3>1. /\ round' = [round EXCEPT ![t].at = "erased"]
          /\ UNCHANGED <<db, cache, snapshot, overlay, issued, clock, remote>>
      BY <2>6 DEF Erase, bounds
    <3>2. \A u \in Tabs : round'[u].answer = round[u].answer
      BY <1>2, <3>1 DEF Requests
    <3>3. Seen
      BY <1>1, <3>1, <3>2 DEF SeenIn
    <3>4. Same
      BY <3>1
    <3>. QED BY <1>1, <3>1, <3>3, <3>4, OthersKnown
  <2>. QED BY <1>6, <2>1, <2>2, <2>3, <2>4, <2>5, <2>6 DEF Sync
<1>7. ASSUME NEW t \in Tabs, Persist(t) PROVE Known'
  <2>1. /\ cache' = snapshot[t]
        /\ UNCHANGED <<db, snapshot, overlay, round, issued, clock, remote>>
    BY <1>7 DEF Persist, tabState, bounds
  <2>2. Seen /\ Same
    BY <1>1, <2>1 DEF SeenIn
  <2>. QED BY <1>1, <2>1, <2>2, OthersKnown
<1>8. ASSUME NEW t \in Tabs, Reload(t) PROVE Known'
  <2>1. /\ snapshot' = [snapshot EXCEPT ![t] = cache]
        /\ overlay' = [overlay EXCEPT ![t] = Nothing]
        /\ round' = [round EXCEPT ![t] = NoRound]
        /\ UNCHANGED <<db, cache, issued, clock, remote>>
    BY <1>8 DEF Reload
  <2>2. \A u \in Tabs : /\ round'[u].answer \in {round[u].answer, NoRound.answer}
                        /\ snapshot'[u] \in {snapshot[u], cache}
    BY <1>2, <2>1
  <2>3. Seen
    BY <1>1, <1>4, <2>1, <2>2 DEF SeenIn
  <2>4. Same
    BY <1>2, <2>1, NothingTyped
  <2>. QED BY <1>1, <2>1, <2>3, <2>4, OthersKnown
<1>9. ASSUME NEW batch \in strays, ServeStray(batch) PROVE Known'
  <2>. SUFFICES ASSUME NEW limit \in Clocks, db' = Round(db, batch, limit)
                PROVE  Known'
    BY <1>9 DEF ServeStray, Push
  <2>1. /\ UNCHANGED <<cache, snapshot, overlay, round, issued, clock, remote>>
    BY <1>9 DEF ServeStray, tabState
  <2>2. IdsIn(db) \subseteq IdsIn(db')
    BY <1>2, <1>3, <2>1, RoundKnown
  <2>3. Seen /\ Same
    BY <1>1, <2>1, <2>2 DEF SeenIn
  <2>. QED BY <1>1, <2>1, <2>2, <2>3, OthersKnown
<1>10. ASSUME NEW m \in Mutations, OtherDevice(m) PROVE Known'
  <2>. SUFFICES ASSUME NEW limit \in Clocks, db' = Round(db, <<m>>, limit)
                PROVE  Known'
    BY <1>10 DEF OtherDevice, Push
  <2>1. /\ remote' = remote + 1
        /\ UNCHANGED <<cache, snapshot, overlay, round, issued, clock>>
    BY <1>10 DEF OtherDevice, tabState
  <2>2. IdsIn(db) \subseteq IdsIn(db')
    <3>1. <<m>> \in Seq(Mutations)
      OBVIOUS
    <3>. QED BY <2>1, <3>1, RoundKnown
  <2>3. Seen /\ Same
    BY <1>1, <2>1, <2>2 DEF SeenIn
  <2>4. remote' \in Nat
    BY <1>1, <2>1
  <2>. QED BY <2>1, <2>2, <2>3, <2>4, OthersKnown
<1>11. CASE UNCHANGED vars
  <2>1. UNCHANGED <<db, cache, snapshot, overlay, round, issued, clock, remote>>
    BY <1>11 DEF vars, tabState, bounds
  <2>2. Seen /\ Same
    BY <1>1, <2>1 DEF SeenIn
  <2>. QED BY <1>1, <2>1, <2>2, OthersKnown
<1>. QED BY <1>5, <1>6, <1>7, <1>8, <1>9, <1>10, <1>11, <1>12 DEF Next
-----------------------------------------------------------------------------
(* What has left the outbox has been digested. *)

Taken(m) == DefaultFolder \in LiveFolders(db) /\ Settled(db, m)

\* As long as nobody else writes, no quota is reached and the clocks are in step.
Quiet == remote = 0 /\ InQuota /\ ~clamped

\* Requests under way keep the order of the queue, answered ones are digested, and so is
\* what the queue holds no longer.
Clean ==
    /\ Frontier(db)
    /\ Ordered(outbox)
    /\ \A batch \in strays : Ordered(batch)
    /\ \A t \in Tabs : round[t].at = "sent" => Ordered(round[t].batch)
    /\ \A t \in Tabs : round[t].at = "answered" => \A m \in ToSet(round[t].batch) : Taken(m)
    /\ \A m \in issued \ ToSet(outbox) : Taken(m)

DigestInv == Quiet => Clean

LEMMA InitClean == Init => DigestInv
<1>. SUFFICES ASSUME Init PROVE Clean
  BY DEF DigestInv
<1>1. /\ db = [NoTables EXCEPT !.folders = [f \in OldFolders |-> [at |-> 0, live |-> TRUE]]]
      /\ issued = {} /\ outbox = <<>> /\ strays = {} /\ clock = 0
      /\ \A t \in Tabs : round[t] = NoRound
  BY DEF Init
<1>2. Old(db, 0)
  <2>. DEFINE old == [f \in OldFolders |-> [at |-> 0, live |-> TRUE]]
  <2>1. db.folders = old /\ DOMAIN db.bookmarks = {}
    BY <1>1 DEF NoTables, NoRows
  <2>2. \A f \in DOMAIN old : old[f].at <= 0
    OBVIOUS
  <2>. HIDE DEF old
  <2>. QED BY <2>1, <2>2 DEF Old
<1>3. Frontier(db)
  BY <1>1, <1>2 DEF Frontier
<1>4. Ordered(outbox)
  BY <1>1 DEF Ordered
<1>. QED BY <1>1, <1>3, <1>4 DEF Clean, NoRound

\* The ids in use only grow.
LEMMA QuietBefore ==
    ASSUME IsFiniteSet(Used' \cap BookmarkIds), IsFiniteSet(Used' \cap FolderIds),
           Used \subseteq Used', remote' = remote, clamped' = clamped, Quiet'
    PROVE  Quiet
<1>1. /\ Cardinality(Used' \cap BookmarkIds) <= BookmarkQuota
      /\ Cardinality(Used' \cap FolderIds) <= FolderQuota /\ remote = 0
  BY DEF Quiet, InQuota
<1>2. /\ Cardinality(Used \cap BookmarkIds) <= Cardinality(Used' \cap BookmarkIds)
      /\ Cardinality(Used \cap BookmarkIds) \in Nat /\ Cardinality(Used' \cap BookmarkIds) \in Nat
  <2>1. Used \cap BookmarkIds \subseteq Used' \cap BookmarkIds
    OBVIOUS
  <2>. QED BY <2>1, SmallerSet
<1>3. /\ Cardinality(Used \cap FolderIds) <= Cardinality(Used' \cap FolderIds)
      /\ Cardinality(Used \cap FolderIds) \in Nat /\ Cardinality(Used' \cap FolderIds) \in Nat
  <2>1. Used \cap FolderIds \subseteq Used' \cap FolderIds
    OBVIOUS
  <2>. QED BY <2>1, SmallerSet
<1>. QED BY <1>1, <1>2, <1>3, QuotaAssumption DEF Quiet, InQuota

LEMMA QuietSteps ==
    ASSUME IdsIn(db) \subseteq IdsIn(db'), issued \subseteq issued', remote' = remote,
           clamped' = clamped, Quiet'
    PROVE  Quiet
<1>1. Used \subseteq Used'
  BY DEF Used, IdsIn, IdsOf
<1>2. IsFiniteSet(Used' \cap BookmarkIds) /\ IsFiniteSet(Used' \cap FolderIds)
  BY StoreAssumption, FS_Subset
<1>. QED BY <1>1, <1>2, QuietBefore

\* A newer mutation is in nobody's way.
LEMMA OrderGrows ==
    ASSUME TypeInv, Known, NEW q \in Seq(issued), Ordered(q), db' = db,
           NEW new, issued' = issued \cup new, \A m \in new : m.ts = clock + 1
    PROVE  Ordered(q)'
<1>. SUFFICES ASSUME NEW k \in DOMAIN q, NEW m \in issued', m.ts < q[k].ts
              PROVE  Settled(db', m) \/ \E j \in 1..(k - 1) : q[j] = m
  BY DEF Ordered
<1>1. q[k] \in issued
  OBVIOUS
<1>2. clock \in Nat /\ q[k].ts \in Nat /\ q[k].ts <= clock
  BY <1>1, StampAssumption DEF TypeInv, Data, Known, Mutations
<1>3. m \in issued
  BY <1>2
<1>. QED BY <1>3 DEF Ordered

LEMMA EditsClean ==
    ASSUME TypeInv, Known, DigestInv, NEW t \in Tabs, Edits(t)
    PROVE  DigestInv'
<1>1. PICK changes, ms, removed : Sensible(t, changes, ms, removed) /\ Edit(t, changes, ms, removed)
  BY DEF Edits
<1>2. /\ clock' = clock + 1 /\ issued' = issued \cup ToSet(ms) /\ outbox' = outbox \o ms
      /\ UNCHANGED <<db, round, strays, remote, clamped>>
  BY <1>1 DEF Edit, Stamp
<1>3. ms \in Seq(Mutations) /\ \A m \in ToSet(ms) : m.ts = clock + 1
  BY <1>1 DEF Sensible, Stamp
<1>. SUFFICES ASSUME Quiet' PROVE Clean'
  BY DEF DigestInv
<1>4. Clean
  BY <1>2, QuietSteps DEF DigestInv
<1>5. /\ Tables(db) /\ clock \in Nat /\ issued \subseteq Mutations /\ outbox \in Seq(issued)
      /\ strays \subseteq Seq(issued) /\ \A u \in Tabs : round[u].batch \in Seq(issued)
  BY DEF TypeInv, Data, TabData
<1>6. Frontier(db)'
  <2>1. Old(db, clock) /\ \A m \in issued : Settled(db, m) \/ Old(db, m.ts)
    BY <1>4 DEF Clean, Frontier
  <2>2. Old(db, clock + 1)
    BY <1>5, <2>1, RowTypes DEF Old
  <2>. QED BY <1>2, <1>3, <2>1, <2>2 DEF Frontier
<1>7. ASSUME NEW q \in Seq(issued), Ordered(q) PROVE Ordered(q)'
  BY <1>2, <1>3, <1>7, OrderGrows
<1>8. ToSet(outbox') = ToSet(outbox) \cup ToSet(ms)
  BY <1>2, <1>3, <1>5, SeqGrows, JoinedSeq
<1>9. Ordered(outbox)'
  <2>1. Ordered(outbox)
    BY <1>4 DEF Clean
  <2>2. SUFFICES ASSUME NEW k \in DOMAIN outbox', NEW m \in issued', m.ts < outbox'[k].ts
                 PROVE  Settled(db', m) \/ \E j \in 1..(k - 1) : outbox'[j] = m
    BY DEF Ordered
  <2>3. /\ Len(outbox) \in Nat /\ Len(ms) \in Nat /\ k \in 1..(Len(outbox) + Len(ms))
        /\ \A j \in 1..Len(outbox) : outbox'[j] = outbox[j]
        /\ k > Len(outbox) => outbox'[k] = ms[k - Len(outbox)]
    BY <1>2, <1>3, <1>5
  <2>4. CASE k \in 1..Len(outbox)
    <3>1. outbox'[k] = outbox[k] /\ outbox[k] \in issued /\ k \in DOMAIN outbox
      BY <1>5, <2>3, <2>4
    <3>2. outbox[k].ts \in Nat /\ outbox[k].ts <= clock
      BY <1>5, <3>1, StampAssumption DEF Known, Mutations
    <3>3. m \in issued
      BY <1>2, <1>3, <1>5, <2>2, <3>1, <3>2
    <3>4. Settled(db, m) \/ \E j \in 1..(k - 1) : outbox[j] = m
      BY <2>1, <2>2, <3>1, <3>3 DEF Ordered
    <3>5. \A j \in 1..(k - 1) : outbox'[j] = outbox[j]
      BY <2>3, <2>4
    <3>. QED BY <1>2, <3>4, <3>5
  <2>5. CASE k \notin 1..Len(outbox)
    <3>1. k - Len(outbox) \in 1..Len(ms) /\ outbox'[k] = ms[k - Len(outbox)]
      BY <2>3, <2>5
    <3>2. ms[k - Len(outbox)] \in ToSet(ms)
      BY <1>3, <3>1 DEF ToSet
    <3>3. outbox'[k].ts = clock + 1
      BY <1>3, <3>1, <3>2
    <3>4. m \in issued
      BY <1>2, <1>3, <1>5, <2>2, <3>3
    <3>5. CASE m \notin ToSet(outbox)
      BY <1>2, <1>4, <3>4, <3>5 DEF Clean, Taken
    <3>6. CASE m \in ToSet(outbox)
      <4>1. PICK j \in 1..Len(outbox) : outbox[j] = m
        BY <1>5, <3>6 DEF ToSet
      <4>2. j \in 1..(k - 1) /\ outbox'[j] = m
        BY <2>3, <2>5, <4>1
      <4>. QED BY <4>2
    <3>. QED BY <3>5, <3>6
  <2>. QED BY <2>4, <2>5
<1>10. \A batch \in strays' : Ordered(batch)'
  BY <1>2, <1>4, <1>5, <1>7 DEF Clean
<1>11. ASSUME NEW u \in Tabs, round'[u].at = "sent" PROVE Ordered(round[u].batch)'
  <2>1. Ordered(round[u].batch) /\ round[u].batch \in Seq(issued)
    BY <1>2, <1>4, <1>5, <1>11 DEF Clean
  <2>2. round'[u].batch = round[u].batch
    BY <1>2
  <2>. QED BY <1>7, <2>1, <2>2 DEF Ordered
<1>12. \A u \in Tabs : round'[u].at = "answered" => \A m \in ToSet(round'[u].batch) : Taken(m)'
  BY <1>2, <1>4 DEF Clean, Taken
<1>13. \A m \in issued' \ ToSet(outbox') : Taken(m)'
  BY <1>2, <1>4, <1>8 DEF Clean, Taken
<1>. QED BY <1>6, <1>9, <1>10, <1>11, <1>12, <1>13 DEF Clean

\* A round in order leaves all of it digested, and nothing else disturbed.
LEMMA RoundClean ==
    ASSUME TypeInv, Known, DigestInv, NEW batch \in Seq(issued), Quiet => Ordered(batch),
           NEW limit \in Clocks, db' = Round(db, batch, limit), \A m \in ToSet(batch) : m.ts <= limit,
           UNCHANGED <<issued, clock, remote, outbox, clamped>>, Quiet'
    PROVE  /\ Clean /\ Frontier(db)' /\ Ordered(outbox)'
           /\ \A q : Ordered(q) => Ordered(q)'
           /\ \A m \in issued : Taken(m) => Taken(m)'
           /\ \A m \in ToSet(batch) : Taken(m)'
           /\ \A m \in issued' \ ToSet(outbox') : Taken(m)'
<1>1. /\ Tables(db) /\ clock \in Nat /\ limit \in Nat /\ issued \subseteq Mutations
      /\ \A m \in issued : m.ts <= clock /\ Originated(m)
  BY StampAssumption DEF TypeInv, Data, Known
<1>2. /\ IdsIn(db) \cup {DefaultFolder} \subseteq IdsIn(db')
  BY <1>1, SeqGrows, RoundKnown
<1>3. Quiet /\ Clean
  BY <1>2, QuietSteps DEF DigestInv
<1>4. Within(Used') /\ IdsIn(db) \cup IdsOf(issued) \cup {DefaultFolder} \subseteq Used'
  BY <1>2 DEF Used, IdsIn, Quiet, InQuota, Within
<1>5. Digested(Round(db, batch, limit), batch)
  <2>. DEFINE ids == Used'
  <2>1. Within(ids) /\ IdsIn(db) \cup IdsOf(issued) \cup {DefaultFolder} \subseteq ids
    BY <1>4
  <2>. HIDE DEF ids
  <2>2. Frontier(db)
    BY <1>3 DEF Clean
  <2>. QED BY <1>1, <1>3, <2>1, <2>2, RoundDigests
<1>6. /\ DefaultFolder \in LiveFolders(db') /\ Old(db', clock)
      /\ \A m \in issued : Settled(db', m) \/ Old(db', m.ts)
      /\ \A m \in issued : Settled(db, m) => Settled(db', m)
      /\ \A k \in DOMAIN batch : Settled(db', batch[k])
  BY <1>5 DEF Digested, Frontier
<1>7. Frontier(db)'
  BY <1>6 DEF Frontier
<1>8. ASSUME NEW q, Ordered(q) PROVE Ordered(q)'
  BY <1>6, <1>8 DEF Ordered
<1>9. ASSUME NEW m \in issued, Taken(m) PROVE Taken(m)'
  BY <1>6, <1>9 DEF Taken
<1>10. \A m \in ToSet(batch) : Taken(m)'
  BY <1>6 DEF Taken, ToSet
<1>11. Ordered(outbox)' /\ \A m \in issued' \ ToSet(outbox') : Taken(m)'
  BY <1>3, <1>8, <1>9 DEF Clean
<1>. QED BY <1>3, <1>7, <1>8, <1>9, <1>10, <1>11

\* With the clocks in step a request is applied as it was stamped.
LEMMA InStep ==
    ASSUME issued \subseteq Mutations, NEW batch \in Seq(issued), Push(batch), Quiet'
    PROVE  \E limit \in Clocks : /\ db' = Round(db, batch, limit) /\ clamped' = clamped
                                /\ \A m \in ToSet(batch) : m.ts <= limit
<1>1. PICK limit \in Clocks :
         /\ db' = Round(db, batch, limit)
         /\ IF \E m \in ToSet(batch) : m.ts > limit
            THEN Fault /\ clamped' = TRUE
            ELSE UNCHANGED <<faults, clamped>>
  BY DEF Push
<1>2. ~(\E m \in ToSet(batch) : m.ts > limit) /\ clamped' = clamped
  BY <1>1 DEF Quiet
<1>3. \A m \in ToSet(batch) : m.ts \in Nat
  BY SeqElements, StampAssumption DEF Mutations
<1>4. \A m \in ToSet(batch) : m.ts <= limit
  BY <1>2, <1>3, StampAssumption
<1>. QED BY <1>1, <1>2, <1>4

LEMMA ServeClean ==
    ASSUME TypeInv, Known, DigestInv, NEW t \in Tabs, Serve(t)
    PROVE  DigestInv'
<1>. DEFINE batch == round[t].batch
<1>1. /\ round[t].at = "sent" /\ Push(batch)
      /\ round' = [round EXCEPT ![t].at = "answered", ![t].answer = Snapshot(db')]
      /\ UNCHANGED <<outbox, strays, issued, clock, remote>>
  BY DEF Serve
<1>. SUFFICES ASSUME Quiet' PROVE Clean'
  BY DEF DigestInv
<1>2. /\ issued \subseteq Mutations /\ round \in [Tabs -> Requests] /\ strays \subseteq Seq(issued)
      /\ \A u \in Tabs : round[u].batch \in Seq(issued)
  BY DEF TypeInv, Data, TabData
<1>3. batch \in Seq(issued) /\ (Quiet => Ordered(batch))
  BY <1>1, <1>2 DEF DigestInv, Clean
<1>4. /\ round'[t].at = "answered" /\ round'[t].batch = batch
      /\ \A u \in Tabs \ {t} : round'[u] = round[u]
  BY <1>1, <1>2 DEF Requests
<1>. HIDE DEF batch
<1>5. /\ Clean /\ Frontier(db)' /\ Ordered(outbox)'
      /\ \A q : Ordered(q) => Ordered(q)'
      /\ \A m \in issued : Taken(m) => Taken(m)'
      /\ \A m \in ToSet(batch) : Taken(m)'
      /\ \A m \in issued' \ ToSet(outbox') : Taken(m)'
  BY <1>1, <1>2, <1>3, InStep, RoundClean
<1>6. \A q \in strays' : Ordered(q)'
  BY <1>1, <1>5 DEF Clean
<1>7. ASSUME NEW u \in Tabs, round'[u].at = "sent" PROVE Ordered(round[u].batch)'
  <2>1. u # t /\ round'[u] = round[u]
    BY <1>4, <1>7
  <2>2. Ordered(round[u].batch)
    BY <1>5, <1>7, <2>1 DEF Clean
  <2>. QED BY <1>5, <2>1, <2>2 DEF Ordered
<1>8. ASSUME NEW u \in Tabs, round'[u].at = "answered", NEW m \in ToSet(round'[u].batch) PROVE Taken(m)'
  <2>1. CASE u = t
    BY <1>4, <1>5, <1>8, <2>1
  <2>2. CASE u # t
    <3>1. round'[u] = round[u] /\ m \in ToSet(round[u].batch) /\ m \in issued
      BY <1>2, <1>4, <1>8, <2>2, SeqElements
    <3>2. Taken(m)
      BY <1>5, <1>8, <3>1 DEF Clean
    <3>. QED BY <1>5, <3>1, <3>2
  <2>. QED BY <2>1, <2>2
<1>. QED BY <1>5, <1>6, <1>7, <1>8 DEF Clean

LEMMA ServeStrayClean ==
    ASSUME TypeInv, Known, DigestInv, NEW batch \in strays, ServeStray(batch)
    PROVE  DigestInv'
<1>1. /\ Push(batch) /\ strays' = strays \ {batch}
      /\ UNCHANGED <<outbox, round, issued, clock, remote>>
  BY DEF ServeStray, tabState
<1>. SUFFICES ASSUME Quiet' PROVE Clean'
  BY DEF DigestInv
<1>2. issued \subseteq Mutations /\ strays \subseteq Seq(issued) /\ \A u \in Tabs : round[u].batch \in Seq(issued)
  BY DEF TypeInv, Data, TabData
<1>3. batch \in Seq(issued) /\ (Quiet => Ordered(batch))
  BY <1>2 DEF DigestInv, Clean
<1>4. /\ Clean /\ Frontier(db)' /\ Ordered(outbox)'
      /\ \A q : Ordered(q) => Ordered(q)'
      /\ \A m \in issued : Taken(m) => Taken(m)'
      /\ \A m \in issued' \ ToSet(outbox') : Taken(m)'
  BY <1>1, <1>2, <1>3, InStep, RoundClean
<1>5. \A q \in strays' : Ordered(q)'
  BY <1>1, <1>4 DEF Clean
<1>6. ASSUME NEW u \in Tabs, round'[u].at = "sent" PROVE Ordered(round[u].batch)'
  <2>1. Ordered(round[u].batch) /\ round'[u] = round[u]
    BY <1>1, <1>4, <1>6 DEF Clean
  <2>. QED BY <1>4, <2>1 DEF Ordered
<1>7. ASSUME NEW u \in Tabs, round'[u].at = "answered", NEW m \in ToSet(round'[u].batch) PROVE Taken(m)'
  <2>1. round'[u] = round[u] /\ m \in issued
    BY <1>1, <1>2, <1>7, SeqElements
  <2>2. Taken(m)
    BY <1>4, <1>7, <2>1 DEF Clean
  <2>. QED BY <1>4, <2>1, <2>2
<1>. QED BY <1>4, <1>5, <1>6, <1>7 DEF Clean

\* A step that leaves the tables and the mutations alone.
LEMMA OthersClean ==
    ASSUME TypeInv, DigestInv, UNCHANGED <<db, issued, clock, remote, clamped>>,
           Clean => /\ Ordered(outbox')
                    /\ \A q \in strays' : Ordered(q)
                    /\ \A u \in Tabs : round'[u].at = "sent" => Ordered(round'[u].batch)
                    /\ \A u \in Tabs : round'[u].at = "answered" =>
                                          \A m \in ToSet(round'[u].batch) : Taken(m)
                    /\ \A m \in issued \ ToSet(outbox') : Taken(m)
    PROVE  DigestInv'
<1>. SUFFICES ASSUME Quiet' PROVE Clean'
  BY DEF DigestInv
<1>1. Clean
  BY QuietSteps DEF DigestInv
<1>2. Frontier(db)'
  BY <1>1 DEF Clean, Frontier
<1>3. \A q : Ordered(q) => (Ordered(q))'
  BY DEF Ordered
<1>4. \A m : Taken(m) => (Taken(m))'
  BY DEF Taken
<1>5. Ordered(outbox)'
  BY <1>1 DEF Ordered
<1>6. \A q \in strays' : Ordered(q)'
  BY <1>1, <1>3
<1>7. ASSUME NEW u \in Tabs, round'[u].at = "sent" PROVE Ordered(round[u].batch)'
  <2>1. Ordered(round'[u].batch)
    BY <1>1, <1>7
  <2>. QED BY <2>1 DEF Ordered
<1>8. \A u \in Tabs : round'[u].at = "answered" => \A m \in ToSet(round'[u].batch) : Taken(m)'
  BY <1>1, <1>4
<1>9. \A m \in issued' \ ToSet(outbox') : Taken(m)'
  BY <1>1, <1>4
<1>. QED BY <1>2, <1>5, <1>6, <1>7, <1>8, <1>9 DEF Clean

LEMMA SendClean ==
    ASSUME TypeInv, DigestInv, NEW t \in Tabs, Send(t)
    PROVE  DigestInv'
<1>1. /\ round' = [round EXCEPT ![t] = [NoRound EXCEPT !.at = "sent", !.batch = Batch]]
      /\ UNCHANGED <<db, outbox, strays, issued, clock, remote, clamped>>
  BY DEF Send, bounds, past
<1>2. round \in [Tabs -> Requests] /\ outbox \in Seq(issued)
  BY DEF TypeInv, Data, TabData
<1>3. /\ round'[t].at = "sent" /\ round'[t].batch = Batch
      /\ \A u \in Tabs \ {t} : round'[u] = round[u]
  BY <1>1, <1>2 DEF NoRound
<1>4. /\ DOMAIN Batch \subseteq DOMAIN outbox
      /\ \A k \in DOMAIN Batch : /\ Batch[k] = outbox[k]
                                 /\ 1..(k - 1) \subseteq DOMAIN Batch
  <2>. DEFINE n == IF Len(outbox) < FlushBatch THEN Len(outbox) ELSE FlushBatch
  <2>1. n \in Nat /\ n <= Len(outbox) /\ DOMAIN outbox = 1..Len(outbox) /\ Len(outbox) \in Nat
    BY <1>2, StoreAssumption
  <2>2. Batch = SubSeq(outbox, 1, n)
    BY DEF Batch
  <2>. HIDE DEF n
  <2>3. DOMAIN Batch = 1..n /\ \A k \in 1..n : Batch[k] = outbox[k]
    BY <1>2, <2>1, <2>2
  <2>. QED BY <2>1, <2>3
<1>5. ASSUME Clean PROVE Ordered(Batch)
  <2>1. Ordered(outbox)
    BY <1>5 DEF Clean
  <2>. QED BY <1>4, <2>1 DEF Ordered
<1>6. Clean => \A u \in Tabs : round'[u].at = "sent" => Ordered(round'[u].batch)
  BY <1>3, <1>5 DEF Clean
<1>7. Clean => \A u \in Tabs : round'[u].at = "answered" => \A m \in ToSet(round'[u].batch) : Taken(m)
  BY <1>3 DEF Clean
<1>. QED BY <1>1, <1>6, <1>7, OthersClean DEF Clean

\* A round that is given up: what was sent may still arrive.
LEMMA GivenUpClean ==
    ASSUME TypeInv, DigestInv, NEW t \in Tabs, strays' = Orphaned(t),
           round' = [round EXCEPT ![t] = NoRound], UNCHANGED <<db, outbox, issued, clock, remote, clamped>>
    PROVE  DigestInv'
<1>1. round \in [Tabs -> Requests]
  BY DEF TypeInv, TabData
<1>2. round'[t].at = "idle" /\ \A u \in Tabs \ {t} : round'[u] = round[u]
  BY <1>1 DEF NoRound
<1>3. Clean => \A q \in strays' : Ordered(q)
  BY DEF Clean, Orphaned
<1>4. Clean => \A u \in Tabs : round'[u].at = "sent" => Ordered(round'[u].batch)
  BY <1>2 DEF Clean
<1>5. Clean => \A u \in Tabs : round'[u].at = "answered" => \A m \in ToSet(round'[u].batch) : Taken(m)
  BY <1>2 DEF Clean
<1>. QED BY <1>3, <1>4, <1>5, OthersClean DEF Clean

LEMMA EraseClean ==
    ASSUME TypeInv, DigestInv, NEW t \in Tabs, Erase(t)
    PROVE  DigestInv'
<1>. DEFINE b == round[t].batch
            q == Erased(outbox, b)
<1>1. /\ round[t].at = "answered" /\ outbox' = q
      /\ round' = [round EXCEPT ![t].at = "erased"]
      /\ UNCHANGED <<db, strays, issued, clock, remote, clamped>>
  BY DEF Erase, bounds, past
<1>2. round \in [Tabs -> Requests] /\ outbox \in Seq(issued) /\ b \in Seq(issued)
  BY DEF TypeInv, Data, TabData
<1>3. round'[t].at = "erased" /\ \A u \in Tabs \ {t} : round'[u] = round[u]
  BY <1>1, <1>2 DEF Requests
<1>4. /\ ToSet(q) = ToSet(outbox) \ ToSet(b)
      /\ \A k \in DOMAIN q : \E i \in DOMAIN outbox :
            /\ outbox[i] = q[k]
            /\ \A j \in 1..(i - 1) : outbox[j] \in ToSet(b) \/ \E h \in 1..(k - 1) : q[h] = outbox[j]
  <2>. HIDE DEF b
  <2>. QED BY <1>2, ErasedQueue
<1>. HIDE DEF q, b
<1>5. Clean => \A m \in ToSet(b) : Taken(m)
  BY <1>1 DEF Clean, b
<1>6. ASSUME Clean, NEW k \in DOMAIN q, NEW m \in issued, m.ts < q[k].ts
      PROVE  Settled(db, m) \/ \E j \in 1..(k - 1) : q[j] = m
  <2>1. PICK i \in DOMAIN outbox :
            /\ outbox[i] = q[k]
            /\ \A j \in 1..(i - 1) : outbox[j] \in ToSet(b) \/ \E h \in 1..(k - 1) : q[h] = outbox[j]
    BY <1>4
  <2>2. Ordered(outbox)
    BY <1>6 DEF Clean
  <2>3. Settled(db, m) \/ \E j \in 1..(i - 1) : outbox[j] = m
    BY <1>6, <2>1, <2>2 DEF Ordered
  <2>4. m \in ToSet(b) => Settled(db, m)
    BY <1>5, <1>6 DEF Taken
  <2>. QED BY <2>1, <2>3, <2>4
<1>7. Clean => Ordered(outbox')
  BY <1>1, <1>6 DEF Ordered
<1>8. Clean => \A u \in Tabs : round'[u].at = "sent" => Ordered(round'[u].batch)
  BY <1>3 DEF Clean
<1>9. Clean => \A u \in Tabs : round'[u].at = "answered" => \A m \in ToSet(round'[u].batch) : Taken(m)
  BY <1>3 DEF Clean
<1>10. Clean => \A m \in issued \ ToSet(outbox') : Taken(m)
  BY <1>1, <1>4, <1>5 DEF Clean
<1>11. Clean => \A s \in strays' : Ordered(s)
  BY <1>1 DEF Clean
<1>. QED BY <1>1, <1>7, <1>8, <1>9, <1>10, <1>11, OthersClean

LEMMA ReceiveClean ==
    ASSUME TypeInv, DigestInv, NEW t \in Tabs, Receive(t)
    PROVE  DigestInv'
<1>1. /\ round' = [round EXCEPT ![t] = NoRound]
      /\ UNCHANGED <<db, outbox, strays, issued, clock, remote, clamped>>
  BY DEF Receive, bounds, past
<1>2. round'[t].at = "idle" /\ \A u \in Tabs \ {t} : round'[u] = round[u]
  BY <1>1 DEF TypeInv, TabData, NoRound
<1>3. Clean => \A u \in Tabs : round'[u].at = "sent" => Ordered(round'[u].batch)
  BY <1>2 DEF Clean
<1>4. Clean => \A u \in Tabs : round'[u].at = "answered" => \A m \in ToSet(round'[u].batch) : Taken(m)
  BY <1>2 DEF Clean
<1>. QED BY <1>1, <1>3, <1>4, OthersClean DEF Clean

LEMMA NextClean == TypeInv /\ Known /\ DigestInv /\ [Next]_vars => DigestInv'
<1>. SUFFICES ASSUME TypeInv, Known, DigestInv, [Next]_vars PROVE DigestInv'
  OBVIOUS
<1>1. ASSUME UNCHANGED <<db, outbox, round, strays, issued, clock, remote,
                       clamped>>
      PROVE DigestInv'
  BY <1>1, OthersClean DEF Clean
<1>2. ASSUME NEW t \in Tabs, Tap(t) PROVE DigestInv'
  BY <1>2, TapEdits, EditsClean
<1>10. ASSUME NEW t \in Tabs, NEW e \in Entities, EditFails(t, e) PROVE DigestInv'
  BY <1>1, <1>10 DEF EditFails, past
<1>3. ASSUME NEW t \in Tabs, Lose(t) PROVE DigestInv'
  BY <1>3, GivenUpClean DEF Lose, past
<1>4. ASSUME NEW t \in Tabs, Notice(t) PROVE DigestInv'
  BY <1>1, <1>4 DEF Notice, bounds, past
<1>5. ASSUME NEW t \in Tabs, Persist(t) PROVE DigestInv'
  BY <1>1, <1>5 DEF Persist, tabState, bounds, past
<1>6. ASSUME NEW t \in Tabs, Reload(t) PROVE DigestInv'
  BY <1>6, GivenUpClean DEF Reload
<1>7. ASSUME NEW m \in Mutations, OtherDevice(m) PROVE DigestInv'
  <2>1. remote \in Nat /\ remote' = remote + 1
    BY <1>7 DEF Known, OtherDevice
  <2>2. remote' # 0
    BY <2>1
  <2>. QED BY <2>2 DEF DigestInv, Quiet
<1>8. ASSUME NEW t \in Tabs, Sync(t) PROVE DigestInv'
  BY <1>3, <1>4, <1>8, SendClean, ServeClean, EraseClean, ReceiveClean DEF Sync
<1>9. CASE UNCHANGED vars
  BY <1>1, <1>9 DEF vars, tabState, bounds, past
<1>. QED BY <1>2, <1>5, <1>6, <1>7, <1>8, <1>9, <1>10, ServeStrayClean DEF Next

\* The inductive invariant of what has been digested.
THEOREM DigestAlways == Spec => [](TypeInv /\ Known /\ DigestInv)
<1>1. Init => TypeInv /\ Known /\ DigestInv
  BY InitTypeInv, InitKnown, InitClean
<1>2. (TypeInv /\ Known /\ DigestInv) /\ [Next]_vars => (TypeInv /\ Known /\ DigestInv)'
  BY NextTypeInv, NextKnown, NextClean
<1>. QED BY <1>1, <1>2, PTL DEF Spec

LEMMA SettledRound ==
    ASSUME NEW d, Tables(d), DefaultFolder \in LiveFolders(d), NEW m \in Mutations, Settled(d, m),
           NEW limit \in Nat
    PROVE  Round(d, <<m>>, limit) = d
<1>. DEFINE q == <<m>>
<1>1. q \in Seq(Mutations) /\ Len(q) = 1 /\ q[1] = m
  OBVIOUS
<1>. HIDE DEF q
<1>2. PICK f : RoundRun(f, d, q, limit)
  BY <1>1, RoundStates
<1>3. /\ f[0] = EnsureDefault(d) /\ Round(d, q, limit) = f[1]
      /\ f[1] = ApplyMutation(f[1 - 1], q[1], Clamp(q[1].ts, limit))
  BY <1>1, <1>2 DEF RoundRun
<1>4. f[1] = ApplyMutation(f[0], m, Clamp(m.ts, limit))
  <2>1. f[1] = ApplyMutation(f[1 - 1], q[1], Clamp(q[1].ts, limit))
    BY <1>3
  <2>2. 1 - 1 = 0
    OBVIOUS
  <2>. QED BY <1>1, <2>1, <2>2
<1>5. f[0] = d
  BY <1>3, EnsureSkips
<1>6. ApplyMutation(d, m, Clamp(m.ts, limit)) = d
  BY ClampedStamp, SettledSkipped
<1>. QED BY <1>3, <1>4, <1>5, <1>6 DEF q

\* What has left the outbox has been digested: as long as no other device has written, the
\* account keeps within its quotas and no stamp was ahead of the server's clock, the server
\* would skip each of those mutations now, whatever its clock says.
THEOREM DrainedIsDigestedAlways == Spec => []DrainedIsDigested
<1>1. TypeInv /\ Known /\ DigestInv => DrainedIsDigested
  <2>. SUFFICES ASSUME TypeInv, DigestInv, Quiet, NEW m \in issued \ ToSet(outbox),
                       NEW limit \in Clocks
                PROVE  Round(db, <<m>>, limit) = db
    BY DEF DrainedIsDigested, Quiet
  <2>1. Tables(db) /\ m \in Mutations /\ limit \in Nat
    BY StampAssumption DEF TypeInv, Data
  <2>2. Taken(m)
    BY DEF DigestInv, Clean
  <2>. QED BY <2>1, <2>2, SettledRound DEF Taken
<1>. QED BY <1>1, DigestAlways, PTL
=============================================================================
