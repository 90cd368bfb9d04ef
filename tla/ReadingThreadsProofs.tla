------------------------ MODULE ReadingThreadsProofs ------------------------
(***************************************************************************)
(* Proofs about the reading threads, for every number of tabs, accounts,   *)
(* threads and positions: type correctness, the account each thread        *)
(* belongs to, the changes that stay shown until the server has them, the  *)
(* changes that are digested once they have left the outbox, and the two   *)
(* promises about a single step.                                           *)
(*                                                                         *)
(* Each action has one lemma that says what it does to the tab, the queue  *)
(* and the rows (Goes, Restarts, SwitchesTo, Serves); the four inductive   *)
(* invariants (TypeInv, HomeInv, ShownInv, TakenInv) rest on those lemmas  *)
(* and open no action again.  Of several tabs nothing is assumed: the set  *)
(* may be empty or infinite.                                               *)
(***************************************************************************)
EXTENDS ReadingThreads, FiniteSetTheorems, WellFoundedInduction, TLAPS

-----------------------------------------------------------------------------
(* Counting. *)

\* Induction, as the principle of the least number.
LEMMA LeastNatural ==
    ASSUME NEW T, T \subseteq Nat, T # {}
    PROVE  \E x \in T : \A y \in T : x <= y
<1>1. IsWellFoundedOn(OpToRel(<, Nat), Nat)
  BY NatLessThanWellFounded
<1>2. PICK x \in T : \A y \in T : ~ (<<y, x>> \in OpToRel(<, Nat))
  BY <1>1, WFMin
<1>3. \A y \in T : ~ (y < x)
  BY <1>2 DEF OpToRel
<1>. QED BY <1>3

LEMMA SmallerSet ==
    ASSUME NEW S, IsFiniteSet(S), NEW T, T \subseteq S
    PROVE  /\ IsFiniteSet(T) /\ Cardinality(T) \in Nat /\ Cardinality(S) \in Nat
           /\ Cardinality(T) <= Cardinality(S)
           /\ T # S => Cardinality(T) < Cardinality(S)
<1>1. T \in SUBSET S
  OBVIOUS
<1>2. /\ IsFiniteSet(T) /\ Cardinality(T) <= Cardinality(S)
      /\ Cardinality(S) = Cardinality(T) => S = T
  BY <1>1, FS_Subset
<1>3. Cardinality(T) \in Nat /\ Cardinality(S) \in Nat
  BY <1>2, FS_CardinalityType
<1>. QED BY <1>2, <1>3

\* Of a finite set in a strict total order, those with fewer than n below them are
\* the first n, or all.
LEMMA FirstOnes ==
    ASSUME NEW D, IsFiniteSet(D), NEW n \in Nat \ {0},
           NEW below \in [D -> SUBSET D],
           NEW K, K = {i \in D : Cardinality(below[i]) < n},
           \A i \in D : i \notin below[i],
           \A i, j \in D : i # j => i \in below[j] \/ j \in below[i],
           \A i, j, k \in D : i \in below[j] /\ j \in below[k] => i \in below[k]
    PROVE  Cardinality(K) <= n /\ (K = D \/ Cardinality(K) = n)
<1>1. \A i \in D : IsFiniteSet(below[i]) /\ Cardinality(below[i]) \in Nat
  BY SmallerSet
<1>. DEFINE rank == [i \in D |-> Cardinality(below[i])]
<1>2. /\ rank \in [D -> Nat]
      /\ \A i \in D : rank[i] = Cardinality(below[i])
      /\ K = {i \in D : rank[i] < n}
  BY <1>1
<1>. HIDE DEF rank
<1>3. K \subseteq D /\ IsFiniteSet(K) /\ Cardinality(K) \in Nat
  BY <1>2, SmallerSet
<1>4. ASSUME NEW i \in D, NEW j \in D, i \in below[j]
      PROVE  rank[i] < rank[j]
  <2>1. below[i] \subseteq below[j] /\ below[i] # below[j]
    BY <1>4
  <2>. QED BY <1>1, <1>2, <2>1, SmallerSet
<1>5. \A i \in D : \A S \in SUBSET D : below[i] \subseteq S => rank[i] <= Cardinality(S)
  BY <1>1, <1>2, SmallerSet, FS_Subset
<1>6. \A i \in D : \A S \in SUBSET below[i] : Cardinality(S) <= rank[i]
  BY <1>1, <1>2, SmallerSet
<1>7. Cardinality(K) <= n
  <2>1. CASE K = {}
    BY <2>1, FS_EmptySet
  <2>2. CASE K # {}
    <3>. DEFINE T == {n - rank[i] : i \in K}
    <3>1. T \subseteq Nat /\ T # {}
      BY <1>2, <2>2
    <3>2. PICK x \in T : \A y \in T : x <= y
      BY <3>1, LeastNatural
    <3>3. PICK i \in K : x = n - rank[i]
      BY <3>2
    <3>4. \A j \in K : rank[j] <= rank[i]
      <4>1. \A j \in K : x <= n - rank[j]
        BY <3>2
      <4>2. \A j \in K : rank[j] \in Nat
        BY <1>2, <1>3
      <4>. QED BY <3>3, <4>1, <4>2
    <3>5. \A j \in K \ {i} : j \in below[i]
      <4>1. \A j \in K : rank[j] \in Nat /\ ~(rank[i] < rank[j])
        BY <1>2, <1>3, <3>3, <3>4
      <4>2. \A j \in K : i \notin below[j]
        BY <1>3, <1>4, <3>3, <4>1
      <4>. QED BY <1>3, <3>3, <4>2
    <3>6. Cardinality(K \ {i}) = Cardinality(K) - 1
      BY <1>3, <3>3, FS_RemoveElement
    <3>7. Cardinality(K \ {i}) <= rank[i] /\ rank[i] < n /\ rank[i] \in Nat
      BY <1>2, <1>3, <1>6, <3>3, <3>5
    <3>. QED BY <1>3, <3>6, <3>7
  <2>. QED BY <2>1, <2>2
<1>8. K # D => n <= Cardinality(K)
  <2>. SUFFICES ASSUME K # D PROVE n <= Cardinality(K)
    OBVIOUS
  <2>. DEFINE T == {rank[i] : i \in D \ K}
  <2>1. T \subseteq Nat /\ T # {}
    BY <1>2, <1>3
  <2>2. PICK x \in T : \A y \in T : x <= y
    BY <2>1, LeastNatural
  <2>3. PICK i \in D \ K : x = rank[i]
    BY <2>2
  <2>4. \A j \in D : j \in below[i] => rank[j] < rank[i] /\ rank[j] \in Nat /\ rank[i] \in Nat
    BY <1>2, <1>4, <2>3
  <2>5. \A j \in D : j \in below[i] => j \in K
    <3>1. \A j \in D \ K : rank[i] <= rank[j]
      BY <2>2, <2>3
    <3>. QED BY <2>4, <3>1
  <2>6. below[i] \subseteq K
    BY <2>3, <2>5
  <2>7. n <= rank[i] /\ rank[i] <= Cardinality(K) /\ rank[i] \in Nat
    BY <1>2, <1>3, <1>5, <2>3, <2>6
  <2>. QED BY <1>3, <2>7
<1>9. Cardinality(K) <= n /\ (K = D \/ Cardinality(K) = n)
  BY <1>3, <1>7, <1>8
<1>. QED BY <1>9
-----------------------------------------------------------------------------
(* Threads. *)

ThreadRow == [at : Clocks, ended : BOOLEAN]

LEMMA ThreadMaps ==
    ASSUME NEW f
    PROVE  f \in Threads <=> DOMAIN f \subseteq ThreadIds /\ f \in [DOMAIN f -> ThreadRow]
BY DEF Threads, ThreadRow

\* The cap takes whole rows, and none while there are no more than it allows.
LEMMA CappedThreads ==
    ASSUME NEW f \in Threads
    PROVE  /\ Capped(f) \in Threads
           /\ DOMAIN Capped(f) \subseteq DOMAIN f
           /\ Cardinality(DOMAIN Capped(f)) <= ThreadCap
           /\ DOMAIN Capped(f) = DOMAIN f \/ Cardinality(DOMAIN Capped(f)) = ThreadCap
           /\ \A i \in DOMAIN Capped(f) : Capped(f)[i] = f[i]
<1>. DEFINE before(i, j) == IF f[i].ended = f[j].ended THEN Newer(f, i, j) ELSE f[j].ended
            D == DOMAIN f
            below == [i \in D |-> {j \in D : before(j, i)}]
            K == {i \in D : Cardinality(below[i]) < ThreadCap}
<1>1. /\ D \subseteq ThreadIds /\ D \subseteq Nat /\ IsFiniteSet(D)
      /\ \A i \in D : f[i].at \in Nat /\ f[i].ended \in BOOLEAN
      /\ f \in [D -> ThreadRow]
  <2>1. D \subseteq ThreadIds /\ f \in [D -> ThreadRow]
    BY ThreadMaps
  <2>. QED BY <2>1, RowsAssumption, FS_Subset DEF ThreadRow
<1>2. \A i \in D : i \notin below[i]
  BY <1>1 DEF Newer
<1>3. \A i, j \in D : i # j => i \in below[j] \/ j \in below[i]
  BY <1>1 DEF Newer
<1>4. \A i, j, k \in D : i \in below[j] /\ j \in below[k] => i \in below[k]
  BY <1>1 DEF Newer
<1>5. below \in [D -> SUBSET D]
  OBVIOUS
<1>6. Capped(f) = [i \in K |-> f[i]]
  BY DEF Capped
<1>7. Cardinality(K) <= ThreadCap /\ (K = D \/ Cardinality(K) = ThreadCap)
  <2>1. ThreadCap \in Nat \ {0} /\ IsFiniteSet(D)
    BY <1>1, ThreadsAssumption
  <2>. HIDE DEF below, D
  <2>. QED BY <2>1, <1>2, <1>3, <1>4, <1>5, FirstOnes
<1>8. K \subseteq D
  OBVIOUS
<1>. HIDE DEF K
<1>9. Capped(f) \in Threads
  BY <1>1, <1>6, <1>8, ThreadMaps
<1>. QED BY <1>6, <1>7, <1>8, <1>9

\* A set of ids that fits under the cap.
Room(M) == IsFiniteSet(M) /\ Cardinality(M) <= ThreadCap

\* What two copies of the threads merge to: of each row the newer, unless removed, and
\* all of them while the ids fit under the cap.
MergeOf(c, a, b, removed) ==
    LET all == (DOMAIN a \cup DOMAIN b) \ removed
    IN  /\ c \in Threads /\ Cardinality(DOMAIN c) <= ThreadCap
        /\ DOMAIN c \subseteq all
        /\ DOMAIN c = all \/ Cardinality(DOMAIN c) = ThreadCap
        /\ \A M : Room(M) /\ all \subseteq M => DOMAIN c = all
        /\ \A i \in DOMAIN c \ DOMAIN b : c[i] = a[i]
        /\ \A i \in DOMAIN c \cap DOMAIN a : c[i].at >= a[i].at

LEMMA MergedThreads ==
    ASSUME NEW a \in Threads, NEW b \in Threads, NEW removed
    PROVE  MergeOf(Merge(a, b, removed), a, b, removed)
<1>. DEFINE all == (DOMAIN a \cup DOMAIN b) \ removed
            f == [i \in all |-> NewerRow(a, b, i)]
<1>1. /\ DOMAIN a \subseteq ThreadIds /\ DOMAIN b \subseteq ThreadIds
      /\ \A i \in DOMAIN a : a[i] \in ThreadRow
      /\ \A i \in DOMAIN b : b[i] \in ThreadRow
  BY ThreadMaps
<1>2. \A i \in all : NewerRow(a, b, i) \in ThreadRow
  BY <1>1 DEF NewerRow
<1>3. DOMAIN f = all /\ f \in [all -> ThreadRow] /\ all \subseteq ThreadIds
  BY <1>1, <1>2
<1>4. f \in Threads
  BY <1>3, ThreadMaps
<1>5. \A i \in DOMAIN a : NewerRow(a, b, i).at >= a[i].at
  <2>1. /\ \A i \in DOMAIN a : a[i].at \in Nat
        /\ \A i \in DOMAIN b : b[i].at \in Nat
    BY <1>1, RowsAssumption DEF ThreadRow
  <2>. QED BY <2>1 DEF NewerRow
<1>6. Merge(a, b, removed) = Capped(f)
  BY DEF Merge
<1>7. \A i \in all : f[i] = NewerRow(a, b, i)
  OBVIOUS
<1>. HIDE DEF all, f
<1>8. /\ Capped(f) \in Threads /\ Cardinality(DOMAIN Capped(f)) <= ThreadCap
      /\ DOMAIN Capped(f) \subseteq all
      /\ DOMAIN Capped(f) = all \/ Cardinality(DOMAIN Capped(f)) = ThreadCap
      /\ \A i \in DOMAIN Capped(f) : Capped(f)[i] = f[i]
  BY <1>3, <1>4, CappedThreads
<1>9. /\ \A i \in all \ DOMAIN b : f[i] = a[i]
      /\ \A i \in all \cap DOMAIN a : f[i].at >= a[i].at
  BY <1>5, <1>7 DEF NewerRow, all
<1>10. ASSUME NEW M, Room(M), all \subseteq M
       PROVE  DOMAIN Capped(f) = all
  <2>. DEFINE d == DOMAIN Capped(f)
  <2>1. d \subseteq M /\ (d # all => d # M)
    BY <1>8, <1>10
  <2>. HIDE DEF d
  <2>2. d # all => Cardinality(d) < Cardinality(M) /\ Cardinality(M) \in Nat /\ Cardinality(d) \in Nat
    BY <1>10, <2>1, SmallerSet DEF Room
  <2>3. d = all \/ Cardinality(d) = ThreadCap
    BY <1>8 DEF d
  <2>4. d = all
    BY <1>10, <2>2, <2>3, ThreadsAssumption DEF Room
  <2>. QED BY <2>4 DEF d
<1>. QED BY <1>6, <1>8, <1>9, <1>10 DEF all, MergeOf
-----------------------------------------------------------------------------
(* What a tab does to its own state. *)

Pendings == UNION {[ids -> Clocks] : ids \in SUBSET ThreadIds}

Surah == Ayahs \cup {0}

TabState == [owner : Owners, threads : Threads, removed : SUBSET ThreadIds, furthest : Surah,
             draft : ThreadIds \cup {None}, at : ThreadIds \cup {None},
             dirty : SUBSET ThreadIds, dirtyProgress : BOOLEAN, pending : Pendings,
             deletes : SUBSET ThreadIds, persist : BOOLEAN, push : BOOLEAN]

Store == [threads : Threads, removed : SUBSET ThreadIds, furthest : Surah]

Good(s) == /\ s \in TabState
           /\ Cardinality(DOMAIN s.threads) <= ThreadCap
           /\ s.push => SignedIn(s)
           /\ s.dirtyProgress => s.furthest \in Ayahs

GoodStore(e) == e \in Store /\ Cardinality(DOMAIN e.threads) <= ThreadCap

\* The rows a tab waits with are there, as new as it has queued them.
Shown(s) ==
    /\ s.dirty \subseteq DOMAIN s.threads \cup s.removed
    /\ \A i \in DOMAIN s.pending \ s.removed :
          i \in DOMAIN s.threads /\ (i \in s.dirty \/ s.threads[i].at >= s.pending[i])

\* Rows are lost to the removals and to the cap only.
Keeps(u, ids) == \/ ids \ u.removed \subseteq DOMAIN u.threads
                 \/ Cardinality(DOMAIN u.threads) = ThreadCap

\* No row gets older.
Onward(s, u) == /\ u.furthest >= s.furthest
                /\ \A i \in DOMAIN s.threads \cap DOMAIN u.threads :
                      u.threads[i].at >= s.threads[i].at

\* State s of a tab becomes u by what comes in under the given ids: it keeps its place,
\* no row gets older, rows among kept are lost to the removals and the cap only.
Follows(s, u, kept, ids) ==
    /\ Good(u) /\ Keeps(u, kept) /\ Onward(s, u)
    /\ u.owner = s.owner /\ u.at = s.at /\ u.draft = s.draft /\ u.push = s.push
    /\ s.removed \subseteq u.removed
    /\ DOMAIN u.threads \subseteq DOMAIN s.threads \cup ids
    /\ \A M : Room(M) /\ DOMAIN s.threads \cup ids \subseteq M /\ Shown(s) => Shown(u)

LEMMA SurahNat == Surah \subseteq Nat
BY RowsAssumption DEF Surah

LEMMA PendingMaps ==
    ASSUME NEW f
    PROVE  f \in Pendings <=> DOMAIN f \subseteq ThreadIds /\ f \in [DOMAIN f -> Clocks]
BY DEF Pendings

LEMMA NoRowsTyped == NoRows \in Threads /\ NoRows \in Pendings /\ DOMAIN NoRows = {}
<1>1. DOMAIN NoRows = {} /\ NoRows \in [{} -> ThreadRow] /\ NoRows \in [{} -> Clocks]
  BY DEF NoRows
<1>. QED BY <1>1, ThreadMaps, PendingMaps

LEMMA WithoutTyped ==
    ASSUME NEW ids
    PROVE  /\ \A f \in Threads : Without(f, ids) \in Threads
           /\ \A f \in Pendings : Without(f, ids) \in Pendings
           /\ \A f : DOMAIN Without(f, ids) = DOMAIN f \ ids
           /\ \A f : \A i \in DOMAIN f \ ids : Without(f, ids)[i] = f[i]
<1>1. \A f : DOMAIN Without(f, ids) = DOMAIN f \ ids
  BY DEF Without
<1>2. \A f : \A i \in DOMAIN f \ ids : Without(f, ids)[i] = f[i]
  BY DEF Without
<1>3. ASSUME NEW f \in Threads PROVE Without(f, ids) \in Threads
  BY <1>1, <1>2, ThreadMaps DEF Without
<1>4. ASSUME NEW f \in Pendings PROVE Without(f, ids) \in Pendings
  BY <1>1, <1>2, PendingMaps DEF Without
<1>. QED BY <1>1, <1>2, <1>3, <1>4

LEMMA FurtherTyped ==
    ASSUME NEW m \in Surah, NEW n \in Surah
    PROVE  /\ Further(m, n) \in Surah /\ Further(m, n) >= m
           /\ m \in Ayahs => Further(m, n) \in Ayahs
BY RowsAssumption DEF Further, Surah

\* Thread i is written in state s of a tab, which becomes u.
Writes(s, u, i) ==
    /\ Good(u) /\ Keeps(u, DOMAIN s.threads \cup {i})
    /\ u.owner = s.owner /\ u.furthest = s.furthest /\ u.at = s.at
    /\ u.draft = IF s.draft = i THEN None ELSE s.draft
    /\ DOMAIN u.threads \subseteq DOMAIN s.threads \cup {i}
    /\ \A M : Room(M) /\ DOMAIN s.threads \cup {i} \subseteq M /\ Shown(s) => Shown(u)

LEMMA WrittenTab ==
    ASSUME NEW s, Good(s), NEW i \in ThreadIds, NEW ended \in BOOLEAN, Stamp \in Clocks
    PROVE  Writes(s, Written(s, i, ended), i)
<1>. DEFINE u == Written(s, i, ended)
            a == Without(s.threads, {i})
            b == Put(NoRows, i, [at |-> Stamp, ended |-> ended])
<1>1. s \in TabState /\ s.threads \in Threads
  BY DEF Good, TabState
<1>2. a \in Threads /\ b \in Threads /\ DOMAIN a = DOMAIN s.threads \ {i} /\ DOMAIN b = {i}
  <2>1. DOMAIN b = {i} /\ b[i] \in ThreadRow
    BY NoRowsTyped DEF Put, ThreadRow
  <2>2. b \in Threads
    BY <2>1, ThreadMaps DEF Put
  <2>. QED BY <1>1, <2>1, <2>2, WithoutTyped
<1>3. \A j \in DOMAIN s.threads \ {i} : a[j] = s.threads[j]
  BY WithoutTyped
<1>. DEFINE gone == s.removed \ {i}
            c == Merge(a, b, gone)
<1>. HIDE DEF a, b, gone
<1>4. MergeOf(c, a, b, gone)
  BY <1>2, MergedThreads
<1>. HIDE DEF c
<1>5. /\ c \in Threads /\ Cardinality(DOMAIN c) <= ThreadCap
      /\ DOMAIN c \subseteq (DOMAIN a \cup DOMAIN b) \ gone
      /\ DOMAIN c = (DOMAIN a \cup DOMAIN b) \ gone \/ Cardinality(DOMAIN c) = ThreadCap
      /\ \A M : Room(M) /\ (DOMAIN a \cup DOMAIN b) \ gone \subseteq M
                  => DOMAIN c = (DOMAIN a \cup DOMAIN b) \ gone
      /\ \A j \in DOMAIN c \ DOMAIN b : c[j] = a[j]
  BY <1>4 DEF MergeOf
<1>6. u = [s EXCEPT !.draft = IF s.draft = i THEN None ELSE s.draft,
                    !.removed = s.removed \ {i}, !.threads = c, !.dirty = s.dirty \cup {i},
                    !.persist = TRUE, !.push = PushDue(s)]
  BY <1>1 DEF Written, TabState, a, b, c, gone
<1>. HIDE DEF u
<1>7. /\ u \in TabState /\ u.threads = c /\ u.removed = s.removed \ {i} /\ u.push = PushDue(s)
      /\ u.draft = IF s.draft = i THEN None ELSE s.draft
      /\ u.owner = s.owner /\ u.furthest = s.furthest /\ u.at = s.at
      /\ u.dirty = s.dirty \cup {i} /\ u.pending = s.pending /\ u.dirtyProgress = s.dirtyProgress
  BY <1>1, <1>5, <1>6 DEF TabState, PushDue, SignedIn
<1>8. Good(u)
  BY <1>5, <1>7 DEF Good, PushDue, SignedIn
<1>9. ASSUME NEW M, Room(M), DOMAIN s.threads \cup {i} \subseteq M, Shown(s)
      PROVE  Shown(u)
  <2>1. DOMAIN c = (DOMAIN s.threads \cup {i}) \ (s.removed \ {i})
    BY <1>2, <1>5, <1>9 DEF gone
  <2>2. \A j \in DOMAIN c \ {i} : c[j] = s.threads[j]
    BY <1>2, <1>3, <1>5, <2>1
  <2>. QED BY <1>7, <1>9, <2>1, <2>2 DEF Shown
<1>10. Keeps(u, DOMAIN s.threads \cup {i}) /\ DOMAIN u.threads \subseteq DOMAIN s.threads \cup {i}
  BY <1>2, <1>5, <1>7 DEF Keeps, gone
<1>. QED BY <1>7, <1>8, <1>9, <1>10 DEF u, Writes

LEMMA BumpedTab ==
    ASSUME NEW s, Good(s), NEW ayah \in Ayahs
    PROVE  LET u == Bumped(s, ayah)
           IN  /\ Good(u) /\ u.furthest >= s.furthest
               /\ u.owner = s.owner /\ u.threads = s.threads /\ u.removed = s.removed
               /\ u.draft = s.draft /\ u.at = s.at
               /\ u.dirty = s.dirty /\ u.pending = s.pending
<1>. DEFINE u == Bumped(s, ayah)
<1>1. s \in TabState /\ s.furthest \in Surah /\ ayah \in Surah
  BY DEF Good, TabState, Surah
<1>2. s.furthest \in Nat /\ ayah \in Nat
  BY <1>1, SurahNat
<1>3. CASE ayah <= s.furthest
  BY <1>1, <1>2, <1>3 DEF Bumped
<1>4. CASE ~(ayah <= s.furthest)
  <2>1. u = [s EXCEPT !.furthest = ayah, !.dirtyProgress = TRUE,
                      !.persist = TRUE, !.push = PushDue(s)]
    BY <1>4 DEF Bumped
  <2>2. /\ u \in TabState /\ u.furthest = ayah /\ u.push = PushDue(s)
        /\ u.owner = s.owner /\ u.threads = s.threads /\ u.removed = s.removed
        /\ u.draft = s.draft /\ u.at = s.at /\ u.dirty = s.dirty /\ u.pending = s.pending
    BY <1>1, <2>1 DEF TabState, PushDue, SignedIn
  <2>3. Good(u)
    BY <2>2 DEF Good, PushDue, SignedIn
  <2>. QED BY <1>2, <1>4, <2>2, <2>3
<1>. QED BY <1>3, <1>4

LEMMA ReloadedTab ==
    ASSUME NEW s, Good(s), NEW e, GoodStore(e)
    PROVE  Follows(s, Reloaded(s, e), DOMAIN s.threads, DOMAIN e.threads)
<1>. DEFINE u == Reloaded(s, e)
            removed == s.removed \cup e.removed
<1>1. /\ s \in TabState /\ s.threads \in Threads /\ s.removed \subseteq ThreadIds /\ s.furthest \in Surah
      /\ e.threads \in Threads /\ e.removed \subseteq ThreadIds /\ e.furthest \in Surah
  BY DEF Good, TabState, GoodStore, Store
<1>. HIDE DEF removed
<1>. DEFINE c == Merge(s.threads, e.threads, removed)
<1>2. MergeOf(c, s.threads, e.threads, removed)
  BY <1>1, MergedThreads
<1>. HIDE DEF c
<1>3. /\ c \in Threads /\ Cardinality(DOMAIN c) <= ThreadCap
      /\ DOMAIN c \subseteq (DOMAIN s.threads \cup DOMAIN e.threads) \ removed
      /\ \/ DOMAIN c = (DOMAIN s.threads \cup DOMAIN e.threads) \ removed
         \/ Cardinality(DOMAIN c) = ThreadCap
      /\ \A M : Room(M) /\ (DOMAIN s.threads \cup DOMAIN e.threads) \ removed \subseteq M
                  => DOMAIN c = (DOMAIN s.threads \cup DOMAIN e.threads) \ removed
      /\ \A j \in DOMAIN c \cap DOMAIN s.threads : c[j].at >= s.threads[j].at
  BY <1>2 DEF MergeOf
<1>4. u = [s EXCEPT !.removed = removed, !.threads = c,
                    !.furthest = Further(s.furthest, e.furthest)]
  BY <1>1 DEF Reloaded, TabState, MergeProgress, removed, c
<1>5. /\ Further(s.furthest, e.furthest) \in Surah /\ Further(s.furthest, e.furthest) >= s.furthest
      /\ s.furthest \in Ayahs => Further(s.furthest, e.furthest) \in Ayahs
  BY <1>1, FurtherTyped
<1>6. \A j \in DOMAIN c : c[j].at \in Nat
  BY <1>3, RowsAssumption, ThreadMaps DEF ThreadRow
<1>7. \A j \in DOMAIN s.threads : s.threads[j].at \in Nat
  BY <1>1, RowsAssumption, ThreadMaps DEF ThreadRow
<1>8. \A j \in DOMAIN s.pending : s.pending[j] \in Nat
  BY <1>1, RowsAssumption, PendingMaps DEF TabState
<1>. HIDE DEF u
<1>9. /\ u \in TabState /\ u.threads = c /\ u.removed = removed /\ u.owner = s.owner
      /\ u.at = s.at /\ u.draft = s.draft /\ u.dirty = s.dirty /\ u.pending = s.pending
      /\ u.dirtyProgress = s.dirtyProgress /\ u.push = s.push
      /\ u.furthest = Further(s.furthest, e.furthest)
  BY <1>1, <1>3, <1>4, <1>5 DEF TabState, removed
<1>10. Good(u)
  BY <1>3, <1>5, <1>9 DEF Good, SignedIn
<1>11. ASSUME NEW M, Room(M), DOMAIN s.threads \cup DOMAIN e.threads \subseteq M, Shown(s)
       PROVE  Shown(u)
  <2>1. DOMAIN c = (DOMAIN s.threads \cup DOMAIN e.threads) \ removed
    BY <1>3, <1>11
  <2>2. u.dirty \subseteq DOMAIN u.threads \cup u.removed
    BY <1>9, <1>11, <2>1 DEF Shown, removed
  <2>3. ASSUME NEW j \in DOMAIN u.pending \ u.removed
        PROVE  j \in DOMAIN u.threads /\ (j \in u.dirty \/ u.threads[j].at >= u.pending[j])
    <3>1. j \in DOMAIN s.threads /\ (j \in s.dirty \/ s.threads[j].at >= s.pending[j])
      BY <1>9, <1>11, <2>3 DEF Shown, removed
    <3>2. j \in DOMAIN c /\ c[j].at >= s.threads[j].at
      BY <1>3, <1>9, <2>1, <2>3, <3>1
    <3>. QED BY <1>6, <1>7, <1>8, <1>9, <2>3, <3>1, <3>2
  <2>. QED BY <2>2, <2>3 DEF Shown
<1>12. Keeps(u, DOMAIN s.threads) /\ Onward(s, u)
  BY <1>3, <1>5, <1>9 DEF Keeps, Onward
<1>. QED BY <1>3, <1>9, <1>10, <1>11, <1>12 DEF u, removed, Follows

LEMMA GoodTyped ==
    ASSUME NEW s, Good(s)
    PROVE  /\ s \in TabState /\ s.owner \in Owners /\ s.threads \in Threads
           /\ DOMAIN s.threads \subseteq ThreadIds
           /\ \A i \in DOMAIN s.threads : s.threads[i] \in ThreadRow /\ s.threads[i].at \in Nat
           /\ s.removed \subseteq ThreadIds /\ s.furthest \in Surah /\ s.furthest \in Nat
           /\ s.dirty \subseteq ThreadIds /\ s.pending \in Pendings /\ s.deletes \subseteq ThreadIds
           /\ DOMAIN s.pending \subseteq ThreadIds
           /\ \A i \in DOMAIN s.pending : s.pending[i] \in Clocks /\ s.pending[i] \in Nat
<1>1. /\ s \in TabState /\ s.owner \in Owners /\ s.threads \in Threads
      /\ s.removed \subseteq ThreadIds /\ s.furthest \in Surah
      /\ s.dirty \subseteq ThreadIds /\ s.pending \in Pendings /\ s.deletes \subseteq ThreadIds
  BY DEF Good, TabState
<1>2. /\ DOMAIN s.threads \subseteq ThreadIds
      /\ \A i \in DOMAIN s.threads : s.threads[i] \in ThreadRow /\ s.threads[i].at \in Nat
  BY <1>1, RowsAssumption, ThreadMaps DEF ThreadRow
<1>3. /\ DOMAIN s.pending \subseteq ThreadIds
      /\ \A i \in DOMAIN s.pending : s.pending[i] \in Clocks /\ s.pending[i] \in Nat
  BY <1>1, RowsAssumption, PendingMaps
<1>. QED BY <1>1, <1>2, <1>3, SurahNat

LEMMA StaysFollows ==
    ASSUME NEW s, Good(s), NEW ids
    PROVE  Follows(s, s, DOMAIN s.threads, ids)
<1>1. Onward(s, s)
  BY GoodTyped DEF Onward
<1>. QED BY <1>1 DEF Follows, Keeps

LEMMA EnvelopeOf ==
    ASSUME NEW s, Good(s)
    PROVE  /\ GoodStore(Envelope(s))
           /\ Envelope(s).threads = s.threads /\ Envelope(s).removed = s.removed
           /\ Envelope(s).furthest = s.furthest
BY DEF Good, TabState, GoodStore, Store, Envelope

\* The flag of the pending write concerns nothing else.
LEMMA SavedTab ==
    ASSUME NEW s, Good(s), GoodStore(stored[s.owner])
    PROVE  Follows(s, Saved(s), DOMAIN s.threads, DOMAIN stored[s.owner].threads)
<1>. DEFINE r == Reloaded(s, stored[s.owner])
            u == [r EXCEPT !.persist = FALSE]
<1>1. Follows(s, r, DOMAIN s.threads, DOMAIN stored[s.owner].threads)
  BY ReloadedTab
<1>. HIDE DEF r
<1>2. r \in TabState
  BY <1>1 DEF Follows, Good
<1>3. /\ u \in TabState /\ u.owner = r.owner /\ u.threads = r.threads /\ u.removed = r.removed
      /\ u.furthest = r.furthest /\ u.draft = r.draft /\ u.at = r.at /\ u.dirty = r.dirty
      /\ u.dirtyProgress = r.dirtyProgress /\ u.pending = r.pending /\ u.push = r.push
  BY <1>2 DEF TabState
<1>. HIDE DEF u
<1>4. Good(u)
  BY <1>1, <1>3 DEF Follows, Good, SignedIn
<1>5. Onward(s, u) /\ Keeps(u, DOMAIN s.threads) /\ (Shown(r) => Shown(u))
  BY <1>1, <1>3 DEF Follows, Onward, Keeps, Shown
<1>6. Follows(s, u, DOMAIN s.threads, DOMAIN stored[s.owner].threads)
  BY <1>1, <1>3, <1>4, <1>5 DEF Follows
<1>. QED BY <1>6 DEF Saved, u, r

LEMMA FlushedTab ==
    ASSUME NEW s, Good(s), GoodStore(stored[s.owner])
    PROVE  Follows(s, Flushed(s), DOMAIN s.threads, DOMAIN stored[s.owner].threads)
BY SavedTab, StaysFollows DEF Flushed

\* The mutations of a push are about the rows of the tab.
LEMMA DirtyMutations ==
    ASSUME NEW s, Good(s)
    PROVE  /\ Dirty(s) \in Seq(Mutations)
           /\ IdsOf(ToSet(Dirty(s))) \subseteq DOMAIN s.threads
<1>. DEFINE S == s.dirty \cap DOMAIN s.threads
            rows == SetToSeq(S)
            first == [k \in DOMAIN rows |->
                        [kind |-> "session.upsert", id |-> rows[k], ts |-> s.threads[rows[k]].at,
                         ended |-> s.threads[rows[k]].ended]]
            last == IF s.dirtyProgress THEN <<[kind |-> "progress.upsert", ayah |-> s.furthest]>>
                                       ELSE <<>>
<1>1. /\ S \subseteq ThreadIds /\ S \subseteq DOMAIN s.threads
      /\ \A i \in S : s.threads[i] \in ThreadRow
      /\ s.dirtyProgress => s.furthest \in Ayahs
  BY GoodTyped DEF Good
<1>2. IsFiniteSet(S) /\ Cardinality(S) \in Nat
  BY <1>1, RowsAssumption, FS_Subset, FS_CardinalityType
<1>3. rows \in [1..Cardinality(S) -> S]
  <2>. HIDE DEF S
  <2>1. ExistsBijection(1..Cardinality(S), S)
    BY <1>2, FS_CardinalityType
  <2>2. \E f \in [1..Cardinality(S) -> S] : IsInjective(f)
    BY <2>1 DEF ExistsBijection, Bijection, Injection
  <2>. QED BY <2>2 DEF SetToSeq
<1>. HIDE DEF S, rows
<1>4. /\ DOMAIN first = 1..Cardinality(S)
      /\ \A k \in DOMAIN first : /\ first[k] \in Mutations /\ first[k].kind = "session.upsert"
                                 /\ first[k].id \in DOMAIN s.threads
  BY <1>1, <1>3 DEF Mutations, ThreadRow
<1>5. first \in Seq(Mutations)
  BY <1>2, <1>4
<1>6. /\ last \in Seq(Mutations)
      /\ \A k \in DOMAIN last : last[k].kind = "progress.upsert"
  <2>1. CASE s.dirtyProgress
    <3>1. [kind |-> "progress.upsert", ayah |-> s.furthest] \in Mutations
      BY <1>1, <2>1 DEF Mutations
    <3>. QED BY <2>1, <3>1
  <2>2. CASE ~s.dirtyProgress
    BY <2>2
  <2>. QED BY <2>1, <2>2
<1>7. Dirty(s) = first \o last
  BY DEF Dirty, S, rows
<1>. HIDE DEF first, last
<1>8. /\ first \o last \in Seq(Mutations)
      /\ \A k \in DOMAIN (first \o last) :
            \/ \E j \in DOMAIN first : (first \o last)[k] = first[j]
            \/ \E j \in DOMAIN last : (first \o last)[k] = last[j]
  BY <1>5, <1>6
<1>9. \A m \in ToSet(first \o last) : m.kind # "progress.upsert" => m.id \in DOMAIN s.threads
  BY <1>4, <1>6, <1>8 DEF ToSet
<1>. QED BY <1>7, <1>8, <1>9 DEF IdsOf

LEMMA PushedTab ==
    ASSUME NEW s, Good(s)
    PROVE  LET u == Pushed(s)
           IN  /\ Good(u) /\ u.owner = s.owner /\ u.threads = s.threads /\ u.removed = s.removed
               /\ u.furthest = s.furthest /\ u.draft = s.draft /\ u.at = s.at
               /\ Shown(s) => Shown(u)
<1>. DEFINE u == Pushed(s)
            S == s.dirty \cap DOMAIN s.threads
            p == [i \in DOMAIN s.pending \cup S |-> IF i \in S THEN s.threads[i].at ELSE s.pending[i]]
<1>1. s \in TabState /\ S \subseteq ThreadIds
  BY GoodTyped DEF Good
<1>2. \A i \in S : s.threads[i].at \in Clocks
  BY GoodTyped DEF ThreadRow
<1>3. p \in Pendings /\ DOMAIN p = DOMAIN s.pending \cup S
  BY <1>1, <1>2, GoodTyped, PendingMaps
<1>4. u = [s EXCEPT !.pending = p, !.dirty = {}, !.dirtyProgress = FALSE, !.push = FALSE]
  BY <1>1 DEF Pushed, TabState
<1>5. \A i \in DOMAIN p : p[i] = IF i \in S THEN s.threads[i].at ELSE s.pending[i]
  OBVIOUS
<1>. HIDE DEF p, u
<1>6. /\ u \in TabState /\ u.owner = s.owner /\ u.threads = s.threads /\ u.removed = s.removed
      /\ u.furthest = s.furthest /\ u.draft = s.draft /\ u.at = s.at
      /\ u.pending = p /\ u.dirty = {} /\ u.dirtyProgress = FALSE /\ u.push = FALSE
  BY <1>1, <1>3, <1>4 DEF TabState
<1>7. Good(u)
  BY <1>6 DEF Good
<1>8. Shown(s) => Shown(u)
  <2>. SUFFICES ASSUME Shown(s), NEW i \in DOMAIN p \ s.removed
                PROVE  i \in DOMAIN s.threads /\ s.threads[i].at >= p[i]
    BY <1>6 DEF Shown
  <2>1. CASE i \in S
    BY <1>5, <2>1, GoodTyped
  <2>2. CASE i \notin S
    <3>1. i \in DOMAIN s.pending \ s.removed /\ p[i] = s.pending[i]
      BY <1>3, <1>5, <2>2
    <3>. QED BY <2>2, <3>1 DEF Shown
  <2>. QED BY <2>1, <2>2
<1>. QED BY <1>6, <1>7, <1>8 DEF u

\* A tab that starts shows what is stored.
Starts(u, o, draft, e) ==
    /\ Good(u) /\ Shown(u) /\ u.owner = o /\ u.threads = e.threads
    /\ u.draft = draft /\ u.push = FALSE /\ u.pending = NoRows

LEMMA StartedTab ==
    ASSUME NEW o \in Owners, NEW at \in ThreadIds \cup {None}, NEW e, GoodStore(e)
    PROVE  Starts(Started(o, at, e), o, None, e)
<1>. DEFINE u == Started(o, at, e)
            f == Fresh(o)
<1>1. /\ f \in TabState /\ f.owner = o /\ f.draft = None /\ f.dirty = {} /\ f.push = FALSE
      /\ f.pending = NoRows /\ f.dirtyProgress = FALSE
  BY NoRowsTyped DEF Fresh, TabState, Surah
<1>2. e.threads \in Threads /\ e.removed \in SUBSET ThreadIds /\ e.furthest \in Surah
  BY DEF GoodStore, Store
<1>3. u = [f EXCEPT !.threads = e.threads, !.removed = e.removed, !.furthest = e.furthest, !.at = at]
  BY DEF Started
<1>. HIDE DEF u, f
<1>4. /\ u \in TabState /\ u.owner = o /\ u.threads = e.threads /\ u.furthest = e.furthest
      /\ u.removed = e.removed /\ u.at = at /\ u.draft = None /\ u.push = FALSE
      /\ u.dirty = {} /\ u.pending = NoRows /\ u.dirtyProgress = FALSE
  BY <1>1, <1>2, <1>3 DEF TabState
<1>5. Good(u)
  BY <1>4 DEF GoodStore, Good
<1>6. Shown(u)
  BY <1>4, NoRowsTyped DEF Shown
<1>. QED BY <1>4, <1>5, <1>6 DEF u, Starts

\* A mutation that has drained changes no row.
LEMMA DrainedTab ==
    ASSUME NEW s, Good(s), NEW batch
    PROVE  LET u == Drained(s, batch)
           IN  /\ Good(u) /\ u.owner = s.owner /\ u.threads = s.threads /\ u.removed = s.removed
               /\ u.furthest = s.furthest /\ u.draft = s.draft /\ u.at = s.at /\ u.push = s.push
               /\ Shown(s) => Shown(u)
<1>. DEFINE u == Drained(s, batch)
            P == {i \in DOMAIN s.pending : \A m \in batch : ~(m.kind = "session.upsert" /\ m.id = i
                                                               /\ m.ts = s.pending[i])}
            p == [i \in P |-> s.pending[i]]
            d == s.deletes \ {m.id : m \in {m \in batch : m.kind = "session.delete"}}
<1>1. s \in TabState /\ s.pending \in Pendings /\ d \subseteq ThreadIds /\ P \subseteq DOMAIN s.pending
  BY GoodTyped
<1>2. u = [s EXCEPT !.pending = p, !.deletes = d]
  BY <1>1 DEF Drained, TabState
<1>. HIDE DEF P
<1>3. DOMAIN p = P /\ \A i \in P : p[i] = s.pending[i]
  OBVIOUS
<1>4. p \in Pendings
  BY <1>1, PendingMaps
<1>. HIDE DEF p, u, d
<1>5. /\ u \in TabState /\ u.owner = s.owner /\ u.threads = s.threads /\ u.removed = s.removed
      /\ u.furthest = s.furthest /\ u.draft = s.draft /\ u.at = s.at /\ u.push = s.push
      /\ u.dirty = s.dirty /\ u.dirtyProgress = s.dirtyProgress /\ u.pending = p
  BY <1>1, <1>2, <1>4 DEF TabState
<1>6. Good(u) /\ (Shown(s) => Shown(u))
  BY <1>1, <1>3, <1>5 DEF Good, SignedIn, Shown
<1>. QED BY <1>5, <1>6 DEF u

Answer == [threads : Threads, furthest : Surah]

\* An answer takes away no row that waits, and not the thread that is read.
LEMMA AppliedTab ==
    ASSUME NEW s, Good(s), NEW snap \in Answer
    PROVE  Follows(s, Applied(s, snap), DOMAIN s.threads \cap {s.at}, DOMAIN snap.threads)
<1>. DEFINE N == DOMAIN snap.threads \ (s.deletes \cup s.removed \cup Ours(s))
            news == [i \in N |-> snap.threads[i]]
            all == [i \in DOMAIN s.threads \cup DOMAIN news |-> NewerRow(s.threads, news, i)]
            full == Cardinality(DOMAIN snap.threads) >= SnapshotLimit
            cut(i) == full /\ \A j \in DOMAIN snap.threads : all[i].at < snap.threads[j].at
            ended == {i \in DOMAIN all \ (DOMAIN snap.threads \cup Kept(s)) :
                         ~all[i].ended /\ ~cut(i)}
            u == Applied(s, snap)
            f == Further(s.furthest, snap.furthest)
<1>1. /\ snap.threads \in Threads /\ DOMAIN snap.threads \subseteq ThreadIds /\ snap.furthest \in Surah
      /\ \A i \in DOMAIN snap.threads : snap.threads[i] \in ThreadRow
  BY ThreadMaps DEF Answer
<1>2. /\ DOMAIN news \subseteq DOMAIN snap.threads /\ DOMAIN news \cap Ours(s) = {}
      /\ \A i \in DOMAIN news : news[i] \in ThreadRow
  BY <1>1
<1>3. ended \cap (Ours(s) \cup {s.at}) = {}
  BY DEF Kept
<1>4. u = [s EXCEPT !.threads = Merge(Without(all, ended), NoRows, s.removed),
                    !.furthest = f, !.persist = TRUE]
  BY GoodTyped DEF Applied, TabState, MergeProgress
<1>. HIDE DEF news, ended, u
<1>5. /\ all \in Threads /\ DOMAIN all = DOMAIN s.threads \cup DOMAIN news
      /\ \A i \in DOMAIN s.threads : all[i].at >= s.threads[i].at
      /\ \A i \in DOMAIN s.threads \ DOMAIN news : all[i] = s.threads[i]
  <2>1. DOMAIN all = DOMAIN s.threads \cup DOMAIN news
    OBVIOUS
  <2>2. \A i \in DOMAIN all : all[i] = NewerRow(s.threads, news, i)
    OBVIOUS
  <2>3. \A i \in DOMAIN all : all[i] \in ThreadRow
    BY <1>2, <2>2, GoodTyped DEF NewerRow
  <2>4. all \in Threads
    BY <1>1, <1>2, <2>1, <2>3, GoodTyped, ThreadMaps
  <2>5. \A i \in DOMAIN news : news[i].at \in Nat
    BY <1>2, RowsAssumption DEF ThreadRow
  <2>6. \A i \in DOMAIN s.threads : all[i].at >= s.threads[i].at
    BY <2>1, <2>2, <2>5, GoodTyped DEF NewerRow
  <2>7. \A i \in DOMAIN s.threads \ DOMAIN news : all[i] = s.threads[i]
    BY <2>1, <2>2 DEF NewerRow
  <2>. QED BY <2>1, <2>4, <2>6, <2>7
<1>. HIDE DEF all
<1>. DEFINE left == Without(all, ended)
            c == Merge(left, NoRows, s.removed)
<1>6. /\ left \in Threads /\ DOMAIN left = DOMAIN all \ ended
      /\ \A i \in DOMAIN left : left[i] = all[i]
  <2>1. \A g \in Threads : Without(g, ended) \in Threads
    BY WithoutTyped
  <2>2. left \in Threads
    BY <1>5, <2>1
  <2>3. DOMAIN left = DOMAIN all \ ended
    BY DEF Without
  <2>4. \A i \in DOMAIN all \ ended : left[i] = all[i]
    BY DEF Without
  <2>. QED BY <2>2, <2>3, <2>4
<1>. HIDE DEF left
<1>7. MergeOf(c, left, NoRows, s.removed)
  BY <1>6, NoRowsTyped, MergedThreads
<1>. HIDE DEF c
<1>8. /\ c \in Threads /\ Cardinality(DOMAIN c) <= ThreadCap
      /\ DOMAIN c \subseteq DOMAIN left \ s.removed
      /\ DOMAIN c = DOMAIN left \ s.removed \/ Cardinality(DOMAIN c) = ThreadCap
      /\ \A M : Room(M) /\ DOMAIN left \ s.removed \subseteq M => DOMAIN c = DOMAIN left \ s.removed
      /\ \A i \in DOMAIN c : c[i] = left[i]
  BY <1>7, NoRowsTyped DEF MergeOf
<1>9. f \in Surah /\ f >= s.furthest /\ (s.furthest \in Ayahs => f \in Ayahs)
  BY <1>1, GoodTyped, FurtherTyped
<1>. HIDE DEF f
<1>10. /\ u \in TabState /\ u.owner = s.owner /\ u.threads = c /\ u.removed = s.removed
       /\ u.furthest = f /\ u.draft = s.draft /\ u.at = s.at /\ u.push = s.push
       /\ u.dirty = s.dirty /\ u.dirtyProgress = s.dirtyProgress /\ u.pending = s.pending
  <2>1. u = [s EXCEPT !.threads = c, !.furthest = f, !.persist = TRUE]
    BY <1>4 DEF c, left
  <2>2. s \in TabState
    BY GoodTyped
  <2>. QED BY <1>8, <1>9, <2>1, <2>2 DEF TabState
<1>11. Good(u)
  BY <1>8, <1>9, <1>10 DEF Good, SignedIn
<1>12. Keeps(u, DOMAIN s.threads \cap {s.at})
  BY <1>3, <1>5, <1>6, <1>8, <1>10 DEF Keeps
<1>13. Onward(s, u)
  BY <1>5, <1>6, <1>8, <1>9, <1>10 DEF Onward
<1>14. ASSUME NEW M, Room(M), DOMAIN s.threads \cup DOMAIN snap.threads \subseteq M, Shown(s)
       PROVE  Shown(u)
  <2>1. DOMAIN c = DOMAIN left \ s.removed
    <3>1. DOMAIN left \ s.removed \subseteq M
      BY <1>2, <1>5, <1>6, <1>14
    <3>. QED BY <1>8, <1>14, <3>1
  <2>2. \A i \in DOMAIN s.threads \cap Ours(s) : i \notin s.removed => i \in DOMAIN c /\ c[i] = s.threads[i]
    BY <1>2, <1>3, <1>5, <1>6, <1>8, <2>1
  <2>. QED BY <1>10, <1>14, <2>2 DEF Shown, Ours
<1>15. DOMAIN u.threads \subseteq DOMAIN s.threads \cup DOMAIN snap.threads
  BY <1>2, <1>5, <1>6, <1>8, <1>10
<1>. QED BY <1>10, <1>11, <1>12, <1>13, <1>14, <1>15 DEF u, Follows

\* The device's threads join an account: all of them wait for the push.
\* State s of a tab joins state n.
With(n, s) == [n EXCEPT !.threads = Merge(n.threads, s.threads, n.removed),
                        !.furthest = MergeProgress(n.furthest, s.furthest),
                        !.dirty = DOMAIN s.threads,
                        !.dirtyProgress = s.furthest > 0,
                        !.persist = TRUE]

Joins(u, n, s) ==
    /\ Good(u) /\ u.owner = n.owner /\ u.draft = n.draft
    /\ DOMAIN u.threads \subseteq DOMAIN n.threads \cup DOMAIN s.threads
    /\ \A M : Room(M) /\ DOMAIN n.threads \cup DOMAIN s.threads \subseteq M => Shown(u)

LEMMA JoinedTab ==
    ASSUME NEW n, Good(n), n.pending = NoRows, n.push = FALSE, NEW s, Good(s)
    PROVE  Joins(With(n, s), n, s)
<1>. DEFINE f == Further(n.furthest, s.furthest)
            c == Merge(n.threads, s.threads, n.removed)
            u == [n EXCEPT !.threads = c, !.furthest = f, !.dirty = DOMAIN s.threads,
                           !.dirtyProgress = s.furthest > 0, !.persist = TRUE]
<1>1. MergeOf(c, n.threads, s.threads, n.removed)
  BY GoodTyped, MergedThreads
<1>. HIDE DEF c
<1>2. /\ c \in Threads /\ Cardinality(DOMAIN c) <= ThreadCap
      /\ DOMAIN c \subseteq (DOMAIN n.threads \cup DOMAIN s.threads) \ n.removed
      /\ \A M : Room(M) /\ (DOMAIN n.threads \cup DOMAIN s.threads) \ n.removed \subseteq M
                  => DOMAIN c = (DOMAIN n.threads \cup DOMAIN s.threads) \ n.removed
  BY <1>1 DEF MergeOf
<1>3. f \in Surah /\ (s.furthest > 0 => f \in Ayahs)
  <2>1. n.furthest \in Nat /\ s.furthest \in Nat /\ n.furthest \in Surah /\ s.furthest \in Surah
    BY GoodTyped
  <2>. QED BY <2>1, FurtherTyped DEF Further, Surah
<1>. HIDE DEF f
<1>4. n \in TabState /\ DOMAIN s.threads \in SUBSET ThreadIds /\ (s.furthest > 0) \in BOOLEAN
  BY GoodTyped
<1>. DEFINE dp == s.furthest > 0
<1>. HIDE DEF dp
<1>5. u = [n EXCEPT !.threads = c, !.furthest = f, !.dirty = DOMAIN s.threads,
                    !.dirtyProgress = dp, !.persist = TRUE]
  BY DEF dp
<1>. HIDE DEF u
<1>6. /\ u \in TabState /\ u.owner = n.owner /\ u.threads = c /\ u.removed = n.removed
      /\ u.furthest = f /\ u.draft = n.draft /\ u.at = n.at /\ u.push = n.push
      /\ u.dirty = DOMAIN s.threads /\ u.dirtyProgress = dp /\ u.pending = n.pending
  BY <1>2, <1>3, <1>4, <1>5 DEF TabState, dp
<1>7. Good(u)
  BY <1>2, <1>3, <1>6 DEF Good, dp
<1>8. ASSUME NEW M, Room(M), DOMAIN n.threads \cup DOMAIN s.threads \subseteq M
      PROVE  Shown(u)
  <2>1. DOMAIN c = (DOMAIN n.threads \cup DOMAIN s.threads) \ n.removed
    BY <1>2, <1>8
  <2>. QED BY <1>6, <2>1, NoRowsTyped DEF Shown
<1>9. Joins(u, n, s)
  BY <1>2, <1>6, <1>7, <1>8 DEF Joins
<1>10. With(n, s) = u
  BY DEF u, c, f, MergeProgress, With
<1>. QED BY <1>9, <1>10
-----------------------------------------------------------------------------
(* The rows on the server. *)

IdOf(m) == IF m.kind = "progress.upsert" THEN {} ELSE {m.id}

\* One account after another: rows stay, no row gets older.
Later(a, b) ==
    /\ DOMAIN a.rows \subseteq DOMAIN b.rows /\ b.furthest >= a.furthest
    /\ \A i \in DOMAIN a.rows : b.rows[i].at >= a.rows[i].at

\* The account is as new as the mutation; a removal leaves nothing to be newer than.
Taken(account, m) ==
    /\ m.kind = "session.upsert" => UpToDate(account.rows, m.id, m.ts)
    /\ m.kind = "progress.upsert" => m.ayah <= account.furthest

\* Ids that an account can hold without reaching its quota.
WithinQuota(ids) == IsFiniteSet(ids) /\ Cardinality(ids) <= ThreadQuota

LEMMA RowMaps ==
    ASSUME NEW f
    PROVE  f \in Rows <=> DOMAIN f \subseteq ThreadIds /\ f \in [DOMAIN f -> Row]
BY DEF Rows

LEMMA AccountTyped ==
    ASSUME NEW a \in Account
    PROVE  /\ a.rows \in Rows /\ DOMAIN a.rows \subseteq ThreadIds
           /\ a.furthest \in Surah /\ a.furthest \in Nat
           /\ \A i \in DOMAIN a.rows : a.rows[i] \in Row /\ a.rows[i].at \in Nat
<1>1. a.rows \in Rows /\ a.furthest \in Surah
  BY DEF Account, Surah
<1>2. DOMAIN a.rows \subseteq ThreadIds /\ \A i \in DOMAIN a.rows : a.rows[i] \in Row
  BY <1>1, RowMaps
<1>. QED BY <1>1, <1>2, SurahNat, RowsAssumption DEF Row

LEMMA LaterSelf == ASSUME NEW a \in Account PROVE Later(a, a)
BY AccountTyped DEF Later

LEMMA LaterLater ==
    ASSUME NEW a \in Account, NEW b \in Account, NEW c \in Account, Later(a, b), Later(b, c)
    PROVE  Later(a, c)
<1>1. c.furthest >= a.furthest
  BY AccountTyped DEF Later
<1>2. \A i \in DOMAIN a.rows : i \in DOMAIN b.rows /\ i \in DOMAIN c.rows
  BY DEF Later
<1>3. ASSUME NEW i \in DOMAIN a.rows PROVE c.rows[i].at >= a.rows[i].at
  <2>1. a.rows[i].at \in Nat /\ b.rows[i].at \in Nat /\ c.rows[i].at \in Nat
    BY <1>2, AccountTyped
  <2>2. b.rows[i].at >= a.rows[i].at /\ c.rows[i].at >= b.rows[i].at
    BY <1>2 DEF Later
  <2>. QED BY <2>1, <2>2
<1>. QED BY <1>1, <1>2, <1>3 DEF Later

LEMMA MutationKinds ==
    ASSUME NEW m \in Mutations
    PROVE  \/ m.kind = "session.upsert" /\ m.id \in ThreadIds /\ m.ts \in Clocks /\ m.ended \in BOOLEAN
           \/ m.kind = "session.delete" /\ m.id \in ThreadIds /\ m.ts \in Clocks
           \/ m.kind = "progress.upsert" /\ m.ayah \in Ayahs
BY DEF Mutations

LEMMA PutTyped ==
    ASSUME NEW rows \in Rows, NEW i \in ThreadIds, NEW row \in Row
    PROVE  /\ Put(rows, i, row) \in Rows /\ DOMAIN Put(rows, i, row) = DOMAIN rows \cup {i}
           /\ Put(rows, i, row)[i] = row
           /\ \A j \in DOMAIN rows \ {i} : Put(rows, i, row)[j] = rows[j]
<1>1. /\ DOMAIN Put(rows, i, row) = DOMAIN rows \cup {i} /\ Put(rows, i, row)[i] = row
      /\ \A j \in DOMAIN rows \ {i} : Put(rows, i, row)[j] = rows[j]
  BY DEF Put
<1>2. DOMAIN rows \subseteq ThreadIds /\ rows \in [DOMAIN rows -> Row]
  BY RowMaps
<1>3. Put(rows, i, row) \in [DOMAIN rows \cup {i} -> Row]
  BY <1>2 DEF Put
<1>. QED BY <1>1, <1>2, <1>3, RowMaps

\* The write of one row.
Wrote(a, i, row) == [a EXCEPT !.rows = Put(a.rows, i, row)]

LEMMA WrittenRow ==
    ASSUME NEW a \in Account, NEW i \in ThreadIds, NEW row \in Row,
           i \in DOMAIN a.rows => row.at >= a.rows[i].at,
           NEW b, b = Wrote(a, i, row)
    PROVE  /\ b \in Account /\ Later(a, b)
           /\ DOMAIN b.rows = DOMAIN a.rows \cup {i} /\ b.rows[i] = row
<1>. DEFINE r == Put(a.rows, i, row)
<1>1. a.rows \in Rows
  BY AccountTyped
<1>. DEFINE old == a.rows
<1>2. /\ r \in Rows /\ DOMAIN r = DOMAIN a.rows \cup {i} /\ r[i] = row
      /\ \A j \in DOMAIN a.rows \ {i} : r[j] = a.rows[j]
  <2>1. old \in Rows /\ r = Put(old, i, row)
    BY <1>1
  <2>. HIDE DEF old, r
  <2>2. /\ Put(old, i, row) \in Rows /\ DOMAIN Put(old, i, row) = DOMAIN old \cup {i}
        /\ Put(old, i, row)[i] = row
        /\ \A j \in DOMAIN old \ {i} : Put(old, i, row)[j] = old[j]
    BY <2>1, PutTyped, Zenon
  <2>. QED BY <2>1, <2>2 DEF old
<1>. HIDE DEF old
<1>3. b = [a EXCEPT !.rows = r]
  BY DEF Wrote
<1>. HIDE DEF r
<1>4. b \in Account /\ b.rows = r /\ b.furthest = a.furthest
  BY <1>2, <1>3 DEF Account
<1>5. Later(a, b)
  BY <1>2, <1>4, AccountTyped DEF Later
<1>. QED BY <1>2, <1>4, <1>5

\* The stamp is not ahead of the server's clock.
InStep(m, limit) == m.kind # "progress.upsert" => m.ts <= limit

LEMMA ClampedStamp ==
    ASSUME NEW ts \in Clocks, NEW limit \in Clocks
    PROVE  /\ Clamp(ts, limit) \in Clocks /\ Clamp(ts, limit) \in Nat /\ Clamp(ts, limit) <= ts
           /\ ts <= limit => Clamp(ts, limit) = ts
BY RowsAssumption DEF Clamp

\* What one mutation does to an account; taken, if its ids fit within the quota.
Digests(a, b, m, limit) ==
    /\ b \in Account /\ Later(a, b)
    /\ DOMAIN b.rows \subseteq DOMAIN a.rows \cup IdOf(m)
    /\ \A ids : WithinQuota(ids) /\ DOMAIN a.rows \cup IdOf(m) \subseteq ids
                   => (InStep(m, limit) => Taken(b, m))

LEMMA RoomForOneMore ==
    ASSUME NEW a \in Account, NEW ids, WithinQuota(ids), DOMAIN a.rows \subseteq ids,
           NEW i \in ids, i \notin DOMAIN a.rows
    PROVE  ~ (Cardinality(LiveThreads(a.rows)) >= ThreadQuota)
<1>. DEFINE live == LiveThreads(a.rows)
<1>1. live \subseteq ids /\ live # ids
  BY DEF LiveThreads
<1>. HIDE DEF live
<1>2. Cardinality(live) < Cardinality(ids) /\ Cardinality(ids) \in Nat /\ Cardinality(live) \in Nat
  BY <1>1, SmallerSet DEF WithinQuota
<1>3. Cardinality(live) < ThreadQuota /\ ThreadQuota \in Nat
  BY <1>2, RowsAssumption DEF WithinQuota
<1>. QED BY <1>2, <1>3 DEF live

LEMMA UpsertDigests ==
    ASSUME NEW a \in Account, NEW m \in Mutations, NEW limit \in Clocks, m.kind = "session.upsert"
    PROVE  Digests(a, ApplyMutation(a, m, limit), m, limit)
<1>. DEFINE ts == Clamp(m.ts, limit)
            b == ApplyMutation(a, m, limit)
            row == [at |-> ts, ended |-> m.ended, live |-> TRUE]
            refused == \/ m.id \notin DOMAIN a.rows
                            /\ Cardinality(LiveThreads(a.rows)) >= ThreadQuota
                       \/ UpToDate(a.rows, m.id, ts)
<1>1. m.id \in ThreadIds /\ m.ts \in Clocks /\ m.ended \in BOOLEAN /\ IdOf(m) = {m.id}
  BY MutationKinds DEF IdOf
<1>4. /\ ts \in Clocks /\ ts \in Nat
      /\ InStep(m, limit) => ts = m.ts
  BY <1>1, ClampedStamp DEF InStep
<1>2. CASE refused
  <2>1. b = a
    BY <1>2 DEF ApplyMutation, UpsertThread, Account
  <2>2. ASSUME NEW ids, WithinQuota(ids), DOMAIN a.rows \cup {m.id} \subseteq ids,
             InStep(m, limit)
        PROVE  Taken(a, m)
    <3>1. UpToDate(a.rows, m.id, ts)
      BY <1>2, <2>2, RoomForOneMore
    <3>. QED BY <1>4, <2>2, <3>1 DEF Taken
  <2>. QED BY <1>1, <2>1, <2>2, LaterSelf DEF Digests
<1>3. CASE ~refused
  <2>1. b = Wrote(a, m.id, row)
    BY <1>3 DEF ApplyMutation, UpsertThread, Account, Wrote
  <2>2. row \in Row /\ row.at = ts
    BY <1>1, <1>4 DEF Row
  <2>3. m.id \in DOMAIN a.rows => row.at >= a.rows[m.id].at
    BY <1>1, <1>3, <1>4, <2>2, AccountTyped DEF UpToDate
  <2>. HIDE DEF b, row, ts
  <2>4. /\ b \in Account /\ Later(a, b)
        /\ DOMAIN b.rows = DOMAIN a.rows \cup {m.id} /\ b.rows[m.id] = row
    BY <1>1, <2>1, <2>2, <2>3, WrittenRow
  <2>5. InStep(m, limit) => Taken(b, m)
    BY <1>1, <1>4, <2>2, <2>4 DEF Taken, UpToDate
  <2>6. Digests(a, b, m, limit)
    BY <1>1, <2>4, <2>5 DEF Digests
  <2>. QED BY <2>6 DEF b
<1>. QED BY <1>2, <1>3

LEMMA DeleteDigests ==
    ASSUME NEW a \in Account, NEW m \in Mutations, NEW limit \in Clocks, m.kind = "session.delete"
    PROVE  Digests(a, ApplyMutation(a, m, limit), m, limit)
<1>. DEFINE ts == Clamp(m.ts, limit)
            b == ApplyMutation(a, m, limit)
            row == [a.rows[m.id] EXCEPT !.at = ts, !.live = FALSE]
            hits == m.id \in DOMAIN a.rows /\ a.rows[m.id].at <= ts
<1>1. m.id \in ThreadIds /\ m.ts \in Clocks /\ IdOf(m) = {m.id}
  BY MutationKinds DEF IdOf
<1>4. ts \in Clocks /\ ts \in Nat
  BY <1>1, ClampedStamp
<1>2. CASE ~hits
  <2>1. b = a
    BY <1>2 DEF ApplyMutation, DeleteThread, Account
  <2>. QED BY <1>1, <2>1, LaterSelf DEF Digests, Taken
<1>3. CASE hits
  <2>1. b = Wrote(a, m.id, row)
    BY <1>3 DEF ApplyMutation, DeleteThread, Account, Wrote
  <2>2. row \in Row /\ row.at = ts /\ a.rows[m.id].at \in Nat
    BY <1>1, <1>3, <1>4, AccountTyped DEF Row
  <2>3. m.id \in DOMAIN a.rows => row.at >= a.rows[m.id].at
    BY <1>1, <1>3, <1>4, <2>2
  <2>. HIDE DEF b, row, ts
  <2>4. /\ b \in Account /\ Later(a, b)
        /\ DOMAIN b.rows = DOMAIN a.rows \cup {m.id} /\ b.rows[m.id] = row
    BY <1>1, <2>1, <2>2, <2>3, WrittenRow
  <2>6. Digests(a, b, m, limit)
    BY <1>1, <2>4 DEF Digests, Taken
  <2>. QED BY <2>6 DEF b
<1>. QED BY <1>2, <1>3

LEMMA ProgressDigests ==
    ASSUME NEW a \in Account, NEW m \in Mutations, NEW limit \in Clocks, m.kind = "progress.upsert"
    PROVE  Digests(a, ApplyMutation(a, m, limit), m, limit)
<1>. DEFINE b == ApplyMutation(a, m, limit)
            f == Further(a.furthest, m.ayah)
<1>1. m.ayah \in Surah /\ m.ayah \in Nat /\ IdOf(m) = {}
  BY MutationKinds, RowsAssumption DEF IdOf, Surah
<1>2. f \in Surah /\ f >= a.furthest /\ m.ayah <= f
  BY <1>1, AccountTyped, FurtherTyped DEF Further
<1>3. b = [a EXCEPT !.furthest = f]
  BY DEF ApplyMutation, Account
<1>. HIDE DEF f, b
<1>4. b \in Account /\ b.rows = a.rows /\ b.furthest = f
  BY <1>2, <1>3 DEF Account, Surah
<1>5. Later(a, b)
  BY <1>2, <1>4, AccountTyped DEF Later
<1>6. Digests(a, b, m, limit)
  BY <1>1, <1>2, <1>4, <1>5 DEF Digests, Taken
<1>. QED BY <1>6 DEF b

LEMMA MutationDigests ==
    ASSUME NEW a \in Account, NEW m \in Mutations, NEW limit \in Clocks
    PROVE  Digests(a, ApplyMutation(a, m, limit), m, limit)
BY MutationKinds, UpsertDigests, DeleteDigests, ProgressDigests

\* What was taken once stays taken, and is skipped.
LEMMA TakenStays ==
    ASSUME NEW a \in Account, NEW b \in Account, Later(a, b), NEW m \in Mutations, Taken(a, m)
    PROVE  Taken(b, m)
<1>1. CASE m.kind = "session.upsert"
  <2>1. m.id \in DOMAIN a.rows /\ a.rows[m.id].at >= m.ts /\ m.ts \in Nat
    BY <1>1, MutationKinds, RowsAssumption DEF Taken, UpToDate
  <2>2. m.id \in DOMAIN b.rows /\ b.rows[m.id].at >= a.rows[m.id].at
    BY <2>1 DEF Later
  <2>3. a.rows[m.id].at \in Nat /\ b.rows[m.id].at \in Nat
    BY <2>1, <2>2, AccountTyped
  <2>. QED BY <1>1, <2>1, <2>2, <2>3 DEF Taken, UpToDate
<1>2. CASE m.kind = "progress.upsert"
  <2>1. m.ayah <= a.furthest /\ a.furthest <= b.furthest
    BY <1>2 DEF Taken, Later
  <2>2. m.ayah \in Nat /\ a.furthest \in Nat /\ b.furthest \in Nat
    BY <1>2, MutationKinds, RowsAssumption, AccountTyped
  <2>. QED BY <1>2, <2>1, <2>2 DEF Taken
<1>3. CASE m.kind = "session.delete"
  BY <1>3 DEF Taken
<1>. QED BY <1>1, <1>2, <1>3, MutationKinds

LEMMA TakenSkipped ==
    ASSUME NEW a \in Account, NEW m \in Mutations, NEW limit \in Clocks, Taken(a, m),
           m.kind # "session.delete"
    PROVE  ApplyMutation(a, m, limit) = a
<1>1. CASE m.kind = "session.upsert"
  <2>. DEFINE ts == Clamp(m.ts, limit)
  <2>1. /\ m.id \in DOMAIN a.rows /\ a.rows[m.id].at >= m.ts /\ a.rows[m.id].at \in Nat
        /\ m.ts \in Clocks /\ m.ts \in Nat
    BY <1>1, MutationKinds, RowsAssumption, AccountTyped DEF Taken, UpToDate
  <2>2. ts \in Nat /\ ts <= m.ts
    BY <2>1, ClampedStamp
  <2>. HIDE DEF ts
  <2>3. UpToDate(a.rows, m.id, ts)
    BY <2>1, <2>2 DEF UpToDate
  <2>. QED BY <1>1, <2>3 DEF ApplyMutation, UpsertThread, Account, ts
<1>2. CASE m.kind = "progress.upsert"
  <2>1. m.ayah \in Nat /\ a.furthest \in Nat /\ m.ayah <= a.furthest
    BY <1>2, MutationKinds, RowsAssumption, AccountTyped DEF Taken
  <2>2. Further(a.furthest, m.ayah) = a.furthest
    BY <2>1 DEF Further
  <2>. QED BY <1>2, <2>2 DEF ApplyMutation, Account
<1>. QED BY <1>1, <1>2, MutationKinds
-----------------------------------------------------------------------------
(* A round on the server, one mutation after another. *)

LEMMA RoundStates ==
    ASSUME NEW a \in Account, NEW batch \in Seq(Mutations), NEW limit \in Clocks
    PROVE  \E f \in [0..Len(batch) -> Account] :
              /\ f[0] = a /\ Round(a, batch, limit) = f[Len(batch)]
              /\ \A k \in 1..Len(batch) : f[k] = ApplyMutation(f[k - 1], batch[k], limit)
<1>. DEFINE n == Len(batch)
            Runs(k) == {f \in [0..k -> Account] :
                           f[0] = a /\ \A j \in 1..k : f[j] = ApplyMutation(f[j - 1], batch[j], limit)}
            T == {k \in 0..n : Runs(k) = {}}
<1>1. n \in Nat /\ \A k \in 1..n : batch[k] \in Mutations
  OBVIOUS
<1>2. Runs(0) # {}
  <2>1. [j \in 0..0 |-> a] \in Runs(0)
    OBVIOUS
  <2>. QED BY <2>1
<1>3. ASSUME NEW k \in Nat, k + 1 \in 0..n, Runs(k) # {} PROVE Runs(k + 1) # {}
  <2>1. PICK f \in Runs(k) : TRUE
    BY <1>3
  <2>. DEFINE next == ApplyMutation(f[k], batch[k + 1], limit)
              g == [j \in 0..(k + 1) |-> IF j = k + 1 THEN next ELSE f[j]]
  <2>2. f \in [0..k -> Account] /\ f[k] \in Account /\ batch[k + 1] \in Mutations
    BY <1>1, <1>3, <2>1
  <2>3. next \in Account
    BY <2>2, MutationDigests DEF Digests
  <2>. HIDE DEF next
  <2>4. g \in [0..(k + 1) -> Account] /\ g[0] = a
    BY <2>1, <2>2, <2>3
  <2>5. ASSUME NEW j \in 1..(k + 1) PROVE g[j] = ApplyMutation(g[j - 1], batch[j], limit)
    <3>1. CASE j = k + 1
      <4>1. g[j] = next /\ g[j - 1] = f[k]
        BY <3>1
      <4>. QED BY <3>1, <4>1 DEF next
    <3>2. CASE j # k + 1
      <4>1. j \in 1..k /\ g[j] = f[j] /\ g[j - 1] = f[j - 1]
        BY <3>2
      <4>. QED BY <2>1, <4>1
    <3>. QED BY <3>1, <3>2
  <2>6. g \in Runs(k + 1)
    BY <2>4, <2>5
  <2>. QED BY <2>6
<1>4. Runs(n) # {}
  <2>. HIDE DEF Runs
  <2>. SUFFICES ASSUME T # {} PROVE FALSE
    BY <1>1
  <2>1. PICK x \in T : \A y \in T : x <= y
    <3>1. T \subseteq Nat
      OBVIOUS
    <3>. HIDE DEF T
    <3>. QED BY <3>1, LeastNatural
  <2>2. x \in Nat /\ x # 0 /\ x - 1 \in 0..n
    BY <1>1, <1>2, <2>1
  <2>3. x - 1 \notin T
    BY <2>1, <2>2
  <2>4. Runs(x - 1) # {}
    BY <2>2, <2>3
  <2>5. Runs((x - 1) + 1) # {}
    BY <1>3, <2>1, <2>2, <2>4
  <2>. QED BY <2>1, <2>2, <2>5
<1>5. PICK f \in [0..n -> Account] :
         f[0] = a /\ \A j \in 1..n : f[j] = ApplyMutation(f[j - 1], batch[j], limit)
  BY <1>4
<1>. HIDE DEF Runs, T
<1>. DEFINE step(g) == [k \in 0..n |-> IF k = 0 THEN a ELSE ApplyMutation(g[k - 1], batch[k], limit)]
            after == CHOOSE g : g = step(g)
<1>6. f = step(f)
  <2>1. \A k \in 0..n : f[k] = step(f)[k]
    BY <1>1, <1>5
  <2>. QED BY <1>5, <2>1
<1>7. after = step(after)
  <2>. HIDE DEF step
  <2>. QED BY <1>6
<1>8. /\ after[0] = a
      /\ \A k \in 1..n : after[k] = ApplyMutation(after[k - 1], batch[k], limit)
  <2>. HIDE DEF after
  <2>1. \A k \in 0..n : step(after)[k] = IF k = 0 THEN a ELSE ApplyMutation(after[k - 1], batch[k], limit)
    OBVIOUS
  <2>. HIDE DEF step
  <2>2. \A k \in 0..n : after[k] = IF k = 0 THEN a ELSE ApplyMutation(after[k - 1], batch[k], limit)
    BY <1>7, <2>1
  <2>. QED BY <1>1, <2>2
<1>9. Round(a, batch, limit) = after[n]
  BY DEF Round
<1>. HIDE DEF after, step
<1>10. after[n] = f[n]
  <2>. DEFINE D == {k \in 0..n : after[k] # f[k]}
  <2>. SUFFICES ASSUME D # {} PROVE FALSE
    BY <1>1
  <2>1. PICK x \in D : \A y \in D : x <= y
    <3>1. D \subseteq Nat
      OBVIOUS
    <3>. HIDE DEF D
    <3>. QED BY <3>1, LeastNatural
  <2>2. x \in 1..n /\ x - 1 \in 0..n
    BY <1>1, <1>5, <1>8, <2>1
  <2>3. after[x - 1] = f[x - 1]
    BY <1>1, <2>1, <2>2
  <2>4. after[x] = f[x]
    BY <1>5, <1>8, <2>2, <2>3
  <2>. QED BY <2>1, <2>4
<1>. QED BY <1>5, <1>9, <1>10

IdsIn(batch) == UNION {IdOf(batch[k]) : k \in DOMAIN batch}

\* What a round does to an account: no row gets older, rows come in under the ids of the
\* batch, and what is in step of the batch is taken if the ids fit within the quota.
LEMMA RoundDigests ==
    ASSUME NEW a \in Account, NEW batch \in Seq(Mutations), NEW limit \in Clocks
    PROVE  LET b == Round(a, batch, limit)
           IN  /\ b \in Account /\ Later(a, b)
               /\ DOMAIN b.rows \subseteq DOMAIN a.rows \cup IdsIn(batch)
               /\ \A ids : WithinQuota(ids) /\ DOMAIN a.rows \cup IdsIn(batch) \subseteq ids
                             => \A k \in DOMAIN batch :
                                  InStep(batch[k], limit) => Taken(b, batch[k])
<1>. DEFINE n == Len(batch)
<1>1. n \in Nat /\ DOMAIN batch = 1..n /\ \A k \in 1..n : batch[k] \in Mutations
  OBVIOUS
<1>2. PICK f \in [0..n -> Account] :
         /\ f[0] = a /\ Round(a, batch, limit) = f[n]
         /\ \A k \in 1..n : f[k] = ApplyMutation(f[k - 1], batch[k], limit)
  BY RoundStates
<1>. HIDE DEF n
<1>3. \A k \in 0..n : f[k] \in Account
  BY <1>2
<1>4. \A k \in 1..n : k - 1 \in 0..n /\ k \in 0..n /\ Digests(f[k - 1], f[k], batch[k], limit)
  <2>. SUFFICES ASSUME NEW k \in 1..n
                PROVE  k - 1 \in 0..n /\ k \in 0..n /\ Digests(f[k - 1], f[k], batch[k], limit)
    OBVIOUS
  <2>1. k - 1 \in 0..n /\ k \in 0..n
    BY <1>1
  <2>. QED BY <1>1, <1>2, <1>3, <2>1, MutationDigests
<1>. DEFINE P(k) == /\ Later(a, f[k])
                    /\ DOMAIN f[k].rows \subseteq DOMAIN a.rows \cup IdsIn(batch)
                    /\ \A j \in 0..k : Later(f[j], f[k])
            T == {k \in 0..n : ~P(k)}
<1>5. T = {}
  <2>. SUFFICES ASSUME T # {} PROVE FALSE
    OBVIOUS
  <2>1. PICK x \in T : \A y \in T : x <= y
    <3>1. T \subseteq Nat
      OBVIOUS
    <3>. HIDE DEF T
    <3>. QED BY <3>1, LeastNatural
  <2>2. x # 0
    <3>1. P(0)
      BY <1>1, <1>2, <1>3, LaterSelf
    <3>. QED BY <2>1, <3>1
  <2>3. x \in 1..n /\ x \in 0..n /\ x - 1 \in 0..n /\ x - 1 \notin T
    BY <1>1, <2>1, <2>2
  <2>4. P(x - 1)
    BY <2>3
  <2>5. /\ Later(f[x - 1], f[x])
        /\ DOMAIN f[x].rows \subseteq DOMAIN f[x - 1].rows \cup IdOf(batch[x])
    BY <1>4, <2>3 DEF Digests
  <2>6. Later(a, f[x])
    BY <1>3, <2>3, <2>4, <2>5, LaterLater
  <2>7. DOMAIN f[x].rows \subseteq DOMAIN a.rows \cup IdsIn(batch)
    BY <1>1, <2>3, <2>4, <2>5 DEF IdsIn
  <2>8. ASSUME NEW j \in 0..x PROVE Later(f[j], f[x])
    <3>1. CASE j = x
      BY <1>3, <2>3, <3>1, LaterSelf
    <3>2. CASE j # x
      <4>1. j \in 0..(x - 1) /\ j \in 0..n
        BY <1>1, <2>3, <3>2
      <4>. QED BY <1>3, <2>3, <2>4, <2>5, <4>1, LaterLater
    <3>. QED BY <3>1, <3>2
  <2>. QED BY <2>1, <2>6, <2>7, <2>8
<1>6. \A k \in 0..n : P(k)
  BY <1>5
<1>. HIDE DEF T
<1>7. n \in 0..n
  BY <1>1
<1>8. ASSUME NEW ids, WithinQuota(ids), DOMAIN a.rows \cup IdsIn(batch) \subseteq ids,
             NEW k \in DOMAIN batch, InStep(batch[k], limit)
      PROVE  Taken(f[n], batch[k])
  <2>1. k \in 1..n /\ k - 1 \in 0..n /\ k \in 0..n
    BY <1>1, <1>4
  <2>2. DOMAIN f[k - 1].rows \cup IdOf(batch[k]) \subseteq ids
    BY <1>6, <1>8, <2>1 DEF IdsIn
  <2>3. Taken(f[k], batch[k])
    BY <1>4, <1>8, <2>1, <2>2 DEF Digests
  <2>4. Later(f[k], f[n])
    BY <1>1, <1>6, <1>7, <2>1
  <2>. QED BY <1>1, <1>3, <1>7, <2>1, <2>3, <2>4, TakenStays
<1>. QED BY <1>2, <1>3, <1>6, <1>7, <1>8

\* A round of one mutation that was taken changes nothing.
LEMMA RoundSkips ==
    ASSUME NEW a \in Account, NEW m \in Mutations, NEW limit \in Clocks, Taken(a, m),
           m.kind # "session.delete"
    PROVE  Round(a, <<m>>, limit) = a
<1>1. <<m>> \in Seq(Mutations) /\ Len(<<m>>) = 1
  OBVIOUS
<1>. DEFINE b == <<m>>
<1>2. b[1] = m /\ b \in Seq(Mutations)
  BY <1>1
<1>. HIDE DEF b
<1>3. PICK f \in [0..Len(b) -> Account] :
         /\ f[0] = a /\ Round(a, b, limit) = f[Len(b)]
         /\ \A k \in 1..Len(b) : f[k] = ApplyMutation(f[k - 1], b[k], limit)
  BY <1>2, RoundStates, Zenon
<1>4. Round(a, b, limit) = ApplyMutation(a, m, limit)
  <2>1. 1 \in 1..Len(b) /\ Len(b) = 1 /\ 1 - 1 = 0
    BY <1>1 DEF b
  <2>. QED BY <1>2, <1>3, <2>1
<1>. QED BY <1>4, TakenSkipped DEF b

\* The answer holds live rows of the account.
LEMMA SnapshotTyped ==
    ASSUME NEW a \in Account
    PROVE  Snapshot(a) \in Answer /\ DOMAIN Snapshot(a).threads \subseteq DOMAIN a.rows
<1>. DEFINE O == OpenThreads(a.rows)
            f == [i \in O |-> [at |-> a.rows[i].at, ended |-> FALSE]]
<1>1. O \subseteq DOMAIN a.rows
  BY DEF OpenThreads, LiveThreads
<1>. HIDE DEF O
<1>2. \A i \in O : f[i] \in ThreadRow
  BY <1>1, AccountTyped DEF Row, ThreadRow
<1>3. f \in Threads /\ DOMAIN f \subseteq DOMAIN a.rows
  <2>1. DOMAIN f \subseteq ThreadIds /\ f \in [DOMAIN f -> ThreadRow]
    BY <1>1, <1>2, AccountTyped
  <2>. QED BY <1>1, <2>1, ThreadMaps
<1>4. Snapshot(a) = [threads |-> f, furthest |-> a.furthest]
  BY DEF Snapshot, O
<1>. HIDE DEF f
<1>5. a.furthest \in Surah
  BY AccountTyped
<1>. QED BY <1>3, <1>4, <1>5 DEF Answer

\* The queue without the mutations of a batch.
LEMMA ErasedQueue ==
    ASSUME NEW S, NEW q \in Seq(S), NEW b \in Seq(S)
    PROVE  /\ Erased(q, b) \in Seq(S)
           /\ ToSet(Erased(q, b)) = ToSet(q) \ ToSet(b)
<1>. DEFINE kept == {i \in DOMAIN q : q[i] \notin ToSet(b)}
            nth(k) == CHOOSE i \in kept : Cardinality(kept \cap 1..i) = k
            l == Cardinality(kept)
            upTo == [i \in 0..Len(q) |-> kept \cap 1..i]
            count == [i \in 0..Len(q) |-> Cardinality(upTo[i])]
<1>1. kept \subseteq 1..Len(q) /\ Len(q) \in Nat /\ kept \subseteq Nat
  OBVIOUS
<1>2. \A i \in kept : q[i] \in S /\ q[i] \in ToSet(q) \ ToSet(b)
  BY DEF ToSet
<1>3. \A m \in ToSet(q) \ ToSet(b) : \E i \in kept : q[i] = m
  BY DEF ToSet
<1>4. \A i \in 0..Len(q) : /\ upTo[i] \subseteq kept /\ count[i] = Cardinality(upTo[i])
                            /\ \A j \in kept : j \in upTo[i] <=> j <= i
  BY <1>1
<1>5. Erased(q, b) = [k \in 1..l |-> q[nth(k)]]
  BY DEF Erased
<1>. HIDE DEF kept
<1>6. IsFiniteSet(kept) /\ l \in Nat
  <2>1. IsFiniteSet(1..Len(q))
    BY <1>1, FS_Interval
  <2>. QED BY <1>1, <2>1, SmallerSet
<1>. HIDE DEF upTo, count, l
<1>7. \A i \in 0..Len(q) : IsFiniteSet(upTo[i]) /\ count[i] \in 0..l
  BY <1>4, <1>6, SmallerSet DEF l
<1>8. ASSUME NEW i \in kept, NEW j \in kept, i < j
      PROVE  count[i] < count[j]
  <2>1. i \in 0..Len(q) /\ j \in 0..Len(q)
    BY <1>1
  <2>2. \A k \in kept : k <= i => k <= j
    BY <1>1, <1>8
  <2>3. upTo[i] \subseteq upTo[j]
    BY <1>4, <2>1, <2>2
  <2>4. j \in upTo[j] /\ j \notin upTo[i]
    BY <1>1, <1>4, <1>8, <2>1
  <2>5. upTo[i] # upTo[j]
    BY <2>4
  <2>. QED BY <1>4, <1>7, <2>1, <2>3, <2>5, SmallerSet
<1>9. ASSUME NEW k \in 1..l
      PROVE  \E i \in kept : count[i] = k
  <2>. DEFINE T == {i \in 0..Len(q) : count[i] >= k}
  <2>1. Len(q) \in T
    <3>1. Len(q) \in 0..Len(q) /\ \A j \in kept : j <= Len(q)
      BY <1>1
    <3>2. upTo[Len(q)] = kept
      BY <1>4, <3>1
    <3>. QED BY <1>4, <1>6, <3>1, <3>2 DEF l
  <2>2. 0 \notin T
    <3>1. 0 \in 0..Len(q) /\ \A j \in kept : ~ (j <= 0)
      BY <1>1
    <3>2. upTo[0] = {}
      BY <1>4, <3>1
    <3>3. count[0] = 0
      BY <1>4, <3>1, <3>2, FS_EmptySet
    <3>. QED BY <3>3
  <2>3. PICK i \in T : \A j \in T : i <= j
    <3>1. T \subseteq Nat /\ T # {}
      BY <2>1
    <3>. HIDE DEF T
    <3>. QED BY <3>1, LeastNatural
  <2>4. i \in 1..Len(q) /\ i \in 0..Len(q) /\ i - 1 \in 0..Len(q) /\ count[i] >= k
        /\ ~ (count[i - 1] >= k)
    BY <1>1, <2>2, <2>3
  <2>5. upTo[i - 1] = upTo[i] \ {i} /\ (i \notin kept => upTo[i - 1] = upTo[i])
    <3>1. \A j \in kept : j <= i - 1 <=> j <= i /\ j # i
      BY <1>1, <2>4
    <3>. QED BY <1>4, <2>4, <3>1
  <2>6. i \in kept
    BY <1>4, <2>4, <2>5
  <2>7. i \in upTo[i]
    BY <1>4, <2>4, <2>6
  <2>8. Cardinality(upTo[i] \ {i}) = Cardinality(upTo[i]) - 1
    BY <1>7, <2>4, <2>7, FS_RemoveElement
  <2>9. count[i - 1] = count[i] - 1
    BY <1>4, <2>4, <2>5, <2>8
  <2>. QED BY <1>6, <1>7, <2>4, <2>6, <2>9
<1>10. ASSUME NEW i \in kept PROVE count[i] \in 1..l
  <2>1. i \in 0..Len(q) /\ i \in upTo[i]
    BY <1>1, <1>4
  <2>2. Cardinality(upTo[i]) # 0
    BY <1>7, <2>1, FS_EmptySet
  <2>. QED BY <1>4, <1>6, <1>7, <2>1, <2>2
<1>11. \A i \in kept : Cardinality(kept \cap 1..i) = count[i]
  BY <1>1 DEF count, upTo
<1>12. \A k \in 1..l : nth(k) \in kept /\ count[nth(k)] = k
  BY <1>9, <1>11
<1>13. \A i \in kept : nth(count[i]) = i
  <2>. SUFFICES ASSUME NEW i \in kept PROVE nth(count[i]) = i
    OBVIOUS
  <2>. DEFINE j == nth(count[i])
  <2>1. j \in kept /\ count[j] = count[i]
    BY <1>10, <1>12
  <2>. HIDE DEF j
  <2>2. i \in Nat /\ j \in Nat /\ count[i] \in Nat /\ ~ (i < j) /\ ~ (j < i)
    BY <1>1, <1>6, <1>8, <1>10, <2>1
  <2>3. i = j
    BY <2>2
  <2>. QED BY <2>3 DEF j
<1>. DEFINE r == [k \in 1..l |-> q[nth(k)]]
<1>. HIDE DEF nth
<1>14. r \in Seq(S)
  BY <1>2, <1>6, <1>12
<1>15. ToSet(r) \subseteq ToSet(q) \ ToSet(b)
  BY <1>2, <1>12 DEF ToSet
<1>16. ASSUME NEW m \in ToSet(q) \ ToSet(b) PROVE m \in ToSet(r)
  <2>1. PICK i \in kept : q[i] = m
    BY <1>3
  <2>2. count[i] \in DOMAIN r /\ r[count[i]] = m
    BY <1>10, <1>13, <2>1
  <2>. QED BY <2>2 DEF ToSet
<1>. QED BY <1>5, <1>14, <1>15, <1>16
-----------------------------------------------------------------------------
(* Types. *)

Request == [at : {"idle", "sent", "answered", "erased"}, owner : Owners, batch : Seq(Mutations),
            answer : Answer]

Queues == /\ issued \in [Accounts -> SUBSET Mutations]
          /\ outbox \in [Accounts -> Seq(Mutations)]
          /\ \A a \in Accounts : outbox[a] \in Seq(issued[a])

Storage == stored \in [Owners -> Store] /\ \A o \in Owners : GoodStore(stored[o])

TabStates == tab \in [Tabs -> TabState] /\ \A t \in Tabs : Good(tab[t])

\* A round belongs to the account its tab shows; what it carries was queued for it.
Requests == /\ round \in [Tabs -> Request]
            /\ \A t \in Tabs : round[t].at # "idle" =>
                  /\ round[t].owner \in Accounts /\ round[t].owner = tab[t].owner
                  /\ round[t].batch \in Seq(issued[round[t].owner])
            /\ \A s \in strays : s.owner \in Accounts /\ s.batch \in Seq(issued[s.owner])

Ids == homes \in [Minted -> SUBSET Owners] /\ Minted \subseteq ThreadIds /\ clock \in Nat

TypeInv == /\ db \in [Accounts -> Account]
           /\ Queues /\ Storage /\ TabStates /\ Requests /\ Ids

\* What a tab does that goes on under its owner: it keeps its place, no progress is lost,
\* rows come in under the given ids and go by removals and by the cap.
Moves(s, u, ids) ==
    /\ Good(u) /\ u.owner = s.owner /\ u.furthest >= s.furthest
    /\ Keeps(u, DOMAIN s.threads \cap {s.at})
    /\ DOMAIN u.threads \subseteq DOMAIN s.threads \cup ids
    /\ \A M : Room(M) /\ DOMAIN s.threads \cup ids \subseteq M /\ Shown(s) => Shown(u)

LEMMA FollowsMoves ==
    ASSUME NEW s, NEW u, NEW kept, NEW ids, Follows(s, u, kept, ids),
           DOMAIN s.threads \cap {s.at} \subseteq kept
    PROVE  Moves(s, u, ids) /\ Onward(s, u) /\ u.draft = s.draft /\ u.at = s.at
<1>1. Keeps(u, DOMAIN s.threads \cap {s.at})
  BY DEF Follows, Keeps
<1>. QED BY <1>1 DEF Follows, Moves, Onward

\* The threads stand while the tab looks at another one.
Looking(s, draft, at) == [s EXCEPT !.draft = draft, !.at = at]

LEMMA LookingMoves ==
    ASSUME NEW s, NEW u, NEW ids, Moves(s, u, ids),
           NEW i \in ThreadIds \cup {None}, NEW d \in ThreadIds \cup {None},
           NEW v, v = Looking(u, d, i)
    PROVE  Moves(s, v, ids) /\ v.draft = d /\ v.threads = u.threads
<1>1. u \in TabState
  BY DEF Moves, Good
<1>2. /\ v \in TabState /\ v.owner = u.owner /\ v.threads = u.threads /\ v.removed = u.removed
      /\ v.furthest = u.furthest /\ v.draft = d /\ v.at = i /\ v.dirty = u.dirty
      /\ v.dirtyProgress = u.dirtyProgress /\ v.pending = u.pending /\ v.push = u.push
  BY <1>1 DEF TabState, Looking
<1>3. Good(v)
  BY <1>2 DEF Moves, Good, SignedIn
<1>4. Keeps(v, DOMAIN s.threads \cap {s.at}) /\ (Shown(u) => Shown(v))
  BY <1>2 DEF Moves, Keeps, Shown
<1>. QED BY <1>2, <1>3, <1>4 DEF Moves

LEMMA SelfMoves ==
    ASSUME NEW s, Good(s), NEW ids
    PROVE  Moves(s, s, ids) /\ Onward(s, s)
<1>1. Follows(s, s, DOMAIN s.threads, ids)
  BY StaysFollows
<1>. QED BY <1>1, FollowsMoves

LEMMA WrittenMoves ==
    ASSUME NEW s, Good(s), NEW i \in ThreadIds, NEW ended \in BOOLEAN, Stamp \in Clocks
    PROVE  /\ Moves(s, Written(s, i, ended), {i})
           /\ Written(s, i, ended).draft = IF s.draft = i THEN None ELSE s.draft
           /\ Written(s, i, ended).at = s.at
<1>. DEFINE u == Written(s, i, ended)
<1>1. Writes(s, u, i)
  BY WrittenTab
<1>. HIDE DEF u
<1>2. Keeps(u, DOMAIN s.threads \cap {s.at}) /\ s.furthest \in Nat
  BY <1>1, GoodTyped DEF Keeps, Writes
<1>3. Moves(s, u, {i})
  BY <1>1, <1>2 DEF Moves, Writes
<1>. QED BY <1>1, <1>3 DEF u, Writes

LEMMA BumpedMoves ==
    ASSUME NEW s, Good(s), NEW u, NEW ids, Moves(s, u, ids), NEW ayah \in Ayahs
    PROVE  Moves(s, Bumped(u, ayah), ids) /\ Bumped(u, ayah).draft = u.draft
<1>. DEFINE v == Bumped(u, ayah)
<1>1. Good(u)
  BY DEF Moves
<1>2. /\ Good(v) /\ v.furthest >= u.furthest
      /\ v.owner = u.owner /\ v.threads = u.threads /\ v.removed = u.removed
      /\ v.draft = u.draft /\ v.dirty = u.dirty /\ v.pending = u.pending
  BY <1>1, BumpedTab
<1>. HIDE DEF v
<1>3. v.furthest >= s.furthest
  <2>1. v.furthest \in Nat /\ u.furthest \in Nat /\ s.furthest \in Nat
    BY <1>1, <1>2, GoodTyped
  <2>. QED BY <1>2, <2>1 DEF Moves
<1>4. Keeps(v, DOMAIN s.threads \cap {s.at}) /\ (Shown(u) => Shown(v))
  BY <1>2 DEF Moves, Keeps, Shown
<1>5. Moves(s, v, ids)
  BY <1>2, <1>3, <1>4 DEF Moves
<1>. QED BY <1>2, <1>5 DEF v

\* A thread that is removed goes with all that waits for it.
Removing(s, i) == [s EXCEPT !.removed = @ \cup {i}, !.dirty = @ \ {i},
                            !.pending = Without(@, {i}), !.threads = Without(@, {i}),
                            !.at = IF @ = i THEN None ELSE @,
                            !.draft = IF s.at = i THEN None ELSE @,
                            !.persist = TRUE]

LEMMA RemovedMoves ==
    ASSUME NEW s, Good(s), NEW i \in DOMAIN s.threads, NEW v, v = Removing(s, i)
    PROVE  Moves(s, v, {}) /\ Onward(s, v) /\ v.draft \in {None, s.draft}
<1>. DEFINE c == Without(s.threads, {i})
            p == Without(s.pending, {i})
<1>1. s \in TabState /\ s.threads \in Threads /\ s.pending \in Pendings /\ i \in ThreadIds
  BY GoodTyped
<1>2. /\ c \in Threads /\ DOMAIN c = DOMAIN s.threads \ {i}
      /\ \A j \in DOMAIN c : c[j] = s.threads[j]
  BY <1>1, WithoutTyped DEF Without
<1>3. /\ p \in Pendings /\ DOMAIN p = DOMAIN s.pending \ {i}
      /\ \A j \in DOMAIN p : p[j] = s.pending[j]
  BY <1>1, WithoutTyped DEF Without
<1>. DEFINE a == IF s.at = i THEN None ELSE s.at
            d == IF s.at = i THEN None ELSE s.draft
            gone == s.removed \cup {i}
            left == s.dirty \ {i}
<1>4. v = [s EXCEPT !.removed = gone, !.dirty = left, !.pending = p, !.threads = c, !.at = a,
                    !.draft = d, !.persist = TRUE]
  BY <1>1 DEF TabState, Removing
<1>5. /\ a \in ThreadIds \cup {None} /\ d \in ThreadIds \cup {None} /\ d \in {None, s.draft}
      /\ gone \in SUBSET ThreadIds /\ left \in SUBSET ThreadIds
  BY <1>1 DEF TabState
<1>. HIDE DEF c, p, a, d, gone, left
<1>6. /\ v \in TabState /\ v.owner = s.owner /\ v.threads = c /\ v.removed = gone
      /\ v.furthest = s.furthest /\ v.draft = d /\ v.dirty = left
      /\ v.dirtyProgress = s.dirtyProgress /\ v.pending = p /\ v.push = s.push
  <2>. DEFINE w == [s EXCEPT !.removed = gone, !.dirty = left, !.pending = p, !.threads = c]
  <2>1. /\ w \in TabState /\ w.owner = s.owner /\ w.threads = c /\ w.removed = gone
        /\ w.furthest = s.furthest /\ w.dirty = left
        /\ w.dirtyProgress = s.dirtyProgress /\ w.pending = p /\ w.push = s.push
    BY <1>1, <1>2, <1>3, <1>5 DEF TabState
  <2>2. v = [w EXCEPT !.at = a, !.draft = d, !.persist = TRUE]
    BY <1>1, <1>4 DEF TabState
  <2>. HIDE DEF w
  <2>. QED BY <1>5, <2>1, <2>2 DEF TabState
<1>7. Cardinality(DOMAIN c) <= ThreadCap
  <2>1. IsFiniteSet(DOMAIN s.threads)
    BY GoodTyped, RowsAssumption, FS_Subset
  <2>2. /\ Cardinality(DOMAIN c) <= Cardinality(DOMAIN s.threads)
        /\ Cardinality(DOMAIN c) \in Nat /\ Cardinality(DOMAIN s.threads) \in Nat
    BY <1>2, <2>1, SmallerSet
  <2>. QED BY <2>2, ThreadsAssumption DEF Good
<1>8. Good(v)
  BY <1>6, <1>7 DEF Good, SignedIn
<1>9. Onward(s, v)
  BY <1>2, <1>6, GoodTyped DEF Onward
<1>10. Keeps(v, DOMAIN s.threads \cap {s.at})
  BY <1>2, <1>6 DEF Keeps, gone
<1>11. Shown(s) => Shown(v)
  BY <1>2, <1>3, <1>6 DEF Shown, gone, left
<1>. QED BY <1>2, <1>5, <1>6, <1>8, <1>9, <1>10, <1>11 DEF Moves, Onward

Deleting(u, more) == [u EXCEPT !.deletes = @ \cup more]

LEMMA DeletesMoves ==
    ASSUME NEW s, NEW u, NEW ids, Moves(s, u, ids), Onward(s, u),
           NEW more \in SUBSET ThreadIds, NEW v, v = Deleting(u, more)
    PROVE  Moves(s, v, ids) /\ Onward(s, v) /\ v.draft = u.draft
<1>. DEFINE all == u.deletes \cup more
<1>1. u \in TabState
  BY DEF Moves, Good
<1>2. v = [u EXCEPT !.deletes = all] /\ all \in SUBSET ThreadIds
  BY <1>1 DEF TabState, Deleting
<1>. HIDE DEF all
<1>3. /\ v \in TabState /\ v.owner = u.owner /\ v.threads = u.threads /\ v.removed = u.removed
      /\ v.furthest = u.furthest /\ v.draft = u.draft /\ v.at = u.at /\ v.dirty = u.dirty
      /\ v.dirtyProgress = u.dirtyProgress /\ v.pending = u.pending /\ v.push = u.push
  BY <1>1, <1>2 DEF TabState
<1>4. Good(v) /\ Onward(s, v)
  BY <1>3 DEF Moves, Good, SignedIn, Onward
<1>5. Keeps(v, DOMAIN s.threads \cap {s.at}) /\ (Shown(u) => Shown(v))
  BY <1>3 DEF Moves, Keeps, Shown
<1>. QED BY <1>3, <1>4, <1>5 DEF Moves

LEMMA PushedMoves ==
    ASSUME NEW s, Good(s)
    PROVE  Moves(s, Pushed(s), {}) /\ Onward(s, Pushed(s)) /\ Pushed(s).draft = s.draft
<1>. DEFINE u == Pushed(s)
<1>1. /\ Good(u) /\ u.owner = s.owner /\ u.threads = s.threads /\ u.removed = s.removed
      /\ u.furthest = s.furthest /\ u.draft = s.draft /\ u.at = s.at
      /\ Shown(s) => Shown(u)
  BY PushedTab
<1>. HIDE DEF u
<1>2. Onward(s, u) /\ Keeps(u, DOMAIN s.threads \cap {s.at})
  BY <1>1, GoodTyped DEF Onward, Keeps
<1>3. Moves(s, u, {}) /\ Onward(s, u) /\ u.draft = s.draft
  BY <1>1, <1>2 DEF Moves, Onward
<1>. QED BY <1>3 DEF u

\* Rows whose queueing failed are dirty, not pending.
LEMMA UnpushedMoves ==
    ASSUME NEW s, Good(s),
           NEW v, v = [s EXCEPT !.pending = Without(@, s.dirty), !.push = FALSE]
    PROVE  Moves(s, v, {}) /\ Onward(s, v) /\ v.draft = s.draft
<1>. DEFINE p == Without(s.pending, s.dirty)
<1>1. s \in TabState /\ s.pending \in Pendings
  BY GoodTyped
<1>2. /\ p \in Pendings /\ DOMAIN p = DOMAIN s.pending \ s.dirty
      /\ \A j \in DOMAIN p : p[j] = s.pending[j]
  BY <1>1, WithoutTyped DEF Without
<1>3. v = [s EXCEPT !.pending = p, !.push = FALSE]
  BY <1>1 DEF TabState
<1>. HIDE DEF p
<1>4. /\ v \in TabState /\ v.owner = s.owner /\ v.threads = s.threads /\ v.removed = s.removed
      /\ v.furthest = s.furthest /\ v.draft = s.draft /\ v.dirty = s.dirty
      /\ v.dirtyProgress = s.dirtyProgress /\ v.pending = p /\ v.push = FALSE
  BY <1>1, <1>2, <1>3 DEF TabState
<1>5. Good(v)
  BY <1>4 DEF Good
<1>6. Onward(s, v) /\ Keeps(v, DOMAIN s.threads \cap {s.at}) /\ (Shown(s) => Shown(v))
  BY <1>2, <1>4, GoodTyped DEF Onward, Keeps, Shown
<1>. QED BY <1>4, <1>5, <1>6 DEF Moves, Onward

LEMMA ReceivedMoves ==
    ASSUME NEW s, Good(s), NEW batch, NEW snap \in Answer
    PROVE  LET u == Applied(Drained(s, batch), snap)
           IN  Moves(s, u, DOMAIN snap.threads) /\ Onward(s, u) /\ u.draft = s.draft
<1>. DEFINE r == Drained(s, batch)
            u == Applied(r, snap)
<1>1. /\ Good(r) /\ r.owner = s.owner /\ r.threads = s.threads /\ r.removed = s.removed
      /\ r.furthest = s.furthest /\ r.draft = s.draft /\ r.at = s.at
      /\ Shown(s) => Shown(r)
  BY DrainedTab
<1>. HIDE DEF r
<1>2. Follows(r, u, DOMAIN r.threads \cap {r.at}, DOMAIN snap.threads)
  BY <1>1, AppliedTab
<1>. HIDE DEF u
<1>3. Moves(r, u, DOMAIN snap.threads) /\ Onward(r, u) /\ u.draft = r.draft
  BY <1>2, FollowsMoves
<1>4. Moves(s, u, DOMAIN snap.threads) /\ Onward(s, u) /\ u.draft = s.draft
  BY <1>1, <1>3 DEF Moves, Onward
<1>. QED BY <1>4 DEF u, r
-----------------------------------------------------------------------------
(* The steps of a tab that goes on under its owner. *)

\* Tab t goes on; rows come in under the given ids.
Goes(t, ids) ==
    /\ tab' \in [Tabs -> TabState] /\ \A v \in Tabs \ {t} : tab'[v] = tab[v]
    /\ Moves(tab[t], tab'[t], ids)
    /\ Onward(tab[t], tab'[t]) \/ clock' # clock

LEMMA ChangeGoes ==
    ASSUME TypeInv, NEW t \in Tabs, NEW u, Change(t, u), NEW ids, Moves(tab[t], u, ids),
           Onward(tab[t], u) \/ clock' # clock
    PROVE  Goes(t, ids) /\ tab'[t] = u
<1>1. u \in TabState
  BY DEF Moves, Good
<1>2. tab' \in [Tabs -> TabState] /\ tab'[t] = u /\ \A v \in Tabs \ {t} : tab'[v] = tab[v]
  BY <1>1 DEF Change, TypeInv, TabStates
<1>. QED BY <1>2 DEF Goes

LEMMA TickTyped ==
    ASSUME TypeInv, Tick
    PROVE  clock' \in Nat /\ clock' # clock /\ Stamp \in Clocks
BY RowsAssumption DEF TypeInv, Ids, Tick, Stamp

\* Nothing changes that is queued, stored or on its way.
LEMMA GoesTyped ==
    ASSUME TypeInv, NEW t \in Tabs, NEW ids, Goes(t, ids), UNCHANGED <<db, round, strays>>,
           Queues', \A a \in Accounts : issued[a] \subseteq issued'[a], Storage', Ids'
    PROVE  TypeInv'
<1>1. TabStates'
  BY DEF Goes, Moves, TypeInv, TabStates
<1>2. Requests'
  <2>1. \A v \in Tabs : tab'[v].owner = tab[v].owner
    BY DEF Goes, Moves
  <2>2. \A a \in Accounts : \A q \in Seq(issued[a]) : q \in Seq(issued'[a])
    OBVIOUS
  <2>. QED BY <2>1, <2>2 DEF TypeInv, Requests
<1>. QED BY <1>1, <1>2 DEF TypeInv

LEMMA IdsMinted ==
    ASSUME Ids, NEW i \in ThreadIds, NEW os \in SUBSET Owners, homes' = Put(homes, i, os),
           clock' \in Nat
    PROVE  Ids'
BY DEF Ids, Minted, Put

LEMMA IdsJoined ==
    ASSUME Ids, NEW is, NEW o \in Owners, homes' = Joined(is, o), clock' \in Nat
    PROVE  Ids'
BY DEF Ids, Minted, Joined

LEMMA IdsSame == ASSUME Ids, UNCHANGED homes, clock' \in Nat PROVE Ids'
BY DEF Ids, Minted

\* What a reader does changes the threads of the tab alone.
Reading == UNCHANGED <<db, outbox, stored, told, round, strays, issued>>

LEMMA ReadingTyped ==
    ASSUME TypeInv, NEW t \in Tabs, NEW ids, Goes(t, ids), Reading, Ids'
    PROVE  TypeInv'
<1>1. Queues' /\ Storage' /\ \A a \in Accounts : issued[a] \subseteq issued'[a]
  BY DEF TypeInv, Queues, Storage, Reading
<1>. QED BY <1>1, GoesTyped DEF Reading

LEMMA OpenStep ==
    ASSUME TypeInv, NEW t \in Tabs, NEW i \in ThreadIds, Open(t, i)
    PROVE  TypeInv' /\ Goes(t, {}) /\ Reading /\ tab'[t].draft = i
<1>. DEFINE u == Looking(tab[t], i, i)
<1>1. Good(tab[t]) /\ Change(t, u) /\ Reading /\ homes' = Put(homes, i, {}) /\ clock' = clock
  BY DEF Open, TypeInv, TabStates, Reading, Looking
<1>2. Moves(tab[t], u, {}) /\ u.draft = i /\ u.threads = tab[t].threads
  BY <1>1, SelfMoves, LookingMoves
<1>3. Onward(tab[t], u)
  BY <1>1, <1>2, SelfMoves DEF Moves, Onward
<1>. HIDE DEF u
<1>4. Goes(t, {}) /\ tab'[t] = u
  BY <1>1, <1>2, <1>3, ChangeGoes
<1>5. Ids'
  BY <1>1, IdsMinted DEF TypeInv, Ids
<1>. QED BY <1>1, <1>2, <1>4, <1>5, ReadingTyped

LEMMA ResumeStep ==
    ASSUME TypeInv, NEW t \in Tabs, NEW i \in ThreadIds, Resume(t, i)
    PROVE  TypeInv' /\ Goes(t, {}) /\ Reading /\ UNCHANGED homes /\ tab'[t].draft = tab[t].draft
<1>. DEFINE d == tab[t].draft
            u == Looking(tab[t], d, i)
<1>1. Good(tab[t]) /\ tab[t] \in TabState
  BY DEF TypeInv, TabStates, Good
<1>2. Change(t, u) /\ Reading /\ homes' = homes /\ clock' = clock
  BY <1>1 DEF Resume, Reading, TabState, Looking
<1>3. d \in ThreadIds \cup {None}
  BY <1>1 DEF TabState
<1>4. Moves(tab[t], u, {}) /\ u.draft = d /\ u.threads = tab[t].threads
  <2>. HIDE DEF d
  <2>. QED BY <1>1, <1>3, SelfMoves, LookingMoves
<1>5. Onward(tab[t], u)
  BY <1>1, <1>4, SelfMoves DEF Moves, Onward
<1>. HIDE DEF u
<1>6. Goes(t, {}) /\ tab'[t] = u
  BY <1>2, <1>4, <1>5, ChangeGoes
<1>7. Ids'
  BY <1>2, IdsSame DEF TypeInv, Ids
<1>. QED BY <1>2, <1>4, <1>6, <1>7, ReadingTyped

LEMMA ReopenStep ==
    ASSUME TypeInv, NEW t \in Tabs, NEW i \in ThreadIds, Reopen(t, i)
    PROVE  TypeInv' /\ Goes(t, {i}) /\ Reading /\ UNCHANGED homes
           /\ tab'[t].draft \in {None, tab[t].draft} /\ i \in DOMAIN tab[t].threads
<1>. DEFINE w == Written(tab[t], i, FALSE)
            d == w.draft
            u == Looking(w, d, i)
<1>1. /\ Good(tab[t]) /\ Stamp \in Clocks /\ clock' \in Nat /\ clock' # clock
      /\ i \in DOMAIN tab[t].threads /\ Reading /\ homes' = homes
  BY TickTyped DEF Reopen, TypeInv, TabStates, Reading
<1>2. Moves(tab[t], w, {i}) /\ d = IF tab[t].draft = i THEN None ELSE tab[t].draft
  BY <1>1, WrittenMoves
<1>3. w \in TabState
  BY <1>2 DEF Moves, Good
<1>4. Change(t, u)
  <2>1. Change(t, [w EXCEPT !.at = i])
    BY DEF Reopen
  <2>. HIDE DEF w
  <2>. QED BY <1>3, <2>1 DEF TabState, Looking
<1>5. d \in ThreadIds \cup {None} /\ d \in {None, tab[t].draft}
  BY <1>2, <1>3 DEF TabState
<1>. HIDE DEF w, d
<1>6. Moves(tab[t], u, {i}) /\ u.draft = d
  BY <1>2, <1>5, LookingMoves
<1>. HIDE DEF u
<1>7. Goes(t, {i}) /\ tab'[t] = u
  BY <1>1, <1>4, <1>6, ChangeGoes
<1>8. Ids'
  BY <1>1, IdsSame DEF TypeInv
<1>. QED BY <1>1, <1>5, <1>6, <1>7, <1>8, ReadingTyped

LEMMA DismissStep ==
    ASSUME TypeInv, NEW t \in Tabs, NEW i \in ThreadIds, Dismiss(t, i)
    PROVE  TypeInv' /\ Goes(t, {i}) /\ Reading /\ UNCHANGED homes
           /\ tab'[t].draft \in {None, tab[t].draft} /\ i \in DOMAIN tab[t].threads
<1>. DEFINE w == Written(tab[t], i, TRUE)
<1>1. /\ Good(tab[t]) /\ Stamp \in Clocks /\ clock' \in Nat /\ clock' # clock
      /\ i \in DOMAIN tab[t].threads /\ Reading /\ homes' = homes /\ Change(t, w)
  BY TickTyped DEF Dismiss, TypeInv, TabStates, Reading
<1>2. Moves(tab[t], w, {i}) /\ w.draft = IF tab[t].draft = i THEN None ELSE tab[t].draft
  BY <1>1, WrittenMoves
<1>. HIDE DEF w
<1>3. Goes(t, {i}) /\ tab'[t] = w
  BY <1>1, <1>2, ChangeGoes
<1>4. Ids'
  BY <1>1, IdsSame DEF TypeInv
<1>. QED BY <1>1, <1>2, <1>3, <1>4, ReadingTyped

LEMMA ReadStep ==
    ASSUME TypeInv, NEW t \in Tabs, NEW ayah \in Ayahs, NEW done \in BOOLEAN, Read(t, ayah, done)
    PROVE  LET i == Current(tab[t])
           IN  /\ TypeInv' /\ Goes(t, {i}) /\ Reading /\ homes' = Joined({i}, tab[t].owner)
               /\ tab'[t].draft = IF tab[t].draft = i THEN None ELSE tab[t].draft
               /\ i \in ThreadIds /\ (i = tab[t].draft \/ i \in DOMAIN tab[t].threads)
<1>. DEFINE i == Current(tab[t])
            ended == Ended(tab[t], i) \/ done
            w == Written(tab[t], i, ended)
            u == Bumped(w, ayah)
<1>1. /\ Good(tab[t]) /\ Stamp \in Clocks /\ clock' \in Nat /\ clock' # clock
      /\ i # None /\ Reading /\ homes' = Joined({i}, tab[t].owner) /\ Change(t, u)
  BY TickTyped DEF Read, TypeInv, TabStates, Reading
<1>2. tab[t].at \in ThreadIds \cup {None} /\ tab[t].owner \in Owners
  BY <1>1 DEF Good, TabState
<1>3. i \in ThreadIds /\ (i = tab[t].draft \/ i \in DOMAIN tab[t].threads)
  BY <1>1, <1>2 DEF Current
<1>4. ended \in BOOLEAN
  BY DEF Ended
<1>. HIDE DEF i, ended
<1>5. Moves(tab[t], w, {i}) /\ w.draft = IF tab[t].draft = i THEN None ELSE tab[t].draft
  BY <1>1, <1>3, <1>4, WrittenMoves
<1>. HIDE DEF w
<1>6. Moves(tab[t], u, {i}) /\ u.draft = w.draft
  BY <1>1, <1>5, BumpedMoves
<1>. HIDE DEF u
<1>7. Goes(t, {i}) /\ tab'[t] = u
  BY <1>1, <1>6, ChangeGoes
<1>8. Ids'
  BY <1>1, <1>2, IdsJoined DEF TypeInv
<1>9. TypeInv'
  BY <1>1, <1>7, <1>8, ReadingTyped
<1>. QED BY <1>1, <1>3, <1>5, <1>6, <1>7, <1>9 DEF i

LEMMA StartOverStep ==
    ASSUME TypeInv, NEW t \in Tabs, NEW i \in ThreadIds, StartOver(t, i)
    PROVE  /\ TypeInv' /\ Reading /\ tab'[t].draft = i
           /\ \/ Goes(t, {})
              \/ Goes(t, {tab[t].at}) /\ tab[t].at \in DOMAIN tab[t].threads
<1>. DEFINE s == tab[t]
<1>1. Good(s) /\ Reading /\ homes' = Put(homes, i, {}) /\ Current(s) # None /\ s \in TabState
  BY DEF StartOver, TypeInv, TabStates, Reading, Good
<1>2. CASE s.draft = s.at
  <2>. DEFINE u == Looking(s, i, i)
  <2>1. Change(t, u) /\ clock' = clock
    BY <1>2 DEF StartOver, Looking
  <2>. HIDE DEF s
  <2>2. Moves(s, u, {}) /\ u.draft = i /\ u.threads = s.threads
    BY <1>1, SelfMoves, LookingMoves
  <2>3. Onward(s, u)
    BY <1>1, <2>2, SelfMoves DEF Moves, Onward
  <2>. HIDE DEF u
  <2>4. Goes(t, {}) /\ tab'[t] = u
    BY <2>1, <2>2, <2>3, ChangeGoes DEF s
  <2>5. Ids'
    BY <1>1, <2>1, IdsMinted DEF TypeInv, Ids
  <2>. QED BY <1>1, <2>2, <2>4, <2>5, ReadingTyped
<1>3. CASE s.draft # s.at
  <2>. DEFINE w == Written(s, s.at, TRUE)
              u == Looking(w, i, i)
  <2>1. /\ Change(t, u) /\ clock' # clock /\ clock' \in Nat /\ Stamp \in Clocks
    BY <1>3, TickTyped DEF StartOver, Looking
  <2>2. s.at \in ThreadIds /\ s.at \in DOMAIN s.threads
    BY <1>1, <1>3 DEF Current, TabState
  <2>3. Moves(s, w, {s.at})
    BY <1>1, <2>1, <2>2, WrittenMoves
  <2>. HIDE DEF w
  <2>4. Moves(s, u, {s.at}) /\ u.draft = i
    BY <2>3, LookingMoves
  <2>. HIDE DEF u
  <2>5. Goes(t, {s.at}) /\ tab'[t] = u
    BY <2>1, <2>4, ChangeGoes
  <2>6. Ids'
    BY <1>1, <2>1, IdsMinted DEF TypeInv
  <2>7. TypeInv'
    BY <1>1, <2>5, <2>6, ReadingTyped
  <2>. QED BY <1>1, <2>2, <2>4, <2>5, <2>7
<1>. QED BY <1>2, <1>3
\* What is queued for each account is about the given ids.
Adds(more) ==
    /\ Queues'
    /\ \A a \in Accounts :
          /\ issued[a] \subseteq issued'[a]
          /\ issued'[a] \ ToSet(outbox'[a]) \subseteq issued[a] \ ToSet(outbox[a])
          /\ IdsOf(issued'[a]) \subseteq IdsOf(issued[a]) \cup more[a]

Nowhere == [a \in Accounts |-> {}]

LEMMA Appended ==
    ASSUME NEW S \in SUBSET Mutations, NEW q \in Seq(S), NEW ms \in Seq(Mutations)
    PROVE  /\ q \o ms \in Seq(S \cup ToSet(ms)) /\ q \o ms \in Seq(Mutations)
           /\ S \cup ToSet(ms) \in SUBSET Mutations
           /\ (S \cup ToSet(ms)) \ ToSet(q \o ms) \subseteq S \ ToSet(q)
           /\ IdsOf(S \cup ToSet(ms)) = IdsOf(S) \cup IdsOf(ToSet(ms))
<1>1. ToSet(ms) \subseteq Mutations /\ ms \in Seq(ToSet(ms))
  BY DEF ToSet
<1>2. q \in Seq(S \cup ToSet(ms)) /\ ms \in Seq(S \cup ToSet(ms)) /\ q \in Seq(Mutations)
  BY <1>1
<1>3. \A m \in ToSet(q) \cup ToSet(ms) : m \in ToSet(q \o ms)
  <2>1. ASSUME NEW k \in DOMAIN q PROVE k \in DOMAIN (q \o ms) /\ (q \o ms)[k] = q[k]
    BY <1>2
  <2>2. ASSUME NEW k \in DOMAIN ms
        PROVE  Len(q) + k \in DOMAIN (q \o ms) /\ (q \o ms)[Len(q) + k] = ms[k]
    BY <1>2
  <2>. QED BY <2>1, <2>2 DEF ToSet
<1>4. q \o ms \in Seq(S \cup ToSet(ms))
  BY <1>2
<1>5. q \o ms \in Seq(Mutations)
  BY <1>2
<1>6. (S \cup ToSet(ms)) \ ToSet(q \o ms) \subseteq S \ ToSet(q)
  BY <1>3
<1>7. IdsOf(S \cup ToSet(ms)) = IdsOf(S) \cup IdsOf(ToSet(ms))
  BY DEF IdsOf
<1>. QED BY <1>1, <1>4, <1>5, <1>6, <1>7

LEMMA QueueAdds ==
    ASSUME TypeInv, NEW a \in Accounts, NEW ms \in Seq(Mutations), Queue(a, ms),
           NEW ids, IdsOf(ToSet(ms)) \subseteq ids
    PROVE  Adds([Nowhere EXCEPT ![a] = ids])
<1>1. /\ issued[a] \in SUBSET Mutations /\ outbox[a] \in Seq(issued[a])
      /\ issued \in [Accounts -> SUBSET Mutations] /\ outbox \in [Accounts -> Seq(Mutations)]
      /\ \A b \in Accounts : outbox[b] \in Seq(issued[b])
  BY DEF TypeInv, Queues
<1>. DEFINE q == outbox[a] \o ms
            S == issued[a] \cup ToSet(ms)
<1>2. /\ q \in Seq(S) /\ q \in Seq(Mutations) /\ S \in SUBSET Mutations
      /\ S \ ToSet(q) \subseteq issued[a] \ ToSet(outbox[a])
      /\ IdsOf(S) = IdsOf(issued[a]) \cup IdsOf(ToSet(ms))
  BY <1>1, Appended
<1>3. outbox' = [outbox EXCEPT ![a] = q] /\ issued' = [issued EXCEPT ![a] = S]
  BY <1>1 DEF Queue
<1>4. issued[a] \subseteq S
  OBVIOUS
<1>. HIDE DEF q, S
<1>5. /\ outbox' \in [Accounts -> Seq(Mutations)] /\ issued' \in [Accounts -> SUBSET Mutations]
      /\ outbox'[a] = q /\ issued'[a] = S
      /\ \A b \in Accounts \ {a} : outbox'[b] = outbox[b] /\ issued'[b] = issued[b]
  BY <1>1, <1>2, <1>3
<1>6. Queues'
  BY <1>1, <1>2, <1>5 DEF Queues
<1>7. \A b \in Accounts : [Nowhere EXCEPT ![a] = ids][b] = IF b = a THEN ids ELSE {}
  BY DEF Nowhere
<1>8. ASSUME NEW b \in Accounts
      PROVE  /\ issued[b] \subseteq issued'[b]
             /\ issued'[b] \ ToSet(outbox'[b]) \subseteq issued[b] \ ToSet(outbox[b])
             /\ IdsOf(issued'[b]) \subseteq IdsOf(issued[b]) \cup [Nowhere EXCEPT ![a] = ids][b]
  <2>1. CASE b = a
    BY <1>2, <1>4, <1>5, <1>7, <2>1
  <2>2. CASE b # a
    BY <1>5, <2>2
  <2>. QED BY <2>1, <2>2
<1>. QED BY <1>6, <1>8 DEF Adds

LEMMA NothingAdds ==
    ASSUME TypeInv, UNCHANGED <<outbox, issued>>
    PROVE  \A more : Adds(more)
BY DEF TypeInv, Queues, Adds

LEMMA WriteTyped ==
    ASSUME TypeInv, NEW t \in Tabs, NEW o \in Owners, NEW env, GoodStore(env), Write(t, o, env)
    PROVE  Storage' /\ stored' = [stored EXCEPT ![o] = env]
BY DEF TypeInv, Storage, GoodStore, Write

LEMMA StorageSame == ASSUME TypeInv, UNCHANGED stored PROVE Storage'
BY DEF TypeInv, Storage

LEMMA RemoveThreadStep ==
    ASSUME TypeInv, NEW t \in Tabs, NEW i \in ThreadIds, RemoveThread(t, i)
    PROVE  /\ TypeInv' /\ Goes(t, {}) /\ UNCHANGED <<db, stored, round, strays, homes>>
           /\ tab'[t].draft \in {None, tab[t].draft} /\ i \in DOMAIN tab[t].threads
           /\ \/ SignedIn(tab[t]) /\ Adds([Nowhere EXCEPT ![tab[t].owner] = {i}])
              \/ Adds(Nowhere)
<1>. DEFINE s == tab[t]
            out == Removing(s, i)
            gone == [kind |-> "session.delete", id |-> i, ts |-> Stamp]
<1>1. /\ Good(s) /\ s \in TabState /\ i \in DOMAIN s.threads /\ clock' \in Nat /\ Stamp \in Clocks
      /\ UNCHANGED <<db, stored, round, strays, homes>>
  BY TickTyped DEF RemoveThread, TypeInv, TabStates, Good
<1>2. i \in ThreadIds /\ Moves(s, out, {}) /\ Onward(s, out) /\ out.draft \in {None, s.draft}
  BY <1>1, RemovedMoves
<1>3. \/ /\ SignedIn(s)
         /\ Change(t, [out EXCEPT !.deletes = @ \cup {i}]) /\ Queue(s.owner, <<gone>>)
      \/ Change(t, out) /\ NothingQueued
  BY DEF RemoveThread, Removing
<1>. HIDE DEF out
<1>4. PICK u : Change(t, u) /\ Moves(s, u, {}) /\ Onward(s, u) /\ u.draft = out.draft
  <2>1. CASE Change(t, [out EXCEPT !.deletes = @ \cup {i}])
    <3>. DEFINE u == Deleting(out, {i})
    <3>1. Moves(s, u, {}) /\ Onward(s, u) /\ u.draft = out.draft
      BY <1>2, DeletesMoves
    <3>2. Change(t, u)
      BY <2>1 DEF Deleting
    <3>. QED BY <3>1, <3>2
  <2>2. CASE Change(t, out)
    BY <1>2, <2>2
  <2>. QED BY <1>3, <2>1, <2>2
<1>5. Goes(t, {}) /\ tab'[t] = u
  BY <1>4, ChangeGoes
<1>6. \/ SignedIn(s) /\ Adds([Nowhere EXCEPT ![s.owner] = {i}])
      \/ Adds(Nowhere)
  <2>1. CASE SignedIn(s) /\ Queue(s.owner, <<gone>>)
    <3>1. gone \in Mutations /\ gone.id = i
      BY <1>1, <2>1 DEF Mutations
    <3>. HIDE DEF gone, s
    <3>2. <<gone>> \in Seq(Mutations) /\ ToSet(<<gone>>) = {gone}
      BY <3>1 DEF ToSet
    <3>3. IdsOf(ToSet(<<gone>>)) \subseteq {i}
      BY <3>1, <3>2 DEF IdsOf
    <3>. QED BY <2>1, <3>2, <3>3, QueueAdds DEF SignedIn
  <2>2. CASE NothingQueued
    BY <2>2, NothingAdds DEF NothingQueued
  <2>. QED BY <1>3, <2>1, <2>2
<1>7. Ids' /\ Storage'
  BY <1>1, IdsSame, StorageSame DEF TypeInv
<1>8. Queues' /\ \A a \in Accounts : issued[a] \subseteq issued'[a]
  BY <1>6 DEF Adds
<1>9. TypeInv'
  BY <1>1, <1>5, <1>7, <1>8, GoesTyped
<1>. QED BY <1>1, <1>2, <1>4, <1>5, <1>6, <1>9

LEMMA PersistStep ==
    ASSUME TypeInv, NEW t \in Tabs, Persist(t)
    PROVE  LET o == tab[t].owner
           IN  /\ TypeInv' /\ Goes(t, DOMAIN stored[o].threads)
               /\ UNCHANGED <<db, outbox, round, strays, homes, issued>>
               /\ tab'[t].draft = tab[t].draft
               /\ stored' = [stored EXCEPT ![o] = Envelope(tab'[t])]
<1>. DEFINE s == tab[t]
            u == Saved(s)
<1>1. /\ Good(s) /\ s.owner \in Owners /\ GoodStore(stored[s.owner]) /\ Change(t, u)
      /\ Write(t, s.owner, Envelope(u)) /\ UNCHANGED <<db, outbox, round, strays, homes, issued, clock>>
  <2>1. Good(s) /\ s.owner \in Owners
    BY GoodTyped DEF TypeInv, TabStates
  <2>. QED BY <2>1 DEF Persist, TypeInv, Storage
<1>2. Follows(s, u, DOMAIN s.threads, DOMAIN stored[s.owner].threads)
  BY <1>1, SavedTab
<1>. HIDE DEF u
<1>3. Moves(s, u, DOMAIN stored[s.owner].threads) /\ Onward(s, u) /\ u.draft = s.draft
  BY <1>2, FollowsMoves
<1>4. Goes(t, DOMAIN stored[s.owner].threads) /\ tab'[t] = u
  BY <1>1, <1>3, ChangeGoes
<1>5. GoodStore(Envelope(u))
  BY <1>3, EnvelopeOf DEF Moves
<1>6. Storage' /\ stored' = [stored EXCEPT ![s.owner] = Envelope(u)]
  BY <1>1, <1>5, WriteTyped
<1>7. Ids' /\ Queues' /\ \A a \in Accounts : issued[a] \subseteq issued'[a]
  BY <1>1, IdsSame DEF TypeInv, Queues, Ids
<1>8. TypeInv'
  BY <1>1, <1>4, <1>6, <1>7, GoesTyped
<1>. QED BY <1>1, <1>3, <1>4, <1>6, <1>8

LEMMA StorageEventStep ==
    ASSUME TypeInv, NEW t \in Tabs, StorageEvent(t)
    PROVE  /\ TypeInv' /\ Goes(t, DOMAIN stored[tab[t].owner].threads)
           /\ UNCHANGED <<db, outbox, stored, round, strays, homes, issued>>
           /\ tab'[t].draft = tab[t].draft
<1>. DEFINE s == tab[t]
            u == Reloaded(s, stored[s.owner])
<1>1. /\ Good(s) /\ s.owner \in Owners /\ GoodStore(stored[s.owner]) /\ Change(t, u)
      /\ UNCHANGED <<db, outbox, stored, round, strays, homes, issued, clock>>
  <2>1. Good(s) /\ s.owner \in Owners
    BY GoodTyped DEF TypeInv, TabStates
  <2>. QED BY <2>1 DEF StorageEvent, TypeInv, Storage
<1>2. Follows(s, u, DOMAIN s.threads, DOMAIN stored[s.owner].threads)
  BY <1>1, ReloadedTab
<1>. HIDE DEF u
<1>3. Moves(s, u, DOMAIN stored[s.owner].threads) /\ Onward(s, u) /\ u.draft = s.draft
  BY <1>2, FollowsMoves
<1>4. Goes(t, DOMAIN stored[s.owner].threads) /\ tab'[t] = u
  BY <1>1, <1>3, ChangeGoes
<1>5. Ids' /\ Storage' /\ Queues' /\ \A a \in Accounts : issued[a] \subseteq issued'[a]
  BY <1>1, IdsSame, StorageSame DEF TypeInv, Queues, Ids
<1>6. TypeInv'
  BY <1>1, <1>4, <1>5, GoesTyped
<1>. QED BY <1>1, <1>3, <1>4, <1>6

LEMMA PushStep ==
    ASSUME TypeInv, NEW t \in Tabs, Push(t)
    PROVE  LET s == tab[t]
           IN  /\ TypeInv' /\ Goes(t, {}) /\ UNCHANGED <<db, stored, round, strays, homes>>
               /\ tab'[t].draft = s.draft /\ s.owner \in Accounts
               /\ Adds([Nowhere EXCEPT ![s.owner] = DOMAIN s.threads])
<1>. DEFINE s == tab[t]
            u == Pushed(s)
<1>1. /\ Good(s) /\ s.owner \in Accounts /\ Change(t, u) /\ Queue(s.owner, Dirty(s))
      /\ UNCHANGED <<db, stored, round, strays, homes, clock>>
  BY DEF TypeInv, TabStates, Push, Good, SignedIn
<1>2. Moves(s, u, {}) /\ Onward(s, u) /\ u.draft = s.draft
  BY <1>1, PushedMoves
<1>. HIDE DEF u
<1>3. Goes(t, {}) /\ tab'[t] = u
  BY <1>1, <1>2, ChangeGoes
<1>4. Dirty(s) \in Seq(Mutations) /\ IdsOf(ToSet(Dirty(s))) \subseteq DOMAIN s.threads
  BY <1>1, DirtyMutations
<1>5. Adds([Nowhere EXCEPT ![s.owner] = DOMAIN s.threads])
  <2>. HIDE DEF s
  <2>. QED BY <1>1, <1>4, QueueAdds
<1>6. Ids' /\ Storage' /\ Queues' /\ \A a \in Accounts : issued[a] \subseteq issued'[a]
  BY <1>1, <1>5, IdsSame, StorageSame DEF TypeInv, Adds, Ids
<1>7. TypeInv'
  BY <1>1, <1>3, <1>6, GoesTyped
<1>. QED BY <1>1, <1>2, <1>3, <1>5, <1>7

LEMMA PushFailsStep ==
    ASSUME TypeInv, NEW t \in Tabs, PushFails(t)
    PROVE  /\ TypeInv' /\ Goes(t, {})
           /\ UNCHANGED <<db, outbox, stored, round, strays, homes, issued>>
           /\ tab'[t].draft = tab[t].draft
<1>. DEFINE s == tab[t]
            u == [s EXCEPT !.pending = Without(@, s.dirty), !.push = FALSE]
<1>1. /\ Good(s) /\ Change(t, u)
      /\ UNCHANGED <<db, outbox, stored, round, strays, homes, issued, clock>>
  BY DEF TypeInv, TabStates, PushFails
<1>2. Moves(s, u, {}) /\ Onward(s, u) /\ u.draft = s.draft
  BY <1>1, UnpushedMoves
<1>. HIDE DEF u
<1>3. Goes(t, {}) /\ tab'[t] = u
  BY <1>1, <1>2, ChangeGoes
<1>4. Ids' /\ Storage' /\ Queues' /\ \A a \in Accounts : issued[a] \subseteq issued'[a]
  BY <1>1, IdsSame, StorageSame DEF TypeInv, Queues, Ids
<1>5. TypeInv'
  BY <1>1, <1>3, <1>4, GoesTyped
<1>. QED BY <1>1, <1>2, <1>3, <1>5
-----------------------------------------------------------------------------
(* The steps of a tab that starts again or changes its owner. *)

LEMMA NoRoundTyped == NoRound \in Request /\ NoRound.at = "idle"
<1>1. <<>> \in Seq(Mutations) /\ [threads |-> NoRows, furthest |-> 0] \in Answer
  BY NoRowsTyped DEF Answer, Surah
<1>. HIDE DEF NoRows
<1>. QED BY <1>1 DEF NoRound, Request, Owners

LEMMA AbortedTyped ==
    ASSUME TypeInv, NEW t \in Tabs, Aborted(t),
           \A v \in Tabs \ {t} : tab'[v].owner = tab[v].owner,
           \A a \in Accounts : issued[a] \subseteq issued'[a]
    PROVE  Requests'
<1>1. \A a \in Accounts : \A q \in Seq(issued[a]) : q \in Seq(issued'[a])
  OBVIOUS
<1>2. /\ round' \in [Tabs -> Request] /\ round'[t].at = "idle"
      /\ \A v \in Tabs \ {t} : round'[v] = round[v]
  BY NoRoundTyped DEF Aborted, TypeInv, Requests
<1>3. \A s \in strays' : s.owner \in Accounts /\ s.batch \in Seq(issued[s.owner])
  BY DEF Aborted, Orphaned, TypeInv, Requests
<1>. QED BY <1>1, <1>2, <1>3 DEF TypeInv, Requests

\* Tab t starts again.
LEMMA StartsTyped ==
    ASSUME TypeInv, NEW t \in Tabs, NEW u, Good(u), Change(t, u), Aborted(t), UNCHANGED db,
           Queues', \A a \in Accounts : issued[a] \subseteq issued'[a], Storage', Ids'
    PROVE  TypeInv' /\ tab'[t] = u /\ \A v \in Tabs \ {t} : tab'[v] = tab[v]
<1>1. u \in TabState
  BY DEF Good
<1>2. tab' \in [Tabs -> TabState] /\ tab'[t] = u /\ \A v \in Tabs \ {t} : tab'[v] = tab[v]
  BY <1>1 DEF Change, TypeInv, TabStates
<1>3. TabStates'
  BY <1>2 DEF TypeInv, TabStates
<1>4. Requests'
  BY <1>2, AbortedTyped
<1>. QED BY <1>2, <1>3, <1>4 DEF TypeInv

\* What the tab holds together with the stored envelope.
Held(t) == DOMAIN tab[t].threads \cup DOMAIN stored[tab[t].owner].threads

LEMMA FlushedState ==
    ASSUME TypeInv, NEW t \in Tabs
    PROVE  LET s == Flushed(tab[t])
           IN  /\ Good(s) /\ GoodStore(Envelope(s)) /\ Envelope(s).threads = s.threads
               /\ s.owner = tab[t].owner /\ s.at = tab[t].at /\ s.draft = tab[t].draft
               /\ s.owner \in Owners /\ s.at \in ThreadIds \cup {None}
               /\ s.draft \in ThreadIds \cup {None}
               /\ DOMAIN s.threads \subseteq Held(t) /\ Held(t) \subseteq ThreadIds
               /\ GoodStore(stored[s.owner])
               /\ Dirty(s) \in Seq(Mutations) /\ IdsOf(ToSet(Dirty(s))) \subseteq Held(t)
<1>. DEFINE s == Flushed(tab[t])
            e == stored[tab[t].owner]
<1>1. Good(tab[t]) /\ tab[t].owner \in Owners
  BY GoodTyped DEF TypeInv, TabStates
<1>2. GoodStore(e)
  BY <1>1 DEF TypeInv, Storage
<1>3. Follows(tab[t], s, DOMAIN tab[t].threads, DOMAIN e.threads)
  BY <1>1, <1>2, FlushedTab
<1>. HIDE DEF s
<1>4. /\ Good(s) /\ s.owner = tab[t].owner /\ s.at = tab[t].at /\ s.draft = tab[t].draft
      /\ DOMAIN s.threads \subseteq DOMAIN tab[t].threads \cup DOMAIN e.threads
  BY <1>3 DEF Follows
<1>5. s.at \in ThreadIds \cup {None} /\ s.draft \in ThreadIds \cup {None}
  BY <1>4 DEF Good, TabState
<1>6. GoodStore(Envelope(s)) /\ Envelope(s).threads = s.threads
  BY <1>4, EnvelopeOf
<1>7. Dirty(s) \in Seq(Mutations) /\ IdsOf(ToSet(Dirty(s))) \subseteq DOMAIN s.threads
  BY <1>4, DirtyMutations
<1>8. Held(t) \subseteq ThreadIds
  <2>1. e.threads \in Threads
    BY <1>2 DEF GoodStore, Store
  <2>. QED BY <1>1, <2>1, GoodTyped, ThreadMaps DEF Held
<1>. QED BY <1>1, <1>2, <1>4, <1>5, <1>6, <1>7, <1>8 DEF s, Held

\* The tab starts again from what is stored.
Restarts(t) ==
    LET o == tab[t].owner
    IN  /\ tab'[t] = Started(o, tab[t].at, stored'[o]) /\ \A v \in Tabs \ {t} : tab'[v] = tab[v]
        /\ Starts(tab'[t], o, None, stored'[o]) /\ Aborted(t) /\ UNCHANGED <<db, homes>>
        /\ \A x \in Owners : DOMAIN stored'[x].threads
                                \subseteq DOMAIN stored[x].threads \cup IF x = o THEN Held(t) ELSE {}
        /\ Adds([Nowhere EXCEPT ![o] = Held(t)])

LEMMA LeaveStep ==
    ASSUME TypeInv, NEW t \in Tabs, Leave(t)
    PROVE  TypeInv' /\ Restarts(t)
<1>. DEFINE s == Flushed(tab[t])
            o == s.owner
            env == IF tab[t].persist THEN Envelope(s) ELSE stored[o]
<1>1. /\ Good(s) /\ GoodStore(Envelope(s)) /\ Envelope(s).threads = s.threads
      /\ o = tab[t].owner /\ s.at = tab[t].at
      /\ o \in Owners /\ s.at \in ThreadIds \cup {None}
      /\ DOMAIN s.threads \subseteq Held(t) /\ GoodStore(stored[o])
      /\ Dirty(s) \in Seq(Mutations) /\ IdsOf(ToSet(Dirty(s))) \subseteq Held(t)
  BY FlushedState
<1>2. /\ Write(t, o, env)
      /\ IF s.push THEN Queue(o, Dirty(s)) ELSE NothingQueued
      /\ Change(t, Started(o, s.at, stored'[o]))
      /\ Aborted(t) /\ UNCHANGED <<db, homes, clock>>
  BY DEF Leave
<1>3. GoodStore(env) /\ DOMAIN env.threads \subseteq Held(t)
  BY <1>1 DEF Held
<1>. HIDE DEF s, env
<1>4. Storage' /\ stored' = [stored EXCEPT ![o] = env] /\ stored'[o] = env
  <2>1. Storage' /\ stored' = [stored EXCEPT ![o] = env]
    BY <1>1, <1>2, <1>3, WriteTyped
  <2>. QED BY <1>1, <2>1 DEF TypeInv, Storage
<1>5. Starts(Started(o, s.at, env), o, None, env)
  BY <1>1, <1>3, StartedTab
<1>6. Adds([Nowhere EXCEPT ![o] = Held(t)])
  <2>1. CASE s.push
    <3>1. o \in Accounts /\ Queue(o, Dirty(s))
      BY <1>1, <1>2, <2>1 DEF Good, SignedIn
    <3>. HIDE DEF o
    <3>. QED BY <1>1, <3>1, QueueAdds
  <2>2. CASE ~s.push
    BY <1>2, <2>2, NothingAdds DEF NothingQueued
  <2>. QED BY <2>1, <2>2
<1>7. Ids' /\ Queues' /\ \A a \in Accounts : issued[a] \subseteq issued'[a]
  BY <1>2, <1>6, IdsSame DEF TypeInv, Adds, Ids
<1>8. /\ TypeInv' /\ tab'[t] = Started(o, s.at, env)
      /\ \A v \in Tabs \ {t} : tab'[v] = tab[v]
  <2>. DEFINE u == Started(o, s.at, env)
  <2>1. Good(u) /\ Change(t, u)
    BY <1>2, <1>4, <1>5 DEF Starts
  <2>. HIDE DEF u
  <2>2. TypeInv' /\ tab'[t] = u /\ \A v \in Tabs \ {t} : tab'[v] = tab[v]
    BY <1>2, <1>4, <1>7, <2>1, StartsTyped
  <2>. QED BY <2>2 DEF u
<1>9. \A x \in Owners : DOMAIN stored'[x].threads
                          \subseteq DOMAIN stored[x].threads \cup IF x = o THEN Held(t) ELSE {}
  BY <1>1, <1>3, <1>4 DEF TypeInv, Storage
<1>. QED BY <1>1, <1>2, <1>4, <1>5, <1>6, <1>8, <1>9 DEF Restarts

LEMMA CrashStep ==
    ASSUME TypeInv, NEW t \in Tabs, Crash(t)
    PROVE  TypeInv' /\ Restarts(t)
<1>. DEFINE o == tab[t].owner
            e == stored[o]
            at == tab[t].at
            u == Started(o, at, e)
<1>1. /\ Change(t, u) /\ Aborted(t) /\ UNCHANGED <<db, outbox, stored, homes, issued, clock>>
  BY DEF Crash
<1>2. o \in Owners /\ GoodStore(e) /\ at \in ThreadIds \cup {None}
  BY DEF TypeInv, Storage, TabStates, Good, TabState
<1>3. Starts(u, o, None, e)
  BY <1>2, StartedTab
<1>4. Ids' /\ Storage' /\ Queues' /\ \A a \in Accounts : issued[a] \subseteq issued'[a]
  BY <1>1, IdsSame, StorageSame DEF TypeInv, Queues, Ids
<1>. HIDE DEF u
<1>5. TypeInv' /\ tab'[t] = u /\ \A v \in Tabs \ {t} : tab'[v] = tab[v]
  <2>1. Good(u)
    BY <1>3 DEF Starts
  <2>. QED BY <1>1, <1>4, <2>1, StartsTyped
<1>6. Adds([Nowhere EXCEPT ![o] = Held(t)])
  BY <1>1, NothingAdds
<1>. QED BY <1>1, <1>3, <1>5, <1>6 DEF Restarts, u

\* The tab changes to owner o; the threads of moved join it.
SwitchesTo(t, o, moved) ==
    LET from == tab[t].owner
    IN  /\ from # o /\ tab'[t].owner = o /\ tab'[t].draft = tab[t].draft
        /\ \A v \in Tabs \ {t} : tab'[v] = tab[v]
        /\ Aborted(t) /\ UNCHANGED db
        /\ moved \subseteq Held(t)
        /\ moved # {} => from = Local /\ o \in Accounts /\ DOMAIN stored'[Local].threads = {}
        /\ homes' = IF moved = {} THEN homes ELSE Joined(moved, o)
        /\ \A x \in Owners :
              DOMAIN stored'[x].threads
                \subseteq DOMAIN stored[x].threads \cup IF x = from THEN Held(t) ELSE {}
        /\ DOMAIN tab'[t].threads \subseteq DOMAIN stored[o].threads \cup moved
        /\ Adds([a \in Accounts |-> IF a = from THEN Held(t)
                                    ELSE IF a = o THEN DOMAIN stored[o].threads \cup moved ELSE {}])
        /\ \A M : Room(M) /\ DOMAIN stored[o].threads \cup moved \subseteq M => Shown(tab'[t])

LEMMA AppendAdds ==
    ASSUME TypeInv, NEW ms \in [Accounts -> Seq(Mutations)], NEW more,
           outbox' = [a \in Accounts |-> outbox[a] \o ms[a]],
           issued' = [a \in Accounts |-> issued[a] \cup ToSet(ms[a])],
           \A a \in Accounts : IdsOf(ToSet(ms[a])) \subseteq more[a]
    PROVE  Adds(more)
<1>1. ASSUME NEW a \in Accounts
      PROVE  /\ outbox'[a] = outbox[a] \o ms[a] /\ issued'[a] = issued[a] \cup ToSet(ms[a])
             /\ outbox'[a] \in Seq(issued'[a]) /\ outbox'[a] \in Seq(Mutations)
             /\ issued'[a] \in SUBSET Mutations
             /\ issued[a] \subseteq issued'[a]
             /\ issued'[a] \ ToSet(outbox'[a]) \subseteq issued[a] \ ToSet(outbox[a])
             /\ IdsOf(issued'[a]) \subseteq IdsOf(issued[a]) \cup more[a]
  <2>. DEFINE S == issued[a]
              q == outbox[a]
              m == ms[a]
  <2>1. S \in SUBSET Mutations /\ q \in Seq(S) /\ m \in Seq(Mutations)
    BY DEF TypeInv, Queues
  <2>2. outbox'[a] = q \o m /\ issued'[a] = S \cup ToSet(m) /\ IdsOf(ToSet(m)) \subseteq more[a]
    OBVIOUS
  <2>. HIDE DEF S, q, m
  <2>3. /\ q \o m \in Seq(S \cup ToSet(m)) /\ q \o m \in Seq(Mutations)
        /\ S \cup ToSet(m) \in SUBSET Mutations
        /\ (S \cup ToSet(m)) \ ToSet(q \o m) \subseteq S \ ToSet(q)
        /\ IdsOf(S \cup ToSet(m)) = IdsOf(S) \cup IdsOf(ToSet(m))
    BY <2>1, Appended
  <2>. QED BY <2>2, <2>3 DEF S, q, m
<1>2. outbox' \in [Accounts -> Seq(Mutations)] /\ issued' \in [Accounts -> SUBSET Mutations]
  <2>1. DOMAIN outbox' = Accounts /\ DOMAIN issued' = Accounts
    OBVIOUS
  <2>2. outbox' = [a \in Accounts |-> outbox'[a]] /\ issued' = [a \in Accounts |-> issued'[a]]
    OBVIOUS
  <2>. QED BY <1>1, <2>1, <2>2
<1>. QED BY <1>1, <1>2 DEF Adds, Queues

\* The draft comes along.
WithDraft(u, draft) == [u EXCEPT !.draft = draft]

LEMMA DraftStarts ==
    ASSUME NEW u, NEW o, NEW e, Starts(u, o, None, e), NEW d \in ThreadIds \cup {None}
    PROVE  Starts(WithDraft(u, d), o, d, e)
<1>. DEFINE v == WithDraft(u, d)
<1>1. u \in TabState
  BY DEF Starts, Good
<1>2. /\ v \in TabState /\ v.owner = u.owner /\ v.threads = u.threads /\ v.removed = u.removed
      /\ v.furthest = u.furthest /\ v.draft = d /\ v.dirty = u.dirty
      /\ v.dirtyProgress = u.dirtyProgress /\ v.pending = u.pending /\ v.push = u.push
  BY <1>1 DEF TabState, WithDraft
<1>. HIDE DEF v
<1>3. Good(v) /\ Shown(v)
  BY <1>2 DEF Starts, Good, SignedIn, Shown
<1>4. Starts(v, o, d, e)
  BY <1>2, <1>3 DEF Starts
<1>. QED BY <1>4 DEF v

\* The flag of the next push concerns nothing else.
Pushing(u) == [u EXCEPT !.push = TRUE]

LEMMA PushingJoins ==
    ASSUME NEW u, NEW n, NEW s, Joins(u, n, s), u.owner \in Accounts
    PROVE  Joins(Pushing(Pushed(u)), n, s)
<1>. DEFINE p == Pushed(u)
            v == Pushing(p)
<1>1. /\ Good(p) /\ p.owner = u.owner /\ p.threads = u.threads /\ p.removed = u.removed
      /\ p.furthest = u.furthest /\ p.draft = u.draft /\ p.at = u.at
      /\ Shown(u) => Shown(p)
  BY PushedTab DEF Joins
<1>. HIDE DEF p
<1>2. /\ v \in TabState /\ v.owner = p.owner /\ v.threads = p.threads /\ v.removed = p.removed
      /\ v.furthest = p.furthest /\ v.draft = p.draft /\ v.dirty = p.dirty
      /\ v.dirtyProgress = p.dirtyProgress /\ v.pending = p.pending
  BY <1>1 DEF Good, TabState, Pushing
<1>. HIDE DEF v
<1>3. Good(v) /\ (Shown(p) => Shown(v))
  BY <1>1, <1>2 DEF Good, SignedIn, Shown
<1>4. Joins(v, n, s)
  BY <1>1, <1>2, <1>3 DEF Joins
<1>. QED BY <1>4 DEF v, p

LEMMA SwitchStep ==
    ASSUME TypeInv, NEW t \in Tabs, NEW o \in Owners, Switch(t, o)
    PROVE  TypeInv' /\ \E moved \in SUBSET ThreadIds : SwitchesTo(t, o, moved)
<1>. DEFINE s == Flushed(tab[t])
            from == s.owner
            saved == IF tab[t].persist THEN [stored EXCEPT ![from] = Envelope(s)] ELSE stored
            new == WithDraft(Started(o, s.at, saved[o]), s.draft)
            absorbs == /\ o # Local /\ Absorbs(from)
                       /\ s.threads # NoRows \/ s.furthest > 0
            joined == With(new, s)
            due == IF s.push THEN Dirty(s) ELSE <<>>
            first == IF absorbs THEN Dirty(joined) ELSE <<>>
            moved == IF absorbs THEN DOMAIN s.threads ELSE {}
            u == IF absorbs THEN Pushing(Pushed(joined)) ELSE new
<1>1. /\ Good(s) /\ GoodStore(Envelope(s)) /\ Envelope(s).threads = s.threads
      /\ from = tab[t].owner /\ s.draft = tab[t].draft
      /\ from \in Owners /\ s.at \in ThreadIds \cup {None} /\ s.draft \in ThreadIds \cup {None}
      /\ DOMAIN s.threads \subseteq Held(t) /\ Held(t) \subseteq ThreadIds
      /\ Dirty(s) \in Seq(Mutations) /\ IdsOf(ToSet(Dirty(s))) \subseteq Held(t)
  BY FlushedState
<1>. HIDE DEF s
<1>2. /\ from # o
      /\ outbox' = [a \in Accounts |-> outbox[a] \o IF a = from THEN due
                                                    ELSE IF a = o THEN first ELSE <<>>]
      /\ issued' = [a \in Accounts |-> issued[a] \cup IF a = from THEN ToSet(due)
                                                      ELSE IF a = o THEN ToSet(first) ELSE {}]
      /\ Change(t, u)
      /\ stored' = IF absorbs THEN [saved EXCEPT ![Local] = NoStore] ELSE saved
      /\ homes' = IF absorbs THEN Joined(DOMAIN s.threads, o) ELSE homes
      /\ Aborted(t) /\ UNCHANGED <<db, clock>>
  <2>1. /\ outbox' = [a \in Accounts |-> outbox[a] \o IF a = from THEN due
                                                      ELSE IF a = o THEN first ELSE <<>>]
        /\ issued' = [a \in Accounts |-> issued[a] \cup IF a = from THEN ToSet(due)
                                                        ELSE IF a = o THEN ToSet(first) ELSE {}]
    BY DEF Switch, s, WithDraft, With, Pushing
  <2>2. Change(t, u)
    BY DEF Switch, s, WithDraft, With, Pushing
  <2>3. /\ stored' = IF absorbs THEN [saved EXCEPT ![Local] = NoStore] ELSE saved
        /\ homes' = IF absorbs THEN Joined(DOMAIN s.threads, o) ELSE homes
    BY DEF Switch, s, WithDraft, With, Pushing
  <2>4. tab[t].owner # o /\ Aborted(t) /\ UNCHANGED <<db, clock>>
    BY DEF Switch
  <2>. HIDE DEF saved, due, first, u, absorbs
  <2>. QED BY <1>1, <2>1, <2>2, <2>3, <2>4
<1>3. absorbs => from = Local /\ o \in Accounts
  BY DEF Absorbs, Owners
<1>4. /\ saved \in [Owners -> Store] /\ \A x \in Owners : GoodStore(saved[x])
      /\ \A x \in Owners : DOMAIN saved[x].threads
                             \subseteq DOMAIN stored[x].threads \cup IF x = from THEN Held(t) ELSE {}
      /\ saved[o] = stored[o] /\ GoodStore(saved[o])
  <2>1. stored \in [Owners -> Store] /\ \A x \in Owners : GoodStore(stored[x])
    BY DEF TypeInv, Storage
  <2>2. Envelope(s) \in Store
    BY <1>1 DEF GoodStore
  <2>. QED BY <1>1, <1>2, <2>1, <2>2
<1>. HIDE DEF saved
<1>5. Starts(new, o, s.draft, saved[o])
  BY <1>1, <1>4, StartedTab, DraftStarts
<1>. HIDE DEF new
<1>6. /\ Good(new) /\ Shown(new) /\ new.owner = o /\ new.threads = stored[o].threads
      /\ new.draft = s.draft /\ new.push = FALSE /\ new.pending = NoRows
  BY <1>4, <1>5 DEF Starts
<1>7. Joins(joined, new, s)
  BY <1>1, <1>6, JoinedTab
<1>. HIDE DEF joined
<1>8. /\ Dirty(joined) \in Seq(Mutations)
      /\ IdsOf(ToSet(Dirty(joined))) \subseteq DOMAIN stored[o].threads \cup DOMAIN s.threads
  <2>1. Good(joined) /\ DOMAIN joined.threads \subseteq DOMAIN stored[o].threads \cup DOMAIN s.threads
    BY <1>6, <1>7 DEF Joins
  <2>. QED BY <2>1, DirtyMutations
<1>9. /\ Good(u) /\ u.owner = o /\ u.draft = s.draft
      /\ DOMAIN u.threads \subseteq DOMAIN stored[o].threads \cup moved
      /\ \A M : Room(M) /\ DOMAIN stored[o].threads \cup moved \subseteq M => Shown(u)
  <2>1. CASE absorbs
    <3>1. Joins(Pushing(Pushed(joined)), new, s)
      BY <1>3, <1>6, <1>7, <2>1, PushingJoins DEF Joins
    <3>2. u = Pushing(Pushed(joined)) /\ moved = DOMAIN s.threads
      BY <2>1
    <3>. HIDE DEF u, moved
    <3>. QED BY <1>6, <3>1, <3>2 DEF Joins
  <2>2. CASE ~absorbs
    BY <1>6, <2>2
  <2>. QED BY <2>1, <2>2
<1>. DEFINE more == [a \in Accounts |-> IF a = from THEN Held(t)
                                        ELSE IF a = o THEN DOMAIN stored[o].threads \cup moved ELSE {}]
            ms == [a \in Accounts |-> IF a = from THEN due ELSE IF a = o THEN first ELSE <<>>]
<1>10. /\ due \in Seq(Mutations) /\ first \in Seq(Mutations)
       /\ IdsOf(ToSet(due)) \subseteq Held(t)
       /\ IdsOf(ToSet(first)) \subseteq DOMAIN stored[o].threads \cup moved
       /\ ToSet(<<>>) = {} /\ IdsOf({}) = {} /\ <<>> \in Seq(Mutations)
  <2>1. ToSet(<<>>) = {} /\ IdsOf({}) = {} /\ <<>> \in Seq(Mutations)
    BY DEF ToSet, IdsOf
  <2>. HIDE DEF absorbs
  <2>. QED BY <1>1, <1>8, <2>1
<1>. HIDE DEF due, first, moved, u, absorbs
<1>11. Adds(more)
  <2>1. ms \in [Accounts -> Seq(Mutations)]
    BY <1>10
  <2>2. outbox' = [a \in Accounts |-> outbox[a] \o ms[a]]
    BY <1>2
  <2>3. issued' = [a \in Accounts |-> issued[a] \cup ToSet(ms[a])]
    BY <1>2, <1>10
  <2>4. \A a \in Accounts : IdsOf(ToSet(ms[a])) \subseteq more[a]
    BY <1>10
  <2>. HIDE DEF ms, more
  <2>. QED BY <2>1, <2>2, <2>3, <2>4, AppendAdds
<1>12. NoStore \in Store /\ GoodStore(NoStore) /\ DOMAIN NoStore.threads = {}
  <2>1. NoStore.threads = NoRows /\ NoStore \in Store
    BY NoRowsTyped DEF NoStore, Store, Surah
  <2>2. Cardinality({}) = 0
    BY FS_EmptySet
  <2>. QED BY <2>1, <2>2, NoRowsTyped, ThreadsAssumption DEF GoodStore
<1>13. /\ Storage'
       /\ \A x \in Owners : DOMAIN stored'[x].threads
                               \subseteq DOMAIN stored[x].threads \cup IF x = from THEN Held(t) ELSE {}
       /\ absorbs => DOMAIN stored'[Local].threads = {}
  <2>1. Local \in Owners
    BY DEF Owners
  <2>2. CASE absorbs
    <3>1. stored' = [saved EXCEPT ![Local] = NoStore]
      BY <1>2, <2>2
    <3>. HIDE DEF NoStore
    <3>2. /\ stored' \in [Owners -> Store] /\ stored'[Local] = NoStore
          /\ \A x \in Owners \ {Local} : stored'[x] = saved[x]
      BY <1>4, <1>12, <2>1, <3>1
    <3>. QED BY <1>4, <1>12, <2>1, <3>2 DEF Storage
  <2>3. CASE ~absorbs
    BY <1>2, <1>4, <2>3 DEF Storage
  <2>. QED BY <2>2, <2>3
<1>14. Ids'
  BY <1>2, IdsSame, IdsJoined DEF TypeInv, Ids
<1>15. TypeInv' /\ tab'[t] = u /\ \A v \in Tabs \ {t} : tab'[v] = tab[v]
  <2>1. Queues' /\ \A a \in Accounts : issued[a] \subseteq issued'[a]
    BY <1>11 DEF Adds
  <2>. QED BY <1>2, <1>9, <1>13, <1>14, <2>1, StartsTyped
<1>16. homes' = IF moved = {} THEN homes ELSE Joined(moved, o)
  <2>1. Joined({}, o) = homes
    BY DEF Joined, Minted, TypeInv, Ids
  <2>. QED BY <1>2, <2>1 DEF moved
<1>17. moved \subseteq Held(t) /\ (moved # {} => absorbs)
  BY <1>1 DEF moved
<1>18. SwitchesTo(t, o, moved)
  BY <1>1, <1>2, <1>3, <1>9, <1>11, <1>13, <1>15, <1>16, <1>17 DEF SwitchesTo
<1>. QED BY <1>1, <1>15, <1>17, <1>18
-----------------------------------------------------------------------------
(* The steps of a round. *)

LEMMA TabsSame == ASSUME TypeInv, UNCHANGED tab PROVE TabStates'
BY DEF TypeInv, TabStates

LEMMA QueuesSame == ASSUME TypeInv, UNCHANGED <<outbox, issued>> PROVE Queues'
BY DEF TypeInv, Queues

LEMMA SendStep ==
    ASSUME TypeInv, NEW t \in Tabs, Send(t)
    PROVE  /\ TypeInv' /\ round'[t].at = "sent" /\ \A v \in Tabs \ {t} : round'[v] = round[v]
           /\ UNCHANGED <<db, outbox, stored, tab, told, strays, homes, issued, clock, bounds>>
<1>. DEFINE a == tab[t].owner
            b == Batch(a)
            r == [NoRound EXCEPT !.at = "sent", !.owner = a, !.batch = b]
<1>1. /\ a \in Accounts /\ round' = [round EXCEPT ![t] = r]
      /\ UNCHANGED <<db, outbox, stored, tab, told, strays, homes, issued, clock, bounds>>
  BY DEF Send, SignedIn
<1>2. b \in Seq(issued[a]) /\ issued[a] \subseteq Mutations
  <2>. DEFINE q == outbox[a]
              S == issued[a]
  <2>1. q \in Seq(S) /\ S \subseteq Mutations
    BY <1>1 DEF TypeInv, Queues
  <2>2. b = SubSeq(q, 1, IF Len(q) < FlushBatch THEN Len(q) ELSE FlushBatch)
    BY DEF Batch
  <2>. HIDE DEF q, S, b
  <2>3. b \in Seq(S)
    BY <2>1, <2>2, ThreadsAssumption
  <2>. QED BY <2>1, <2>3 DEF S
<1>. HIDE DEF b
<1>3. b \in Seq(Mutations)
  BY <1>2
<1>4. r \in Request /\ r.at = "sent" /\ r.owner = a /\ r.batch = b
  BY <1>1, <1>3, NoRoundTyped DEF Request, Owners
<1>. HIDE DEF r
<1>5. /\ round' \in [Tabs -> Request] /\ round'[t] = r
      /\ \A v \in Tabs \ {t} : round'[v] = round[v]
  BY <1>1, <1>4 DEF TypeInv, Requests
<1>6. Requests'
  BY <1>1, <1>2, <1>4, <1>5 DEF TypeInv, Requests
<1>7. Ids' /\ Queues' /\ Storage' /\ TabStates'
  BY <1>1, IdsSame, QueuesSame, StorageSame, TabsSame DEF TypeInv, Ids
<1>. QED BY <1>1, <1>4, <1>5, <1>6, <1>7 DEF TypeInv

\* The server takes the batch of account a.
Serves(a, batch) ==
    /\ a \in Accounts /\ batch \in Seq(Mutations)
    /\ \E limit \in Clocks : /\ db' = [db EXCEPT ![a] = Round(@, batch, limit)]
                             /\ clamped' \/ \A m \in ToSet(batch) : InStep(m, limit)

LEMMA RoundServes ==
    ASSUME NEW a \in Accounts, NEW batch \in Seq(Mutations), SyncRound(a, batch)
    PROVE  Serves(a, batch)
<1>1. PICK limit \in Clocks :
         /\ db' = [db EXCEPT ![a] = Round(@, batch, limit)]
         /\ IF \E m \in ToSet(batch) : m.kind # "progress.upsert" /\ m.ts > limit
            THEN Fault /\ clamped' = TRUE
            ELSE UNCHANGED <<faults, clamped>>
  BY DEF SyncRound
<1>2. CASE \E m \in ToSet(batch) : m.kind # "progress.upsert" /\ m.ts > limit
  <2>1. clamped' = TRUE
    BY <1>1, <1>2
  <2>. QED BY <1>1, <2>1, Zenon DEF Serves
<1>3. CASE ~ \E m \in ToSet(batch) : m.kind # "progress.upsert" /\ m.ts > limit
  <2>1. ASSUME NEW m \in ToSet(batch) PROVE InStep(m, limit)
    <3>1. m \in Mutations /\ limit \in Nat
      BY RowsAssumption DEF ToSet
    <3>2. SUFFICES ASSUME m.kind # "progress.upsert" PROVE m.ts <= limit
      BY DEF InStep
    <3>3. m.ts \in Nat
      BY <3>1, <3>2, MutationKinds, RowsAssumption
    <3>4. ~ (m.ts > limit)
      BY <1>3, <3>2
    <3>. QED BY <3>1, <3>3, <3>4
  <2>. QED BY <1>1, <2>1, Zenon DEF Serves
<1>. QED BY <1>2, <1>3

LEMMA ServesTyped ==
    ASSUME TypeInv, NEW a, NEW batch, Serves(a, batch)
    PROVE  /\ db' \in [Accounts -> Account]
           /\ \E limit \in Clocks : /\ db'[a] = Round(db[a], batch, limit)
                                    /\ clamped' \/ \A m \in ToSet(batch) : InStep(m, limit)
           /\ \A c \in Accounts \ {a} : db'[c] = db[c]
           /\ \A c \in Accounts : Later(db[c], db'[c])
<1>1. db \in [Accounts -> Account] /\ a \in Accounts /\ db[a] \in Account
  BY DEF TypeInv, Serves
<1>2. PICK limit \in Clocks :
         /\ db' = [db EXCEPT ![a] = Round(@, batch, limit)]
         /\ clamped' \/ \A m \in ToSet(batch) : InStep(m, limit)
  BY Zenon DEF Serves
<1>. DEFINE b == Round(db[a], batch, limit)
<1>3. b \in Account /\ Later(db[a], b)
  BY <1>1, RoundDigests DEF Serves
<1>4. db' = [db EXCEPT ![a] = b]
  BY <1>2
<1>. HIDE DEF b
<1>5. /\ db' \in [Accounts -> Account] /\ db'[a] = b
      /\ \A c \in Accounts \ {a} : db'[c] = db[c]
  BY <1>1, <1>3, <1>4
<1>6. \A c \in Accounts : Later(db[c], db'[c])
  BY <1>1, <1>3, <1>5, LaterSelf
<1>7. \E l \in Clocks : /\ db'[a] = Round(db[a], batch, l)
                        /\ clamped' \/ \A m \in ToSet(batch) : InStep(m, l)
  BY <1>2, <1>5, Zenon DEF b
<1>. QED BY <1>5, <1>6, <1>7, Zenon

LEMMA ServeStep ==
    ASSUME TypeInv, NEW t \in Tabs, Serve(t)
    PROVE  LET a == round[t].owner
           IN  /\ TypeInv' /\ Serves(a, round[t].batch) /\ round[t].batch \in Seq(issued[a])
               /\ round'[t].owner = a /\ round'[t].batch = round[t].batch
               /\ round'[t].answer = Snapshot(db'[a])
               /\ \A v \in Tabs \ {t} : round'[v] = round[v]
               /\ UNCHANGED <<outbox, stored, tab, told, strays, homes, issued, clock>>
<1>. DEFINE a == round[t].owner
            b == round[t].batch
            snap == Snapshot(db'[a])
<1>1. /\ a \in Accounts /\ a = tab[t].owner /\ b \in Seq(issued[a])
      /\ round[t].at # "idle" /\ round[t] \in Request
      /\ SyncRound(a, b)
      /\ round' = [round EXCEPT ![t].at = "answered", ![t].answer = snap]
      /\ UNCHANGED <<outbox, stored, tab, told, strays, homes, issued, clock>>
  BY DEF Serve, TypeInv, Requests
<1>2. Serves(a, b)
  <2>1. issued[a] \subseteq Mutations
    BY <1>1 DEF TypeInv, Queues
  <2>2. b \in Seq(Mutations)
    BY <1>1, <2>1
  <2>. QED BY <1>1, <2>2, RoundServes
<1>3. db' \in [Accounts -> Account]
  BY <1>2, ServesTyped
<1>4. snap \in Answer
  BY <1>1, <1>3, SnapshotTyped
<1>. HIDE DEF snap
<1>. DEFINE r == [round[t] EXCEPT !.at = "answered", !.answer = snap]
<1>5. r \in Request /\ r.at = "answered" /\ r.owner = a /\ r.batch = b /\ r.answer = snap
  BY <1>1, <1>4 DEF Request
<1>6. round' = [round EXCEPT ![t] = r]
  BY <1>1 DEF TypeInv, Requests
<1>. HIDE DEF r
<1>7. /\ round' \in [Tabs -> Request] /\ round'[t] = r
      /\ \A v \in Tabs \ {t} : round'[v] = round[v]
  BY <1>5, <1>6 DEF TypeInv, Requests
<1>8. Requests'
  <2>1. /\ \A v \in Tabs \ {t} : round'[v].at # "idle" =>
              /\ round'[v].owner \in Accounts /\ round'[v].owner = tab'[v].owner
              /\ round'[v].batch \in Seq(issued'[round'[v].owner])
        /\ \A s \in strays' : s.owner \in Accounts /\ s.batch \in Seq(issued'[s.owner])
    BY <1>1, <1>7 DEF TypeInv, Requests
  <2>2. /\ round'[t].owner \in Accounts /\ round'[t].owner = tab'[t].owner
        /\ round'[t].batch \in Seq(issued'[round'[t].owner])
    BY <1>1, <1>5, <1>7
  <2>. QED BY <1>7, <2>1, <2>2 DEF Requests
<1>9. Ids' /\ Queues' /\ Storage' /\ TabStates'
  BY <1>1, IdsSame, QueuesSame, StorageSame, TabsSame DEF TypeInv, Ids
<1>10. TypeInv'
  BY <1>3, <1>8, <1>9 DEF TypeInv
<1>. QED BY <1>1, <1>2, <1>5, <1>7, <1>10 DEF snap

LEMMA LoseStep ==
    ASSUME TypeInv, NEW t \in Tabs, Lose(t)
    PROVE  TypeInv' /\ Aborted(t) /\ UNCHANGED <<db, outbox, stored, tab, told, homes, issued, clock>>
<1>1. Aborted(t) /\ UNCHANGED <<db, outbox, stored, tab, told, homes, issued, clock>>
  BY DEF Lose
<1>2. Requests'
  BY <1>1, AbortedTyped
<1>3. Ids' /\ Queues' /\ Storage' /\ TabStates'
  BY <1>1, IdsSame, QueuesSame, StorageSame, TabsSame DEF TypeInv, Ids
<1>. QED BY <1>1, <1>2, <1>3 DEF TypeInv

LEMMA ServeStrayStep ==
    ASSUME TypeInv, NEW stray \in strays, ServeStray(stray)
    PROVE  /\ TypeInv' /\ Serves(stray.owner, stray.batch)
           /\ stray.batch \in Seq(issued[stray.owner])
           /\ strays' \subseteq strays
           /\ UNCHANGED <<outbox, stored, tab, told, round, homes, issued, clock>>
<1>1. /\ stray.owner \in Accounts /\ stray.batch \in Seq(issued[stray.owner])
      /\ SyncRound(stray.owner, stray.batch)
      /\ strays' \subseteq strays
      /\ UNCHANGED <<outbox, stored, tab, told, round, homes, issued, clock>>
  BY DEF ServeStray, TypeInv, Requests
<1>2. Serves(stray.owner, stray.batch)
  <2>1. issued[stray.owner] \subseteq Mutations
    BY <1>1 DEF TypeInv, Queues
  <2>2. stray.batch \in Seq(Mutations)
    BY <1>1, <2>1
  <2>. QED BY <1>1, <2>2, RoundServes
<1>3. db' \in [Accounts -> Account]
  BY <1>2, ServesTyped
<1>4. Requests'
  BY <1>1 DEF TypeInv, Requests
<1>5. Ids' /\ Queues' /\ Storage' /\ TabStates'
  BY <1>1, IdsSame, QueuesSame, StorageSame, TabsSame DEF TypeInv, Ids
<1>. QED BY <1>1, <1>2, <1>3, <1>4, <1>5 DEF TypeInv

LEMMA OtherDeviceStep ==
    ASSUME TypeInv, NEW a \in Accounts, NEW m \in Mutations, OtherDevice(a, m)
    PROVE  /\ TypeInv' /\ Serves(a, <<m>>)
           /\ \/ (m.kind = "progress.upsert" \/ m.id \in DOMAIN db[a].rows) /\ UNCHANGED homes
              \/ m.id \in ThreadIds \ Minted /\ homes' = Put(homes, m.id, {a})
           /\ UNCHANGED <<outbox, stored, tab, told, round, strays, issued, clock>>
<1>1. /\ SyncRound(a, <<m>>)
      /\ \/ (m.kind = "progress.upsert" \/ m.id \in DOMAIN db[a].rows) /\ UNCHANGED homes
         \/ m.kind = "session.upsert" /\ m.id \notin Minted /\ homes' = Put(homes, m.id, {a})
      /\ UNCHANGED <<outbox, stored, tab, told, round, strays, issued, clock>>
  BY DEF OtherDevice
<1>2. m.kind = "session.upsert" => m.id \in ThreadIds
  BY MutationKinds
<1>3. Serves(a, <<m>>)
  <2>1. <<m>> \in Seq(Mutations)
    OBVIOUS
  <2>. QED BY <1>1, <2>1, RoundServes
<1>4. db' \in [Accounts -> Account]
  BY <1>3, ServesTyped
<1>5. Ids'
  BY <1>1, <1>2, IdsSame, IdsMinted DEF TypeInv, Ids, Owners
<1>6. Requests'
  BY <1>1 DEF TypeInv, Requests
<1>7. Queues' /\ Storage' /\ TabStates'
  BY <1>1, QueuesSame, StorageSame, TabsSame
<1>. QED BY <1>1, <1>2, <1>3, <1>4, <1>5, <1>6, <1>7 DEF TypeInv

\* Mutations leave the outbox of account a.
Leaves(a, ms) ==
    /\ a \in Accounts /\ ToSet(outbox'[a]) = ToSet(outbox[a]) \ ms
    /\ \A c \in Accounts \ {a} : outbox'[c] = outbox[c]

LEMMA ErasedLeaves ==
    ASSUME TypeInv, NEW a \in Accounts, NEW b \in Seq(issued[a]),
           outbox' = [outbox EXCEPT ![a] = Erased(@, b)], UNCHANGED issued
    PROVE  Leaves(a, ToSet(b)) /\ Queues'
<1>. DEFINE q == Erased(outbox[a], b)
<1>1. /\ issued[a] \subseteq Mutations /\ outbox[a] \in Seq(issued[a])
      /\ outbox \in [Accounts -> Seq(Mutations)] /\ outbox' = [outbox EXCEPT ![a] = q]
  BY DEF TypeInv, Queues
<1>2. q \in Seq(issued[a]) /\ ToSet(q) = ToSet(outbox[a]) \ ToSet(b)
  BY <1>1, ErasedQueue
<1>. HIDE DEF q
<1>3. /\ outbox' \in [Accounts -> Seq(Mutations)] /\ outbox'[a] = q
      /\ \A c \in Accounts \ {a} : outbox'[c] = outbox[c]
  <2>1. q \in Seq(Mutations)
    BY <1>1, <1>2
  <2>. QED BY <1>1, <2>1
<1>4. Queues'
  BY <1>2, <1>3 DEF TypeInv, Queues
<1>. QED BY <1>2, <1>3, <1>4 DEF Leaves

LEMMA BuryStep ==
    ASSUME TypeInv, NEW t \in Tabs, Bury(t)
    PROVE  LET a == round[t].owner
               poison == Head(round[t].batch)
           IN  /\ TypeInv' /\ Leaves(a, {poison})
               /\ buried' = [buried EXCEPT ![a] = @ \cup ({poison} \cap ToSet(outbox[a]))]
               /\ round'[t].at = "idle" /\ \A v \in Tabs \ {t} : round'[v] = round[v]
               /\ UNCHANGED <<db, stored, tab, strays, homes, issued, clock, clamped>>
<1>. DEFINE a == round[t].owner
            b == round[t].batch
            poison == Head(b)
<1>1. /\ a \in Accounts /\ b \in Seq(issued[a]) /\ b # <<>> /\ round \in [Tabs -> Request]
  BY DEF Bury, TypeInv, Requests
<1>2. /\ outbox' = [outbox EXCEPT ![a] = Erased(@, <<poison>>)]
      /\ buried' = [buried EXCEPT ![a] = @ \cup ({poison} \cap ToSet(outbox[a]))]
      /\ round' = [round EXCEPT ![t] = NoRound]
      /\ UNCHANGED <<db, stored, tab, strays, homes, issued, clock, clamped>>
  BY DEF Bury
<1>3. <<poison>> \in Seq(issued[a]) /\ ToSet(<<poison>>) = {poison}
  <2>1. poison \in issued[a]
    BY <1>1
  <2>. HIDE DEF poison
  <2>. QED BY <2>1 DEF ToSet
<1>. HIDE DEF poison
<1>4. Leaves(a, {poison}) /\ Queues'
  BY <1>1, <1>2, <1>3, ErasedLeaves
<1>5. /\ round' \in [Tabs -> Request] /\ round'[t].at = "idle"
      /\ \A v \in Tabs \ {t} : round'[v] = round[v]
  BY <1>1, <1>2, NoRoundTyped
<1>6. Requests'
  BY <1>2, <1>5 DEF TypeInv, Requests
<1>7. Ids' /\ Storage' /\ TabStates'
  BY <1>2, IdsSame, StorageSame, TabsSame DEF TypeInv, Ids
<1>. QED BY <1>2, <1>4, <1>5, <1>6, <1>7 DEF TypeInv, poison

LEMMA EraseStep ==
    ASSUME TypeInv, NEW t \in Tabs, Erase(t)
    PROVE  LET a == round[t].owner
           IN  /\ TypeInv' /\ Leaves(a, ToSet(round[t].batch))
               /\ round[t].at \in {"answered", "erased"} /\ round'[t].owner = a
               /\ round'[t].batch = round[t].batch /\ round'[t].answer = round[t].answer
               /\ \A v \in Tabs \ {t} : round'[v] = round[v]
               /\ UNCHANGED <<db, stored, tab, strays, homes, issued, clock>>
<1>. DEFINE a == round[t].owner
            b == round[t].batch
            r == [round[t] EXCEPT !.at = "erased"]
<1>1. /\ a \in Accounts /\ a = tab[t].owner /\ b \in Seq(issued[a])
      /\ round \in [Tabs -> Request] /\ round[t] \in Request
      /\ round[t].at \in {"answered", "erased"}
  BY DEF Erase, TypeInv, Requests
<1>2. /\ outbox' = [outbox EXCEPT ![a] = Erased(@, b)]
      /\ round' = [round EXCEPT ![t] = r]
      /\ UNCHANGED <<db, stored, tab, strays, homes, issued, clock>>
  BY <1>1 DEF Erase
<1>3. Leaves(a, ToSet(b)) /\ Queues'
  BY <1>1, <1>2, ErasedLeaves
<1>4. /\ r \in Request /\ r.at = "erased" /\ r.owner = a /\ r.batch = b
      /\ r.answer = round[t].answer
  BY <1>1 DEF Request
<1>. HIDE DEF r
<1>5. /\ round' \in [Tabs -> Request] /\ round'[t] = r
      /\ \A v \in Tabs \ {t} : round'[v] = round[v]
  BY <1>1, <1>2, <1>4
<1>6. Requests'
  <2>1. /\ \A v \in Tabs \ {t} : round'[v].at # "idle" =>
              /\ round'[v].owner \in Accounts /\ round'[v].owner = tab'[v].owner
              /\ round'[v].batch \in Seq(issued'[round'[v].owner])
        /\ \A s \in strays' : s.owner \in Accounts /\ s.batch \in Seq(issued'[s.owner])
    BY <1>2, <1>5 DEF TypeInv, Requests
  <2>2. /\ round'[t].owner \in Accounts /\ round'[t].owner = tab'[t].owner
        /\ round'[t].batch \in Seq(issued'[round'[t].owner])
    BY <1>1, <1>2, <1>4, <1>5
  <2>. QED BY <1>5, <2>1, <2>2 DEF Requests
<1>7. Ids' /\ Storage' /\ TabStates'
  BY <1>2, IdsSame, StorageSame, TabsSame DEF TypeInv, Ids
<1>8. TypeInv'
  BY <1>2, <1>3, <1>6, <1>7 DEF TypeInv
<1>. QED BY <1>1, <1>2, <1>3, <1>4, <1>5, <1>8

LEMMA ReceiveStep ==
    ASSUME TypeInv, NEW t \in Tabs, Receive(t)
    PROVE  LET a == round[t].owner
           IN  /\ TypeInv' /\ Goes(t, DOMAIN round[t].answer.threads)
               /\ round[t].at \in {"answered", "erased"} /\ a \in Accounts /\ a = tab[t].owner
               /\ tab'[t].draft = tab[t].draft
               /\ round'[t].at = "idle" /\ \A v \in Tabs \ {t} : round'[v] = round[v]
               /\ UNCHANGED <<db, outbox, stored, strays, homes, issued, clock>>
<1>. DEFINE a == round[t].owner
            snap == round[t].answer
            u == Applied(Drained(tab[t], ToSet(round[t].batch)), snap)
<1>1. /\ round[t].at \in {"answered", "erased"} /\ a \in Accounts /\ a = tab[t].owner
      /\ snap \in Answer /\ round \in [Tabs -> Request] /\ Good(tab[t])
  BY DEF Receive, TypeInv, Requests, Request, TabStates
<1>2. /\ Change(t, u) /\ round' = [round EXCEPT ![t] = NoRound]
      /\ UNCHANGED <<db, outbox, stored, strays, homes, issued, clock>>
  BY DEF Receive
<1>6. /\ round' \in [Tabs -> Request] /\ round'[t].at = "idle"
      /\ \A v \in Tabs \ {t} : round'[v] = round[v]
  BY <1>1, <1>2, NoRoundTyped
<1>7. Moves(tab[t], u, DOMAIN snap.threads) /\ Onward(tab[t], u) /\ u.draft = tab[t].draft
  BY <1>1, ReceivedMoves
<1>. HIDE DEF u
<1>8. Goes(t, DOMAIN snap.threads) /\ tab'[t] = u
  BY <1>2, <1>7, ChangeGoes
<1>9. Ids' /\ Storage' /\ Queues' /\ TabStates'
  BY <1>2, <1>8, IdsSame, StorageSame, QueuesSame DEF TypeInv, TabStates, Ids, Goes, Moves
<1>10. Requests'
  <2>1. \A v \in Tabs \ {t} : tab'[v] = tab[v]
    BY <1>8 DEF Goes
  <2>. QED BY <1>2, <1>6, <2>1 DEF TypeInv, Requests
<1>11. TypeInv'
  BY <1>2, <1>9, <1>10 DEF TypeInv
<1>. QED BY <1>1, <1>2, <1>6, <1>7, <1>8, <1>11
-----------------------------------------------------------------------------
(* Every step. *)

LEMMA TypedInit == Init => TypeInv
<1>. SUFFICES ASSUME Init PROVE TypeInv
  OBVIOUS
<1>1. NoAccount \in Account
  <2>1. DOMAIN NoAccount.rows = {} /\ NoAccount.rows \in [{} -> Row]
    BY DEF NoAccount
  <2>2. NoAccount.rows \in Rows
    BY <2>1, RowMaps
  <2>. QED BY <2>2 DEF NoAccount, Account
<1>2. Queues
  <2>1. \A S : <<>> \in Seq(S)
    OBVIOUS
  <2>. QED BY <2>1 DEF Init, Queues
<1>3. Storage
  <2>1. NoStore \in Store /\ NoStore.threads = NoRows
    BY NoRowsTyped DEF NoStore, Store, Surah
  <2>2. Cardinality({}) = 0
    BY FS_EmptySet
  <2>3. GoodStore(NoStore)
    BY <2>1, <2>2, NoRowsTyped, ThreadsAssumption DEF GoodStore
  <2>. HIDE DEF NoStore
  <2>. QED BY <2>1, <2>3 DEF Init, Storage
<1>4. PICK o \in Owners : tab = [t \in Tabs |-> Fresh(o)]
  BY DEF Init
<1>5. Good(Fresh(o))
  <2>1. Fresh(o) \in TabState
    BY NoRowsTyped DEF Fresh, TabState, Surah
  <2>2. Cardinality({}) = 0
    BY FS_EmptySet
  <2>. QED BY <2>1, <2>2, NoRowsTyped, ThreadsAssumption DEF Fresh, Good
<1>6. TabStates
  <2>1. Fresh(o) \in TabState
    BY <1>5 DEF Good
  <2>. HIDE DEF Fresh
  <2>. QED BY <1>4, <1>5, <2>1 DEF TabStates
<1>7. Requests
  <2>1. round = [t \in Tabs |-> NoRound] /\ strays = {}
    BY DEF Init
  <2>. HIDE DEF NoRound
  <2>. QED BY <2>1, NoRoundTyped DEF Requests
<1>8. Ids
  BY NoRowsTyped DEF Init, Ids, Minted, NoRows
<1>9. db \in [Accounts -> Account]
  BY <1>1 DEF Init
<1>. QED BY <1>2, <1>3, <1>6, <1>7, <1>8, <1>9 DEF TypeInv

\* What a step may do to a tab.
TabStep(t) ==
    \/ \E ids : Moves(tab[t], tab'[t], ids) /\ (Onward(tab[t], tab'[t]) \/ clock' # clock)
    \/ Restarted(t)
    \/ tab'[t].owner # tab[t].owner

LEMMA TabStays ==
    ASSUME TypeInv, NEW t \in Tabs, tab'[t] = tab[t]
    PROVE  TabStep(t)
<1>1. Moves(tab[t], tab[t], {}) /\ Onward(tab[t], tab[t])
  BY SelfMoves DEF TypeInv, TabStates
<1>. QED BY <1>1 DEF TabStep

LEMMA TabsStay ==
    ASSUME TypeInv, UNCHANGED tab
    PROVE  \A t \in Tabs : TabStep(t)
BY TabStays

LEMMA TabGoes ==
    ASSUME TypeInv, NEW t \in Tabs, NEW ids, Goes(t, ids)
    PROVE  \A v \in Tabs : TabStep(v)
BY TabStays DEF Goes, TabStep

LEMMA TabRestarts ==
    ASSUME TypeInv, NEW t \in Tabs, Restarts(t)
    PROVE  \A v \in Tabs : TabStep(v)
<1>1. tab[t].owner \in Owners
  BY GoodTyped DEF TypeInv, TabStates
<1>2. Restarted(t) /\ \A v \in Tabs \ {t} : tab'[v] = tab[v]
  BY <1>1 DEF Restarts, Restarted
<1>. QED BY <1>2, TabStays DEF TabStep

LEMMA TypedStep ==
    ASSUME TypeInv, [Next]_vars
    PROVE  TypeInv' /\ \A t \in Tabs : TabStep(t)
<1>1. ASSUME NEW t \in Tabs, Reader(t) PROVE TypeInv' /\ \A v \in Tabs : TabStep(v)
  <2>1. ASSUME NEW i \in ThreadIds, Open(t, i) PROVE TypeInv' /\ \A v \in Tabs : TabStep(v)
    BY <2>1, OpenStep, TabGoes
  <2>2. ASSUME NEW i \in ThreadIds, Resume(t, i) PROVE TypeInv' /\ \A v \in Tabs : TabStep(v)
    BY <2>2, ResumeStep, TabGoes
  <2>3. ASSUME NEW i \in ThreadIds, Reopen(t, i) PROVE TypeInv' /\ \A v \in Tabs : TabStep(v)
    BY <2>3, ReopenStep, TabGoes
  <2>4. ASSUME NEW i \in ThreadIds, Dismiss(t, i) PROVE TypeInv' /\ \A v \in Tabs : TabStep(v)
    BY <2>4, DismissStep, TabGoes
  <2>5. ASSUME NEW i \in ThreadIds, RemoveThread(t, i) PROVE TypeInv' /\ \A v \in Tabs : TabStep(v)
    BY <2>5, RemoveThreadStep, TabGoes
  <2>6. ASSUME NEW i \in ThreadIds, StartOver(t, i) PROVE TypeInv' /\ \A v \in Tabs : TabStep(v)
    BY <2>6, StartOverStep, TabGoes
  <2>7. ASSUME NEW ayah \in Ayahs, NEW done \in BOOLEAN, Read(t, ayah, done)
        PROVE  TypeInv' /\ \A v \in Tabs : TabStep(v)
    BY <2>7, ReadStep, TabGoes
  <2>. QED BY <1>1, <2>1, <2>2, <2>3, <2>4, <2>5, <2>6, <2>7, Zenon DEF Reader
<1>2. ASSUME NEW t \in Tabs, Device(t) PROVE TypeInv' /\ \A v \in Tabs : TabStep(v)
  <2>1. CASE Persist(t)
    BY <2>1, PersistStep, TabGoes
  <2>2. CASE StorageEvent(t)
    BY <2>2, StorageEventStep, TabGoes
  <2>3. CASE Push(t)
    BY <2>3, PushStep, TabGoes
  <2>4. CASE PushFails(t)
    BY <2>4, PushFailsStep, TabGoes
  <2>5. CASE Leave(t)
    BY <2>5, LeaveStep, TabRestarts
  <2>6. CASE Crash(t)
    BY <2>6, CrashStep, TabRestarts
  <2>7. ASSUME NEW o \in Owners, Switch(t, o) PROVE TypeInv' /\ \A v \in Tabs : TabStep(v)
    <3>1. TypeInv' /\ tab'[t].owner # tab[t].owner /\ \A v \in Tabs \ {t} : tab'[v] = tab[v]
      BY <2>7, SwitchStep DEF SwitchesTo
    <3>. QED BY <3>1, TabStays DEF TabStep
  <2>. QED BY <1>2, <2>1, <2>2, <2>3, <2>4, <2>5, <2>6, <2>7, Zenon DEF Device
<1>3. ASSUME NEW t \in Tabs, Sync(t) PROVE TypeInv' /\ \A v \in Tabs : TabStep(v)
  <2>1. CASE Send(t)
    BY <2>1, SendStep, TabsStay
  <2>2. CASE Serve(t)
    BY <2>2, ServeStep, TabsStay
  <2>3. CASE Lose(t)
    BY <2>3, LoseStep, TabsStay
  <2>4. CASE Bury(t)
    BY <2>4, BuryStep, TabsStay
  <2>5. CASE Erase(t)
    BY <2>5, EraseStep, TabsStay
  <2>6. CASE Receive(t)
    BY <2>6, ReceiveStep, TabGoes
  <2>. QED BY <1>3, <2>1, <2>2, <2>3, <2>4, <2>5, <2>6 DEF Sync
<1>4. ASSUME NEW stray \in strays, ServeStray(stray)
      PROVE  TypeInv' /\ \A v \in Tabs : TabStep(v)
  BY <1>4, ServeStrayStep, TabsStay
<1>5. ASSUME NEW a \in Accounts, NEW m \in Mutations, OtherDevice(a, m)
      PROVE  TypeInv' /\ \A v \in Tabs : TabStep(v)
  BY <1>5, OtherDeviceStep, TabsStay
<1>6. CASE UNCHANGED vars
  <2>1. UNCHANGED <<db, outbox, stored, tab, round, strays, homes, issued, clock>>
    BY <1>6 DEF vars
  <2>2. Requests' /\ Ids' /\ Queues' /\ Storage' /\ TabStates'
    BY <2>1, IdsSame, QueuesSame, StorageSame, TabsSame DEF TypeInv, Requests, Ids
  <2>. QED BY <2>1, <2>2, TabsStay DEF TypeInv
<1>. QED BY <1>1, <1>2, <1>3, <1>4, <1>5, <1>6, Zenon DEF Next

\* The inductive invariant behind the theorems: the shape of all that is kept.
THEOREM TypedAlways == Spec => []TypeInv
<1>1. TypeInv /\ [Next]_vars => TypeInv'
  BY TypedStep
<1>. QED BY <1>1, TypedInit, PTL DEF Spec

\* Type correctness: the tables of every account, its outbox, the stored envelopes and
\* the states of the tabs.
THEOREM ReadingThreadsTyped == Spec => []TypeOK
<1>1. TypeInv => TypeOK
  <2>. SUFFICES ASSUME TypeInv PROVE TypeOK
    OBVIOUS
  <2>1. \A a \in Accounts : db[a] \in Account /\ outbox[a] \in Seq(issued[a])
    BY DEF TypeInv, Queues
  <2>2. \A o \in Owners : stored[o].threads \in Threads
    BY DEF TypeInv, Storage, GoodStore, Store
  <2>3. ASSUME NEW t \in Tabs PROVE TabOK(tab[t])
    <3>1. Good(tab[t])
      BY DEF TypeInv, TabStates
    <3>2. tab[t].draft \in ThreadIds \cup {None} /\ tab[t].at \in ThreadIds \cup {None}
      BY <3>1 DEF Good, TabState
    <3>. QED BY <3>1, <3>2, GoodTyped DEF TabOK, Good, Surah
  <2>. QED BY <2>1, <2>2, <2>3 DEF TypeOK
<1>. QED BY <1>1, TypedAlways, PTL

\* Nothing that comes in takes a tab back in a thread or in the progress of a surah.
THEOREM NeverBackwardsAlways == Spec => NeverBackwards
<1>1. ASSUME TypeInv, [Next]_vars, NEW t \in Tabs
      PROVE  \/ Restarted(t) \/ tab'[t].owner # tab[t].owner
             \/ /\ tab'[t].furthest >= tab[t].furthest
                /\ \A i \in DOMAIN tab[t].threads \cap DOMAIN tab'[t].threads :
                      \/ tab'[t].threads[i].at >= tab[t].threads[i].at
                      \/ clock' # clock
  <2>1. TabStep(t)
    BY <1>1, TypedStep
  <2>. QED BY <2>1 DEF TabStep, Moves, Onward
<1>2. TypeInv /\ [Next]_vars =>
        [\A t \in Tabs :
          \/ /\ tab'[t].furthest >= tab[t].furthest
             /\ \A i \in DOMAIN tab[t].threads \cap DOMAIN tab'[t].threads :
                   \/ tab'[t].threads[i].at >= tab[t].threads[i].at
                   \/ clock' # clock
          \/ tab'[t].owner # tab[t].owner \/ Restarted(t)]_vars
  BY <1>1
<1>. QED BY <1>2, TypedAlways, PTL DEF Spec, NeverBackwards

\* The open thread a tab reads stays there until a tab removes it, the tab starts again
\* or changes its owner, or the cap is reached.
THEOREM ReadingGoesOnAlways == Spec => ReadingGoesOn
<1>1. ASSUME TypeInv, [Next]_vars, NEW t \in Tabs,
             tab[t].at \in DOMAIN tab[t].threads
      PROVE  \/ Restarted(t) \/ tab'[t].owner # tab[t].owner
             \/ tab[t].at \in DOMAIN tab'[t].threads \cup tab'[t].removed
             \/ Cardinality(DOMAIN tab'[t].threads) = ThreadCap
  <2>1. TabStep(t)
    BY <1>1, TypedStep
  <2>. QED BY <1>1, <2>1 DEF TabStep, Moves, Keeps
<1>2. TypeInv /\ [Next]_vars =>
        [\A t \in Tabs :
          LET s == tab[t] IN
          s.at \in DOMAIN s.threads /\ ~s.threads[s.at].ended =>
             \/ s.at \in DOMAIN tab'[t].threads \cup tab'[t].removed
             \/ Cardinality(DOMAIN tab'[t].threads) = ThreadCap
             \/ tab'[t].owner # s.owner \/ Restarted(t)]_vars
  BY <1>1
<1>. QED BY <1>2, TypedAlways, PTL DEF Spec, ReadingGoesOn
-----------------------------------------------------------------------------
(* A thread belongs to the account it was read in. *)

\* The ids of an owner, after the given history.
Of(h, o) == {i \in DOMAIN h : o \in h[i]}

\* What is stored, shown, queued, served and answered for an owner is the owner's.
Holds ==
    /\ \A o \in Owners : DOMAIN stored[o].threads \subseteq Of(homes, o)
    /\ \A t \in Tabs : DOMAIN tab[t].threads \subseteq Of(homes, tab[t].owner)
    /\ \A a \in Accounts : IdsOf(issued[a]) \subseteq Of(homes, a)
    /\ \A a \in Accounts : DOMAIN db[a].rows \subseteq Of(homes, a)
    /\ \A t \in Tabs : round[t].at \in {"answered", "erased"} =>
          DOMAIN round[t].answer.threads \subseteq Of(homes, round[t].owner)

\* A draft is its tab's alone, and nobody's yet.
Drafts ==
    /\ \A t \in Tabs : tab[t].draft # None =>
          tab[t].draft \in DOMAIN homes /\ homes[tab[t].draft] = {}
    /\ \A t, u \in Tabs : tab[t].draft # None /\ tab[t].draft = tab[u].draft => t = u

SingleTab == \A t, u \in Tabs : t = u

Apart(h) == \A i \in DOMAIN h : \A a, b \in h[i] \cap Accounts :
                a # b => Local \in h[i] /\ ~SingleTab

\* The threads of the device.
OnDevice == {i \in ThreadIds : \/ i \in DOMAIN stored[Local].threads
                               \/ \E t \in Tabs : tab[t].owner = Local /\ i \in DOMAIN tab[t].threads}

\* With one tab, a thread that is still the device's has joined no account.
LocalOnly == SingleTab => \A i \in OnDevice : homes[i] = {Local}

HomeInv == Holds /\ Drafts /\ Apart(homes) /\ LocalOnly

GrowsTo(h, g) == DOMAIN h \subseteq DOMAIN g /\ \A i \in DOMAIN h : h[i] \subseteq g[i]

LEMMA GrowsOf ==
    ASSUME NEW h, NEW g, GrowsTo(h, g)
    PROVE  \A o : Of(h, o) \subseteq Of(g, o)
BY DEF GrowsTo, Of

LEMMA PutGrows ==
    ASSUME NEW i, i \notin DOMAIN homes, NEW os
    PROVE  LET g == Put(homes, i, os)
           IN  /\ GrowsTo(homes, g) /\ i \in DOMAIN g /\ g[i] = os
               /\ DOMAIN g = DOMAIN homes \cup {i}
               /\ \A j \in DOMAIN homes : g[j] = homes[j]
BY DEF Put, GrowsTo

LEMMA JoinedGrows ==
    ASSUME NEW ids, NEW o
    PROVE  LET g == Joined(ids, o)
           IN  /\ GrowsTo(homes, g) /\ DOMAIN g = DOMAIN homes
               /\ \A i \in DOMAIN homes : g[i] = IF i \in ids THEN homes[i] \cup {o} ELSE homes[i]
BY DEF Joined, Minted, GrowsTo

LEMMA OnDeviceLocal ==
    ASSUME TypeInv, Holds
    PROVE  OnDevice \subseteq Of(homes, Local) /\ OnDevice \subseteq DOMAIN homes
<1>1. Local \in Owners
  BY DEF Owners
<1>. QED BY <1>1 DEF Holds, OnDevice, Of

LEMMA HeldIds ==
    ASSUME TypeInv, Holds, NEW t \in Tabs
    PROVE  /\ Held(t) \subseteq Of(homes, tab[t].owner)
           /\ tab[t].owner = Local => Held(t) \subseteq OnDevice
<1>1. tab[t].owner \in Owners /\ Held(t) \subseteq ThreadIds
  BY FlushedState, GoodTyped DEF TypeInv, TabStates
<1>. QED BY <1>1 DEF Holds, Held, OnDevice

\* Answers that stand are as old as they were.
Answers == \A v \in Tabs : round'[v].at \in {"answered", "erased"} => round'[v] = round[v]

LEMMA GoesHolds ==
    ASSUME TypeInv, Holds, NEW t \in Tabs, NEW ids, Goes(t, ids), GrowsTo(homes, homes'),
           ids \subseteq Of(homes', tab[t].owner), UNCHANGED db, Answers,
           \A x \in Owners : DOMAIN stored'[x].threads \subseteq
              DOMAIN stored[x].threads
                \cup IF x = tab[t].owner THEN DOMAIN tab[t].threads \cup ids ELSE {},
           \A a \in Accounts : IdsOf(issued'[a]) \subseteq IdsOf(issued[a]) \cup Of(homes', a)
    PROVE  Holds'
<1>1. \A o : Of(homes, o) \subseteq Of(homes', o)
  BY GrowsOf
<1>2. DOMAIN tab[t].threads \cup ids \subseteq Of(homes', tab[t].owner)
  BY <1>1 DEF Holds
<1>3. \A o \in Owners : DOMAIN stored'[o].threads \subseteq Of(homes', o)
  BY <1>1, <1>2 DEF Holds
<1>4. \A v \in Tabs : DOMAIN tab'[v].threads \subseteq Of(homes', tab'[v].owner)
  <2>1. DOMAIN tab'[t].threads \subseteq Of(homes', tab'[t].owner)
    BY <1>2 DEF Goes, Moves
  <2>2. ASSUME NEW v \in Tabs \ {t} PROVE DOMAIN tab'[v].threads \subseteq Of(homes', tab'[v].owner)
    BY <1>1 DEF Goes, Holds
  <2>. QED BY <2>1, <2>2
<1>5. \A a \in Accounts : IdsOf(issued'[a]) \subseteq Of(homes', a)
  BY <1>1 DEF Holds
<1>6. \A a \in Accounts : DOMAIN db'[a].rows \subseteq Of(homes', a)
  BY <1>1 DEF Holds
<1>7. \A v \in Tabs : round'[v].at \in {"answered", "erased"} =>
         DOMAIN round'[v].answer.threads \subseteq Of(homes', round'[v].owner)
  BY <1>1 DEF Holds, Answers
<1>. QED BY <1>3, <1>4, <1>5, <1>6, <1>7 DEF Holds

LEMMA GoesLocal ==
    ASSUME TypeInv, LocalOnly, NEW t \in Tabs, NEW ids, Goes(t, ids),
           \A x \in Owners : DOMAIN stored'[x].threads \subseteq
              DOMAIN stored[x].threads
                \cup IF x = tab[t].owner THEN DOMAIN tab[t].threads \cup ids ELSE {},
           \A i \in OnDevice : homes'[i] = homes[i],
           tab[t].owner = Local => \A i \in ids : i \in OnDevice \/ homes'[i] = {Local}
    PROVE  LocalOnly'
<1>1. Local \in Owners
  BY DEF Owners
<1>2. ASSUME NEW i \in OnDevice'
      PROVE  i \in OnDevice \/ (tab[t].owner = Local /\ i \in ids)
  <2>1. i \in ThreadIds /\ (\/ i \in DOMAIN stored'[Local].threads
                            \/ \E v \in Tabs : tab'[v].owner = Local /\ i \in DOMAIN tab'[v].threads)
    BY <1>2 DEF OnDevice
  <2>2. CASE i \in DOMAIN stored'[Local].threads
    BY <1>1, <2>1, <2>2 DEF OnDevice
  <2>3. ASSUME NEW v \in Tabs, tab'[v].owner = Local, i \in DOMAIN tab'[v].threads
        PROVE  i \in OnDevice \/ (tab[t].owner = Local /\ i \in ids)
    <3>1. CASE v = t
      BY <2>1, <2>3, <3>1 DEF OnDevice, Goes, Moves
    <3>2. CASE v # t
      BY <2>1, <2>3, <3>2 DEF OnDevice, Goes
    <3>. QED BY <3>1, <3>2
  <2>. QED BY <2>1, <2>2, <2>3
<1>3. ASSUME SingleTab, NEW i \in OnDevice' PROVE homes'[i] = {Local}
  BY <1>2, <1>3 DEF LocalOnly
<1>. QED BY <1>3 DEF LocalOnly, SingleTab

\* Drafts are given up, or stay as they are.
LEMMA DraftsStay ==
    ASSUME Drafts, GrowsTo(homes, homes'),
           \A v \in Tabs : tab'[v].draft \in {None, tab[v].draft},
           \A v \in Tabs : tab'[v].draft # None => homes'[tab[v].draft] = homes[tab[v].draft]
    PROVE  Drafts'
BY DEF Drafts, GrowsTo

LEMMA DraftsNew ==
    ASSUME TypeInv, Drafts, NEW t \in Tabs, NEW i \in ThreadIds, i \notin Minted,
           homes' = Put(homes, i, {}), tab'[t].draft = i,
           \A v \in Tabs \ {t} : tab'[v].draft = tab[v].draft
    PROVE  Drafts'
<1>1. i \notin DOMAIN homes /\ i # None
  BY ThreadsAssumption DEF Minted
<1>2. /\ i \in DOMAIN homes' /\ homes'[i] = {} /\ DOMAIN homes' = DOMAIN homes \cup {i}
      /\ \A j \in DOMAIN homes : homes'[j] = homes[j]
  BY <1>1 DEF Put
<1>3. \A v \in Tabs : tab'[v].draft # None =>
         tab'[v].draft \in DOMAIN homes' /\ homes'[tab'[v].draft] = {}
  BY <1>2 DEF Drafts
<1>4. ASSUME NEW v \in Tabs, NEW w \in Tabs, tab'[v].draft # None, tab'[v].draft = tab'[w].draft
      PROVE  v = w
  <2>1. \A x \in Tabs \ {t} : tab'[x].draft # i
    BY <1>1 DEF Drafts
  <2>. QED BY <1>4, <2>1 DEF Drafts
<1>. QED BY <1>3, <1>4 DEF Drafts

\* Nobody gets a thread.
LEMMA QuietHome ==
    ASSUME TypeInv, HomeInv, NEW t \in Tabs, NEW ids, Goes(t, ids), UNCHANGED <<db, homes>>,
           ids \subseteq Of(homes, tab[t].owner), tab[t].owner = Local => ids \subseteq OnDevice,
           Answers,
           \A x \in Owners : DOMAIN stored'[x].threads \subseteq
              DOMAIN stored[x].threads
                \cup IF x = tab[t].owner THEN DOMAIN tab[t].threads \cup ids ELSE {},
           \A a \in Accounts : IdsOf(issued'[a]) \subseteq IdsOf(issued[a]) \cup Of(homes, a),
           tab'[t].draft \in {None, tab[t].draft}
    PROVE  HomeInv'
<1>1. GrowsTo(homes, homes')
  BY DEF GrowsTo
<1>2. Holds'
  BY <1>1, GoesHolds DEF HomeInv
<1>3. LocalOnly'
  BY GoesLocal DEF HomeInv
<1>4. Drafts'
  <2>1. \A v \in Tabs : tab'[v].draft \in {None, tab[v].draft}
    BY DEF Goes
  <2>. QED BY <1>1, <2>1, DraftsStay DEF HomeInv
<1>5. Apart(homes)'
  BY DEF HomeInv, Apart, SingleTab
<1>. QED BY <1>2, <1>3, <1>4, <1>5 DEF HomeInv

LEMMA ReadingQuiet ==
    ASSUME TypeInv, HomeInv, NEW t \in Tabs, NEW ids, Goes(t, ids), Reading, UNCHANGED homes,
           ids \subseteq DOMAIN tab[t].threads, tab'[t].draft \in {None, tab[t].draft}
    PROVE  HomeInv'
<1>1. ids \subseteq Of(homes, tab[t].owner)
  BY DEF HomeInv, Holds
<1>2. tab[t].owner = Local => ids \subseteq OnDevice
  <2>1. DOMAIN tab[t].threads \subseteq ThreadIds
    BY GoodTyped DEF TypeInv, TabStates
  <2>. QED BY <2>1 DEF OnDevice
<1>3. UNCHANGED <<db, homes>> /\ Answers
  BY DEF Reading, Answers
<1>4. /\ \A x \in Owners : DOMAIN stored'[x].threads \subseteq
              DOMAIN stored[x].threads
                \cup IF x = tab[t].owner THEN DOMAIN tab[t].threads \cup ids ELSE {}
      /\ \A a \in Accounts : IdsOf(issued'[a]) \subseteq IdsOf(issued[a]) \cup Of(homes, a)
  BY DEF Reading
<1>. QED BY <1>1, <1>2, <1>3, <1>4, QuietHome

\* A new draft.
LEMMA DraftHome ==
    ASSUME TypeInv, HomeInv, NEW t \in Tabs, NEW ids, Goes(t, ids), Reading,
           ids \subseteq DOMAIN tab[t].threads,
           NEW i \in ThreadIds, i \notin Minted, homes' = Put(homes, i, {}), tab'[t].draft = i
    PROVE  HomeInv'
<1>1. /\ i \notin DOMAIN homes /\ GrowsTo(homes, homes')
      /\ \A j \in DOMAIN homes : homes'[j] = homes[j]
      /\ homes'[i] = {} /\ DOMAIN homes' = DOMAIN homes \cup {i}
  BY DEF Minted, Put, GrowsTo
<1>2. Holds'
  <2>1. ids \subseteq Of(homes', tab[t].owner)
    <3>1. ids \subseteq Of(homes, tab[t].owner)
      BY DEF HomeInv, Holds
    <3>. QED BY <1>1, <3>1, GrowsOf
  <2>2. UNCHANGED db /\ Answers
    BY DEF Reading, Answers
  <2>3. /\ \A x \in Owners : DOMAIN stored'[x].threads \subseteq
                DOMAIN stored[x].threads
                  \cup IF x = tab[t].owner THEN DOMAIN tab[t].threads \cup ids ELSE {}
        /\ \A a \in Accounts : IdsOf(issued'[a]) \subseteq IdsOf(issued[a]) \cup Of(homes', a)
    BY DEF Reading
  <2>. QED BY <1>1, <2>1, <2>2, <2>3, GoesHolds DEF HomeInv
<1>3. Drafts'
  <2>1. \A v \in Tabs \ {t} : tab'[v].draft = tab[v].draft
    BY DEF Goes
  <2>. QED BY <2>1, DraftsNew DEF HomeInv
<1>4. Apart(homes)'
  BY <1>1 DEF HomeInv, Apart, SingleTab
<1>5. LocalOnly'
  <2>1. \A j \in OnDevice : homes'[j] = homes[j]
    BY <1>1, OnDeviceLocal DEF HomeInv
  <2>2. \A x \in Owners : DOMAIN stored'[x].threads \subseteq
                DOMAIN stored[x].threads
                  \cup IF x = tab[t].owner THEN DOMAIN tab[t].threads \cup ids ELSE {}
    BY DEF Reading
  <2>3. tab[t].owner = Local => \A j \in ids : j \in OnDevice \/ homes'[j] = {Local}
    <3>1. DOMAIN tab[t].threads \subseteq ThreadIds
      BY GoodTyped DEF TypeInv, TabStates
    <3>. QED BY <3>1 DEF OnDevice
  <2>. QED BY <2>1, <2>2, <2>3, GoesLocal DEF HomeInv
<1>. QED BY <1>2, <1>3, <1>4, <1>5 DEF HomeInv

\* Reading in a draft makes it a thread of the owner.
LEMMA ReadHome ==
    ASSUME TypeInv, HomeInv, NEW t \in Tabs, NEW i \in ThreadIds, Goes(t, {i}), Reading,
           homes' = Joined({i}, tab[t].owner),
           tab'[t].draft = IF tab[t].draft = i THEN None ELSE tab[t].draft,
           i = tab[t].draft \/ i \in DOMAIN tab[t].threads
    PROVE  HomeInv'
<1>. DEFINE o == tab[t].owner
<1>1. /\ DOMAIN homes' = DOMAIN homes
      /\ \A j \in DOMAIN homes : homes'[j] = IF j = i THEN homes[j] \cup {o} ELSE homes[j]
  BY DEF Joined, Minted
<1>2. GrowsTo(homes, homes')
  BY <1>1 DEF GrowsTo
<1>3. i \in DOMAIN homes /\ (homes[i] = {} \/ o \in homes[i])
  <2>1. CASE i = tab[t].draft
    <3>1. i # None
      BY ThreadsAssumption
    <3>. QED BY <2>1, <3>1 DEF HomeInv, Drafts
  <2>2. CASE i \in DOMAIN tab[t].threads
    <3>1. i \in Of(homes, o)
      BY <2>2 DEF HomeInv, Holds
    <3>. QED BY <3>1 DEF Of
  <2>. QED BY <2>1, <2>2
<1>4. i \in Of(homes', o) /\ homes'[i] = homes[i] \cup {o}
  BY <1>1, <1>3 DEF Of
<1>5. Holds'
  <2>1. {i} \subseteq Of(homes', o)
    BY <1>4
  <2>2. UNCHANGED db /\ Answers
    BY DEF Reading, Answers
  <2>3. /\ \A x \in Owners : DOMAIN stored'[x].threads \subseteq
                DOMAIN stored[x].threads
                  \cup IF x = o THEN DOMAIN tab[t].threads \cup {i} ELSE {}
        /\ \A a \in Accounts : IdsOf(issued'[a]) \subseteq IdsOf(issued[a]) \cup Of(homes', a)
    BY DEF Reading
  <2>. HIDE DEF o
  <2>4. Holds /\ tab[t].owner = o
    BY DEF HomeInv, o
  <2>. QED BY <1>2, <2>1, <2>2, <2>3, <2>4, GoesHolds
<1>6. Apart(homes)'
  <2>1. ASSUME NEW j \in DOMAIN homes', NEW a \in homes'[j] \cap Accounts,
               NEW b \in homes'[j] \cap Accounts, a # b
        PROVE  Local \in homes'[j] /\ ~SingleTab
    <3>1. a \in homes[j] /\ b \in homes[j]
      <4>1. CASE j # i
        BY <1>1, <2>1, <4>1
      <4>2. CASE j = i
        <5>1. CASE homes[i] = {}
          BY <1>4, <2>1, <4>2, <5>1
        <5>2. CASE o \in homes[i]
          <6>1. homes'[i] = homes[i]
            BY <1>4, <5>2
          <6>. QED BY <2>1, <4>2, <6>1
        <5>. QED BY <1>3, <5>1, <5>2
      <4>. QED BY <4>1, <4>2
    <3>2. Local \in homes[j] /\ ~SingleTab
      BY <1>1, <2>1, <3>1 DEF HomeInv, Apart
    <3>. QED BY <1>1, <1>2, <2>1, <3>2 DEF GrowsTo
  <2>. QED BY <2>1 DEF Apart, SingleTab
<1>7. OnDevice \subseteq DOMAIN homes /\ \A j \in OnDevice : homes'[j] = homes[j]
  <2>1. \A j \in OnDevice : j \in DOMAIN homes /\ Local \in homes[j]
    BY OnDeviceLocal DEF HomeInv, Of
  <2>2. i \in OnDevice => homes'[i] = homes[i]
    BY <1>3, <1>4, <2>1
  <2>. QED BY <1>1, <2>1, <2>2
<1>8. LocalOnly'
  <2>1. \A x \in Owners : DOMAIN stored'[x].threads \subseteq
                DOMAIN stored[x].threads
                  \cup IF x = tab[t].owner THEN DOMAIN tab[t].threads \cup {i} ELSE {}
    BY DEF Reading
  <2>2. tab[t].owner = Local => \A j \in {i} : j \in OnDevice \/ homes'[j] = {Local}
    <3>1. i \in DOMAIN tab[t].threads /\ o = Local => i \in OnDevice
      BY DEF OnDevice
    <3>2. i = tab[t].draft => homes[i] = {}
      <4>1. i # None
        BY ThreadsAssumption
      <4>. QED BY <4>1 DEF HomeInv, Drafts
    <3>. QED BY <1>4, <3>1, <3>2
  <2>. QED BY <1>7, <2>1, <2>2, GoesLocal DEF HomeInv
<1>9. Drafts'
  <2>1. \A v \in Tabs : tab'[v].draft \in {None, tab[v].draft}
    BY DEF Goes
  <2>2. ASSUME NEW v \in Tabs, tab'[v].draft # None
        PROVE  homes'[tab[v].draft] = homes[tab[v].draft]
    <3>1. tab[v].draft # None /\ tab[v].draft \in DOMAIN homes /\ homes[tab[v].draft] = {}
      BY <2>1, <2>2 DEF HomeInv, Drafts
    <3>2. CASE tab[v].draft = i
      <4>1. i \notin DOMAIN tab[t].threads
        BY <3>1, <3>2 DEF HomeInv, Holds, Of
      <4>2. tab[t].draft = i
        BY <4>1
      <4>3. v = t
        BY <3>1, <3>2, <4>2 DEF HomeInv, Drafts
      <4>. QED BY <2>2, <4>2, <4>3
    <3>3. CASE tab[v].draft # i
      BY <1>1, <3>1, <3>3
    <3>. QED BY <3>2, <3>3
  <2>. QED BY <1>2, <2>1, <2>2, DraftsStay DEF HomeInv
<1>. QED BY <1>5, <1>6, <1>8, <1>9 DEF HomeInv

\* The device and the round of a tab give nobody a thread.
LEMMA DeviceHome ==
    ASSUME TypeInv, HomeInv, NEW t \in Tabs, NEW ids, Goes(t, ids), UNCHANGED <<db, homes>>,
           ids \subseteq DOMAIN tab[t].threads \cup DOMAIN stored[tab[t].owner].threads,
           Answers, tab'[t].draft \in {None, tab[t].draft},
           \A x \in Owners : DOMAIN stored'[x].threads \subseteq
              DOMAIN stored[x].threads
                \cup IF x = tab[t].owner THEN DOMAIN tab[t].threads \cup ids ELSE {},
           NEW more, Adds(more), \A a \in Accounts : more[a] \subseteq Of(homes, a)
    PROVE  HomeInv'
<1>1. Held(t) \subseteq Of(homes, tab[t].owner) /\ (tab[t].owner = Local => Held(t) \subseteq OnDevice)
  BY HeldIds DEF HomeInv
<1>2. ids \subseteq Held(t)
  BY DEF Held
<1>3. \A a \in Accounts : IdsOf(issued'[a]) \subseteq IdsOf(issued[a]) \cup Of(homes, a)
  BY DEF Adds
<1>. QED BY <1>1, <1>2, <1>3, QuietHome

LEMMA RemoveThreadHome ==
    ASSUME TypeInv, HomeInv, NEW t \in Tabs, NEW i \in ThreadIds, RemoveThread(t, i)
    PROVE  HomeInv'
<1>1. /\ Goes(t, {}) /\ UNCHANGED <<db, stored, round, strays, homes>>
      /\ tab'[t].draft \in {None, tab[t].draft} /\ i \in DOMAIN tab[t].threads
      /\ \/ SignedIn(tab[t]) /\ Adds([Nowhere EXCEPT ![tab[t].owner] = {i}])
         \/ Adds(Nowhere)
  BY RemoveThreadStep
<1>2. i \in Of(homes, tab[t].owner)
  BY <1>1 DEF HomeInv, Holds
<1>3. PICK more : Adds(more) /\ \A a \in Accounts : more[a] \subseteq Of(homes, a)
  <2>1. \A a \in Accounts : Nowhere[a] \subseteq Of(homes, a)
    BY DEF Nowhere
  <2>2. \A a \in Accounts : [Nowhere EXCEPT ![tab[t].owner] = {i}][a] \subseteq Of(homes, a)
    BY <1>2 DEF Nowhere
  <2>. QED BY <1>1, <2>1, <2>2
<1>4. Answers
  BY <1>1 DEF Answers
<1>5. \A x \in Owners : DOMAIN stored'[x].threads \subseteq
         DOMAIN stored[x].threads
           \cup IF x = tab[t].owner THEN DOMAIN tab[t].threads \cup {} ELSE {}
  BY <1>1
<1>. QED BY <1>1, <1>3, <1>4, <1>5, DeviceHome

LEMMA PersistHome ==
    ASSUME TypeInv, HomeInv, NEW t \in Tabs, Persist(t)
    PROVE  HomeInv'
<1>. DEFINE o == tab[t].owner
            ids == DOMAIN stored[o].threads
<1>1. /\ TypeInv' /\ Goes(t, ids) /\ UNCHANGED <<db, outbox, round, strays, homes, issued>>
      /\ tab'[t].draft = tab[t].draft
      /\ stored' = [stored EXCEPT ![o] = Envelope(tab'[t])]
  BY PersistStep
<1>2. DOMAIN Envelope(tab'[t]).threads \subseteq DOMAIN tab[t].threads \cup ids
  <2>1. Envelope(tab'[t]).threads = tab'[t].threads
    BY DEF Envelope
  <2>. QED BY <1>1, <2>1 DEF Goes, Moves
<1>3. \A x \in Owners : DOMAIN stored'[x].threads \subseteq
         DOMAIN stored[x].threads
           \cup IF x = tab[t].owner THEN DOMAIN tab[t].threads \cup ids ELSE {}
  <2>. HIDE DEF ids
  <2>1. stored \in [Owners -> Store]
    BY DEF TypeInv, Storage
  <2>. QED BY <1>1, <1>2, <2>1
<1>4. Adds(Nowhere) /\ \A a \in Accounts : Nowhere[a] \subseteq Of(homes, a)
  BY <1>1, NothingAdds DEF Nowhere
<1>5. Answers
  BY <1>1 DEF Answers
<1>6. ids \subseteq DOMAIN tab[t].threads \cup DOMAIN stored[tab[t].owner].threads
  OBVIOUS
<1>. HIDE DEF ids
<1>. QED BY <1>1, <1>3, <1>4, <1>5, <1>6, DeviceHome

LEMMA StorageEventHome ==
    ASSUME TypeInv, HomeInv, NEW t \in Tabs, StorageEvent(t)
    PROVE  HomeInv'
<1>. DEFINE ids == DOMAIN stored[tab[t].owner].threads
<1>1. /\ Goes(t, ids) /\ UNCHANGED <<db, outbox, stored, round, strays, homes, issued>>
      /\ tab'[t].draft = tab[t].draft
  BY StorageEventStep
<1>2. Adds(Nowhere) /\ \A a \in Accounts : Nowhere[a] \subseteq Of(homes, a)
  BY <1>1, NothingAdds DEF Nowhere
<1>3. Answers
  BY <1>1 DEF Answers
<1>4. ids \subseteq DOMAIN tab[t].threads \cup DOMAIN stored[tab[t].owner].threads
  OBVIOUS
<1>. HIDE DEF ids
<1>5. \A x \in Owners : DOMAIN stored'[x].threads \subseteq
         DOMAIN stored[x].threads
           \cup IF x = tab[t].owner THEN DOMAIN tab[t].threads \cup ids ELSE {}
  BY <1>1
<1>. QED BY <1>1, <1>2, <1>3, <1>4, <1>5, DeviceHome

LEMMA PushHome ==
    ASSUME TypeInv, HomeInv, NEW t \in Tabs, Push(t)
    PROVE  HomeInv'
<1>. DEFINE o == tab[t].owner
            more == [Nowhere EXCEPT ![o] = DOMAIN tab[t].threads]
<1>1. /\ Goes(t, {}) /\ UNCHANGED <<db, stored, round, strays, homes>>
      /\ tab'[t].draft = tab[t].draft /\ Adds(more)
  BY PushStep
<1>2. \A a \in Accounts : more[a] \subseteq Of(homes, a)
  BY DEF HomeInv, Holds, Nowhere
<1>3. Answers
  BY <1>1 DEF Answers
<1>4. \A x \in Owners : DOMAIN stored'[x].threads \subseteq
         DOMAIN stored[x].threads
           \cup IF x = tab[t].owner THEN DOMAIN tab[t].threads \cup {} ELSE {}
  BY <1>1
<1>. HIDE DEF more
<1>. QED BY <1>1, <1>2, <1>3, <1>4, DeviceHome

LEMMA PushFailsHome ==
    ASSUME TypeInv, HomeInv, NEW t \in Tabs, PushFails(t)
    PROVE  HomeInv'
<1>1. /\ Goes(t, {}) /\ UNCHANGED <<db, outbox, stored, round, strays, homes, issued>>
      /\ tab'[t].draft = tab[t].draft
  BY PushFailsStep
<1>2. Adds(Nowhere) /\ \A a \in Accounts : Nowhere[a] \subseteq Of(homes, a)
  BY <1>1, NothingAdds DEF Nowhere
<1>3. Answers
  BY <1>1 DEF Answers
<1>4. \A x \in Owners : DOMAIN stored'[x].threads \subseteq
         DOMAIN stored[x].threads
           \cup IF x = tab[t].owner THEN DOMAIN tab[t].threads \cup {} ELSE {}
  BY <1>1
<1>. QED BY <1>1, <1>2, <1>3, <1>4, DeviceHome

LEMMA ReceiveHome ==
    ASSUME TypeInv, HomeInv, NEW t \in Tabs, Receive(t)
    PROVE  HomeInv'
<1>. DEFINE ids == DOMAIN round[t].answer.threads
            o == tab[t].owner
<1>1. /\ Goes(t, ids) /\ round[t].at \in {"answered", "erased"} /\ round[t].owner = o /\ o \in Accounts
      /\ tab'[t].draft = tab[t].draft
      /\ round'[t].at = "idle" /\ \A v \in Tabs \ {t} : round'[v] = round[v]
      /\ UNCHANGED <<db, stored, strays, homes, issued, clock>>
  BY ReceiveStep
<1>2. ids \subseteq Of(homes, o)
  BY <1>1 DEF HomeInv, Holds
<1>3. o # Local
  BY <1>1, ThreadsAssumption
<1>4. Answers
  BY <1>1 DEF Answers
<1>. HIDE DEF ids
<1>5. /\ \A x \in Owners : DOMAIN stored'[x].threads \subseteq
            DOMAIN stored[x].threads
              \cup IF x = tab[t].owner THEN DOMAIN tab[t].threads \cup ids ELSE {}
      /\ \A a \in Accounts : IdsOf(issued'[a]) \subseteq IdsOf(issued[a]) \cup Of(homes, a)
  BY <1>1
<1>. QED BY <1>1, <1>2, <1>3, <1>4, <1>5, QuietHome

LEMMA AbortedAnswers ==
    ASSUME TypeInv, NEW t \in Tabs, Aborted(t)
    PROVE  Answers
<1>1. NoRound.at \notin {"answered", "erased"}
  BY DEF NoRound
<1>2. round \in [Tabs -> Request]
  BY DEF TypeInv, Requests
<1>. QED BY <1>1, <1>2 DEF Aborted, Answers

LEMMA RestartHome ==
    ASSUME TypeInv, HomeInv, NEW t \in Tabs, Restarts(t)
    PROVE  HomeInv'
<1>. DEFINE o == tab[t].owner
            more == [Nowhere EXCEPT ![o] = Held(t)]
<1>1. /\ \A v \in Tabs \ {t} : tab'[v] = tab[v]
      /\ tab'[t].owner = o /\ tab'[t].threads = stored'[o].threads /\ tab'[t].draft = None
      /\ Aborted(t) /\ UNCHANGED <<db, homes>>
      /\ \A x \in Owners : DOMAIN stored'[x].threads
                              \subseteq DOMAIN stored[x].threads \cup IF x = o THEN Held(t) ELSE {}
      /\ Adds(more)
  BY DEF Restarts, Starts
<1>2. o \in Owners /\ Local \in Owners
  BY GoodTyped DEF TypeInv, TabStates, Owners
<1>3. Held(t) \subseteq Of(homes, o) /\ (o = Local => Held(t) \subseteq OnDevice)
  BY HeldIds DEF HomeInv
<1>4. \A x \in Owners : DOMAIN stored'[x].threads \subseteq Of(homes, x)
  BY <1>1, <1>3 DEF HomeInv, Holds
<1>5. Holds'
  <2>1. \A v \in Tabs : DOMAIN tab'[v].threads \subseteq Of(homes, tab'[v].owner)
    BY <1>1, <1>2, <1>4 DEF HomeInv, Holds
  <2>2. \A a \in Accounts : IdsOf(issued'[a]) \subseteq Of(homes, a)
    <3>1. \A a \in Accounts : more[a] \subseteq Of(homes, a)
      BY <1>3 DEF Nowhere
    <3>. HIDE DEF more
    <3>. QED BY <1>1, <3>1 DEF Adds, HomeInv, Holds
  <2>3. \A v \in Tabs : round'[v].at \in {"answered", "erased"} =>
           DOMAIN round'[v].answer.threads \subseteq Of(homes, round'[v].owner)
    <3>1. Answers
      BY <1>1, AbortedAnswers
    <3>. QED BY <3>1 DEF Answers, HomeInv, Holds
  <2>. QED BY <1>1, <1>4, <2>1, <2>2, <2>3 DEF HomeInv, Holds
<1>6. Drafts'
  <2>1. \A v \in Tabs : tab'[v].draft \in {None, tab[v].draft}
    BY <1>1
  <2>. QED BY <1>1, <2>1 DEF HomeInv, Drafts
<1>7. OnDevice' \subseteq OnDevice
  <2>1. ASSUME NEW i \in ThreadIds, i \in DOMAIN stored'[Local].threads PROVE i \in OnDevice
    BY <1>1, <1>2, <1>3, <2>1 DEF OnDevice
  <2>2. ASSUME NEW i \in ThreadIds, NEW v \in Tabs, tab'[v].owner = Local,
               i \in DOMAIN tab'[v].threads
        PROVE  i \in OnDevice
    <3>1. CASE v = t
      BY <1>1, <2>1, <2>2, <3>1
    <3>2. CASE v # t
      BY <1>1, <2>2, <3>2 DEF OnDevice
    <3>. QED BY <3>1, <3>2
  <2>. QED BY <2>1, <2>2 DEF OnDevice
<1>8. LocalOnly' /\ Apart(homes)'
  BY <1>1, <1>7 DEF HomeInv, LocalOnly, Apart, SingleTab
<1>. QED BY <1>5, <1>6, <1>8 DEF HomeInv

\* Signing in, the device's threads join the account.
LEMMA SwitchHome ==
    ASSUME TypeInv, HomeInv, NEW t \in Tabs, NEW o \in Owners, NEW moved, SwitchesTo(t, o, moved)
    PROVE  HomeInv'
<1>. DEFINE from == tab[t].owner
            more == [a \in Accounts |-> IF a = from THEN Held(t)
                                        ELSE IF a = o THEN DOMAIN stored[o].threads \cup moved
                                        ELSE {}]
<1>1. /\ from # o /\ tab'[t].owner = o /\ tab'[t].draft = tab[t].draft
      /\ \A v \in Tabs \ {t} : tab'[v] = tab[v]
      /\ Aborted(t) /\ UNCHANGED db
      /\ moved \subseteq Held(t)
      /\ moved # {} => from = Local /\ o \in Accounts /\ DOMAIN stored'[Local].threads = {}
      /\ homes' = IF moved = {} THEN homes ELSE Joined(moved, o)
      /\ \A x \in Owners :
            DOMAIN stored'[x].threads
              \subseteq DOMAIN stored[x].threads \cup IF x = from THEN Held(t) ELSE {}
      /\ DOMAIN tab'[t].threads \subseteq DOMAIN stored[o].threads \cup moved
      /\ Adds(more)
  BY DEF SwitchesTo
<1>. HIDE DEF more
<1>2. from \in Owners /\ Local \in Owners /\ Local \notin Accounts
  BY ThreadsAssumption, GoodTyped DEF TypeInv, TabStates, Owners
<1>3. Held(t) \subseteq Of(homes, from) /\ (from = Local => Held(t) \subseteq OnDevice)
  BY HeldIds DEF HomeInv
<1>4. /\ DOMAIN homes' = DOMAIN homes
      /\ \A i \in DOMAIN homes : homes'[i] = IF i \in moved THEN homes[i] \cup {o} ELSE homes[i]
  BY <1>1 DEF Joined, Minted
<1>5. GrowsTo(homes, homes') /\ moved \subseteq Of(homes', o)
  BY <1>1, <1>3, <1>4 DEF GrowsTo, Of
<1>6. \A x : Of(homes, x) \subseteq Of(homes', x)
  BY <1>5, GrowsOf
<1>7. Holds'
  <2>1. \A x \in Owners : DOMAIN stored'[x].threads \subseteq Of(homes', x)
    BY <1>1, <1>3, <1>6 DEF HomeInv, Holds
  <2>2. \A v \in Tabs : DOMAIN tab'[v].threads \subseteq Of(homes', tab'[v].owner)
    <3>1. DOMAIN tab'[t].threads \subseteq Of(homes', tab'[t].owner)
      BY <1>1, <1>5, <1>6 DEF HomeInv, Holds
    <3>2. ASSUME NEW v \in Tabs \ {t}
          PROVE  DOMAIN tab'[v].threads \subseteq Of(homes', tab'[v].owner)
      BY <1>1, <1>6 DEF HomeInv, Holds
    <3>. QED BY <3>1, <3>2
  <2>3. \A a \in Accounts : IdsOf(issued'[a]) \subseteq Of(homes', a)
    <3>1. \A a \in Accounts : more[a] \subseteq Of(homes', a)
      BY <1>3, <1>5, <1>6 DEF more, HomeInv, Holds
    <3>. QED BY <1>1, <1>6, <3>1 DEF Adds, HomeInv, Holds
  <2>4. \A a \in Accounts : DOMAIN db'[a].rows \subseteq Of(homes', a)
    BY <1>1, <1>6 DEF HomeInv, Holds
  <2>5. \A v \in Tabs : round'[v].at \in {"answered", "erased"} =>
           DOMAIN round'[v].answer.threads \subseteq Of(homes', round'[v].owner)
    <3>1. Answers
      BY <1>1, AbortedAnswers
    <3>. QED BY <1>6, <3>1 DEF Answers, HomeInv, Holds
  <2>. QED BY <2>1, <2>2, <2>3, <2>4, <2>5 DEF Holds
<1>8. Drafts'
  <2>1. \A v \in Tabs : tab'[v].draft \in {None, tab[v].draft}
    BY <1>1
  <2>2. ASSUME NEW v \in Tabs, tab'[v].draft # None
        PROVE  homes'[tab[v].draft] = homes[tab[v].draft]
    <3>1. tab[v].draft # None /\ tab[v].draft \in DOMAIN homes /\ homes[tab[v].draft] = {}
      BY <2>1, <2>2 DEF HomeInv, Drafts
    <3>2. tab[v].draft \notin moved
      BY <1>1, <1>3, <3>1 DEF Of
    <3>. QED BY <1>4, <3>1, <3>2
  <2>. QED BY <1>5, <2>1, <2>2, DraftsStay DEF HomeInv
<1>9. Apart(homes)'
  <2>1. ASSUME NEW i \in DOMAIN homes', NEW a \in homes'[i] \cap Accounts,
               NEW b \in homes'[i] \cap Accounts, a # b
        PROVE  Local \in homes'[i] /\ ~SingleTab
    <3>1. CASE i \in moved
      <4>1. from = Local /\ i \in OnDevice /\ Local \in homes[i] /\ i \in DOMAIN homes
        BY <1>1, <1>3, <3>1 DEF Of
      <4>2. ~SingleTab
        <5>1. SUFFICES ASSUME SingleTab PROVE FALSE
          OBVIOUS
        <5>2. homes[i] = {Local}
          BY <4>1, <5>1 DEF HomeInv, LocalOnly
        <5>3. homes'[i] = {Local, o}
          BY <1>4, <3>1, <4>1, <5>2
        <5>. QED BY <1>2, <2>1, <5>3
      <4>. QED BY <1>4, <3>1, <4>1, <4>2
    <3>2. CASE i \notin moved
      BY <1>4, <2>1, <3>2 DEF HomeInv, Apart
    <3>. QED BY <3>1, <3>2
  <2>. QED BY <2>1 DEF Apart, SingleTab
<1>10. LocalOnly'
  <2>1. CASE moved # {}
    <3>1. SUFFICES ASSUME SingleTab PROVE OnDevice' = {}
      BY DEF LocalOnly, SingleTab
    <3>2. \A v \in Tabs : v = t
      BY <3>1 DEF SingleTab
    <3>3. \A v \in Tabs : tab'[v].owner # Local
      BY <1>1, <1>2, <2>1, <3>2
    <3>. QED BY <1>1, <2>1, <3>3 DEF OnDevice
  <2>2. CASE moved = {}
    <3>1. ASSUME NEW i \in ThreadIds, i \in DOMAIN stored'[Local].threads PROVE i \in OnDevice
      BY <1>1, <1>2, <1>3, <3>1 DEF OnDevice
    <3>2. ASSUME NEW i \in ThreadIds, NEW v \in Tabs, tab'[v].owner = Local,
                 i \in DOMAIN tab'[v].threads
          PROVE  i \in OnDevice
      <4>1. CASE v = t
        BY <1>1, <2>2, <3>2, <4>1 DEF OnDevice
      <4>2. CASE v # t
        BY <1>1, <3>2, <4>2 DEF OnDevice
      <4>. QED BY <4>1, <4>2
    <3>3. OnDevice' \subseteq OnDevice
      BY <3>1, <3>2 DEF OnDevice
    <3>. QED BY <1>1, <2>2, <3>3 DEF HomeInv, LocalOnly, SingleTab
  <2>. QED BY <2>1, <2>2
<1>. QED BY <1>7, <1>8, <1>9, <1>10 DEF HomeInv

LEMMA IdsInIssued ==
    ASSUME NEW S, NEW batch \in Seq(S)
    PROVE  IdsIn(batch) \subseteq IdsOf(S)
<1>1. \A k \in DOMAIN batch : batch[k] \in S
  OBVIOUS
<1>2. \A m \in S : IdOf(m) \subseteq IdsOf(S)
  BY DEF IdOf, IdsOf
<1>. QED BY <1>1, <1>2 DEF IdsIn

\* The rows of an account after a round.
LEMMA ServedRows ==
    ASSUME TypeInv, Holds, NEW a, NEW batch, Serves(a, batch),
           GrowsTo(homes, homes'), IdsIn(batch) \subseteq Of(homes', a)
    PROVE  \A c \in Accounts : DOMAIN db'[c].rows \subseteq Of(homes', c)
<1>1. a \in Accounts /\ batch \in Seq(Mutations) /\ db[a] \in Account
  BY DEF Serves, TypeInv
<1>2. \A c \in Accounts \ {a} : db'[c] = db[c]
  BY ServesTyped
<1>5. PICK limit \in Clocks : db'[a] = Round(db[a], batch, limit)
  BY ServesTyped
<1>3. DOMAIN db'[a].rows \subseteq DOMAIN db[a].rows \cup IdsIn(batch)
  BY <1>1, <1>5, RoundDigests
<1>4. \A c : Of(homes, c) \subseteq Of(homes', c)
  BY GrowsOf
<1>. QED BY <1>1, <1>2, <1>3, <1>4 DEF Holds

\* The device stays as it is.
LEMMA ServerHome ==
    ASSUME TypeInv, HomeInv, UNCHANGED <<stored, tab, homes, issued>>,
           \A c \in Accounts : DOMAIN db'[c].rows \subseteq Of(homes, c),
           \A v \in Tabs : round'[v].at \in {"answered", "erased"} =>
              DOMAIN round'[v].answer.threads \subseteq Of(homes, round'[v].owner)
    PROVE  HomeInv'
BY DEF HomeInv, Holds, Drafts, Apart, LocalOnly, SingleTab, OnDevice

LEMMA ServeHome ==
    ASSUME TypeInv, HomeInv, NEW t \in Tabs, Serve(t)
    PROVE  HomeInv'
<1>. DEFINE a == round[t].owner
            batch == round[t].batch
<1>1. /\ Serves(a, batch) /\ batch \in Seq(issued[a])
      /\ round'[t].owner = a /\ round'[t].answer = Snapshot(db'[a])
      /\ \A v \in Tabs \ {t} : round'[v] = round[v]
      /\ UNCHANGED <<stored, tab, homes, issued>>
  BY ServeStep
<1>. HIDE DEF batch, a
<1>2. a \in Accounts
  BY <1>1 DEF Serves
<1>3. IdsIn(batch) \subseteq Of(homes', a) /\ GrowsTo(homes, homes')
  BY <1>1, <1>2, IdsInIssued DEF HomeInv, Holds, GrowsTo
<1>4. \A c \in Accounts : DOMAIN db'[c].rows \subseteq Of(homes, c)
  BY <1>1, <1>3, ServedRows DEF HomeInv
<1>5. DOMAIN round'[t].answer.threads \subseteq DOMAIN db'[a].rows
  <2>1. db'[a] \in Account
    BY <1>1, <1>2, ServesTyped
  <2>. QED BY <1>1, <2>1, SnapshotTyped
<1>6. \A v \in Tabs : round'[v].at \in {"answered", "erased"} =>
         DOMAIN round'[v].answer.threads \subseteq Of(homes, round'[v].owner)
  BY <1>1, <1>2, <1>4, <1>5 DEF HomeInv, Holds
<1>. QED BY <1>1, <1>4, <1>6, ServerHome

LEMMA ServeStrayHome ==
    ASSUME TypeInv, HomeInv, NEW stray \in strays, ServeStray(stray)
    PROVE  HomeInv'
<1>. DEFINE a == stray.owner
            batch == stray.batch
<1>1. /\ Serves(a, batch) /\ batch \in Seq(issued[a])
      /\ UNCHANGED <<stored, tab, round, homes, issued>>
  BY ServeStrayStep
<1>. HIDE DEF batch, a
<1>2. a \in Accounts
  BY <1>1 DEF Serves
<1>3. IdsIn(batch) \subseteq Of(homes', a) /\ GrowsTo(homes, homes')
  BY <1>1, <1>2, IdsInIssued DEF HomeInv, Holds, GrowsTo
<1>4. \A c \in Accounts : DOMAIN db'[c].rows \subseteq Of(homes, c)
  BY <1>1, <1>3, ServedRows DEF HomeInv
<1>. QED BY <1>1, <1>4, ServerHome DEF HomeInv, Holds

LEMMA OtherDeviceHome ==
    ASSUME TypeInv, HomeInv, NEW a \in Accounts, NEW m \in Mutations, OtherDevice(a, m)
    PROVE  HomeInv'
<1>1. /\ Serves(a, <<m>>)
      /\ \/ (m.kind = "progress.upsert" \/ m.id \in DOMAIN db[a].rows) /\ UNCHANGED homes
         \/ m.id \in ThreadIds \ Minted /\ homes' = Put(homes, m.id, {a})
      /\ UNCHANGED <<stored, tab, round, issued>>
  BY OtherDeviceStep
<1>2. /\ GrowsTo(homes, homes')
      /\ \A i \in DOMAIN homes : homes'[i] = homes[i]
      /\ \A i \in DOMAIN homes' \ DOMAIN homes : homes'[i] = {a}
  BY <1>1 DEF Put, GrowsTo, Minted
<1>3. IdsIn(<<m>>) \subseteq Of(homes', a)
  <2>1. IdsIn(<<m>>) = IdOf(m)
    <3>1. DOMAIN <<m>> = {1} /\ <<m>>[1] = m
      OBVIOUS
    <3>. QED BY <3>1 DEF IdsIn
  <2>2. IdOf(m) \subseteq {m.id} /\ (m.kind = "progress.upsert" => IdOf(m) = {})
    BY DEF IdOf
  <2>3. CASE UNCHANGED homes
    <3>1. m.id \in DOMAIN db[a].rows => m.id \in Of(homes, a)
      BY DEF HomeInv, Holds
    <3>2. m.id \in Minted /\ homes' = Put(homes, m.id, {a}) => m.id \in Of(homes', a)
      BY DEF Of, Put
    <3>. QED BY <1>1, <2>1, <2>2, <2>3, <3>1, <3>2 DEF Of, Put
  <2>4. CASE m.id \in ThreadIds \ Minted /\ homes' = Put(homes, m.id, {a})
    BY <2>1, <2>2, <2>4 DEF Of, Put
  <2>. QED BY <1>1, <2>3, <2>4
<1>4. \A x : Of(homes, x) \subseteq Of(homes', x)
  BY <1>2, GrowsOf
<1>5. Holds'
  <2>1. \A c \in Accounts : DOMAIN db'[c].rows \subseteq Of(homes', c)
    BY <1>1, <1>2, <1>3, ServedRows DEF HomeInv
  <2>. QED BY <1>1, <1>4, <2>1 DEF HomeInv, Holds
<1>6. Drafts'
  <2>1. \A v \in Tabs : tab'[v].draft # None => homes'[tab[v].draft] = homes[tab[v].draft]
    BY <1>1, <1>2 DEF HomeInv, Drafts
  <2>. QED BY <1>1, <1>2, <2>1, DraftsStay DEF HomeInv
<1>7. Apart(homes)'
  BY <1>2 DEF HomeInv, Apart, SingleTab
<1>8. LocalOnly'
  BY <1>1, <1>2, OnDeviceLocal DEF HomeInv, LocalOnly, SingleTab, OnDevice
<1>. QED BY <1>5, <1>6, <1>7, <1>8 DEF HomeInv

LEMMA HomeInit == Init => HomeInv
<1>. SUFFICES ASSUME Init PROVE HomeInv
  OBVIOUS
<1>1. DOMAIN NoRows = {}
  BY NoRowsTyped
<1>2. PICK first \in Owners : tab = [t \in Tabs |-> Fresh(first)]
  BY DEF Init
<1>3. \A t \in Tabs : tab[t].owner = first /\ tab[t].threads = NoRows /\ tab[t].draft = None
  BY <1>2 DEF Fresh
<1>4. \A o \in Owners : stored[o].threads = NoRows
  BY DEF Init, NoStore
<1>5. \A a \in Accounts : DOMAIN db[a].rows = {} /\ issued[a] = {}
  BY DEF Init, NoAccount
<1>6. \A t \in Tabs : round[t].at \notin {"answered", "erased"}
  BY DEF Init, NoRound
<1>7. IdsOf({}) = {}
  BY DEF IdsOf
<1>8. DOMAIN homes = {}
  BY <1>1 DEF Init
<1>9. Holds
  BY <1>1, <1>3, <1>4, <1>5, <1>6, <1>7 DEF Holds
<1>10. Drafts /\ Apart(homes)
  BY <1>3, <1>8 DEF Drafts, Apart
<1>11. LocalOnly
  <2>1. Local \in Owners
    BY DEF Owners
  <2>. QED BY <1>1, <1>3, <1>4, <2>1 DEF LocalOnly, OnDevice
<1>. QED BY <1>9, <1>10, <1>11 DEF HomeInv

LEMMA HomeStep ==
    ASSUME TypeInv, HomeInv, [Next]_vars
    PROVE  HomeInv'
<1>1. ASSUME NEW t \in Tabs, Reader(t) PROVE HomeInv'
  <2>1. ASSUME NEW i \in ThreadIds, Open(t, i) PROVE HomeInv'
    <3>1. i \notin Minted /\ homes' = Put(homes, i, {})
      BY <2>1 DEF Open
    <3>2. Goes(t, {}) /\ Reading /\ tab'[t].draft = i
      BY <2>1, OpenStep
    <3>. QED BY <3>1, <3>2, DraftHome
  <2>2. ASSUME NEW i \in ThreadIds, Resume(t, i) PROVE HomeInv'
    BY <2>2, ResumeStep, ReadingQuiet
  <2>3. ASSUME NEW i \in ThreadIds, Reopen(t, i) PROVE HomeInv'
    BY <2>3, ReopenStep, ReadingQuiet
  <2>4. ASSUME NEW i \in ThreadIds, Dismiss(t, i) PROVE HomeInv'
    BY <2>4, DismissStep, ReadingQuiet
  <2>5. ASSUME NEW i \in ThreadIds, RemoveThread(t, i) PROVE HomeInv'
    BY <2>5, RemoveThreadHome
  <2>6. ASSUME NEW i \in ThreadIds, StartOver(t, i) PROVE HomeInv'
    <3>1. i \notin Minted /\ homes' = Put(homes, i, {})
      BY <2>6 DEF StartOver
    <3>2. Reading /\ tab'[t].draft = i
          /\ \/ Goes(t, {})
             \/ Goes(t, {tab[t].at}) /\ tab[t].at \in DOMAIN tab[t].threads
      BY <2>6, StartOverStep
    <3>3. CASE Goes(t, {})
      BY <3>1, <3>2, <3>3, DraftHome
    <3>4. CASE Goes(t, {tab[t].at}) /\ tab[t].at \in DOMAIN tab[t].threads
      <4>1. {tab[t].at} \subseteq DOMAIN tab[t].threads
        BY <3>4
      <4>. QED BY <3>1, <3>2, <3>4, <4>1, DraftHome
    <3>. QED BY <3>2, <3>3, <3>4
  <2>7. ASSUME NEW ayah \in Ayahs, NEW done \in BOOLEAN, Read(t, ayah, done) PROVE HomeInv'
    <3>. DEFINE i == Current(tab[t])
    <3>1. /\ Goes(t, {i}) /\ Reading /\ homes' = Joined({i}, tab[t].owner)
          /\ tab'[t].draft = IF tab[t].draft = i THEN None ELSE tab[t].draft
          /\ i \in ThreadIds /\ (i = tab[t].draft \/ i \in DOMAIN tab[t].threads)
      BY <2>7, ReadStep
    <3>. HIDE DEF i
    <3>. QED BY <3>1, ReadHome
  <2>. QED BY <1>1, <2>1, <2>2, <2>3, <2>4, <2>5, <2>6, <2>7, Zenon DEF Reader
<1>2. ASSUME NEW t \in Tabs, Device(t) PROVE HomeInv'
  <2>1. CASE Persist(t)
    BY <2>1, PersistHome
  <2>2. CASE StorageEvent(t)
    BY <2>2, StorageEventHome
  <2>3. CASE Push(t)
    BY <2>3, PushHome
  <2>4. CASE PushFails(t)
    BY <2>4, PushFailsHome
  <2>5. CASE Leave(t)
    BY <2>5, LeaveStep, RestartHome
  <2>6. CASE Crash(t)
    BY <2>6, CrashStep, RestartHome
  <2>7. ASSUME NEW o \in Owners, Switch(t, o) PROVE HomeInv'
    BY <2>7, SwitchStep, SwitchHome
  <2>. QED BY <1>2, <2>1, <2>2, <2>3, <2>4, <2>5, <2>6, <2>7, Zenon DEF Device
<1>3. ASSUME NEW t \in Tabs, Sync(t) PROVE HomeInv'
  <2>1. CASE Send(t)
    <3>1. /\ round'[t].at = "sent" /\ \A v \in Tabs \ {t} : round'[v] = round[v]
          /\ UNCHANGED <<db, stored, tab, homes, issued>>
      BY <2>1, SendStep
    <3>2. \A v \in Tabs : round'[v].at \in {"answered", "erased"} =>
             DOMAIN round'[v].answer.threads \subseteq Of(homes, round'[v].owner)
      BY <3>1 DEF HomeInv, Holds
    <3>. QED BY <3>1, <3>2, ServerHome DEF HomeInv, Holds
  <2>2. CASE Serve(t)
    BY <2>2, ServeHome
  <2>3. CASE Lose(t)
    <3>1. Aborted(t) /\ UNCHANGED <<db, stored, tab, homes, issued>>
      BY <2>3, LoseStep
    <3>2. \A v \in Tabs : round'[v].at \in {"answered", "erased"} =>
             DOMAIN round'[v].answer.threads \subseteq Of(homes, round'[v].owner)
      BY <3>1, AbortedAnswers DEF HomeInv, Holds, Answers
    <3>. QED BY <3>1, <3>2, ServerHome DEF HomeInv, Holds
  <2>4. CASE Bury(t)
    <3>1. /\ round'[t].at = "idle" /\ \A v \in Tabs \ {t} : round'[v] = round[v]
          /\ UNCHANGED <<db, stored, tab, homes, issued>>
      BY <2>4, BuryStep
    <3>2. \A v \in Tabs : round'[v].at \in {"answered", "erased"} =>
             DOMAIN round'[v].answer.threads \subseteq Of(homes, round'[v].owner)
      BY <3>1 DEF HomeInv, Holds
    <3>. QED BY <3>1, <3>2, ServerHome DEF HomeInv, Holds
  <2>5. CASE Erase(t)
    <3>1. /\ round[t].at \in {"answered", "erased"} /\ round'[t].owner = round[t].owner
          /\ round'[t].answer = round[t].answer /\ \A v \in Tabs \ {t} : round'[v] = round[v]
          /\ UNCHANGED <<db, stored, tab, homes, issued>>
      BY <2>5, EraseStep
    <3>2. \A v \in Tabs : round'[v].at \in {"answered", "erased"} =>
             DOMAIN round'[v].answer.threads \subseteq Of(homes, round'[v].owner)
      BY <3>1 DEF HomeInv, Holds
    <3>. QED BY <3>1, <3>2, ServerHome DEF HomeInv, Holds
  <2>6. CASE Receive(t)
    BY <2>6, ReceiveHome
  <2>. QED BY <1>3, <2>1, <2>2, <2>3, <2>4, <2>5, <2>6 DEF Sync
<1>4. ASSUME NEW stray \in strays, ServeStray(stray) PROVE HomeInv'
  BY <1>4, ServeStrayHome
<1>5. ASSUME NEW a \in Accounts, NEW m \in Mutations, OtherDevice(a, m) PROVE HomeInv'
  BY <1>5, OtherDeviceHome
<1>6. CASE UNCHANGED vars
  BY <1>6 DEF vars, HomeInv, Holds, Drafts, Apart, LocalOnly, SingleTab, OnDevice
<1>. QED BY <1>1, <1>2, <1>3, <1>4, <1>5, <1>6, Zenon DEF Next

\* What is stored, shown, queued, served and answered for an owner is the owner's.
THEOREM HomeAlways == Spec => [](TypeInv /\ HomeInv)
<1>1. TypeInv /\ HomeInv /\ [Next]_vars => TypeInv' /\ HomeInv'
  BY TypedStep, HomeStep
<1>. QED BY <1>1, TypedInit, HomeInit, PTL DEF Spec

\* A thread belongs to the account it was read in; the device's own joins one account
\* alone, unless two tabs hold it.
THEOREM OneAccountEachAlways == Spec => []OneAccountEach
<1>1. TypeInv /\ HomeInv => OneAccountEach
  <2>. SUFFICES ASSUME TypeInv, HomeInv PROVE OneAccountEach
    OBVIOUS
  <2>1. \A o : ThreadsOf(o) = Of(homes, o)
    BY DEF ThreadsOf, Of, Minted
  <2>2. /\ \A o \in Owners : DOMAIN stored[o].threads \subseteq ThreadsOf(o)
        /\ \A t \in Tabs : DOMAIN tab[t].threads \subseteq ThreadsOf(tab[t].owner)
        /\ \A a \in Accounts : IdsOf(issued[a]) \cup DOMAIN db[a].rows \subseteq ThreadsOf(a)
    BY <2>1 DEF HomeInv, Holds
  <2>3. \A i \in Minted : \A a, b \in homes[i] \cap Accounts :
           a # b => Local \in homes[i] /\ \E t, u \in Tabs : t # u
    BY DEF HomeInv, Apart, SingleTab, Minted
  <2>. QED BY <2>2, <2>3 DEF OneAccountEach
<1>. QED BY <1>1, HomeAlways, PTL
-----------------------------------------------------------------------------
(* A change that has yet to reach the server is shown. *)

ShownInv == Room(Minted) => \A t \in Tabs : Shown(tab[t])

LEMMA RoomGrows ==
    ASSUME NEW M, NEW N, Room(N), M \subseteq N
    PROVE  Room(M)
BY SmallerSet, ThreadsAssumption DEF Room

LEMMA MintedPut ==
    ASSUME NEW i, NEW os, homes' = Put(homes, i, os)
    PROVE  Minted \subseteq Minted'
BY DEF Put, Minted

LEMMA MintedJoined ==
    ASSUME NEW ids, NEW o, homes' = Joined(ids, o)
    PROVE  Minted \subseteq Minted'
BY DEF Joined, Minted

LEMMA MintedThreads ==
    ASSUME TypeInv, HomeInv
    PROVE  /\ \A t \in Tabs : DOMAIN tab[t].threads \subseteq Minted /\ Held(t) \subseteq Minted
           /\ \A o \in Owners : DOMAIN stored[o].threads \subseteq Minted
           /\ \A t \in Tabs : round[t].at \in {"answered", "erased"} => DOMAIN round[t].answer.threads \subseteq Minted
           /\ \A t \in Tabs : tab[t].draft # None => tab[t].draft \in Minted
<1>1. \A o : Of(homes, o) \subseteq Minted
  BY DEF Of, Minted
<1>2. \A t \in Tabs : Held(t) \subseteq Minted
  BY <1>1, HeldIds DEF HomeInv
<1>. QED BY <1>1, <1>2 DEF HomeInv, Holds, Drafts, Minted

LEMMA GoesShown ==
    ASSUME TypeInv, HomeInv, ShownInv, NEW t \in Tabs, NEW ids, Goes(t, ids),
           Minted \subseteq Minted', ids \subseteq Minted
    PROVE  ShownInv'
<1>1. SUFFICES ASSUME Room(Minted') PROVE \A v \in Tabs : Shown(tab'[v])
  BY DEF ShownInv, Room, Minted
<1>2. Room(Minted)
  BY <1>1, RoomGrows
<1>3. \A v \in Tabs : Shown(tab[v])
  BY <1>2 DEF ShownInv
<1>4. DOMAIN tab[t].threads \cup ids \subseteq Minted
  BY MintedThreads
<1>5. Shown(tab'[t])
  BY <1>2, <1>3, <1>4 DEF Goes, Moves
<1>. QED BY <1>3, <1>5 DEF Goes

LEMMA RestartShown ==
    ASSUME TypeInv, HomeInv, ShownInv, NEW t \in Tabs, Restarts(t)
    PROVE  ShownInv'
<1>1. Shown(tab'[t]) /\ UNCHANGED homes /\ \A v \in Tabs \ {t} : tab'[v] = tab[v]
  BY DEF Restarts, Starts
<1>. QED BY <1>1 DEF ShownInv, Minted

LEMMA SwitchShown ==
    ASSUME TypeInv, HomeInv, ShownInv, NEW t \in Tabs, NEW o \in Owners,
           NEW moved, SwitchesTo(t, o, moved)
    PROVE  ShownInv'
<1>1. /\ \A v \in Tabs \ {t} : tab'[v] = tab[v]
      /\ moved \subseteq Held(t)
      /\ homes' = IF moved = {} THEN homes ELSE Joined(moved, o)
      /\ \A M : Room(M) /\ DOMAIN stored[o].threads \cup moved \subseteq M => Shown(tab'[t])
  BY DEF SwitchesTo
<1>2. Minted \subseteq Minted' /\ Minted' \subseteq Minted
  BY <1>1 DEF Joined, Minted
<1>3. SUFFICES ASSUME Room(Minted') PROVE \A v \in Tabs : Shown(tab'[v])
  BY DEF ShownInv, Room, Minted
<1>4. Room(Minted)
  BY <1>2, <1>3, RoomGrows
<1>5. DOMAIN stored[o].threads \cup moved \subseteq Minted
  BY <1>1, MintedThreads
<1>6. Shown(tab'[t])
  BY <1>1, <1>4, <1>5
<1>. QED BY <1>1, <1>4, <1>6 DEF ShownInv

\* The tabs stay as they are.
LEMMA TabsShown ==
    ASSUME ShownInv, UNCHANGED tab, Minted \subseteq Minted'
    PROVE  ShownInv'
<1>1. Room(Minted') => Room(Minted)
  BY RoomGrows
<1>. QED BY <1>1 DEF ShownInv, Room, Minted

LEMMA ShownStep ==
    ASSUME TypeInv, HomeInv, ShownInv, [Next]_vars
    PROVE  ShownInv'
<1>1. ASSUME NEW t \in Tabs, Reader(t) PROVE ShownInv'
  <2>0. {} \subseteq Minted /\ DOMAIN tab[t].threads \subseteq Minted
    BY MintedThreads
  <2>1. ASSUME NEW i \in ThreadIds, Open(t, i) PROVE ShownInv'
    <3>1. Minted \subseteq Minted'
      BY <2>1, MintedPut DEF Open
    <3>. QED BY <2>0, <2>1, <3>1, OpenStep, GoesShown
  <2>2. ASSUME NEW i \in ThreadIds, Resume(t, i) PROVE ShownInv'
    <3>1. Goes(t, {}) /\ Minted \subseteq Minted'
      BY <2>2, ResumeStep DEF Minted
    <3>. QED BY <2>0, <3>1, GoesShown
  <2>3. ASSUME NEW i \in ThreadIds, Reopen(t, i) PROVE ShownInv'
    <3>1. Goes(t, {i}) /\ Minted \subseteq Minted' /\ {i} \subseteq Minted
      BY <2>0, <2>3, ReopenStep DEF Minted
    <3>. QED BY <3>1, GoesShown
  <2>4. ASSUME NEW i \in ThreadIds, Dismiss(t, i) PROVE ShownInv'
    <3>1. Goes(t, {i}) /\ Minted \subseteq Minted' /\ {i} \subseteq Minted
      BY <2>0, <2>4, DismissStep DEF Minted
    <3>. QED BY <3>1, GoesShown
  <2>5. ASSUME NEW i \in ThreadIds, RemoveThread(t, i) PROVE ShownInv'
    <3>1. Goes(t, {}) /\ Minted \subseteq Minted'
      BY <2>5, RemoveThreadStep DEF Minted
    <3>. QED BY <2>0, <3>1, GoesShown
  <2>6. ASSUME NEW i \in ThreadIds, StartOver(t, i) PROVE ShownInv'
    <3>1. Minted \subseteq Minted'
      BY <2>6, MintedPut DEF StartOver
    <3>2. \/ Goes(t, {})
          \/ Goes(t, {tab[t].at}) /\ {tab[t].at} \subseteq Minted
      BY <2>0, <2>6, StartOverStep
    <3>. QED BY <2>0, <3>1, <3>2, GoesShown
  <2>7. ASSUME NEW ayah \in Ayahs, NEW done \in BOOLEAN, Read(t, ayah, done) PROVE ShownInv'
    <3>. DEFINE i == Current(tab[t])
    <3>1. /\ Goes(t, {i}) /\ homes' = Joined({i}, tab[t].owner)
          /\ i \in ThreadIds /\ (i = tab[t].draft \/ i \in DOMAIN tab[t].threads)
      BY <2>7, ReadStep
    <3>. HIDE DEF i
    <3>2. Minted \subseteq Minted'
      BY <3>1, MintedJoined
    <3>3. {i} \subseteq Minted
      BY <2>0, <3>1, MintedThreads, ThreadsAssumption
    <3>. QED BY <3>1, <3>2, <3>3, GoesShown
  <2>. QED BY <1>1, <2>1, <2>2, <2>3, <2>4, <2>5, <2>6, <2>7, Zenon DEF Reader
<1>2. ASSUME NEW t \in Tabs, Device(t) PROVE ShownInv'
  <2>0. {} \subseteq Minted /\ DOMAIN stored[tab[t].owner].threads \subseteq Minted
    <3>1. tab[t].owner \in Owners
      BY GoodTyped DEF TypeInv, TabStates
    <3>. QED BY <3>1, MintedThreads
  <2>1. CASE Persist(t)
    <3>1. Goes(t, DOMAIN stored[tab[t].owner].threads) /\ Minted \subseteq Minted'
      BY <2>1, PersistStep DEF Minted
    <3>. QED BY <2>0, <3>1, GoesShown
  <2>2. CASE StorageEvent(t)
    <3>1. Goes(t, DOMAIN stored[tab[t].owner].threads) /\ Minted \subseteq Minted'
      BY <2>2, StorageEventStep DEF Minted
    <3>. QED BY <2>0, <3>1, GoesShown
  <2>3. CASE Push(t)
    <3>1. Goes(t, {}) /\ Minted \subseteq Minted'
      BY <2>3, PushStep DEF Minted
    <3>. QED BY <2>0, <3>1, GoesShown
  <2>4. CASE PushFails(t)
    <3>1. Goes(t, {}) /\ Minted \subseteq Minted'
      BY <2>4, PushFailsStep DEF Minted
    <3>. QED BY <2>0, <3>1, GoesShown
  <2>5. CASE Leave(t)
    BY <2>5, LeaveStep, RestartShown
  <2>6. CASE Crash(t)
    BY <2>6, CrashStep, RestartShown
  <2>7. ASSUME NEW o \in Owners, Switch(t, o) PROVE ShownInv'
    BY <2>7, SwitchStep, SwitchShown
  <2>. QED BY <1>2, <2>1, <2>2, <2>3, <2>4, <2>5, <2>6, <2>7, Zenon DEF Device
<1>3. ASSUME NEW t \in Tabs, Sync(t) PROVE ShownInv'
  <2>1. CASE Send(t)
    BY <2>1, SendStep, TabsShown DEF Minted
  <2>2. CASE Serve(t)
    BY <2>2, ServeStep, TabsShown DEF Minted
  <2>3. CASE Lose(t)
    BY <2>3, LoseStep, TabsShown DEF Minted
  <2>4. CASE Bury(t)
    BY <2>4, BuryStep, TabsShown DEF Minted
  <2>5. CASE Erase(t)
    BY <2>5, EraseStep, TabsShown DEF Minted
  <2>6. CASE Receive(t)
    <3>. DEFINE ids == DOMAIN round[t].answer.threads
    <3>1. Goes(t, ids) /\ round[t].at \in {"answered", "erased"} /\ Minted \subseteq Minted'
      BY <2>6, ReceiveStep DEF Minted
    <3>2. ids \subseteq Minted
      BY <3>1, MintedThreads
    <3>. HIDE DEF ids
    <3>. QED BY <3>1, <3>2, GoesShown
  <2>. QED BY <1>3, <2>1, <2>2, <2>3, <2>4, <2>5, <2>6 DEF Sync
<1>4. ASSUME NEW stray \in strays, ServeStray(stray) PROVE ShownInv'
  BY <1>4, ServeStrayStep, TabsShown DEF Minted
<1>5. ASSUME NEW a \in Accounts, NEW m \in Mutations, OtherDevice(a, m) PROVE ShownInv'
  <2>1. UNCHANGED tab /\ (UNCHANGED homes \/ homes' = Put(homes, m.id, {a}))
    BY <1>5, OtherDeviceStep
  <2>2. Minted \subseteq Minted'
    BY <2>1, MintedPut DEF Minted
  <2>. QED BY <2>1, <2>2, TabsShown
<1>6. CASE UNCHANGED vars
  BY <1>6, TabsShown DEF vars, Minted
<1>. QED BY <1>1, <1>2, <1>3, <1>4, <1>5, <1>6, Zenon DEF Next

LEMMA ShownInit == Init => ShownInv
<1>. SUFFICES ASSUME Init, NEW t \in Tabs PROVE Shown(tab[t])
  BY DEF ShownInv
<1>1. PICK first \in Owners : tab = [v \in Tabs |-> Fresh(first)]
  BY DEF Init
<1>2. tab[t].dirty = {} /\ tab[t].pending = NoRows /\ DOMAIN NoRows = {}
  BY <1>1, NoRowsTyped DEF Fresh
<1>. QED BY <1>2 DEF Shown

\* As long as the threads fit under the cap, a change that has yet to reach the server
\* is not lost to an older row.
THEOREM OwnChangesShownAlways == Spec => []OwnChangesShown
<1>1. TypeInv /\ HomeInv /\ ShownInv /\ [Next]_vars => ShownInv'
  BY ShownStep
<1>2. TypeInv /\ ShownInv => OwnChangesShown
  <2>. SUFFICES ASSUME TypeInv, ShownInv, Cardinality(Minted) <= ThreadCap, NEW t \in Tabs
                PROVE  LET s == tab[t] IN
                       /\ s.dirty \subseteq DOMAIN s.threads \cup s.removed
                       /\ \A i \in DOMAIN s.pending \ s.removed :
                             /\ i \in DOMAIN s.threads
                             /\ i \in s.dirty \/ s.threads[i].at >= s.pending[i]
    BY DEF OwnChangesShown
  <2>1. IsFiniteSet(Minted)
    BY RowsAssumption, SmallerSet DEF TypeInv, Ids
  <2>2. Shown(tab[t])
    BY <2>1 DEF ShownInv, Room
  <2>. QED BY <2>2 DEF Shown
<1>. QED BY <1>1, <1>2, ShownInit, TypedAlways, HomeAlways, PTL DEF Spec
-----------------------------------------------------------------------------
(* What has left an outbox has been digested. *)

\* Changes that have left the outbox of an account other than to the dead letters, or are
\* about to.
Settled(a) ==
    (issued[a] \ (ToSet(outbox[a]) \cup buried[a]))
      \cup UNION {ToSet(round[t].batch) : t \in {t \in Tabs : /\ round[t].at \in {"answered", "erased"}
                                                              /\ round[t].owner = a}}

TakenInv ==
    /\ DOMAIN buried = Accounts
    /\ ~clamped => \A a \in Accounts : WithinQuota(Of(homes, a)) =>
                      \A m \in Settled(a) : Taken(db[a], m)

\* Neither a dead letter nor a stamp taken down is forgotten.
Remembers == /\ DOMAIN buried' = DOMAIN buried
             /\ \A a \in Accounts : buried[a] \subseteq buried'[a]
             /\ clamped => clamped'

\* The accounts keep what they have.
Older == \A a \in Accounts : Of(homes, a) \subseteq Of(homes', a) /\ Later(db[a], db'[a])

LEMMA SettledTyped ==
    ASSUME TypeInv
    PROVE  \A a \in Accounts : Settled(a) \subseteq Mutations
<1>1. \A a \in Accounts : issued[a] \subseteq Mutations
  BY DEF TypeInv, Queues
<1>2. ASSUME NEW a \in Accounts, NEW t \in Tabs, round[t].at \in {"answered", "erased"}, round[t].owner = a
      PROVE  ToSet(round[t].batch) \subseteq Mutations
  <2>1. round[t].batch \in Seq(issued[a])
    BY <1>2 DEF TypeInv, Requests
  <2>. QED BY <1>1, <2>1 DEF ToSet
<1>. QED BY <1>1, <1>2 DEF Settled

LEMMA QuotaGrows ==
    ASSUME NEW M, NEW N, WithinQuota(N), M \subseteq N
    PROVE  WithinQuota(M)
BY SmallerSet, RowsAssumption DEF WithinQuota

LEMMA ServerRemembers ==
    ASSUME NEW a, NEW batch, SyncRound(a, batch), UNCHANGED buried
    PROVE  Remembers
BY DEF SyncRound, Remembers

LEMMA StepRemembers ==
    ASSUME DOMAIN buried = Accounts, TypeInv, [Next]_vars
    PROVE  Remembers
<1>1. ASSUME UNCHANGED past PROVE Remembers
  BY <1>1 DEF past, Remembers
<1>2. ASSUME NEW t \in Tabs, Reader(t) PROVE Remembers
  <2>1. ASSUME NEW i \in ThreadIds,
               \/ Open(t, i) \/ Resume(t, i) \/ Reopen(t, i)
               \/ Dismiss(t, i) \/ RemoveThread(t, i) \/ StartOver(t, i)
        PROVE  Remembers
    BY <1>1, <2>1 DEF Open, Resume, Reopen, Dismiss, RemoveThread, StartOver
  <2>2. ASSUME NEW ayah \in Ayahs, NEW done \in BOOLEAN, Read(t, ayah, done) PROVE Remembers
    BY <1>1, <2>2 DEF Read
  <2>. QED BY <1>2, <2>1, <2>2, Zenon DEF Reader
<1>3. ASSUME NEW t \in Tabs, Device(t) PROVE Remembers
  <2>1. ASSUME NEW o \in Owners, Switch(t, o) PROVE Remembers
    BY <1>1, <2>1 DEF Switch
  <2>2. CASE Persist(t) \/ StorageEvent(t) \/ Push(t) \/ PushFails(t)
    BY <1>1, <2>2 DEF Persist, StorageEvent, Push, PushFails
  <2>3. CASE Leave(t) \/ Crash(t)
    BY <1>1, <2>3 DEF Leave, Crash
  <2>. QED BY <1>3, <2>1, <2>2, <2>3, Zenon DEF Device
<1>4. ASSUME NEW t \in Tabs, Sync(t) PROVE Remembers
  <2>1. CASE Send(t) \/ Lose(t) \/ Erase(t) \/ Receive(t)
    BY <1>1, <2>1 DEF Send, Lose, Erase, Receive
  <2>2. CASE Serve(t)
    BY <2>2, ServerRemembers DEF Serve
  <2>3. CASE Bury(t)
    BY <2>3, BuryStep DEF Remembers
  <2>. QED BY <1>4, <2>1, <2>2, <2>3 DEF Sync
<1>5. ASSUME NEW stray \in strays, ServeStray(stray) PROVE Remembers
  BY <1>5, ServerRemembers DEF ServeStray
<1>6. ASSUME NEW a \in Accounts, NEW m \in Mutations, OtherDevice(a, m) PROVE Remembers
  BY <1>6, ServerRemembers DEF OtherDevice
<1>7. CASE UNCHANGED vars
  BY <1>1, <1>7 DEF vars
<1>. QED BY <1>2, <1>3, <1>4, <1>5, <1>6, <1>7, Zenon DEF Next

LEMMA TakenKeeps ==
    ASSUME TypeInv, TypeInv', TakenInv, Older, Remembers,
           \A a \in Accounts : Settled(a)' \subseteq Settled(a)
    PROVE  TakenInv'
<1>1. SUFFICES ASSUME ~clamped', NEW a \in Accounts, WithinQuota(Of(homes', a)),
                      NEW m \in Settled(a)'
               PROVE  Taken(db'[a], m)
  BY DEF TakenInv, WithinQuota, Of, Remembers
<1>2. WithinQuota(Of(homes, a))
  BY <1>1, QuotaGrows DEF Older
<1>3. m \in Settled(a) /\ m \in Mutations
  BY <1>1, SettledTyped
<1>4. Taken(db[a], m)
  BY <1>1, <1>2, <1>3 DEF TakenInv, Remembers
<1>5. db[a] \in Account /\ db'[a] \in Account
  BY DEF TypeInv
<1>. QED BY <1>3, <1>4, <1>5, TakenStays DEF Older

LEMMA SettledKeeps ==
    ASSUME Answers, NEW more, Adds(more), Remembers
    PROVE  \A a \in Accounts : Settled(a)' \subseteq Settled(a)
<1>. SUFFICES ASSUME NEW a \in Accounts, NEW m \in Settled(a)' PROVE m \in Settled(a)
  OBVIOUS
<1>1. CASE m \in issued'[a] \ (ToSet(outbox'[a]) \cup buried'[a])
  BY <1>1 DEF Settled, Adds, Remembers
<1>2. ASSUME NEW t \in Tabs, round'[t].at \in {"answered", "erased"}, round'[t].owner = a,
             m \in ToSet(round'[t].batch)
      PROVE  m \in Settled(a)
  <2>1. round'[t] = round[t]
    BY <1>2 DEF Answers
  <2>. QED BY <1>2, <2>1 DEF Settled
<1>3. \/ m \in issued'[a] \ (ToSet(outbox'[a]) \cup buried'[a])
      \/ \E t \in Tabs : round'[t].at \in {"answered", "erased"} /\ round'[t].owner = a
                           /\ m \in ToSet(round'[t].batch)
  BY DEF Settled, ToSet
<1>. QED BY <1>1, <1>2, <1>3

LEMMA HomesGrow ==
    ASSUME NEW i, NEW os, NEW ids, NEW o,
           \/ UNCHANGED homes
           \/ i \notin Minted /\ homes' = Put(homes, i, os)
           \/ homes' = Joined(ids, o)
    PROVE  \A a \in Accounts : Of(homes, a) \subseteq Of(homes', a)
BY DEF Put, Joined, Minted, Of

\* The server is not asked.
LEMMA DeviceOlder ==
    ASSUME TypeInv, UNCHANGED db, NEW i, NEW os, NEW ids, NEW o,
           \/ UNCHANGED homes
           \/ i \notin Minted /\ homes' = Put(homes, i, os)
           \/ homes' = Joined(ids, o)
    PROVE  Older
<1>1. \A a \in Accounts : Later(db[a], db'[a])
  BY LaterSelf DEF TypeInv
<1>. QED BY <1>1, HomesGrow DEF Older

LEMMA DeviceTaken ==
    ASSUME TypeInv, TypeInv', TakenInv, Older, Remembers, Answers, NEW more, Adds(more)
    PROVE  TakenInv'
BY SettledKeeps, TakenKeeps

LEMMA ReadingTaken ==
    ASSUME TypeInv, TypeInv', TakenInv, Older, Remembers, Reading
    PROVE  TakenInv'
<1>1. Answers /\ Adds(Nowhere)
  BY NothingAdds DEF Reading, Answers
<1>. QED BY <1>1, DeviceTaken

LEMMA ServedOlder ==
    ASSUME TypeInv, NEW a, NEW batch, Serves(a, batch), NEW i, NEW os,
           UNCHANGED homes \/ (i \notin Minted /\ homes' = Put(homes, i, os))
    PROVE  Older
<1>1. \A c \in Accounts : Of(homes, c) \subseteq Of(homes', c)
  BY HomesGrow
<1>. QED BY <1>1, ServesTyped DEF Older

LEMMA ServeTaken ==
    ASSUME TypeInv, TypeInv', HomeInv, TakenInv, Remembers, NEW t \in Tabs, Serve(t)
    PROVE  TakenInv'
<1>. DEFINE a == round[t].owner
            batch == round[t].batch
<1>1. /\ Serves(a, batch) /\ batch \in Seq(issued[a])
      /\ round'[t].owner = a /\ round'[t].batch = batch
      /\ \A v \in Tabs \ {t} : round'[v] = round[v]
      /\ UNCHANGED <<outbox, homes, issued>>
  BY ServeStep
<1>2. a \in Accounts /\ batch \in Seq(Mutations) /\ db[a] \in Account
  BY <1>1 DEF Serves, TypeInv
<1>3. Older
  BY <1>1, ServedOlder
<1>. HIDE DEF batch, a
<1>4. \A c \in Accounts : db'[c] \in Account
  BY DEF TypeInv
<1>5. ASSUME ~clamped', WithinQuota(Of(homes, a)), NEW m \in ToSet(batch)
      PROVE  Taken(db'[a], m)
  <2>1. DOMAIN db[a].rows \cup IdsIn(batch) \subseteq Of(homes, a)
    BY <1>1, <1>2, IdsInIssued DEF HomeInv, Holds
  <2>2. PICK limit \in Clocks : /\ db'[a] = Round(db[a], batch, limit)
                                /\ \A n \in ToSet(batch) : InStep(n, limit)
    BY <1>1, <1>5, ServesTyped
  <2>3. PICK k \in DOMAIN batch : m = batch[k]
    BY <1>2, <1>5 DEF ToSet
  <2>4. InStep(batch[k], limit)
    BY <1>5, <2>2, <2>3
  <2>. QED BY <1>2, <1>5, <2>1, <2>2, <2>3, <2>4, RoundDigests
<1>6. ASSUME NEW c \in Accounts, NEW m \in Settled(c)'
      PROVE  m \in Settled(c) \/ (c = a /\ m \in ToSet(batch))
  BY <1>1, <1>6 DEF Settled, Remembers
<1>7. ASSUME ~clamped', NEW c \in Accounts, WithinQuota(Of(homes', c)), NEW m \in Settled(c)'
      PROVE  Taken(db'[c], m)
  <2>1. WithinQuota(Of(homes, c))
    BY <1>1, <1>7
  <2>2. CASE m \in Settled(c)
    <3>1. m \in Mutations /\ Taken(db[c], m)
      BY <1>7, <2>1, <2>2, SettledTyped DEF TakenInv, Remembers
    <3>2. db[c] \in Account /\ Later(db[c], db'[c])
      BY <1>3 DEF TypeInv, Older
    <3>. QED BY <1>4, <3>1, <3>2, TakenStays
  <2>3. CASE c = a /\ m \in ToSet(batch)
    BY <1>5, <1>7, <2>1, <2>3
  <2>. QED BY <1>6, <1>7, <2>2, <2>3
<1>. QED BY <1>7 DEF TakenInv, WithinQuota, Of, Remembers

\* What leaves an outbox has been taken, or is a dead letter now.
LEMMA LeavesTaken ==
    ASSUME TypeInv, TypeInv', TakenInv, Remembers, NEW a, NEW ms, Leaves(a, ms),
           UNCHANGED <<db, homes, issued>>, ms \subseteq Settled(a) \cup buried'[a],
           \A v \in Tabs : round'[v].at \in {"answered", "erased"} =>
              /\ round[v].at \in {"answered", "erased"}
              /\ round'[v].owner = round[v].owner /\ round'[v].batch = round[v].batch
    PROVE  TakenInv'
<1>1. Older
  BY DeviceOlder
<1>2. ASSUME NEW c \in Accounts, NEW m \in Settled(c)' PROVE m \in Settled(c)
  <2>1. CASE m \in issued'[c] \ (ToSet(outbox'[c]) \cup buried'[c])
    <3>1. m \notin buried[c] /\ m \in issued[c]
      BY <2>1 DEF Remembers
    <3>2. CASE m \in ToSet(outbox[c])
      BY <2>1, <3>2 DEF Leaves
    <3>. QED BY <3>1, <3>2 DEF Settled
  <2>2. ASSUME NEW v \in Tabs, round'[v].at \in {"answered", "erased"}, round'[v].owner = c,
               m \in ToSet(round'[v].batch)
        PROVE  m \in Settled(c)
    <3>1. round[v].at \in {"answered", "erased"} /\ round[v].owner = c
      BY <2>2
    <3>2. m \in ToSet(round[v].batch)
      BY <2>2
    <3>. QED BY <3>1, <3>2 DEF Settled
  <2>3. \/ m \in issued'[c] \ (ToSet(outbox'[c]) \cup buried'[c])
        \/ \E v \in Tabs : round'[v].at \in {"answered", "erased"} /\ round'[v].owner = c
                             /\ m \in ToSet(round'[v].batch)
    BY DEF Settled, ToSet
  <2>. QED BY <2>1, <2>2, <2>3
<1>. QED BY <1>1, <1>2, TakenKeeps

\* The batch of an answered round.
LEMMA EraseTaken ==
    ASSUME TypeInv, TypeInv', TakenInv, Remembers, NEW t \in Tabs, Erase(t)
    PROVE  TakenInv'
<1>. DEFINE a == round[t].owner
            batch == ToSet(round[t].batch)
<1>1. /\ Leaves(a, batch) /\ round[t].at \in {"answered", "erased"} /\ round'[t].owner = a
      /\ round'[t].batch = round[t].batch /\ \A v \in Tabs \ {t} : round'[v] = round[v]
      /\ UNCHANGED <<db, homes, issued>>
  BY EraseStep
<1>2. batch \subseteq Settled(a)
  BY <1>1 DEF Settled
<1>. QED BY <1>1, <1>2, LeavesTaken

\* The oldest mutation of a batch that has been rejected too often.
LEMMA BuryTaken ==
    ASSUME TypeInv, TypeInv', TakenInv, Remembers, NEW t \in Tabs, Bury(t)
    PROVE  TakenInv'
<1>. DEFINE a == round[t].owner
            poison == Head(round[t].batch)
<1>1. /\ Leaves(a, {poison})
      /\ buried' = [buried EXCEPT ![a] = @ \cup ({poison} \cap ToSet(outbox[a]))]
      /\ round'[t].at = "idle" /\ \A v \in Tabs \ {t} : round'[v] = round[v]
      /\ UNCHANGED <<db, homes, issued>>
  BY BuryStep
<1>2. a \in Accounts
  BY <1>1 DEF Leaves
<1>. HIDE DEF a, poison
<1>. DEFINE ms == {poison} \cap ToSet(outbox[a])
<1>3. Leaves(a, ms) /\ ms \subseteq buried'[a]
  BY <1>1, <1>2 DEF Leaves, TakenInv
<1>. HIDE DEF ms
<1>. QED BY <1>1, <1>3, LeavesTaken

LEMMA TakenStep ==
    ASSUME TypeInv, TypeInv', HomeInv, TakenInv, [Next]_vars
    PROVE  TakenInv'
<1>0. Remembers
  BY StepRemembers DEF TakenInv
<1>1. ASSUME NEW t \in Tabs, Reader(t) PROVE TakenInv'
  <2>1. ASSUME NEW i \in ThreadIds, Open(t, i) PROVE TakenInv'
    <3>1. i \notin Minted /\ homes' = Put(homes, i, {}) /\ UNCHANGED db
      BY <2>1 DEF Open
    <3>. QED BY <1>0, <2>1, <3>1, OpenStep, DeviceOlder, ReadingTaken
  <2>2. ASSUME NEW i \in ThreadIds, Resume(t, i) PROVE TakenInv'
    <3>1. Reading /\ UNCHANGED <<db, homes>>
      BY <2>2, ResumeStep DEF Reading
    <3>. QED BY <1>0, <3>1, DeviceOlder, ReadingTaken
  <2>3. ASSUME NEW i \in ThreadIds, Reopen(t, i) PROVE TakenInv'
    <3>1. Reading /\ UNCHANGED <<db, homes>>
      BY <2>3, ReopenStep DEF Reading
    <3>. QED BY <1>0, <3>1, DeviceOlder, ReadingTaken
  <2>4. ASSUME NEW i \in ThreadIds, Dismiss(t, i) PROVE TakenInv'
    <3>1. Reading /\ UNCHANGED <<db, homes>>
      BY <2>4, DismissStep DEF Reading
    <3>. QED BY <1>0, <3>1, DeviceOlder, ReadingTaken
  <2>5. ASSUME NEW i \in ThreadIds, RemoveThread(t, i) PROVE TakenInv'
    <3>1. UNCHANGED <<db, round, homes>> /\ \E more : Adds(more)
      BY <2>5, RemoveThreadStep
    <3>2. Older /\ Answers
      BY <3>1, DeviceOlder DEF Answers
    <3>. QED BY <1>0, <3>1, <3>2, DeviceTaken
  <2>6. ASSUME NEW i \in ThreadIds, StartOver(t, i) PROVE TakenInv'
    <3>1. i \notin Minted /\ homes' = Put(homes, i, {}) /\ UNCHANGED db
      BY <2>6 DEF StartOver
    <3>. QED BY <1>0, <2>6, <3>1, StartOverStep, DeviceOlder, ReadingTaken
  <2>7. ASSUME NEW ayah \in Ayahs, NEW done \in BOOLEAN, Read(t, ayah, done) PROVE TakenInv'
    <3>. DEFINE i == Current(tab[t])
    <3>1. Reading /\ UNCHANGED db /\ homes' = Joined({i}, tab[t].owner)
      BY <2>7, ReadStep DEF Reading
    <3>. HIDE DEF i
    <3>. QED BY <1>0, <3>1, DeviceOlder, ReadingTaken
  <2>. QED BY <1>1, <2>1, <2>2, <2>3, <2>4, <2>5, <2>6, <2>7, Zenon DEF Reader
<1>2. ASSUME NEW t \in Tabs, Device(t) PROVE TakenInv'
  <2>1. CASE Persist(t)
    <3>1. UNCHANGED <<db, outbox, round, homes, issued>>
      BY <2>1, PersistStep
    <3>. QED BY <1>0, <3>1, NothingAdds, DeviceOlder, DeviceTaken DEF Answers
  <2>2. CASE StorageEvent(t)
    <3>1. UNCHANGED <<db, outbox, round, homes, issued>>
      BY <2>2, StorageEventStep
    <3>. QED BY <1>0, <3>1, NothingAdds, DeviceOlder, DeviceTaken DEF Answers
  <2>3. CASE Push(t)
    <3>1. UNCHANGED <<db, round, homes>> /\ \E more : Adds(more)
      BY <2>3, PushStep
    <3>. QED BY <1>0, <3>1, DeviceOlder, DeviceTaken DEF Answers
  <2>4. CASE PushFails(t)
    <3>1. UNCHANGED <<db, outbox, round, homes, issued>>
      BY <2>4, PushFailsStep
    <3>. QED BY <1>0, <3>1, NothingAdds, DeviceOlder, DeviceTaken DEF Answers
  <2>5. CASE Leave(t) \/ Crash(t)
    <3>1. Aborted(t) /\ UNCHANGED <<db, homes>> /\ \E more : Adds(more)
      BY <2>5, LeaveStep, CrashStep DEF Restarts
    <3>. QED BY <1>0, <3>1, AbortedAnswers, DeviceOlder, DeviceTaken
  <2>6. ASSUME NEW o \in Owners, Switch(t, o) PROVE TakenInv'
    <3>1. PICK moved \in SUBSET ThreadIds : SwitchesTo(t, o, moved)
      BY <2>6, SwitchStep
    <3>2. /\ Aborted(t) /\ UNCHANGED db /\ (UNCHANGED homes \/ homes' = Joined(moved, o))
          /\ \E more : Adds(more)
      BY <3>1 DEF SwitchesTo
    <3>. QED BY <1>0, <3>2, AbortedAnswers, DeviceOlder, DeviceTaken
  <2>. QED BY <1>2, <2>1, <2>2, <2>3, <2>4, <2>5, <2>6, Zenon DEF Device
<1>3. ASSUME NEW t \in Tabs, Sync(t) PROVE TakenInv'
  <2>1. CASE Send(t)
    <3>1. /\ round'[t].at = "sent" /\ \A v \in Tabs \ {t} : round'[v] = round[v]
          /\ UNCHANGED <<db, outbox, homes, issued>>
      BY <2>1, SendStep
    <3>2. Answers
      BY <3>1 DEF Answers
    <3>. QED BY <1>0, <3>1, <3>2, NothingAdds, DeviceOlder, DeviceTaken
  <2>2. CASE Serve(t)
    BY <1>0, <2>2, ServeTaken
  <2>3. CASE Lose(t)
    <3>1. Aborted(t) /\ UNCHANGED <<db, outbox, homes, issued>>
      BY <2>3, LoseStep
    <3>. QED BY <1>0, <3>1, AbortedAnswers, NothingAdds, DeviceOlder, DeviceTaken
  <2>4. CASE Bury(t)
    BY <1>0, <2>4, BuryTaken
  <2>5. CASE Erase(t)
    BY <1>0, <2>5, EraseTaken
  <2>6. CASE Receive(t)
    <3>1. /\ round'[t].at = "idle" /\ \A v \in Tabs \ {t} : round'[v] = round[v]
          /\ UNCHANGED <<db, outbox, homes, issued>>
      BY <2>6, ReceiveStep
    <3>2. Answers
      BY <3>1 DEF Answers
    <3>. QED BY <1>0, <3>1, <3>2, NothingAdds, DeviceOlder, DeviceTaken
  <2>. QED BY <1>3, <2>1, <2>2, <2>3, <2>4, <2>5, <2>6 DEF Sync
<1>4. ASSUME NEW stray \in strays, ServeStray(stray) PROVE TakenInv'
  <2>1. /\ Serves(stray.owner, stray.batch)
        /\ UNCHANGED <<outbox, round, homes, issued>>
    BY <1>4, ServeStrayStep
  <2>2. Older /\ Answers
    BY <2>1, ServedOlder DEF Answers
  <2>. QED BY <1>0, <2>1, <2>2, NothingAdds, DeviceTaken
<1>5. ASSUME NEW a \in Accounts, NEW m \in Mutations, OtherDevice(a, m) PROVE TakenInv'
  <2>1. /\ Serves(a, <<m>>)
        /\ UNCHANGED homes \/ (m.id \notin Minted /\ homes' = Put(homes, m.id, {a}))
        /\ UNCHANGED <<outbox, round, issued>>
    BY <1>5, OtherDeviceStep
  <2>2. Older /\ Answers
    BY <2>1, ServedOlder DEF Answers
  <2>. QED BY <1>0, <2>1, <2>2, NothingAdds, DeviceTaken
<1>6. CASE UNCHANGED vars
  <2>1. UNCHANGED <<db, outbox, round, homes, issued>>
    BY <1>6 DEF vars
  <2>. QED BY <1>0, <2>1, NothingAdds, DeviceOlder, DeviceTaken DEF Answers
<1>. QED BY <1>1, <1>2, <1>3, <1>4, <1>5, <1>6, Zenon DEF Next

LEMMA TakenInit == Init => TakenInv
<1>. SUFFICES ASSUME Init PROVE TakenInv
  OBVIOUS
<1>1. \A t \in Tabs : round[t].at \notin {"answered", "erased"}
  BY DEF Init, NoRound
<1>2. \A a \in Accounts : issued[a] = {}
  BY DEF Init
<1>3. \A a \in Accounts : Settled(a) = {}
  BY <1>1, <1>2 DEF Settled
<1>. QED BY <1>3 DEF TakenInv, Init

\* What has left the outbox of an account that keeps within its quota, other than to the
\* dead letters, has been digested as long as no stamp was ahead of the server's clock:
\* sent again, it changes nothing, whatever that clock says then.
THEOREM ChangesDigestedAlways == Spec => []ChangesDigested
<1>1. TypeInv /\ TypeInv' /\ HomeInv /\ TakenInv /\ [Next]_vars => TakenInv'
  BY TakenStep
<1>2. TypeInv /\ TakenInv => ChangesDigested
  <2>. SUFFICES ASSUME TypeInv, TakenInv, ~clamped, NEW a \in Accounts,
                       Cardinality(ThreadsOf(a)) <= ThreadQuota,
                       NEW m \in Sent(a), NEW limit \in Clocks, m.kind # "session.delete"
                PROVE  Round(db[a], <<m>>, limit) = db[a]
    BY DEF ChangesDigested
  <2>1. ThreadsOf(a) = Of(homes, a)
    BY DEF ThreadsOf, Of, Minted
  <2>2. Of(homes, a) \subseteq ThreadIds
    BY DEF TypeInv, Ids, Of, Minted
  <2>3. WithinQuota(Of(homes, a))
    BY <2>1, <2>2, RowsAssumption, SmallerSet DEF WithinQuota
  <2>4. m \in Mutations /\ db[a] \in Account
    BY DEF TypeInv, Queues, Sent
  <2>5. Taken(db[a], m)
    BY <2>3 DEF TakenInv, Settled, Sent
  <2>. QED BY <2>4, <2>5, RoundSkips
<1>. QED BY <1>1, <1>2, TakenInit, TypedAlways, HomeAlways, PTL DEF Spec
=============================================================================
