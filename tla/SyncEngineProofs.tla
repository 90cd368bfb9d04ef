--------------------------- MODULE SyncEngineProofs ---------------------------
(***************************************************************************)
(* What holds of the sync engine and the outbox behind it, for every       *)
(* number of domains, mutations and faults and every batch size: nothing   *)
(* keeps running without a domain, no request for a flush is forgotten,    *)
(* mutations reach the server in order, none is lost, and the dead letters *)
(* are paid for.                                                           *)
(*                                                                         *)
(* The argument about the outbox rests on what a batch under way is: the   *)
(* head of its queue, as long as the drain awaits the server, the removal  *)
(* or the burial.  Enqueueing adds at the other end, nothing else takes    *)
(* mutations out, and none is queued twice; so what leaves the queue is    *)
(* that head.                                                              *)
(***************************************************************************)
EXTENDS SyncEngine, SequenceTheorems, FiniteSetTheorems, TLAPS

-----------------------------------------------------------------------------
(* The registered domains. *)

LEMMA TargetsRegistered ==
    ASSUME NEW f, NEW ds \in Seq(Domains)
    PROVE  /\ ds = <<>> => Targets(f, ds) = <<>>
           /\ f = All => Targets(f, ds) = ds
           /\ f # All => ToSet(Targets(f, ds)) = ToSet(ds) \cap {f}
<1>1. ds = <<>> => ToSet(ds) = {}
  BY DEF ToSet
<1>2. ToSet(<<f>>) = {f} /\ ToSet(<<>>) = {}
  BY DEF ToSet
<1> QED
  BY <1>1, <1>2 DEF Targets

LEMMA Registering ==
    ASSUME NEW ds \in Seq(Domains), NEW d \in Domains
    PROVE  /\ Append(ds, d) \in Seq(Domains)
           /\ Append(ds, d) # <<>>
           /\ ToSet(ds) \subseteq ToSet(Append(ds, d))
<1>1. /\ Append(ds, d) \in Seq(Domains)
      /\ Len(Append(ds, d)) = Len(ds) + 1
      /\ \A i \in 1..Len(ds) : Append(ds, d)[i] = ds[i]
  BY AppendProperties
<1>2. DOMAIN ds = 1..Len(ds) /\ DOMAIN Append(ds, d) = 1..(Len(ds) + 1) /\ Len(ds) \in Nat
  BY <1>1, LenProperties
<1>3. Append(ds, d) # <<>>
  BY <1>1, <1>2
<1>4. ToSet(ds) \subseteq ToSet(Append(ds, d))
  BY <1>1, <1>2 DEF ToSet
<1> QED
  BY <1>1, <1>3, <1>4

\* Taking one domain off the list keeps the others on it.
LEMMA Unregistering ==
    ASSUME NEW ds \in Seq(Domains), NEW i \in DOMAIN ds
    PROVE  /\ RemoveAt(ds, i) \in Seq(Domains)
           /\ ToSet(ds) \ {ds[i]} \subseteq ToSet(RemoveAt(ds, i))
<1> DEFINE n == Len(ds)
           before == SubSeq(ds, 1, i - 1)
           after == SubSeq(ds, i + 1, n)
<1>1. n \in Nat /\ i \in 1..n /\ DOMAIN ds = 1..n
  BY LenProperties
<1>2. /\ before \in Seq(Domains) /\ Len(before) = i - 1
      /\ \A j \in 1..(i - 1) : before[j] = ds[j]
  BY <1>1, SubSeqProperties
<1>3. /\ after \in Seq(Domains) /\ Len(after) = n - i
      /\ \A j \in 1..(n - i) : after[j] = ds[i + j]
  BY <1>1, SubSeqProperties
<1> DEFINE rest == before \o after
<1>4. /\ rest \in Seq(Domains) /\ Len(rest) = n - 1
      /\ \A j \in 1..(i - 1) : rest[j] = ds[j]
      /\ \A j \in i..(n - 1) : rest[j] = ds[j + 1]
  <2> HIDE DEF before, after, n
  <2>1. /\ before \o after \in Seq(Domains)
        /\ Len(before \o after) = Len(before) + Len(after)
        /\ \A k \in 1..(Len(before) + Len(after)) :
              (before \o after)[k] = IF k <= Len(before) THEN before[k]
                                      ELSE after[k - Len(before)]
    BY <1>2, <1>3, ConcatProperties
  <2>2. Len(rest) = n - 1 /\ i - 1 + (n - i) = n - 1
    BY <1>1, <1>2, <1>3, <2>1
  <2>3. ASSUME NEW j \in 1..(i - 1) PROVE rest[j] = ds[j]
    BY <1>1, <1>2, <1>3, <2>1
  <2>4. ASSUME NEW j \in i..(n - 1) PROVE rest[j] = ds[j + 1]
    <3>1. j \in 1..(n - 1) /\ ~(j <= i - 1) /\ j - (i - 1) \in 1..(n - i)
      BY <1>1
    <3>2. rest[j] = after[j - (i - 1)]
      <4>1. j \in 1..(Len(before) + Len(after)) /\ ~(j <= Len(before))
        BY <1>1, <1>2, <1>3, <3>1
      <4>2. j - Len(before) = j - (i - 1)
        BY <1>2
      <4>. QED BY <2>1, <4>1, <4>2
    <3>3. after[j - (i - 1)] = ds[i + (j - (i - 1))] /\ i + (j - (i - 1)) = j + 1
      BY <1>1, <1>3, <3>1
    <3> QED
      BY <3>2, <3>3
  <2> QED
    BY <2>1, <2>2, <2>3, <2>4
<1>5. DOMAIN rest = 1..(n - 1)
  BY <1>4, LenProperties
<1> HIDE DEF before, after, rest, n
<1>6. ASSUME NEW j \in 1..n, j # i PROVE ds[j] \in ToSet(rest)
  <2>1. CASE j < i
    BY <1>1, <1>4, <1>5, <2>1 DEF ToSet
  <2>2. CASE j > i
    <3>1. j - 1 \in i..(n - 1) /\ j - 1 \in DOMAIN rest
      BY <1>1, <1>5, <2>2
    <3>2. rest[j - 1] = ds[j]
      BY <1>1, <1>4, <3>1
    <3> QED
      BY <3>1, <3>2 DEF ToSet
  <2> QED
    BY <1>1, <1>6, <2>1, <2>2
<1>7. ToSet(ds) \ {ds[i]} \subseteq ToSet(rest)
  BY <1>1, <1>6 DEF ToSet
<1>8. rest = RemoveAt(ds, i)
  BY DEF rest, before, after, n, RemoveAt
<1> QED
  BY <1>4, <1>7, <1>8

-----------------------------------------------------------------------------
(* Nothing runs without a domain. *)

QuietInv == domains \in Seq(Domains) /\ QuietWithoutDomains

LEMMA FlushWithoutDomains ==
    ASSUME NEW f, NEW ds \in Seq(Domains), NEW r, NEW fl, NEW more,
           Flush(f, ds, r, fl, more), ds = <<>>
    PROVE  retry' = r
<1>1. Targets(f, ds) = <<>>
  BY TargetsRegistered
<1> QED
  BY <1>1 DEF Flush, StartPass

\* The end of a failing drain arms the retry for registered domains only.
LEMMA FinishWithoutDomains ==
    ASSUME NEW outcome, NEW e, NEW rj,
           Finish(outcome, e, rj), domains = <<>>, ~retry
    PROVE  ~retry'
BY DEF Finish, Armed

DrainStep == \/ Take \/ TakeFails
             \/ SyncOk \/ SyncFails \/ SyncPaused \/ SyncRejected
             \/ Bury \/ BuryFails \/ RemoveBatch \/ RemoveFails

\* A step of a drain ends the drain, or leaves the retry timer alone.
LEMMA DrainStepTimer ==
    ASSUME DrainStep
    PROVE  /\ DrainUnchanged
           /\ \/ retry' = retry
              \/ \E outcome, e, rj : Finish(outcome, e, rj)
<1>1. CASE Take
  BY <1>1 DEF Take, Paused
<1>2. CASE TakeFails
  BY <1>2 DEF TakeFails, Failed
<1>3. CASE SyncOk
  BY <1>3 DEF SyncOk
<1>4. CASE SyncFails
  BY <1>4 DEF SyncFails
<1>5. CASE SyncPaused
  BY <1>5 DEF SyncPaused
<1>6. CASE SyncRejected
  BY <1>6 DEF SyncRejected
<1>7. CASE Bury
  BY <1>7 DEF Bury
<1>8. CASE BuryFails
  BY <1>8 DEF BuryFails
<1>9. CASE RemoveBatch
  BY <1>9 DEF RemoveBatch
<1>10. CASE RemoveFails
  BY <1>10 DEF RemoveFails, Failed
<1> QED
  BY <1>1, <1>2, <1>3, <1>4, <1>5, <1>6, <1>7, <1>8, <1>9, <1>10 DEF DrainStep

LEMMA QuietStep ==
    ASSUME QuietInv, [Next]_vars
    PROVE  QuietInv'
<1> USE DEF QuietInv, QuietWithoutDomains
<1>1. ASSUME NEW d \in Domains, NEW m \in Mutations, Enqueue(d, m)
      PROVE  QuietInv'
  BY <1>1 DEF Enqueue
<1>2. ASSUME NEW d \in Domains, BeginSync(d)
      PROVE  QuietInv'
  BY <1>2, Registering DEF BeginSync
<1>3. ASSUME NEW d \in Domains, Unregister(d)
      PROVE  QuietInv'
  <2> DEFINE i == CHOOSE i \in DOMAIN domains : domains[i] = d
  <2>1. i \in DOMAIN domains
    BY <1>3 DEF Unregister, Registered, ToSet
  <2>2. domains' \in Seq(Domains)
    BY <1>3, <2>1, Unregistering DEF Unregister
  <2>3. domains' = <<>> => ~retry' /\ ~wired'
    BY <1>3 DEF Unregister
  <2> QED
    BY <2>2, <2>3
<1>4. ASSUME NEW d \in Domains, FlushDomain(d)
      PROVE  QuietInv'
  <2>1. domains # <<>>
    BY <1>4 DEF FlushDomain, Registered, ToSet
  <2> QED
    BY <1>4, <2>1 DEF FlushDomain
<1>5. CASE DebounceFires
  BY <1>5, FlushWithoutDomains DEF DebounceFires
<1>6. CASE RetryFires
  BY <1>6 DEF RetryFires
<1>7. CASE Periodic
  BY <1>7 DEF Periodic
<1>8. CASE Connectivity
  BY <1>8 DEF Connectivity
<1>9. CASE GoOffline \/ GoOnline
  BY <1>9 DEF GoOffline, GoOnline, timers
<1>10. CASE Reload
  BY <1>10, EmptySeq DEF Reload
<1>11. CASE DrainStep
  <2>1. domains' = domains /\ wired' = wired
    BY <1>11, DrainStepTimer DEF DrainUnchanged
  <2>2. domains = <<>> => ~retry'
    BY <1>11, DrainStepTimer, FinishWithoutDomains
  <2> QED
    BY <2>1, <2>2
<1>12. CASE EndPass
  <2>1. domains' = domains /\ wired' = wired
    BY <1>12 DEF EndPass
  <2>2. CASE coalesced
    <3>1. domains = <<>> => retry' = retry
      BY <1>12, <2>2, TargetsRegistered DEF EndPass, StartPass
    <3> QED
      BY <2>1, <3>1
  <2>3. CASE ~coalesced
    BY <1>12, <2>1, <2>3 DEF EndPass
  <2> QED
    BY <2>2, <2>3
<1>13. CASE UNCHANGED vars
  BY <1>13 DEF vars, timers
<1> QED
  BY <1>1, <1>2, <1>3, <1>4, <1>5, <1>6, <1>7, <1>8, <1>9, <1>10, <1>11, <1>12, <1>13
     DEF Next, DrainStep

\* Without a registered domain no retry timer is armed and no trigger is wired,
\* for any number of domains: a drain that fails after its account has signed
\* out does not start the retry cycle again (EC-30, #scheduleRetry).
THEOREM QuietAlways == Spec => []QuietWithoutDomains
<1>1. Init => QuietInv
  BY EmptySeq DEF Init, QuietInv, QuietWithoutDomains
<1>2. QuietInv /\ [Next]_vars => QuietInv'
  BY QuietStep
<1>3. QuietInv => QuietWithoutDomains
  BY DEF QuietInv
<1> QED
  BY <1>1, <1>2, <1>3, PTL DEF Spec

-----------------------------------------------------------------------------
(* No request for a flush is forgotten. *)

\* Only registered domains are owed a flush, and the filter of the pass to come
\* never excludes what the running pass is for.
FlushInv ==
    /\ domains \in Seq(Domains)
    /\ "at" \in DOMAIN pass
    /\ owed \subseteq Registered
    /\ pass.at # "idle" => again \in {All, active}
    /\ NoFlushForgotten

LEMMA PassStates ==
    /\ Idle.at = "idle" /\ "at" \in DOMAIN Idle
    /\ Resync.at = "resync" /\ "at" \in DOMAIN Resync
    /\ \A todo : Drain(todo).at = "take" /\ "at" \in DOMAIN Drain(todo)
BY DEF Idle, Resync, Drain

LEMMA StartPassState ==
    ASSUME NEW f, NEW ds, NEW r, NEW fl, NEW more,
           StartPass(f, ds, r, fl, more)
    PROVE  /\ pass'.at # "idle" /\ "at" \in DOMAIN pass'
           /\ coalesced' = more /\ active' = f
           /\ again' = IF more THEN All ELSE f
           /\ owed' = (owed \ ToSet(Targets(f, ds)))
                        \cup (IF more THEN ToSet(ds) ELSE {})
BY PassStates DEF StartPass

\* Asking for a flush, in every caller: ds are the domains it leaves registered.
LEMMA FlushRemembered ==
    ASSUME FlushInv, NEW f, NEW ds \in Seq(Domains), NEW r, NEW fl,
           NEW more \in BOOLEAN, Registered \subseteq ToSet(ds),
           Flush(f, ds, r, fl, more), domains' = ds
    PROVE  FlushInv'
<1> USE DEF FlushInv, NoFlushForgotten, Registered
<1>1. ToSet(Targets(f, ds)) \subseteq ToSet(ds)
  BY TargetsRegistered
<1>2. CASE pass.at = "idle"
  <2>1. owed = {}
    BY <1>2
  <2>2. StartPass(f, ds, r, fl, more)
    BY <1>2 DEF Flush
  <2> QED
    BY <2>1, <2>2, StartPassState
<1>3. CASE pass.at # "idle"
  <2>1. /\ coalesced' = TRUE /\ active' = active /\ pass' = pass
        /\ again' = Widened(f, more)
        /\ owed' = owed \cup ToSet(Targets(f, ds))
                     \cup (IF more THEN ToSet(ds) ELSE {})
    BY <1>3 DEF Flush
  <2>2. again' \in {All, again} /\ again' \in {All, active}
    BY <1>3, <2>1 DEF Widened
  <2>3. ASSUME NEW d \in owed' PROVE again' \in {All, d}
    <3>1. CASE d \in owed
      BY <2>2, <3>1
    <3>2. CASE more \/ f # active
      BY <2>1, <3>2 DEF Widened
    <3>3. CASE ~more /\ f = active /\ d \in ToSet(Targets(f, ds))
      <4>1. f = All \/ d = f
        BY <3>3, TargetsRegistered
      <4> QED
        BY <2>2, <3>3, <4>1
    <3> QED
      BY <2>1, <3>1, <3>2, <3>3
  <2>4. owed' \subseteq ToSet(ds)
    BY <1>1, <2>1
  <2> QED
    BY <1>3, <2>1, <2>2, <2>3, <2>4
<1> QED
  BY <1>2, <1>3

LEMMA FinishGoesOn ==
    ASSUME NEW outcome, NEW e, NEW rj, Finish(outcome, e, rj)
    PROVE  pass'.at # "idle" /\ "at" \in DOMAIN pass'
BY PassStates DEF Finish, Drain, Idle, Resync

\* A step of a drain is within a pass and stays in it.
LEMMA DrainStepPass ==
    ASSUME DrainStep, "at" \in DOMAIN pass
    PROVE  /\ DrainUnchanged
           /\ pass.at # "idle"
           /\ pass'.at # "idle" /\ "at" \in DOMAIN pass'
<1>1. CASE Take
  BY <1>1, FinishGoesOn DEF Take, Paused
<1>2. CASE TakeFails
  BY <1>2, FinishGoesOn DEF TakeFails, Failed
<1>3. CASE SyncOk
  BY <1>3, FinishGoesOn DEF SyncOk
<1>4. CASE SyncFails
  BY <1>4, FinishGoesOn DEF SyncFails
<1>5. CASE SyncPaused
  BY <1>5, FinishGoesOn DEF SyncPaused
<1>6. CASE SyncRejected
  BY <1>6, FinishGoesOn DEF SyncRejected
<1>7. CASE Bury
  BY <1>7, FinishGoesOn DEF Bury
<1>8. CASE BuryFails
  BY <1>8, FinishGoesOn DEF BuryFails
<1>9. CASE RemoveBatch
  BY <1>9, FinishGoesOn DEF RemoveBatch
<1>10. CASE RemoveFails
  BY <1>10, FinishGoesOn DEF RemoveFails, Failed
<1> QED
  BY <1>1, <1>2, <1>3, <1>4, <1>5, <1>6, <1>7, <1>8, <1>9, <1>10 DEF DrainStep

LEMMA FlushStep ==
    ASSUME FlushInv, [Next]_vars
    PROVE  FlushInv'
<1>0. domains \in Seq(Domains) /\ Registered \subseteq ToSet(domains)
  BY DEF FlushInv, Registered
<1>1. ASSUME NEW d \in Domains, NEW m \in Mutations, Enqueue(d, m)
      PROVE  FlushInv'
  BY <1>1 DEF Enqueue, request, FlushInv, NoFlushForgotten, Registered
<1>2. ASSUME NEW d \in Domains, BeginSync(d)
      PROVE  FlushInv'
  <2> DEFINE ds == Append(domains, d)
  <2>1. /\ domains' = ds
        /\ \/ Flush(d, ds, retry, failures, FALSE)
           \/ Flush(All, ds, retry, failures, TRUE)
    BY <1>2 DEF BeginSync
  <2>2. ds \in Seq(Domains) /\ Registered \subseteq ToSet(ds)
    BY <1>0, Registering DEF Registered
  <2> QED
    BY <2>1, <2>2, FlushRemembered
<1>3. ASSUME NEW d \in Domains, Unregister(d)
      PROVE  FlushInv'
  <2> DEFINE i == CHOOSE i \in DOMAIN domains : domains[i] = d
  <2>1. i \in DOMAIN domains /\ domains[i] = d
    BY <1>3 DEF Unregister, Registered, ToSet
  <2>2. domains' \in Seq(Domains) /\ Registered \ {d} \subseteq ToSet(domains')
    BY <1>0, <1>3, <2>1, Unregistering DEF Unregister, Registered
  <2>3. owed' = owed \ {d} /\ UNCHANGED <<coalesced, active, again, pass>>
    BY <1>3 DEF Unregister
  <2> QED
    BY <2>2, <2>3 DEF FlushInv, NoFlushForgotten, Registered
<1>4. ASSUME NEW d \in Domains, FlushDomain(d)
      PROVE  FlushInv'
  BY <1>0, <1>4, FlushRemembered DEF FlushDomain
<1>5. CASE DebounceFires
  BY <1>0, <1>5, FlushRemembered DEF DebounceFires
<1>6. CASE RetryFires
  BY <1>0, <1>6, FlushRemembered DEF RetryFires
<1>7. CASE Periodic
  BY <1>0, <1>7, FlushRemembered DEF Periodic
<1>8. CASE Connectivity
  <2>1. CASE online
    BY <1>0, <1>8, <2>1, FlushRemembered DEF Connectivity
  <2>2. CASE ~online
    BY <1>8, <2>2 DEF Connectivity, request, FlushInv, NoFlushForgotten, Registered
  <2> QED
    BY <2>1, <2>2
<1>9. CASE GoOffline \/ GoOnline
  BY <1>9 DEF GoOffline, GoOnline, request, FlushInv, NoFlushForgotten, Registered
<1>10. CASE Reload
  BY <1>10, EmptySeq, PassStates DEF Reload, FlushInv, NoFlushForgotten
<1>11. CASE DrainStep
  BY <1>11, DrainStepPass
     DEF DrainUnchanged, request, FlushInv, NoFlushForgotten, Registered
<1>12. CASE EndPass
  <2>1. domains' = domains /\ pass.at # "idle"
    BY <1>12 DEF EndPass
  <2>2. CASE coalesced
    <3>1. StartPass(again, domains, retry, failures, FALSE)
      BY <1>12, <2>2 DEF EndPass
    <3>2. owed \subseteq ToSet(Targets(again, domains))
      BY <1>0, TargetsRegistered DEF FlushInv, NoFlushForgotten, Registered
    <3>3. owed' = {}
      BY <3>1, <3>2, StartPassState
    <3> QED
      BY <2>1, <3>1, <3>3, StartPassState DEF FlushInv, NoFlushForgotten
  <2>3. CASE ~coalesced
    BY <1>12, <2>1, <2>3, PassStates
       DEF EndPass, request, FlushInv, NoFlushForgotten, Registered
  <2> QED
    BY <2>2, <2>3
<1>13. CASE UNCHANGED vars
  BY <1>13 DEF vars, request, FlushInv, NoFlushForgotten, Registered
<1> QED
  BY <1>1, <1>2, <1>3, <1>4, <1>5, <1>6, <1>7, <1>8, <1>9, <1>10, <1>11, <1>12, <1>13
     DEF Next, DrainStep

\* Whoever asks for a flush while one is running gets a later pass whose filter
\* covers the domain asked for, for any number of callers and domains ("concurrent
\* calls coalesce into a later pass", EC-44).
THEOREM FlushesRemembered == Spec => []NoFlushForgotten
<1>1. Init => FlushInv
  BY EmptySeq, PassStates DEF Init, FlushInv, NoFlushForgotten
<1>2. FlushInv /\ [Next]_vars => FlushInv'
  BY FlushStep
<1>3. FlushInv => NoFlushForgotten
  BY DEF FlushInv
<1> QED
  BY <1>1, <1>2, <1>3, PTL DEF Spec

-----------------------------------------------------------------------------
(* Queues. *)

\* Batch b is the head of queue q.
HeadOf(b, q) == Len(b) <= Len(q) /\ \A i \in 1..Len(b) : b[i] = q[i]

Distinct(q) == \A i, j \in DOMAIN q : q[i] = q[j] => i = j

LEMMA Span ==
    ASSUME NEW n \in Nat, NEW l \in Nat, n <= l
    PROVE  Cardinality((n + 1)..l) = l - n
<1>1. Cardinality((n + 1)..l) = IF n + 1 > l THEN 0 ELSE l - (n + 1) + 1
  BY FS_Interval
<1>. QED BY <1>1

\* Erasing the head of a queue leaves the rest in its order.
LEMMA ErasedHead ==
    ASSUME NEW q \in Seq(Mutations), Distinct(q), NEW b \in Seq(Mutations), HeadOf(b, q)
    PROVE  /\ Erased(q, b) \in Seq(Mutations)
           /\ Len(Erased(q, b)) = Len(q) - Len(b)
           /\ \A k \in 1..(Len(q) - Len(b)) : Erased(q, b)[k] = q[k + Len(b)]
<1>. DEFINE n == Len(b)
            l == Len(q)
            kept == {i \in DOMAIN q : q[i] \notin ToSet(b)}
            nth(k) == CHOOSE i \in kept : Cardinality(kept \cap 1..i) = k
<1>1. /\ n \in Nat /\ l \in Nat /\ n <= l
      /\ DOMAIN q = 1..l /\ DOMAIN b = 1..n
  BY LenProperties DEF HeadOf
<1>2. kept = (n + 1)..l
  <2>1. ASSUME NEW i \in 1..n PROVE q[i] \in ToSet(b)
    BY <1>1 DEF ToSet, HeadOf
  <2>2. ASSUME NEW i \in (n + 1)..l, q[i] \in ToSet(b) PROVE FALSE
    <3>1. PICK j \in 1..n : q[i] = b[j]
      BY <1>1, <2>2 DEF ToSet
    <3>2. q[i] = q[j] /\ j \in DOMAIN q /\ i \in DOMAIN q /\ i # j
      BY <1>1, <3>1 DEF HeadOf
    <3>. QED BY <3>2 DEF Distinct
  <2>. QED BY <1>1, <2>1, <2>2
<1>3. Cardinality(kept) = l - n
  BY <1>1, <1>2, Span
<1>4. ASSUME NEW i \in kept PROVE Cardinality(kept \cap 1..i) = i - n
  <2>1. kept \cap 1..i = (n + 1)..i /\ i \in Nat /\ n <= i
    BY <1>1, <1>2
  <2>. HIDE DEF n, kept
  <2>. QED BY <1>1, <2>1, Span
<1>. HIDE DEF kept
<1>5. ASSUME NEW k \in 1..(l - n) PROVE nth(k) = k + n
  <2>1. k + n \in kept
    BY <1>1, <1>2
  <2>2. ASSUME NEW i \in kept PROVE Cardinality(kept \cap 1..i) = k <=> i = k + n
    <3>1. Cardinality(kept \cap 1..i) = i - n
      BY <1>4
    <3>2. i \in Nat /\ k \in Nat
      BY <1>1, <1>2
    <3>. HIDE DEF n
    <3>. QED BY <1>1, <3>1, <3>2
  <2>. QED BY <2>1, <2>2
<1>6. Erased(q, b) = [k \in 1..(l - n) |-> q[nth(k)]]
  BY <1>3 DEF Erased, kept
<1>. HIDE DEF nth
<1>7. \A k \in 1..(l - n) : q[nth(k)] \in Mutations /\ q[nth(k)] = q[k + n]
  BY <1>1, <1>5, ElementOfSeq
<1>8. Erased(q, b) = [k \in 1..(l - n) |-> q[k + n]]
  BY <1>6, <1>7
<1>9. l - n \in Nat /\ \A k \in 1..(l - n) : q[k + n] \in Mutations
  BY <1>1, <1>7
<1>. QED BY <1>8, <1>9, IsASeq, LenProperties

-----------------------------------------------------------------------------
(* Types. *)

Draining == pass.at \in {"take", "sync", "remove", "bury"}

Pass == [at : Step, todo : Seq(Domains), batch : Seq(Mutations),
         pushed : BOOLEAN, failed : BOOLEAN, drained : BOOLEAN]

\* A drain has a domain to drain.
Typed == /\ TypeOK /\ pass \in Pass
         /\ Draining => pass.todo # <<>>

\* What a flush, or the end of a drain, may write.
FlowTyped == /\ pass \in Pass /\ (Draining => pass.todo # <<>>)
             /\ failures \in [Domains -> 0..MaxFailures]
             /\ phase \in {"idle", "syncing", "error"} /\ error \in BOOLEAN /\ retry \in BOOLEAN
RequestTyped == /\ coalesced \in BOOLEAN
                /\ active \in Domains \cup {All} /\ again \in Domains \cup {All}
                /\ gone \subseteq Domains /\ owed \subseteq Domains

\* No drain awaits an answer.
Resting == pass.at \notin {"sync", "remove", "bury"}

LEMMA SeqRange == ASSUME NEW S, NEW q \in Seq(S) PROVE ToSet(q) \subseteq S
BY ElementOfSeq, LenProperties DEF ToSet

LEMMA Growing == ASSUME NEW n \in 0..MaxFailures PROVE Grow(n) \in 0..MaxFailures
BY EngineAssumption DEF Grow

LEMMA TargetsTyped ==
    ASSUME NEW f, NEW ds \in Seq(Domains) PROVE Targets(f, ds) \in Seq(Domains)
<1>1. CASE f = All
  BY <1>1 DEF Targets
<1>2. CASE f # All /\ f \in ToSet(ds)
  BY <1>2, SeqRange DEF Targets
<1>3. CASE f # All /\ f \notin ToSet(ds)
  BY <1>3, EmptySeq DEF Targets
<1>. QED BY <1>1, <1>2, <1>3

LEMMA Passes == /\ Resync \in Pass /\ Idle \in Pass
                /\ Resync.at = "resync" /\ Idle.at = "idle"
                /\ \A todo \in Seq(Domains) :
                      /\ Drain(todo) \in Pass
                      /\ Drain(todo).at = "take" /\ Drain(todo).todo = todo
BY EmptySeq DEF Resync, Idle, Drain, Pass, Step

LEMMA StartPassTyped ==
    ASSUME Typed, NEW f \in Domains \cup {All}, NEW ds \in Seq(Domains), NEW r \in BOOLEAN,
           NEW fl \in [Domains -> 0..MaxFailures], NEW more \in BOOLEAN,
           StartPass(f, ds, r, fl, more)
    PROVE  FlowTyped' /\ RequestTyped' /\ Resting'
<1>. DEFINE targets == Targets(f, ds)
<1>1. targets \in Seq(Domains) /\ ToSet(targets) \subseteq Domains /\ ToSet(ds) \subseteq Domains
  BY TargetsTyped, SeqRange
<1>2. RequestTyped'
  BY <1>1 DEF StartPass, RequestTyped, Typed, TypeOK
<1>3. phase \in {"idle", "syncing", "error"} /\ error \in BOOLEAN
  BY DEF Typed, TypeOK
<1>4. [d \in Domains |-> IF d \in ToSet(targets) THEN Grow(fl[d]) ELSE fl[d]]
         \in [Domains -> 0..MaxFailures]
  BY Growing
<1>. HIDE DEF targets
<1>5. \/ pass' = Resync /\ retry' = r /\ failures' = fl /\ UNCHANGED status
      \/ /\ pass' = Resync /\ retry' = TRUE
         /\ failures' = [d \in Domains |-> IF d \in ToSet(targets) THEN Grow(fl[d]) ELSE fl[d]]
         /\ phase' = "error" /\ error' = TRUE
      \/ /\ targets # <<>> /\ pass' = Drain(targets)
         /\ retry' = FALSE /\ failures' = fl /\ phase' = "syncing" /\ UNCHANGED error
  BY DEF StartPass, targets
<1>6. pass' \in Pass /\ pass'.at \in {"resync", "take"} /\ (pass'.at = "take" => pass'.todo # <<>>)
  BY <1>1, <1>5, Passes
<1>7. FlowTyped'
  BY <1>3, <1>4, <1>5, <1>6 DEF FlowTyped, Draining, status
<1>. QED BY <1>2, <1>6, <1>7 DEF Resting

LEMMA FlushTyped ==
    ASSUME Typed, NEW f \in Domains \cup {All}, NEW ds \in Seq(Domains), NEW r \in BOOLEAN,
           NEW fl \in [Domains -> 0..MaxFailures], NEW more \in BOOLEAN,
           Flush(f, ds, r, fl, more)
    PROVE  FlowTyped' /\ RequestTyped' /\ (pass' = pass \/ Resting')
<1>1. CASE pass.at = "idle"
  BY <1>1, StartPassTyped DEF Flush
<1>2. CASE pass.at # "idle"
  <2>1. ToSet(Targets(f, ds)) \subseteq Domains /\ ToSet(ds) \subseteq Domains
    BY TargetsTyped, SeqRange
  <2>2. /\ coalesced' = TRUE /\ again' \in {All, again}
        /\ owed' \subseteq owed \cup ToSet(Targets(f, ds)) \cup ToSet(ds)
        /\ retry' = r /\ failures' = fl /\ UNCHANGED <<active, pass, gone, phase, error>>
    BY <1>2 DEF Flush, Widened, status
  <2>3. RequestTyped'
    BY <2>1, <2>2 DEF RequestTyped, Typed, TypeOK
  <2>4. FlowTyped'
    BY <2>2 DEF FlowTyped, Draining, Typed, TypeOK
  <2>. QED BY <2>2, <2>3, <2>4
<1>. QED BY <1>1, <1>2

LEMMA FinishTyped ==
    ASSUME Typed, Draining, NEW outcome, NEW e \in BOOLEAN,
           NEW rj \in [Domains -> 0..Rejections], Finish(outcome, e, rj)
    PROVE  /\ FlowTyped' /\ Resting'
           /\ rejections' \in [Domains -> 0..Rejections]
           /\ \A d \in Domains : rejections'[d] <= rj[d]
<1>. DEFINE known == ~Aborted
            bad   == pass.failed \/ (known /\ outcome = "failed")
            good  == pass.drained \/ (known /\ outcome = "drained")
            rest  == Tail(pass.todo)
<1>1. pass \in Pass /\ pass.todo \in Seq(Domains) /\ pass.todo # <<>>
      /\ pass.failed \in BOOLEAN /\ pass.drained \in BOOLEAN
  BY DEF Typed, Pass
<1>2. rest \in Seq(Domains) /\ Current \in Domains
  BY <1>1, HeadTailProperties DEF Current
<1>3. bad \in BOOLEAN /\ good \in BOOLEAN
  BY <1>1
<1>4. failures' \in [Domains -> 0..MaxFailures]
  <2>1. failures \in [Domains -> 0..MaxFailures] /\ 0 \in 0..MaxFailures
    BY EngineAssumption DEF Typed, TypeOK
  <2>2. failures' \in {failures, [failures EXCEPT ![Current] = Grow(failures[Current])],
                       [failures EXCEPT ![Current] = 0]}
    BY <2>1 DEF Finish
  <2>. QED BY <1>2, <2>1, <2>2, Growing
<1>5. rejections' \in {rj, [rj EXCEPT ![Current] = 0]}
  BY DEF Finish
<1>6. 0 \in 0..Rejections
  BY EngineAssumption
<1>7. rejections' \in [Domains -> 0..Rejections] /\ \A d \in Domains : rejections'[d] <= rj[d]
  BY <1>2, <1>5, <1>6, EngineAssumption
<1>. HIDE DEF rest, bad, good
<1>8. \/ /\ rest # <<>>
         /\ pass' = [Drain(rest) EXCEPT !.failed = bad, !.drained = good]
         /\ error' = e /\ UNCHANGED <<phase, retry>>
      \/ /\ pass' = Resync /\ phase' \in {"idle", "error"}
         /\ error' = (e /\ (bad \/ ~good)) /\ retry' = Armed(bad)
  BY DEF Finish, rest, bad, good
<1>9. \/ pass' = Resync
      \/ /\ pass' \in Pass /\ pass'.at = "take" /\ pass'.todo = rest /\ rest # <<>>
  <2>1. ASSUME NEW p \in Pass
        PROVE  LET q == [p EXCEPT !.failed = bad, !.drained = good]
               IN  q \in Pass /\ q.at = p.at /\ q.todo = p.todo
    BY <1>3 DEF Pass
  <2>2. Drain(rest) \in Pass /\ Drain(rest).at = "take" /\ Drain(rest).todo = rest
    BY <1>2, Passes
  <2>. QED BY <1>8, <2>1, <2>2
<1>10. pass' \in Pass /\ Resting' /\ (Draining' => pass'.todo # <<>>)
  BY <1>9, Passes DEF Resting, Draining
<1>11. /\ phase \in {"idle", "syncing", "error"} /\ retry \in BOOLEAN
       /\ Armed(bad) \in BOOLEAN
  BY <1>3 DEF Typed, TypeOK, Armed
<1>12. phase' \in {"idle", "syncing", "error"} /\ error' \in BOOLEAN /\ retry' \in BOOLEAN
  BY <1>3, <1>8, <1>11
<1>. QED BY <1>4, <1>7, <1>10, <1>12 DEF FlowTyped

\* What the stores hold, and what the triggers are.
StoreTyped == /\ outbox \in [Domains -> Seq(Mutations)]
              /\ dead \in [Domains -> SUBSET Mutations]
              /\ served \subseteq Mutations
              /\ rejections \in [Domains -> 0..Rejections]
              /\ verdicts \in [Domains -> Nat]
WiringTyped == /\ domains \in Seq(Domains) /\ online \in BOOLEAN
               /\ debounce \in BOOLEAN /\ wired \in BOOLEAN /\ wasOnline \in BOOLEAN
               /\ faults \in 0..MaxFaults

LEMMA TypedParts ==
    ASSUME Typed PROVE FlowTyped /\ RequestTyped /\ StoreTyped /\ WiringTyped
BY DEF Typed, TypeOK, FlowTyped, RequestTyped, StoreTyped, WiringTyped

LEMMA TypedNext ==
    ASSUME FlowTyped', RequestTyped', StoreTyped', WiringTyped' PROVE Typed'
<1>1. /\ pass'.at \in Step /\ pass'.todo \in Seq(Domains) /\ pass'.batch \in Seq(Mutations)
      /\ {pass'.pushed, pass'.failed, pass'.drained} \subseteq BOOLEAN
  BY DEF FlowTyped, Pass
<1>2. TypeOK'
  BY <1>1, SMTT(20) DEF TypeOK, FlowTyped, RequestTyped, StoreTyped, WiringTyped
<1>. QED BY <1>2 DEF Typed, FlowTyped, Draining

\* A step that leaves the stores alone, and every batch under way as it is.
Elsewhere == /\ UNCHANGED <<outbox, dead, served, verdicts>>
             /\ pass' = pass \/ Resting'
             /\ \A d \in Domains : rejections'[d] <= rejections[d]

\* A request leaves everything but the flow, the request and the triggers.
LEMMA RequestStep ==
    ASSUME Typed, NEW f \in Domains \cup {All}, NEW ds \in Seq(Domains), NEW r \in BOOLEAN,
           NEW fl \in [Domains -> 0..MaxFailures], NEW more \in BOOLEAN,
           Flush(f, ds, r, fl, more), EnvUnchanged, UNCHANGED durable, WiringTyped'
    PROVE  Typed' /\ Elsewhere
<1>1. FlowTyped' /\ RequestTyped' /\ (pass' = pass \/ Resting')
  BY FlushTyped
<1>2. StoreTyped /\ UNCHANGED <<outbox, dead, served, rejections, verdicts>>
  BY TypedParts DEF EnvUnchanged, durable
<1>3. StoreTyped' /\ \A d \in Domains : rejections'[d] <= rejections[d]
  BY <1>2, EngineAssumption DEF StoreTyped
<1>. QED BY <1>1, <1>2, <1>3, TypedNext DEF Elsewhere

LEMMA TriggersTyped ==
    ASSUME Typed, \/ \E d \in Domains : FlushDomain(d)
                  \/ DebounceFires \/ RetryFires \/ Periodic \/ Connectivity
    PROVE  Typed' /\ Elsewhere
<1>1. /\ domains \in Seq(Domains) /\ retry \in BOOLEAN /\ failures \in [Domains -> 0..MaxFailures]
      /\ [d \in Domains |-> 0] \in [Domains -> 0..MaxFailures]
      /\ WiringTyped
  BY TypedParts, EngineAssumption DEF FlowTyped, WiringTyped
<1>2. ASSUME NEW d \in Domains, FlushDomain(d) PROVE Typed' /\ Elsewhere
  <2>1. WiringTyped'
    BY <1>1, <1>2 DEF FlushDomain, WiringTyped, EnvUnchanged
  <2>. QED BY <1>1, <1>2, <2>1, RequestStep DEF FlushDomain
<1>3. CASE DebounceFires
  <2>1. WiringTyped'
    BY <1>1, <1>3 DEF DebounceFires, WiringTyped, EnvUnchanged
  <2>. QED BY <1>1, <1>3, <2>1, RequestStep DEF DebounceFires
<1>4. CASE RetryFires
  <2>1. WiringTyped'
    BY <1>1, <1>4 DEF RetryFires, WiringTyped, EnvUnchanged
  <2>. QED BY <1>1, <1>4, <2>1, RequestStep DEF RetryFires
<1>5. CASE Periodic
  <2>1. WiringTyped'
    BY <1>1, <1>5 DEF Periodic, WiringTyped, EnvUnchanged
  <2>. QED BY <1>1, <1>5, <2>1, RequestStep DEF Periodic
<1>6. CASE Connectivity
  <2>1. WiringTyped'
    BY <1>1, <1>6 DEF Connectivity, WiringTyped, EnvUnchanged
  <2>2. CASE online
    BY <1>1, <1>6, <2>1, <2>2, RequestStep DEF Connectivity
  <2>3. CASE ~online
    <3>1. UNCHANGED <<outbox, dead, served, rejections, verdicts, failures, phase, error, retry,
                      coalesced, active, again, owed, pass, gone>>
      BY <1>6, <2>3 DEF Connectivity, EnvUnchanged, durable, status, request
    <3>2. FlowTyped' /\ RequestTyped' /\ StoreTyped'
      BY <3>1, TypedParts DEF FlowTyped, RequestTyped, StoreTyped, Draining
    <3>3. \A d \in Domains : rejections'[d] <= rejections[d]
      BY <3>1, TypedParts, EngineAssumption DEF StoreTyped
    <3>. QED BY <2>1, <3>1, <3>2, <3>3, TypedNext DEF Elsewhere
  <2>. QED BY <2>2, <2>3
<1>. QED BY <1>2, <1>3, <1>4, <1>5, <1>6

LEMMA BeginSyncTyped ==
    ASSUME Typed, NEW d \in Domains, BeginSync(d) PROVE Typed' /\ Elsewhere
<1>. DEFINE ds == Append(domains, d)
<1>1. /\ retry \in BOOLEAN /\ failures \in [Domains -> 0..MaxFailures] /\ WiringTyped
  BY TypedParts DEF FlowTyped
<1>2. ds \in Seq(Domains)
  BY <1>1, Registering DEF WiringTyped
<1>. HIDE DEF ds
<1>3. /\ domains' = ds /\ wired' = TRUE
      /\ wasOnline' = IF wired THEN wasOnline ELSE online
      /\ Flush(d, ds, retry, failures, FALSE) \/ Flush(All, ds, retry, failures, TRUE)
      /\ EnvUnchanged /\ UNCHANGED durable /\ UNCHANGED <<debounce, faults>>
  BY DEF BeginSync, ds
<1>4. WiringTyped'
  BY <1>1, <1>2, <1>3 DEF WiringTyped, EnvUnchanged
<1>. QED BY <1>1, <1>2, <1>3, <1>4, RequestStep

LEMMA UnregisterTyped ==
    ASSUME Typed, NEW d \in Domains, Unregister(d) PROVE Typed' /\ Elsewhere
<1>. DEFINE i == CHOOSE i \in DOMAIN domains : domains[i] = d
            ds == RemoveAt(domains, i)
<1>1. FlowTyped /\ RequestTyped /\ StoreTyped /\ WiringTyped
  BY TypedParts
<1>2. i \in DOMAIN domains
  <2>1. \E j \in DOMAIN domains : domains[j] = d
    BY DEF Unregister, Registered, ToSet
  <2>. QED BY <2>1
<1>. HIDE DEF i
<1>3. ds \in Seq(Domains)
  BY <1>1, <1>2, Unregistering DEF WiringTyped
<1>. HIDE DEF ds
<1>4. /\ domains' = ds /\ faults < MaxFaults /\ faults' = faults + 1
      /\ failures' = [failures EXCEPT ![d] = 0]
      /\ rejections' = [rejections EXCEPT ![d] = 0]
      /\ gone' \subseteq gone \cup {d} /\ owed' \subseteq owed
      /\ UNCHANGED <<outbox, dead, served, online, verdicts, wasOnline, coalesced,
                     active, again, pass>>
  BY DEF Unregister, Fault, ds, i, status, durable
<1>9. /\ \/ retry' = FALSE /\ phase' = "idle" /\ error' = FALSE
         \/ UNCHANGED <<retry, phase, error>>
      /\ \/ wired' = FALSE /\ debounce' = (debounce /\ ~wired)
         \/ UNCHANGED <<wired, debounce>>
  BY DEF Unregister, status
<1>10. faults' \in 0..MaxFaults
  BY <1>1, <1>4, EngineAssumption DEF WiringTyped
<1>5. WiringTyped'
  BY <1>1, <1>3, <1>4, <1>9, <1>10 DEF WiringTyped
<1>6. StoreTyped' /\ \A c \in Domains : rejections'[c] <= rejections[c]
  BY <1>1, <1>4, EngineAssumption DEF StoreTyped
<1>7. FlowTyped'
  <2>1. failures' \in [Domains -> 0..MaxFailures]
    BY <1>1, <1>4, EngineAssumption DEF FlowTyped
  <2>. QED BY <1>1, <1>4, <1>9, <2>1 DEF FlowTyped, Draining
<1>8. RequestTyped'
  BY <1>1, <1>4 DEF RequestTyped
<1>. QED BY <1>4, <1>5, <1>6, <1>7, <1>8, TypedNext DEF Elsewhere

LEMMA NetworkTyped ==
    ASSUME Typed, GoOffline \/ GoOnline PROVE Typed' /\ Elsewhere
<1>1. FlowTyped /\ RequestTyped /\ StoreTyped /\ WiringTyped
  BY TypedParts
<1>2. /\ online' \in BOOLEAN
      /\ faults' = faults \/ (faults < MaxFaults /\ faults' = faults + 1)
      /\ UNCHANGED <<outbox, dead, served, domains, failures, rejections, verdicts, phase, error,
                     retry, debounce, wired, wasOnline, coalesced, active, again, owed, pass, gone>>
  BY DEF GoOffline, GoOnline, Fault, durable, ledgers, status, timers, request
<1>3. WiringTyped'
  <2>1. faults' \in 0..MaxFaults
    BY <1>1, <1>2, EngineAssumption DEF WiringTyped
  <2>. QED BY <1>1, <1>2, <2>1 DEF WiringTyped
<1>4. StoreTyped' /\ FlowTyped' /\ RequestTyped'
  BY <1>1, <1>2 DEF StoreTyped, FlowTyped, RequestTyped, Draining
<1>5. \A c \in Domains : rejections'[c] <= rejections[c]
  BY <1>1, <1>2, EngineAssumption DEF StoreTyped
<1>. QED BY <1>2, <1>3, <1>4, <1>5, TypedNext DEF Elsewhere

LEMMA EndPassTyped ==
    ASSUME Typed, EndPass PROVE Typed' /\ Elsewhere
<1>1. FlowTyped /\ RequestTyped /\ StoreTyped /\ WiringTyped
  BY TypedParts
<1>2. /\ EnvUnchanged
      /\ UNCHANGED <<outbox, dead, domains, debounce, wired, wasOnline, faults>>
  BY DEF EndPass, durable
<1>3. /\ WiringTyped' /\ StoreTyped'
      /\ \A c \in Domains : rejections'[c] <= rejections[c]
  BY <1>1, <1>2, EngineAssumption DEF WiringTyped, StoreTyped, EnvUnchanged
<1>4. CASE coalesced
  <2>1. StartPass(again, domains, retry, failures, FALSE)
    BY <1>4 DEF EndPass
  <2>2. FlowTyped' /\ RequestTyped' /\ Resting'
    BY <1>1, <2>1, StartPassTyped DEF FlowTyped, RequestTyped, WiringTyped
  <2>. QED BY <1>2, <1>3, <2>2, TypedNext DEF Elsewhere, EnvUnchanged
<1>5. CASE ~coalesced
  <2>1. pass' = Idle /\ gone' = {} /\ UNCHANGED <<failures, phase, error, retry, coalesced, active, again, owed>>
    BY <1>5 DEF EndPass, status, request
  <2>2. FlowTyped' /\ Resting'
    BY <1>1, <2>1, Passes DEF FlowTyped, Draining, Resting
  <2>3. RequestTyped'
    BY <1>1, <2>1 DEF RequestTyped
  <2>. QED BY <1>2, <1>3, <2>2, <2>3, TypedNext DEF Elsewhere, EnvUnchanged
<1>. QED BY <1>4, <1>5

-----------------------------------------------------------------------------
(* The queues and the batch under way. *)

\* No mutation is queued twice, and the server has taken them in order.
Queues == /\ \A d \in Domains : Distinct(outbox[d])
          /\ \A d, e \in Domains : d # e => ToSet(outbox[d]) \cap ToSet(outbox[e]) = {}
          /\ FifoAtServer

\* The batch is the head of its queue from the push to the removal; it is
\* removed after the server took it, and its head is buried after a rejection.
UnderWay ==
    /\ ~Resting => HeadOf(pass.batch, outbox[Current]) /\ Len(pass.batch) <= FlushBatch
    /\ pass.at = "remove" => Accepted(pass.batch) /\ ToSet(pass.batch) \subseteq served
    /\ pass.at = "bury" => ~Accepted(pass.batch)

QueueInv == Typed /\ Queues /\ UnderWay

\* Dead letters that are out of the queue, and those that are not yet.
Evicted(d) == dead[d] \ ToSet(outbox[d])
Copies(d)  == dead[d] \cap ToSet(outbox[d])

\* The only copy is one of the head, and the batches it heads are rejected
\* until it is buried: the mutation at fault is among the first FlushBatch.
CopiesStay ==
    /\ \A d \in Domains :
          Copies(d) # {} =>
             /\ Copies(d) = {outbox[d][1]}
             /\ \E i \in DOMAIN outbox[d] : i <= FlushBatch /\ outbox[d][i] \in Poison
    /\ pass.at \in {"sync", "remove"} /\ Copies(Current) # {} => ~Accepted(pass.batch)

\* A burial under way is paid for already.
DeadInv == /\ \A d \in Domains : IsFiniteSet(dead[d])
           /\ CopiesStay
           /\ pass.at = "bury" =>
                 (Cardinality(Evicted(Current)) + 1) * Rejections <= verdicts[Current]
           /\ DeadLettersPaidFor

LEMMA CurrentTyped ==
    ASSUME Typed, Draining
    PROVE  /\ Current \in Domains /\ outbox[Current] \in Seq(Mutations)
           /\ pass.batch \in Seq(Mutations) /\ pass \in Pass
<1>1. pass \in Pass /\ pass.todo \in Seq(Domains) /\ pass.todo # <<>>
  BY DEF Typed, Pass
<1>2. Current \in Domains
  BY <1>1, HeadTailProperties DEF Current
<1>. QED BY <1>1, <1>2 DEF Pass, Typed, TypeOK

\* The head of a queue holds mutations of that queue.
LEMMA HeadInQueue ==
    ASSUME NEW q \in Seq(Mutations), NEW b \in Seq(Mutations), HeadOf(b, q)
    PROVE  ToSet(b) \subseteq ToSet(q)
BY LenProperties DEF HeadOf, ToSet

\* The server takes the batch under way.
LEMMA ServingHead ==
    ASSUME QueueInv, pass.at = "sync",
           served' = served \cup ToSet(pass.batch), outbox' = outbox
    PROVE  Queues' /\ served' \subseteq Mutations
<1>. DEFINE b == pass.batch
            q == outbox[Current]
<1>1. /\ Current \in Domains /\ q \in Seq(Mutations) /\ b \in Seq(Mutations)
      /\ HeadOf(b, q)
  BY CurrentTyped DEF QueueInv, UnderWay, Resting, Draining
<1>2. /\ Len(b) \in Nat /\ Len(q) \in Nat /\ Len(b) <= Len(q)
      /\ DOMAIN b = 1..Len(b) /\ DOMAIN q = 1..Len(q)
      /\ \A i \in 1..Len(b) : b[i] = q[i]
  BY <1>1, LenProperties DEF HeadOf
<1>3. ToSet(b) \subseteq ToSet(q) /\ ToSet(b) \subseteq Mutations
  BY <1>1, HeadInQueue, SeqRange
<1>. HIDE DEF b, q
<1>4. ASSUME NEW d \in Domains, NEW j \in DOMAIN outbox[d], outbox[d][j] \in served',
             NEW i \in 1..(j - 1)
      PROVE  outbox[d][i] \in served'
  <2>1. CASE outbox[d][j] \in served
    BY <1>4, <2>1 DEF QueueInv, Queues, FifoAtServer
  <2>2. CASE outbox[d][j] \in ToSet(b)
    <3>1. outbox[d][j] \in ToSet(outbox[d]) /\ outbox[d][j] \in ToSet(q)
      BY <1>3, <2>2 DEF ToSet
    <3>2. d = Current
      BY <1>1, <3>1 DEF QueueInv, Queues, q
    <3>3. PICK k \in 1..Len(b) : q[j] = b[k]
      BY <1>2, <2>2, <3>2 DEF ToSet, q
    <3>4. j = k
      <4>1. q[j] = q[k] /\ j \in DOMAIN q /\ k \in DOMAIN q
        BY <1>2, <3>2, <3>3 DEF q
      <4>2. Distinct(q)
        BY <1>1 DEF QueueInv, Queues, q
      <4>. QED BY <4>1, <4>2 DEF Distinct
    <3>5. i \in 1..Len(b) /\ q[i] = b[i]
      BY <1>2, <3>4
    <3>6. q[i] \in ToSet(b)
      BY <1>2, <3>5 DEF ToSet
    <3>. QED BY <3>2, <3>6 DEF b, q
  <2>. QED BY <1>4, <2>1, <2>2 DEF b
<1>5. FifoAtServer'
  BY <1>4 DEF FifoAtServer
<1>6. served \subseteq Mutations
  BY DEF QueueInv, Typed, TypeOK
<1>. QED BY <1>3, <1>5, <1>6 DEF QueueInv, Queues, b

\* A head of the current queue is taken out.
LEMMA ErasingHead ==
    ASSUME QueueInv, ~Resting, NEW b \in Seq(Mutations), HeadOf(b, outbox[Current]),
           outbox' = [outbox EXCEPT ![Current] = Erased(@, b)], served' = served
    PROVE  /\ outbox' \in [Domains -> Seq(Mutations)] /\ Queues'
           /\ ToSet(outbox'[Current]) = ToSet(outbox[Current]) \ ToSet(b)
           /\ \A d \in Domains \ {Current} : outbox'[d] = outbox[d]
<1>. DEFINE c == Current
            q == outbox[c]
            r == Erased(q, b)
            n == Len(b)
            l == Len(q)
<1>1. /\ c \in Domains /\ q \in Seq(Mutations) /\ Distinct(q) /\ HeadOf(b, q)
      /\ outbox \in [Domains -> Seq(Mutations)]
  BY CurrentTyped DEF QueueInv, Queues, Resting, Draining, Typed, TypeOK
<1>2. /\ r \in Seq(Mutations) /\ Len(r) = l - n
      /\ \A k \in 1..(l - n) : r[k] = q[k + n]
  BY <1>1, ErasedHead
<1>3. /\ n \in Nat /\ l \in Nat /\ n <= l
      /\ DOMAIN q = 1..l /\ DOMAIN b = 1..n /\ DOMAIN r = 1..(l - n)
      /\ \A i \in 1..n : b[i] = q[i]
  BY <1>1, <1>2, LenProperties DEF HeadOf
<1>. HIDE DEF c, q, r, n, l
<1>4. outbox' = [outbox EXCEPT ![c] = r]
  BY DEF c, q, r
<1>5. /\ outbox' \in [Domains -> Seq(Mutations)] /\ outbox'[c] = r
      /\ \A d \in Domains \ {c} : outbox'[d] = outbox[d]
  BY <1>1, <1>2, <1>4
<1>6. Distinct(r)
  <2>. SUFFICES ASSUME NEW i \in 1..(l - n), NEW j \in 1..(l - n), r[i] = r[j] PROVE i = j
    BY <1>3 DEF Distinct
  <2>1. i + n \in DOMAIN q /\ j + n \in DOMAIN q /\ q[i + n] = q[j + n]
    BY <1>2, <1>3
  <2>2. i + n = j + n
    BY <1>1, <2>1 DEF Distinct
  <2>. QED BY <1>3, <2>2
<1>7. ToSet(r) = ToSet(q) \ ToSet(b)
  <2>1. ASSUME NEW x \in ToSet(r) PROVE x \in ToSet(q) /\ x \notin ToSet(b)
    <3>1. PICK k \in 1..(l - n) : x = r[k]
      BY <1>3 DEF ToSet
    <3>2. x = q[k + n] /\ k + n \in DOMAIN q
      BY <1>2, <1>3, <3>1
    <3>3. ASSUME NEW i \in 1..n, x = b[i] PROVE FALSE
      <4>1. i \in DOMAIN q /\ q[i] = q[k + n]
        BY <1>3, <3>2, <3>3
      <4>2. i = k + n
        BY <1>1, <3>2, <4>1 DEF Distinct
      <4>. QED BY <1>3, <4>2
    <3>. QED BY <1>3, <3>2, <3>3 DEF ToSet
  <2>2. ASSUME NEW x \in ToSet(q), x \notin ToSet(b) PROVE x \in ToSet(r)
    <3>1. PICK i \in 1..l : x = q[i]
      BY <1>3, <2>2 DEF ToSet
    <3>2. ~(i <= n)
      BY <1>3, <2>2, <3>1 DEF ToSet
    <3>3. i - n \in 1..(l - n) /\ (i - n) + n = i
      BY <1>3, <3>1, <3>2
    <3>4. r[i - n] = x
      BY <1>2, <3>1, <3>3
    <3>. QED BY <1>3, <3>3, <3>4 DEF ToSet
  <2>. QED BY <2>1, <2>2
<1>8. \A d \in Domains : Distinct(outbox'[d])
  BY <1>5, <1>6 DEF QueueInv, Queues
<1>9. \A d, e \in Domains : d # e => ToSet(outbox'[d]) \cap ToSet(outbox'[e]) = {}
  <2>1. \A d \in Domains : ToSet(outbox'[d]) \subseteq ToSet(outbox[d])
    BY <1>5, <1>7 DEF q
  <2>. QED BY <2>1 DEF QueueInv, Queues
<1>10. ASSUME NEW d \in Domains, NEW j \in DOMAIN outbox'[d], outbox'[d][j] \in served',
              NEW i \in 1..(j - 1)
       PROVE  outbox'[d][i] \in served'
  <2>1. CASE d # c
    <3>1. outbox'[d] = outbox[d]
      BY <1>5, <2>1
    <3>. QED BY <1>10, <3>1 DEF QueueInv, Queues, FifoAtServer
  <2>2. CASE d = c
    <3>1. j \in 1..(l - n) /\ i \in 1..(l - n) /\ i < j
      BY <1>3, <1>5, <2>2
    <3>2. outbox'[d][j] = q[j + n] /\ outbox'[d][i] = q[i + n]
      BY <1>2, <1>5, <2>2, <3>1
    <3>3. j + n \in DOMAIN q /\ i + n \in 1..(j + n - 1)
      BY <1>3, <3>1
    <3>4. \A k \in DOMAIN q : q[k] \in served => \A h \in 1..(k - 1) : q[h] \in served
      BY <1>1 DEF QueueInv, Queues, FifoAtServer, q
    <3>5. q[j + n] \in served
      BY <1>10, <3>2
    <3>6. q[i + n] \in served
      BY <1>3, <3>1, <3>3, <3>4, <3>5
    <3>. QED BY <3>2, <3>6
  <2>. QED BY <2>1, <2>2
<1>11. FifoAtServer'
  BY <1>10 DEF FifoAtServer
<1>. QED BY <1>5, <1>7, <1>8, <1>9, <1>11 DEF Queues, c, q

-----------------------------------------------------------------------------
(* One lemma per step: the invariant, and what leaves a queue. *)

\* What leaves a queue has been served, or is a dead letter.
Accounted == \A d \in Domains : \A m \in ToSet(outbox[d]) :
                m \in ToSet(outbox'[d]) \cup dead'[d] \cup served'

LEMMA ElsewhereKeeps ==
    ASSUME QueueInv, Typed', Elsewhere PROVE QueueInv' /\ Accounted
<1>1. UNCHANGED <<outbox, served>> /\ (pass' = pass \/ Resting')
  BY DEF Elsewhere
<1>2. Queues'
  BY <1>1 DEF QueueInv, Queues, FifoAtServer
<1>3. UnderWay'
  <2>1. CASE pass' = pass
    <3>1. pass' = pass /\ Current' = Current
      BY <2>1 DEF Current
    <3>. QED BY <1>1, <3>1 DEF QueueInv, UnderWay, Resting, Accepted
  <2>2. CASE Resting'
    BY <2>2 DEF UnderWay, Resting
  <2>. QED BY <1>1, <2>1, <2>2
<1>4. Accounted
  BY <1>1 DEF Accounted
<1>. QED BY <1>2, <1>3, <1>4 DEF QueueInv

\* A mutation joins the end of a queue.
LEMMA Joining ==
    ASSUME NEW q \in Seq(Mutations), NEW m \in Mutations
    PROVE  /\ Append(q, m) \in Seq(Mutations)
           /\ Len(Append(q, m)) = Len(q) + 1
           /\ \A i \in 1..Len(q) : Append(q, m)[i] = q[i]
           /\ Append(q, m)[Len(q) + 1] = m
           /\ ToSet(Append(q, m)) = ToSet(q) \cup {m}
<1>1. /\ Append(q, m) \in Seq(Mutations)
      /\ Len(Append(q, m)) = Len(q) + 1
      /\ \A i \in 1..Len(q) : Append(q, m)[i] = q[i]
      /\ Append(q, m)[Len(q) + 1] = m
  BY AppendProperties
<1>2. DOMAIN q = 1..Len(q) /\ DOMAIN Append(q, m) = 1..(Len(q) + 1) /\ Len(q) \in Nat
  BY <1>1, LenProperties
<1>3. ToSet(Append(q, m)) = ToSet(q) \cup {m}
  BY <1>1, <1>2 DEF ToSet
<1>. QED BY <1>1, <1>3

LEMMA EnqueueKeeps ==
    ASSUME QueueInv, NEW d \in Domains, NEW m \in Mutations, Enqueue(d, m)
    PROVE  QueueInv' /\ Accounted
<1>. DEFINE q == outbox[d]
            r == Append(q, m)
            n == Len(q)
<1>1. /\ FlowTyped /\ RequestTyped /\ StoreTyped /\ WiringTyped /\ Typed
  BY TypedParts DEF QueueInv
<1>2. /\ q \in Seq(Mutations) /\ r \in Seq(Mutations) /\ n \in Nat
      /\ DOMAIN q = 1..n /\ DOMAIN r = 1..(n + 1)
      /\ (\A i \in 1..n : r[i] = q[i]) /\ r[n + 1] = m
      /\ ToSet(r) = ToSet(q) \cup {m} /\ Len(r) = n + 1
  BY <1>1, Joining, LenProperties DEF StoreTyped
<1>. HIDE DEF q, r, n
<1>3. /\ outbox' = [outbox EXCEPT ![d] = r] /\ debounce' = TRUE
      /\ UNCHANGED <<dead, served, online, domains, failures, rejections, verdicts, phase, error,
                     retry, wired, wasOnline, coalesced, active, again, owed, pass, gone, faults>>
  BY DEF Enqueue, r, q, ledgers, status, request
<1>4. /\ outbox' \in [Domains -> Seq(Mutations)] /\ outbox'[d] = r
      /\ \A e \in Domains \ {d} : outbox'[e] = outbox[e]
  BY <1>1, <1>2, <1>3 DEF StoreTyped
<1>5. /\ m \notin served /\ m \notin ToSet(q)
      /\ \A e \in Domains : m \notin ToSet(outbox[e]) /\ m \notin dead[e]
  BY DEF Enqueue, Minted, q
<1>6. Typed'
  <2>1. StoreTyped' /\ FlowTyped'
    BY <1>1, <1>3, <1>4 DEF StoreTyped, FlowTyped, Draining
  <2>2. RequestTyped' /\ WiringTyped'
    BY <1>1, <1>3 DEF RequestTyped, WiringTyped
  <2>. QED BY <2>1, <2>2, TypedNext
<1>7. Distinct(r)
  <2>1. Distinct(q) /\ \A i \in 1..n : q[i] # m
    BY <1>2, <1>5 DEF QueueInv, Queues, q, ToSet
  <2>. QED BY <1>2, <2>1 DEF Distinct
<1>8. \A c \in Domains : Distinct(outbox'[c])
  BY <1>4, <1>7 DEF QueueInv, Queues
<1>9. \A c, e \in Domains : c # e => ToSet(outbox'[c]) \cap ToSet(outbox'[e]) = {}
  <2>1. ToSet(outbox'[d]) = ToSet(outbox[d]) \cup {m}
    BY <1>2, <1>4 DEF q
  <2>2. \A c \in Domains \ {d} : ToSet(outbox'[c]) = ToSet(outbox[c])
    BY <1>4
  <2>3. \A c, e \in Domains : c # e => ToSet(outbox[c]) \cap ToSet(outbox[e]) = {}
    BY DEF QueueInv, Queues
  <2>. QED BY <1>5, <2>1, <2>2, <2>3
<1>10. ASSUME NEW e \in Domains, NEW j \in DOMAIN outbox'[e], outbox'[e][j] \in served',
              NEW i \in 1..(j - 1)
       PROVE  outbox'[e][i] \in served'
  <2>1. CASE e # d
    <3>1. outbox'[e] = outbox[e] /\ served' = served
      BY <1>3, <1>4, <2>1
    <3>. QED BY <1>10, <3>1 DEF QueueInv, Queues, FifoAtServer
  <2>2. CASE e = d
    <3>1. j \in 1..(n + 1) /\ r[j] \in served
      BY <1>2, <1>3, <1>4, <1>10, <2>2
    <3>2. j # n + 1
      BY <1>2, <1>5, <3>1
    <3>3. j \in DOMAIN q /\ i \in 1..n /\ q[j] \in served
      BY <1>2, <3>1, <3>2
    <3>4. q[i] \in served
      BY <3>3 DEF QueueInv, Queues, FifoAtServer, q
    <3>. QED BY <1>2, <1>3, <1>4, <2>2, <3>3, <3>4
  <2>. QED BY <2>1, <2>2
<1>11. Queues'
  BY <1>8, <1>9, <1>10 DEF Queues, FifoAtServer
<1>12. UnderWay'
  <2>1. pass' = pass /\ Current' = Current /\ served' = served
    BY <1>3 DEF Current
  <2>2. ASSUME ~Resting PROVE HeadOf(pass.batch, outbox'[Current])
    <3>1. /\ HeadOf(pass.batch, outbox[Current]) /\ Current \in Domains
          /\ Len(pass.batch) \in Nat
      BY <1>1, <2>2, CurrentTyped, LenProperties DEF QueueInv, UnderWay, Resting, Draining
    <3>2. CASE Current # d
      BY <1>4, <3>1, <3>2
    <3>3. CASE Current = d
      <4>1. /\ Len(pass.batch) <= n
            /\ \A i \in 1..Len(pass.batch) : pass.batch[i] = q[i] /\ i \in 1..n
        BY <1>2, <3>1, <3>3 DEF HeadOf, q, n
      <4>2. Len(pass.batch) <= Len(r) /\ \A i \in 1..Len(pass.batch) : pass.batch[i] = r[i]
        BY <1>2, <3>1, <4>1
      <4>. QED BY <1>4, <3>3, <4>2 DEF HeadOf
    <3>. QED BY <3>2, <3>3
  <2>. QED BY <2>1, <2>2 DEF QueueInv, UnderWay, Resting, Accepted
<1>13. Accounted
  BY <1>2, <1>4 DEF Accounted, q
<1>. QED BY <1>6, <1>11, <1>12, <1>13 DEF QueueInv

LEMMA ReloadKeeps ==
    ASSUME QueueInv, Reload PROVE QueueInv' /\ Accounted
<1>1. FlowTyped /\ RequestTyped /\ StoreTyped /\ WiringTyped /\ Typed
  BY TypedParts DEF QueueInv
<1>2. /\ faults < MaxFaults /\ faults' = faults + 1
      /\ domains' = <<>> /\ pass' = Idle /\ gone' = {} /\ owed' = {}
      /\ failures' = [d \in Domains |-> 0] /\ rejections' = [d \in Domains |-> 0]
      /\ phase' = "idle" /\ error' = FALSE /\ retry' = FALSE
      /\ debounce' = FALSE /\ wired' = FALSE /\ wasOnline' = FALSE
      /\ coalesced' = FALSE /\ active' = All /\ again' = All
      /\ UNCHANGED <<outbox, online, verdicts>>
  BY DEF Reload, Fault
<1>3. FlowTyped' /\ RequestTyped' /\ Resting'
  <2>1. failures' \in [Domains -> 0..MaxFailures]
    BY <1>2, EngineAssumption
  <2>2. FlowTyped' /\ Resting'
    BY <1>2, <2>1, Passes DEF FlowTyped, Draining, Resting
  <2>3. RequestTyped'
    BY <1>2 DEF RequestTyped
  <2>. QED BY <2>2, <2>3
<1>4. WiringTyped'
  <2>1. faults' \in 0..MaxFaults
    BY <1>1, <1>2, EngineAssumption DEF WiringTyped
  <2>. QED BY <1>1, <1>2, <2>1, EmptySeq DEF WiringTyped
<1>5. Queues' /\ served' \subseteq Mutations
  <2>1. CASE served' = served
    BY <1>1, <1>2, <2>1 DEF QueueInv, Queues, FifoAtServer, StoreTyped
  <2>2. CASE pass.at = "sync" /\ served' = served \cup ToSet(pass.batch)
    BY <1>2, <2>2, ServingHead
  <2>. QED BY <2>1, <2>2 DEF Reload
<1>6. dead' \in [Domains -> SUBSET Mutations]
  <2>1. CASE dead' = dead
    BY <1>1, <2>1 DEF StoreTyped
  <2>2. CASE pass.at = "bury" /\ dead' = [dead EXCEPT ![Current] = @ \cup {Head(pass.batch)}]
    <3>1. pass.batch \in Seq(Mutations) /\ pass.batch # <<>>
      BY <1>1, <2>2, CurrentTyped DEF QueueInv, UnderWay, Accepted, Draining, ToSet
    <3>2. Head(pass.batch) \in Mutations
      BY <3>1, HeadTailProperties
    <3>. QED BY <1>1, <2>2, <3>2, CurrentTyped DEF StoreTyped, Draining
  <2>. QED BY <2>1, <2>2 DEF Reload, Current
<1>7. StoreTyped'
  BY <1>1, <1>2, <1>5, <1>6, EngineAssumption DEF StoreTyped
<1>8. Typed'
  BY <1>3, <1>4, <1>7, TypedNext
<1>9. UnderWay'
  BY <1>3 DEF UnderWay, Resting
<1>. QED BY <1>2, <1>5, <1>8, <1>9 DEF QueueInv, Accounted

\* What a step of a drain leaves alone.
LEMMA DrainRest ==
    ASSUME Typed, DrainUnchanged, faults' = faults \/ Fault
    PROVE  RequestTyped' /\ WiringTyped'
<1>1. RequestTyped /\ WiringTyped
  BY TypedParts
<1>2. UNCHANGED <<online, domains, debounce, wired, wasOnline, coalesced, active, again, owed, gone>>
  BY DEF DrainUnchanged, request
<1>3. faults' \in 0..MaxFaults
  BY <1>1, EngineAssumption DEF Fault, WiringTyped
<1>. QED BY <1>1, <1>2, <1>3 DEF RequestTyped, WiringTyped

\* A drain that ends leaves no batch under way.
LEMMA FinishKeeps ==
    ASSUME QueueInv, Draining, NEW outcome, NEW e \in BOOLEAN,
           NEW rj \in [Domains -> 0..Rejections], Finish(outcome, e, rj),
           DrainUnchanged, faults' = faults \/ Fault,
           outbox' \in [Domains -> Seq(Mutations)], dead' \in [Domains -> SUBSET Mutations],
           served' \subseteq Mutations, verdicts' \in [Domains -> Nat], Queues'
    PROVE  QueueInv'
<1>1. /\ FlowTyped' /\ Resting'
      /\ rejections' \in [Domains -> 0..Rejections]
  BY FinishTyped DEF QueueInv
<1>2. RequestTyped' /\ WiringTyped'
  BY DrainRest DEF QueueInv
<1>3. StoreTyped'
  BY <1>1 DEF StoreTyped
<1>4. Typed'
  BY <1>1, <1>2, <1>3, TypedNext
<1>5. UnderWay'
  BY <1>1 DEF UnderWay, Resting
<1>. QED BY <1>4, <1>5 DEF QueueInv

\* The same when the stores stay as they are.
LEMMA StopKeeps ==
    ASSUME QueueInv, Draining, NEW outcome, NEW e \in BOOLEAN,
           NEW rj \in [Domains -> 0..Rejections], Finish(outcome, e, rj),
           DrainUnchanged, faults' = faults \/ Fault,
           UNCHANGED <<outbox, dead, served>>, verdicts' \in [Domains -> Nat]
    PROVE  QueueInv' /\ Accounted
<1>1. StoreTyped
  BY TypedParts DEF QueueInv
<1>2. Queues'
  BY DEF QueueInv, Queues, FifoAtServer
<1>3. /\ outbox' \in [Domains -> Seq(Mutations)] /\ dead' \in [Domains -> SUBSET Mutations]
      /\ served' \subseteq Mutations
  BY <1>1 DEF StoreTyped
<1>4. QueueInv'
  BY <1>2, <1>3, FinishKeeps
<1>5. Accounted
  BY DEF Accounted
<1>. QED BY <1>4, <1>5

\* What the end of a drain is given.
LEMMA Givens ==
    ASSUME QueueInv
    PROVE  /\ Typed /\ StoreTyped /\ error \in BOOLEAN
           /\ rejections \in [Domains -> 0..Rejections]
           /\ verdicts \in [Domains -> Nat]
BY TypedParts DEF QueueInv, StoreTyped, FlowTyped

\* A batch is the head of its queue, up to FlushBatch mutations of it.
LEMMA BatchHead ==
    ASSUME NEW q \in Seq(Mutations)
    PROVE  /\ Batch(q) \in Seq(Mutations) /\ HeadOf(Batch(q), q) /\ Len(Batch(q)) <= FlushBatch
           /\ \A i \in DOMAIN q : i <= FlushBatch => q[i] \in ToSet(Batch(q))
<1>. DEFINE n == IF Len(q) < FlushBatch THEN Len(q) ELSE FlushBatch
            batch == SubSeq(q, 1, n)
<1>1. /\ Len(q) \in Nat /\ n \in Nat /\ n <= Len(q) /\ n <= FlushBatch
      /\ DOMAIN q = 1..Len(q)
      /\ \A i \in DOMAIN q : i <= FlushBatch => i \in 1..n
  BY LenProperties, EngineAssumption
<1>2. Batch(q) = batch
  BY DEF Batch
<1>. HIDE DEF n
<1>3. \A i \in 1..n : q[i] \in Mutations
  BY <1>1, ElementOfSeq
<1>4. /\ batch \in Seq(Mutations) /\ Len(batch) = n
      /\ \A i \in 1..n : batch[i] = q[i]
  BY <1>1, <1>3, SubSeqProperties
<1>. HIDE DEF batch
<1>5. DOMAIN batch = 1..n
  BY <1>4, LenProperties
<1>6. \A i \in 1..n : q[i] \in ToSet(batch)
  BY <1>4, <1>5 DEF ToSet
<1>. QED BY <1>1, <1>2, <1>4, <1>6 DEF HeadOf

LEMMA TakeKeeps ==
    ASSUME QueueInv, Take PROVE QueueInv' /\ Accounted
<1>. DEFINE batch == Batch(outbox[Current])
<1>1. /\ pass.at = "take" /\ Draining /\ DrainUnchanged /\ faults' = faults
  BY DEF Take, Draining
<1>2. CASE Aborted
  <2>1. Finish("paused", error, rejections) /\ UNCHANGED <<outbox, dead, served, verdicts>>
    BY <1>2 DEF Take, Paused, durable
  <2>. QED BY <1>1, <2>1, StopKeeps, Givens
<1>3. CASE ~Aborted /\ batch = <<>> /\ pass.pushed
  <2>1. Finish("drained", error, rejections) /\ UNCHANGED <<outbox, dead, served, verdicts>>
    BY <1>3 DEF Take, durable
  <2>. QED BY <1>1, <2>1, StopKeeps, Givens
<1>4. CASE ~Aborted /\ ~(batch = <<>> /\ pass.pushed)
  <2>1. /\ pass' = [pass EXCEPT !.at = "sync", !.batch = batch]
        /\ UNCHANGED <<outbox, dead, served, failures, rejections, verdicts, phase, error, retry>>
    BY <1>4 DEF Take, durable, ledgers, status
  <2>. DEFINE q == outbox[Current]
  <2>2. /\ Current \in Domains /\ q \in Seq(Mutations) /\ pass \in Pass /\ pass.todo # <<>>
    BY <1>1, CurrentTyped DEF QueueInv, Typed
  <2>3. /\ batch \in Seq(Mutations) /\ HeadOf(batch, q) /\ Len(batch) <= FlushBatch
    BY <2>2, BatchHead
  <2>. HIDE DEF batch, q
  <2>4. pass' \in Pass /\ pass'.at = "sync" /\ pass'.batch = batch /\ pass'.todo = pass.todo
    BY <2>1, <2>2, <2>3 DEF Pass, Step
  <2>5. FlowTyped /\ StoreTyped
    BY TypedParts DEF QueueInv
  <2>6. FlowTyped' /\ StoreTyped'
    BY <2>1, <2>2, <2>4, <2>5 DEF FlowTyped, StoreTyped
  <2>7. RequestTyped' /\ WiringTyped'
    BY <1>1, DrainRest DEF QueueInv
  <2>8. Typed'
    BY <2>6, <2>7, TypedNext
  <2>9. UnderWay'
    <3>1. Current' = Current /\ outbox' = outbox
      BY <2>1, <2>4 DEF Current
    <3>. QED BY <2>3, <2>4, <3>1 DEF UnderWay, q
  <2>10. Queues' /\ Accounted
    BY <2>1 DEF QueueInv, Queues, FifoAtServer, Accounted
  <2>. QED BY <2>8, <2>9, <2>10 DEF QueueInv
<1>. QED BY <1>2, <1>3, <1>4

LEMMA FailureKeeps ==
    ASSUME QueueInv, TakeFails \/ RemoveFails PROVE QueueInv' /\ Accounted
<1>1. /\ Draining /\ Fault /\ Finish("failed", TRUE, rejections)
      /\ DrainUnchanged /\ UNCHANGED <<outbox, dead, served, verdicts>>
  BY DEF TakeFails, RemoveFails, Failed, Draining, durable
<1>. QED BY <1>1, StopKeeps, Givens

\* The server has taken the batch, or not, when the drain ends.
LEMMA ServedStopKeeps ==
    ASSUME QueueInv, pass.at = "sync", NEW outcome, NEW e \in BOOLEAN,
           Finish(outcome, e, rejections), DrainUnchanged, faults' = faults \/ Fault,
           served' \in {served, served \cup ToSet(pass.batch)},
           UNCHANGED <<outbox, dead, verdicts>>
    PROVE  QueueInv' /\ Accounted
<1>1. Draining /\ StoreTyped /\ Typed
  BY Givens DEF Draining
<1>2. Queues' /\ served' \subseteq Mutations
  <2>1. CASE served' = served
    BY <1>1, <2>1 DEF QueueInv, Queues, FifoAtServer, StoreTyped
  <2>2. CASE served' = served \cup ToSet(pass.batch)
    BY <2>2, ServingHead
  <2>. QED BY <2>1, <2>2
<1>3. /\ outbox' \in [Domains -> Seq(Mutations)] /\ dead' \in [Domains -> SUBSET Mutations]
      /\ verdicts' \in [Domains -> Nat]
  BY <1>1 DEF StoreTyped
<1>4. QueueInv'
  BY <1>1, <1>2, <1>3, FinishKeeps, Givens
<1>5. Accounted
  BY DEF Accounted
<1>. QED BY <1>4, <1>5

LEMMA SyncStopKeeps ==
    ASSUME QueueInv, SyncFails \/ SyncPaused PROVE QueueInv' /\ Accounted
<1>1. /\ pass.at = "sync" /\ DrainUnchanged /\ UNCHANGED <<outbox, dead, verdicts>>
      /\ served' \in {served, served \cup ToSet(pass.batch)}
      /\ faults' = faults \/ Fault
  BY DEF SyncFails, SyncPaused, durable
<1>2. Finish("paused", error, rejections) \/ Finish("failed", TRUE, rejections)
  BY DEF SyncFails, SyncPaused
<1>. QED BY <1>1, <1>2, ServedStopKeeps, Givens

LEMMA SyncOkKeeps ==
    ASSUME QueueInv, SyncOk PROVE QueueInv' /\ Accounted
<1>1. /\ pass.at = "sync" /\ DrainUnchanged /\ faults' = faults
      /\ Accepted(pass.batch) /\ served' = served \cup ToSet(pass.batch)
      /\ UNCHANGED <<outbox, dead, verdicts>>
  BY DEF SyncOk, durable
<1>2. CASE Finish("paused", error, rejections) \/ Finish("drained", FALSE, rejections)
  BY <1>1, <1>2, ServedStopKeeps, Givens
<1>3. CASE /\ pass' = [pass EXCEPT !.at = "remove"]
           /\ UNCHANGED <<failures, rejections, phase, error, retry>>
  <2>1. /\ FlowTyped /\ StoreTyped /\ Typed /\ pass \in Pass /\ pass.todo # <<>>
    BY <1>1, TypedParts DEF QueueInv, Typed, Draining
  <2>2. pass' \in Pass /\ pass'.at = "remove" /\ pass'.batch = pass.batch /\ pass'.todo = pass.todo
    BY <1>3, <2>1 DEF Pass, Step
  <2>3. Queues' /\ served' \subseteq Mutations
    BY <1>1, ServingHead
  <2>4. FlowTyped' /\ StoreTyped'
    BY <1>1, <1>3, <2>1, <2>2, <2>3 DEF FlowTyped, StoreTyped
  <2>5. RequestTyped' /\ WiringTyped'
    BY <1>1, <2>1, DrainRest
  <2>6. Typed'
    BY <2>4, <2>5, TypedNext
  <2>7. UnderWay'
    <3>1. Current' = Current
      BY <2>2 DEF Current
    <3>. QED BY <1>1, <2>2, <3>1 DEF QueueInv, UnderWay, Resting, Accepted
  <2>8. Accounted
    BY <1>1 DEF Accounted
  <2>. QED BY <2>3, <2>6, <2>7, <2>8 DEF QueueInv
<1>. QED BY <1>2, <1>3 DEF SyncOk, status

LEMMA SyncRejectedKeeps ==
    ASSUME QueueInv, SyncRejected PROVE QueueInv' /\ Accounted
<1>1. /\ pass.at = "sync" /\ Draining /\ DrainUnchanged /\ faults' = faults
      /\ ~Accepted(pass.batch) /\ verdicts' = [verdicts EXCEPT ![Current] = @ + 1]
      /\ UNCHANGED <<outbox, dead, served>>
  BY DEF SyncRejected, durable, Draining
<1>2. Current \in Domains /\ Typed /\ StoreTyped /\ error \in BOOLEAN
  BY <1>1, CurrentTyped, Givens
<1>3. verdicts' \in [Domains -> Nat]
  BY <1>1, <1>2 DEF StoreTyped
<1>4. CASE Finish("paused", error, rejections)
  BY <1>1, <1>3, <1>4, StopKeeps, Givens
<1>5. CASE /\ ~(Strikes(Current) >= Rejections)
           /\ Finish("failed", TRUE, [rejections EXCEPT ![Current] = Strikes(Current)])
  <2>1. [rejections EXCEPT ![Current] = Strikes(Current)] \in [Domains -> 0..Rejections]
    BY <1>2, <1>5, EngineAssumption DEF StoreTyped, Strikes
  <2>. QED BY <1>1, <1>3, <1>5, <2>1, StopKeeps
<1>6. CASE /\ pass' = [pass EXCEPT !.at = "bury"]
           /\ UNCHANGED <<failures, rejections, phase, error, retry>>
  <2>1. /\ FlowTyped /\ pass \in Pass /\ pass.todo # <<>>
    BY <1>1, <1>2, TypedParts DEF Typed
  <2>2. pass' \in Pass /\ pass'.at = "bury" /\ pass'.batch = pass.batch /\ pass'.todo = pass.todo
    BY <1>6, <2>1 DEF Pass, Step
  <2>3. FlowTyped' /\ StoreTyped'
    BY <1>1, <1>2, <1>3, <1>6, <2>1, <2>2 DEF FlowTyped, StoreTyped
  <2>4. RequestTyped' /\ WiringTyped'
    BY <1>1, <1>2, DrainRest
  <2>5. Typed'
    BY <2>3, <2>4, TypedNext
  <2>6. UnderWay'
    <3>1. Current' = Current
      BY <2>2 DEF Current
    <3>. QED BY <1>1, <2>2, <3>1 DEF QueueInv, UnderWay, Resting, Accepted
  <2>7. Queues' /\ Accounted
    BY <1>1 DEF QueueInv, Queues, FifoAtServer, Accounted
  <2>. QED BY <2>5, <2>6, <2>7 DEF QueueInv
<1>. QED BY <1>4, <1>5, <1>6 DEF SyncRejected, status

\* A batch that is to be buried has a head, which is the head of the queue.
LEMMA Burying ==
    ASSUME QueueInv, pass.at = "bury"
    PROVE  LET h == Head(pass.batch)
               q == outbox[Current]
           IN  /\ h \in Mutations /\ h \in ToSet(q) /\ h = q[1]
               /\ <<h>> \in Seq(Mutations) /\ HeadOf(<<h>>, q) /\ ToSet(<<h>>) = {h}
<1>. DEFINE b == pass.batch
            h == Head(b)
            q == outbox[Current]
<1>1. /\ b \in Seq(Mutations) /\ q \in Seq(Mutations) /\ HeadOf(b, q) /\ ~Accepted(b)
  BY CurrentTyped DEF QueueInv, UnderWay, Resting, Draining
<1>. HIDE DEF b, q
<1>2. b # <<>>
  BY <1>1 DEF Accepted, ToSet
<1>3. /\ h \in Mutations /\ h = b[1] /\ Len(b) \in Nat /\ Len(b) >= 1
      /\ Len(q) \in Nat /\ DOMAIN q = 1..Len(q)
  BY <1>1, <1>2, HeadTailProperties, LenProperties, EmptySeq
<1>4. /\ Len(b) <= Len(q) /\ b[1] = q[1]
  BY <1>1, <1>3 DEF HeadOf
<1>. HIDE DEF h
<1>5. h = q[1] /\ 1 \in DOMAIN q
  BY <1>3, <1>4
<1>6. h \in ToSet(q)
  BY <1>5 DEF ToSet
<1>7. <<h>> \in Seq(Mutations) /\ Len(<<h>>) = 1 /\ <<h>>[1] = h
  BY <1>3
<1>8. HeadOf(<<h>>, q)
  BY <1>3, <1>4, <1>5, <1>7 DEF HeadOf
<1>9. ToSet(<<h>>) = {h}
  BY DEF ToSet
<1>. QED BY <1>3, <1>5, <1>6, <1>7, <1>8, <1>9 DEF h, b, q

LEMMA BuryKeeps ==
    ASSUME QueueInv, Bury PROVE QueueInv' /\ Accounted
<1>. DEFINE h == Head(pass.batch)
            c == Current
<1>1. /\ pass.at = "bury" /\ Draining /\ ~Resting /\ DrainUnchanged /\ faults' = faults
      /\ dead' = [dead EXCEPT ![c] = @ \cup {h}]
      /\ outbox' = [outbox EXCEPT ![c] = Erased(@, <<h>>)]
      /\ Finish("failed", TRUE, [rejections EXCEPT ![c] = 0])
      /\ UNCHANGED <<served, verdicts>>
  BY DEF Bury, Draining, Resting
<1>2. /\ h \in Mutations /\ <<h>> \in Seq(Mutations) /\ HeadOf(<<h>>, outbox[c])
      /\ ToSet(<<h>>) = {h}
  BY <1>1, Burying
<1>3. /\ c \in Domains /\ Typed /\ StoreTyped
  BY <1>1, CurrentTyped, Givens
<1>4. /\ outbox' \in [Domains -> Seq(Mutations)] /\ Queues'
      /\ ToSet(outbox'[c]) = ToSet(outbox[c]) \ {h}
      /\ \A d \in Domains \ {c} : outbox'[d] = outbox[d]
  BY <1>1, <1>2, ErasingHead
<1>. HIDE DEF h, c
<1>5. dead' \in [Domains -> SUBSET Mutations] /\ h \in dead'[c]
  BY <1>1, <1>2, <1>3 DEF StoreTyped
<1>6. [rejections EXCEPT ![c] = 0] \in [Domains -> 0..Rejections]
  BY <1>3, EngineAssumption DEF StoreTyped
<1>7. served' \subseteq Mutations /\ verdicts' \in [Domains -> Nat]
  BY <1>1, <1>3 DEF StoreTyped
<1>8. QueueInv'
  BY <1>1, <1>4, <1>5, <1>6, <1>7, FinishKeeps
<1>9. Accounted
  BY <1>4, <1>5 DEF Accounted
<1>. QED BY <1>8, <1>9

LEMMA BuryFailsKeeps ==
    ASSUME QueueInv, BuryFails PROVE QueueInv' /\ Accounted
<1>. DEFINE h == Head(pass.batch)
<1>1. /\ pass.at = "bury" /\ Draining /\ DrainUnchanged /\ Fault
      /\ dead' \in {dead, [dead EXCEPT ![Current] = @ \cup {h}]}
      /\ Finish("failed", TRUE, rejections)
      /\ UNCHANGED <<outbox, served, verdicts>>
  BY DEF BuryFails, Draining
<1>2. h \in Mutations /\ Current \in Domains /\ Typed /\ StoreTyped
  BY <1>1, Burying, CurrentTyped, Givens
<1>. HIDE DEF h
<1>3. dead' \in [Domains -> SUBSET Mutations]
  <2>1. dead \in [Domains -> SUBSET Mutations]
    BY <1>2 DEF StoreTyped
  <2>. QED BY <1>1, <1>2, <2>1
<1>4. /\ outbox' \in [Domains -> Seq(Mutations)] /\ served' \subseteq Mutations
      /\ verdicts' \in [Domains -> Nat]
  BY <1>1, <1>2 DEF StoreTyped
<1>5. Queues' /\ Accounted
  BY <1>1 DEF QueueInv, Queues, FifoAtServer, Accounted
<1>6. QueueInv'
  BY <1>1, <1>3, <1>4, <1>5, FinishKeeps, Givens
<1>. QED BY <1>5, <1>6

LEMMA RemoveBatchKeeps ==
    ASSUME QueueInv, RemoveBatch PROVE QueueInv' /\ Accounted
<1>. DEFINE b == pass.batch
            c == Current
<1>1. /\ pass.at = "remove" /\ Draining /\ ~Resting /\ DrainUnchanged
      /\ outbox' = [outbox EXCEPT ![c] = Erased(@, b)]
      /\ UNCHANGED <<dead, served, verdicts>>
      /\ faults' = faults \/ Fault
  BY DEF RemoveBatch, Draining, Resting
<1>2. /\ c \in Domains /\ Typed /\ StoreTyped /\ b \in Seq(Mutations) /\ pass \in Pass
      /\ pass.todo # <<>>
  BY <1>1, CurrentTyped, Givens DEF Typed
<1>3. HeadOf(b, outbox[c]) /\ ToSet(b) \subseteq served
  BY <1>1 DEF QueueInv, UnderWay
<1>4. /\ outbox' \in [Domains -> Seq(Mutations)] /\ Queues'
      /\ ToSet(outbox'[c]) = ToSet(outbox[c]) \ ToSet(b)
      /\ \A d \in Domains \ {c} : outbox'[d] = outbox[d]
  BY <1>1, <1>2, <1>3, ErasingHead
<1>5. Accounted
  BY <1>1, <1>3, <1>4 DEF Accounted
<1>6. /\ dead' \in [Domains -> SUBSET Mutations] /\ served' \subseteq Mutations
      /\ verdicts' \in [Domains -> Nat]
  BY <1>1, <1>2 DEF StoreTyped
<1>7. CASE Finish("paused", error, rejections) \/ Finish("failed", TRUE, rejections)
  BY <1>1, <1>4, <1>5, <1>6, <1>7, FinishKeeps, Givens
<1>8. CASE /\ pass' = [pass EXCEPT !.at = "take", !.batch = <<>>, !.pushed = TRUE]
           /\ error' = FALSE
           /\ UNCHANGED <<failures, rejections, phase, retry>>
  <2>1. pass' \in Pass /\ pass'.at = "take" /\ pass'.todo = pass.todo
    BY <1>2, <1>8, EmptySeq DEF Pass, Step
  <2>2. FlowTyped
    BY <1>2, TypedParts
  <2>3. FlowTyped' /\ Resting'
    BY <1>2, <1>8, <2>1, <2>2 DEF FlowTyped, Resting
  <2>4. StoreTyped'
    BY <1>2, <1>4, <1>6, <1>8 DEF StoreTyped
  <2>5. RequestTyped' /\ WiringTyped'
    BY <1>1, <1>2, DrainRest
  <2>6. Typed'
    BY <2>3, <2>4, <2>5, TypedNext
  <2>7. UnderWay'
    BY <2>3 DEF UnderWay, Resting
  <2>. QED BY <1>4, <1>5, <2>6, <2>7 DEF QueueInv
<1>. QED BY <1>7, <1>8 DEF RemoveBatch

-----------------------------------------------------------------------------
(* The theorems of the queues. *)

LEMMA QueueInit == Init => QueueInv
<1>. SUFFICES ASSUME Init PROVE QueueInv
  OBVIOUS
<1>1. FlowTyped /\ RequestTyped /\ StoreTyped /\ WiringTyped
  <2>1. 0 \in 0..MaxFailures /\ 0 \in 0..Rejections /\ 0 \in 0..MaxFaults
    BY EngineAssumption
  <2>2. FlowTyped
    BY <2>1, Passes DEF Init, FlowTyped, Draining
  <2>3. RequestTyped
    BY DEF Init, RequestTyped
  <2>4. StoreTyped
    <3>1. <<>> \in Seq(Mutations) /\ {} \in SUBSET Mutations
      BY EmptySeq
    <3>. QED BY <2>1, <3>1 DEF Init, StoreTyped
  <2>5. WiringTyped
    BY <2>1, EmptySeq DEF Init, WiringTyped
  <2>. QED BY <2>2, <2>3, <2>4, <2>5
<1>2. Typed
  <2>1. /\ pass.at \in Step /\ pass.todo \in Seq(Domains) /\ pass.batch \in Seq(Mutations)
        /\ {pass.pushed, pass.failed, pass.drained} \subseteq BOOLEAN
    BY <1>1 DEF FlowTyped, Pass
  <2>2. TypeOK
    BY <1>1, <2>1, SMTT(20) DEF TypeOK, FlowTyped, RequestTyped, StoreTyped, WiringTyped
  <2>. QED BY <1>1, <2>2 DEF Typed, FlowTyped, Draining
<1>3. Queues /\ UnderWay
  <2>1. \A d \in Domains : outbox[d] = <<>>
    BY DEF Init
  <2>. QED BY <2>1, Passes DEF Init, Queues, Distinct, FifoAtServer, ToSet, UnderWay, Resting
<1>. QED BY <1>2, <1>3 DEF QueueInv

LEMMA QueueStep == QueueInv /\ [Next]_vars => QueueInv' /\ [Accounted]_vars
<1>. SUFFICES ASSUME QueueInv, [Next]_vars PROVE QueueInv' /\ [Accounted]_vars
  OBVIOUS
<1>1. ASSUME NEW d \in Domains, NEW m \in Mutations, Enqueue(d, m) PROVE QueueInv' /\ Accounted
  BY <1>1, EnqueueKeeps
<1>2. ASSUME NEW d \in Domains, BeginSync(d) \/ Unregister(d) \/ FlushDomain(d)
      PROVE  QueueInv' /\ Accounted
  BY <1>2, BeginSyncTyped, UnregisterTyped, TriggersTyped, ElsewhereKeeps, Givens
<1>3. CASE DebounceFires \/ RetryFires \/ Periodic \/ Connectivity
  BY <1>3, TriggersTyped, ElsewhereKeeps, Givens
<1>4. CASE GoOffline \/ GoOnline
  BY <1>4, NetworkTyped, ElsewhereKeeps, Givens
<1>5. CASE Reload
  BY <1>5, ReloadKeeps
<1>6. CASE Take \/ TakeFails
  BY <1>6, TakeKeeps, FailureKeeps
<1>7. CASE SyncOk \/ SyncFails \/ SyncPaused \/ SyncRejected
  BY <1>7, SyncOkKeeps, SyncStopKeeps, SyncRejectedKeeps
<1>8. CASE Bury \/ BuryFails
  BY <1>8, BuryKeeps, BuryFailsKeeps
<1>9. CASE RemoveBatch \/ RemoveFails
  BY <1>9, RemoveBatchKeeps, FailureKeeps
<1>10. CASE EndPass
  BY <1>10, EndPassTyped, ElsewhereKeeps, Givens
<1>11. CASE UNCHANGED vars
  <2>1. /\ UNCHANGED <<outbox, dead, served, online, domains, failures, rejections, verdicts, phase,
                       error, retry, debounce, wired, wasOnline, coalesced, active, again, owed,
                       pass, gone, faults>>
    BY <1>11 DEF vars, durable, ledgers, status, timers, request
  <2>2. FlowTyped /\ RequestTyped /\ StoreTyped /\ WiringTyped
    BY TypedParts, Givens
  <2>3. Typed'
    <3>1. FlowTyped' /\ StoreTyped'
      BY <2>1, <2>2 DEF FlowTyped, StoreTyped, Draining
    <3>2. RequestTyped' /\ WiringTyped'
      BY <2>1, <2>2 DEF RequestTyped, WiringTyped
    <3>. QED BY <3>1, <3>2, TypedNext
  <2>4. Elsewhere
    BY <2>1, <2>2, EngineAssumption DEF Elsewhere, StoreTyped
  <2>. QED BY <2>3, <2>4, ElsewhereKeeps
<1>. QED
  BY <1>1, <1>2, <1>3, <1>4, <1>5, <1>6, <1>7, <1>8, <1>9, <1>10, <1>11 DEF Next

LEMMA QueueInvariant == Spec => []QueueInv
BY QueueInit, QueueStep, PTL DEF Spec

\* The engine's variables keep their types, whatever fails and whenever the
\* page is reloaded (EngineStatus and the ledgers of engine.svelte.ts, the
\* queues of outbox.ts).
THEOREM EngineTyped == Spec => []TypeOK
<1>1. QueueInv => TypeOK
  BY DEF QueueInv, Typed
<1>. QED BY <1>1, QueueInvariant, PTL

\* The server sees the mutations of a domain in the order they were queued,
\* through reloads, lost answers, rejections and dead-lettering ("ordered FIFO
\* replay per domain", engine.svelte.ts #drainDomain).
THEOREM FifoHolds == Spec => []FifoAtServer
<1>1. QueueInv => FifoAtServer
  BY DEF QueueInv, Queues
<1>. QED BY <1>1, QueueInvariant, PTL

\* No mutation is lost: what a step takes out of a queue the server has taken
\* or the dead-letter store holds (outbox remove and deadLetter).
THEOREM NothingIsLost == Spec => NothingLost
<1>1. [Accounted]_vars =>
      [\A d \in Domains : \A m \in ToSet(outbox[d]) :
          m \in ToSet(outbox'[d]) \cup dead'[d] \cup served']_vars
  BY DEF Accounted
<1>. QED BY <1>1, QueueInvariant, QueueStep, PTL DEF Spec, NothingLost

-----------------------------------------------------------------------------
(* The dead letters. *)

LEMMA Priced ==
    ASSUME NEW n \in Nat
    PROVE  n * Rejections \in Nat /\ (n + 1) * Rejections = n * Rejections + Rejections
BY EngineAssumption

LEMMA EvictedFinite ==
    ASSUME DeadInv, NEW d \in Domains
    PROVE  /\ IsFiniteSet(Evicted(d)) /\ Cardinality(Evicted(d)) \in Nat
           /\ Cardinality(Evicted(d)) * Rejections \in Nat
<1>1. IsFiniteSet(dead[d]) /\ Evicted(d) \subseteq dead[d]
  BY DEF DeadInv, Evicted
<1>2. IsFiniteSet(Evicted(d)) /\ Cardinality(Evicted(d)) \in Nat
  BY <1>1, FS_Subset, FS_CardinalityType
<1>. QED BY <1>2, Priced

LEMMA LedgersTyped ==
    ASSUME QueueInv, NEW d \in Domains
    PROVE  rejections[d] \in Nat /\ verdicts[d] \in Nat
BY Givens, EngineAssumption DEF StoreTyped

\* The ledger only shrinks, and what is under way goes on or ends.
Still == /\ UNCHANGED <<outbox, dead, verdicts>>
         /\ \A d \in Domains : rejections'[d] <= rejections[d]
         /\ \/ pass' = pass
            \/ Resting'
            \/ /\ pass.at = "sync" /\ pass'.at = "remove"
               /\ pass'.batch = pass.batch /\ pass'.todo = pass.todo

LEMMA PaidStill ==
    ASSUME QueueInv, DeadInv, QueueInv',
           \A d \in Domains : /\ Evicted(d)' = Evicted(d)
                              /\ rejections'[d] <= rejections[d]
                              /\ verdicts'[d] >= verdicts[d]
    PROVE  DeadLettersPaidFor'
<1>. SUFFICES ASSUME NEW d \in Domains
              PROVE  Cardinality(Evicted(d)') * Rejections + rejections'[d] <= verdicts'[d]
  BY DEF DeadLettersPaidFor, Evicted
<1>1. Cardinality(Evicted(d)) * Rejections \in Nat
  BY EvictedFinite
<1>2. /\ rejections[d] \in Nat /\ rejections'[d] \in Nat
      /\ verdicts[d] \in Nat /\ verdicts'[d] \in Nat
  BY EngineAssumption DEF QueueInv, Typed, TypeOK
<1>3. Cardinality(Evicted(d)) * Rejections + rejections[d] <= verdicts[d]
  BY DEF DeadInv, DeadLettersPaidFor, Evicted
<1>. HIDE DEF Evicted
<1>4. Cardinality(Evicted(d)') = Cardinality(Evicted(d))
  OBVIOUS
<1>. QED BY <1>1, <1>2, <1>3, <1>4

LEMMA StillPaid ==
    ASSUME QueueInv, DeadInv, QueueInv', Still PROVE DeadInv'
<1>1. /\ UNCHANGED <<outbox, dead, verdicts>>
      /\ \A d \in Domains : Evicted(d)' = Evicted(d) /\ Copies(d)' = Copies(d)
  BY DEF Still, Evicted, Copies
<1>2. DeadLettersPaidFor'
  <2>1. \A d \in Domains : verdicts'[d] >= verdicts[d]
    BY <1>1, LedgersTyped
  <2>. QED BY <1>1, <2>1, PaidStill DEF Still
<1>3. ASSUME pass'.at \in {"sync", "remove"}, Copies(Current)' # {} PROVE ~Accepted(pass'.batch)
  <2>1. Current' = Current /\ pass'.batch = pass.batch /\ pass.at \in {"sync", "remove"}
    BY <1>3 DEF Still, Resting, Current
  <2>2. Copies(Current) # {}
    BY <1>1, <1>3, <2>1 DEF Copies
  <2>. QED BY <2>1, <2>2 DEF DeadInv, CopiesStay, Accepted
<1>4. ASSUME pass'.at = "bury"
      PROVE  (Cardinality(Evicted(Current)') + 1) * Rejections <= verdicts'[Current']
  <2>1. Current' = Current /\ pass.at = "bury"
    BY <1>4 DEF Still, Resting, Current
  <2>2. Evicted(Current)' = Evicted(Current)
    BY <1>1, <2>1 DEF Evicted
  <2>. QED BY <1>1, <2>1, <2>2 DEF DeadInv
<1>5. CopiesStay'
  BY <1>1, <1>3 DEF DeadInv, CopiesStay, Copies
<1>. QED BY <1>1, <1>2, <1>4, <1>5 DEF DeadInv

\* What the end of a drain does to the ledger and the batch under way.
LEMMA StopLedger ==
    ASSUME QueueInv, Draining, NEW outcome, NEW e \in BOOLEAN,
           NEW rj \in [Domains -> 0..Rejections], Finish(outcome, e, rj)
    PROVE  Resting' /\ \A d \in Domains : rejections'[d] <= rj[d]
BY FinishTyped DEF QueueInv

\* The steps of a drain that keep the stores and the verdicts.
LEMMA DrainStill ==
    ASSUME QueueInv, TakeFails \/ RemoveFails \/ SyncFails \/ SyncPaused \/ SyncOk
    PROVE  Still
<1>1. Draining /\ UNCHANGED <<outbox, dead, verdicts>>
  BY DEF TakeFails, RemoveFails, SyncFails, SyncPaused, SyncOk, Failed, Draining, durable
<1>2. ASSUME NEW outcome, NEW e \in BOOLEAN, Finish(outcome, e, rejections) PROVE Still
  BY <1>1, <1>2, StopLedger, Givens DEF Still
<1>3. CASE TakeFails \/ RemoveFails
  BY <1>2, <1>3 DEF TakeFails, RemoveFails, Failed
<1>4. CASE SyncFails
  BY <1>2, <1>4, Givens DEF SyncFails
<1>5. CASE SyncPaused
  BY <1>2, <1>5, Givens DEF SyncPaused
<1>6. CASE SyncOk
  <2>1. CASE Finish("paused", error, rejections)
    BY <1>2, <2>1, Givens
  <2>2. CASE Finish("drained", FALSE, rejections)
    BY <1>2, <2>2
  <2>3. CASE pass' = [pass EXCEPT !.at = "remove"] /\ rejections' = rejections
    <3>1. pass \in Pass /\ pass.at = "sync"
      BY <1>6, Givens DEF SyncOk, Typed
    <3>2. pass'.at = "remove" /\ pass'.batch = pass.batch /\ pass'.todo = pass.todo
      BY <2>3, <3>1 DEF Pass
    <3>3. \A d \in Domains : rejections'[d] <= rejections[d]
      BY <2>3, LedgersTyped
    <3>. QED BY <1>1, <3>1, <3>2, <3>3 DEF Still
  <2>. QED BY <1>6, <2>1, <2>2, <2>3 DEF SyncOk
<1>. QED BY <1>3, <1>4, <1>5, <1>6

LEMMA TakePaid ==
    ASSUME QueueInv, DeadInv, QueueInv', Take PROVE DeadInv'
<1>. DEFINE batch == Batch(outbox[Current])
<1>1. /\ pass.at = "take" /\ Draining /\ UNCHANGED <<outbox, dead, verdicts>>
  BY DEF Take, Draining, Paused, durable, ledgers
<1>2. CASE Finish("paused", error, rejections) \/ Finish("drained", error, rejections)
  <2>1. Still
    BY <1>1, <1>2, StopLedger, Givens DEF Still
  <2>. QED BY <2>1, StillPaid
<1>3. CASE pass' = [pass EXCEPT !.at = "sync", !.batch = batch] /\ rejections' = rejections
  <2>. DEFINE q == outbox[Current]
  <2>1. /\ Current \in Domains /\ q \in Seq(Mutations) /\ pass \in Pass
    BY <1>1, Givens, CurrentTyped
  <2>. HIDE DEF batch
  <2>2. pass'.at = "sync" /\ pass'.batch = batch /\ pass'.todo = pass.todo
    BY <1>3, <2>1 DEF Pass
  <2>3. Current' = Current
    BY <2>2 DEF Current
  <2>4. \A d \in Domains : Evicted(d)' = Evicted(d) /\ Copies(d)' = Copies(d)
    BY <1>1 DEF Evicted, Copies
  <2>5. DeadLettersPaidFor'
    <3>1. \A d \in Domains : rejections'[d] <= rejections[d] /\ verdicts'[d] >= verdicts[d]
      BY <1>1, <1>3, LedgersTyped
    <3>. QED BY <2>4, <3>1, PaidStill
  <2>6. ASSUME Copies(Current) # {} PROVE ~Accepted(batch)
    <3>1. PICK i \in DOMAIN q : i <= FlushBatch /\ q[i] \in Poison
      BY <2>1, <2>6 DEF DeadInv, CopiesStay
    <3>2. q[i] \in ToSet(batch)
      BY <2>1, <3>1, BatchHead DEF batch
    <3>. QED BY <3>1, <3>2 DEF Accepted
  <2>7. Copies(Current)' = Copies(Current)
    BY <1>1, <2>3 DEF Copies
  <2>8. CopiesStay'
    BY <1>1, <2>2, <2>4, <2>6, <2>7 DEF DeadInv, CopiesStay, Accepted, Copies
  <2>. QED BY <1>1, <2>2, <2>5, <2>8 DEF DeadInv
<1>. QED BY <1>2, <1>3 DEF Take, Paused, ledgers

LEMMA EnqueuePaid ==
    ASSUME QueueInv, DeadInv, QueueInv', NEW d \in Domains, NEW m \in Mutations, Enqueue(d, m)
    PROVE  DeadInv'
<1>. DEFINE q == outbox[d]
            r == Append(q, m)
<1>1. /\ outbox' = [outbox EXCEPT ![d] = r]
      /\ UNCHANGED <<dead, rejections, verdicts, pass>>
      /\ \A e \in Domains : m \notin dead[e]
  BY DEF Enqueue, ledgers, Minted
<1>2. /\ outbox \in [Domains -> Seq(Mutations)] /\ q \in Seq(Mutations)
  BY Givens DEF StoreTyped
<1>3. /\ r \in Seq(Mutations) /\ Len(r) = Len(q) + 1 /\ ToSet(r) = ToSet(q) \cup {m}
      /\ (\A i \in 1..Len(q) : r[i] = q[i])
      /\ Len(q) \in Nat /\ DOMAIN q = 1..Len(q) /\ DOMAIN r = 1..(Len(q) + 1)
  BY <1>2, Joining, LenProperties
<1>. HIDE DEF q, r
<1>4. outbox'[d] = r /\ \A e \in Domains \ {d} : outbox'[e] = outbox[e]
  BY <1>1, <1>2
<1>5. ASSUME NEW e \in Domains PROVE Evicted(e)' = Evicted(e) /\ Copies(e)' = Copies(e)
  <2>1. CASE e = d
    <3>1. dead[e] \ ToSet(r) = dead[e] \ ToSet(q) /\ dead[e] \cap ToSet(r) = dead[e] \cap ToSet(q)
      BY <1>1, <1>3
    <3>. QED BY <1>1, <1>4, <2>1, <3>1 DEF Evicted, Copies, q
  <2>2. CASE e # d
    BY <1>1, <1>4, <2>2 DEF Evicted, Copies
  <2>. QED BY <2>1, <2>2
<1>6. DeadLettersPaidFor'
  <2>1. \A e \in Domains : rejections'[e] <= rejections[e] /\ verdicts'[e] >= verdicts[e]
    BY <1>1, LedgersTyped
  <2>. QED BY <1>5, <2>1, PaidStill
<1>7. ASSUME NEW e \in Domains, Copies(e)' # {}
      PROVE  /\ Copies(e)' = {outbox'[e][1]}
             /\ \E i \in DOMAIN outbox'[e] : i <= FlushBatch /\ outbox'[e][i] \in Poison
  <2>1. /\ Copies(e) = {outbox[e][1]}
        /\ \E i \in DOMAIN outbox[e] : i <= FlushBatch /\ outbox[e][i] \in Poison
    BY <1>5, <1>7 DEF DeadInv, CopiesStay
  <2>2. CASE e # d
    BY <1>4, <1>5, <2>1, <2>2
  <2>3. CASE e = d
    <3>1. PICK i \in 1..Len(q) : i <= FlushBatch /\ q[i] \in Poison
      BY <1>3, <2>1, <2>3 DEF q
    <3>2. i \in DOMAIN r /\ r[i] \in Poison /\ 1 \in 1..Len(q)
      BY <1>3, <3>1
    <3>3. r[1] = q[1]
      BY <1>3, <3>2
    <3>. QED BY <1>4, <1>5, <2>1, <2>3, <3>1, <3>2, <3>3 DEF q
  <2>. QED BY <2>2, <2>3
<1>8. Current' = Current /\ pass' = pass
  BY <1>1 DEF Current
<1>9. ASSUME pass.at \in {"sync", "remove", "bury"}
      PROVE  Copies(Current)' = Copies(Current) /\ Evicted(Current)' = Evicted(Current)
  <2>1. Current \in Domains
    BY <1>9, CurrentTyped, Givens DEF Draining
  <2>. DEFINE c == Current
  <2>2. Copies(c)' = dead'[Current'] \cap ToSet(outbox'[Current'])
    BY DEF Copies
  <2>3. /\ dead[Current] \cap ToSet(outbox'[Current]) = dead[Current] \cap ToSet(outbox[Current])
        /\ dead[Current] \ ToSet(outbox'[Current]) = dead[Current] \ ToSet(outbox[Current])
    <3>. HIDE DEF c
    <3>1. \A e \in Domains : /\ dead[e] \cap ToSet(outbox'[e]) = dead[e] \cap ToSet(outbox[e])
                             /\ dead[e] \ ToSet(outbox'[e]) = dead[e] \ ToSet(outbox[e])
      BY <1>1, <1>5 DEF Copies, Evicted
    <3>. QED BY <2>1, <3>1
  <2>. QED BY <1>1, <1>8, <2>3 DEF Copies, Evicted
<1>10. CopiesStay'
  BY <1>7, <1>8, <1>9 DEF DeadInv, CopiesStay, Accepted, Copies
<1>11. pass'.at = "bury" =>
         (Cardinality(Evicted(Current)') + 1) * Rejections <= verdicts'[Current']
  BY <1>1, <1>8, <1>9 DEF DeadInv
<1>. QED BY <1>1, <1>6, <1>10, <1>11 DEF DeadInv

LEMMA SyncRejectedPaid ==
    ASSUME QueueInv, DeadInv, QueueInv', SyncRejected PROVE DeadInv'
<1>. DEFINE c == Current
<1>1. /\ pass.at = "sync" /\ Draining /\ UNCHANGED <<outbox, dead>>
      /\ verdicts' = [verdicts EXCEPT ![c] = @ + 1]
  BY DEF SyncRejected, durable, Draining
<1>2. c \in Domains /\ Typed /\ StoreTyped /\ pass \in Pass
  BY <1>1, CurrentTyped, Givens
<1>3. \A d \in Domains : Evicted(d)' = Evicted(d) /\ Copies(d)' = Copies(d)
  BY <1>1 DEF Evicted, Copies
<1>4. /\ verdicts'[c] = verdicts[c] + 1
      /\ \A d \in Domains \ {c} : verdicts'[d] = verdicts[d]
      /\ \A d \in Domains : verdicts'[d] >= verdicts[d]
  BY <1>1, <1>2, LedgersTyped DEF StoreTyped
<1>. HIDE DEF c
<1>5. ASSUME Resting', DeadLettersPaidFor' PROVE DeadInv'
  BY <1>1, <1>3, <1>5 DEF DeadInv, CopiesStay, Resting, Copies
<1>6. CASE Finish("paused", error, rejections)
  <2>1. Resting' /\ \A d \in Domains : rejections'[d] <= rejections[d]
    BY <1>1, <1>6, StopLedger, Givens
  <2>2. DeadLettersPaidFor'
    BY <1>3, <1>4, <2>1, PaidStill
  <2>. QED BY <1>5, <2>1, <2>2
<1>7. CASE /\ ~(Strikes(c) >= Rejections)
           /\ Finish("failed", TRUE, [rejections EXCEPT ![c] = Strikes(c)])
  <2>. DEFINE rj == [rejections EXCEPT ![c] = Strikes(c)]
  <2>1. /\ rj \in [Domains -> 0..Rejections] /\ rj[c] = rejections[c] + 1
        /\ \A d \in Domains \ {c} : rj[d] = rejections[d]
    BY <1>2, <1>7, EngineAssumption DEF StoreTyped, Strikes
  <2>2. Resting' /\ \A d \in Domains : rejections'[d] <= rj[d]
    BY <1>1, <1>7, <2>1, StopLedger
  <2>. HIDE DEF rj
  <2>3. DeadLettersPaidFor'
    <3>. SUFFICES ASSUME NEW d \in Domains
                  PROVE  Cardinality(Evicted(d)') * Rejections + rejections'[d] <= verdicts'[d]
      BY DEF DeadLettersPaidFor, Evicted
    <3>1. /\ Cardinality(Evicted(d)) * Rejections \in Nat
          /\ Cardinality(Evicted(d)) * Rejections + rejections[d] <= verdicts[d]
      BY EvictedFinite DEF DeadInv, DeadLettersPaidFor, Evicted
    <3>2. /\ rejections[d] \in Nat /\ rejections'[d] \in Nat
          /\ verdicts[d] \in Nat /\ verdicts'[d] \in Nat
      BY EngineAssumption DEF QueueInv, Typed, TypeOK
    <3>3. rejections'[d] - rejections[d] <= verdicts'[d] - verdicts[d]
      BY <1>4, <2>1, <2>2, <3>2
    <3>4. Cardinality(Evicted(d)') = Cardinality(Evicted(d))
      BY <1>3
    <3>. HIDE DEF Evicted
    <3>. QED BY <3>1, <3>2, <3>3, <3>4
  <2>. QED BY <1>5, <2>2, <2>3
<1>8. CASE /\ Strikes(c) >= Rejections
           /\ pass' = [pass EXCEPT !.at = "bury"] /\ rejections' = rejections
  <2>1. pass'.at = "bury" /\ Current' = c
    BY <1>2, <1>8 DEF Pass, Current, c
  <2>2. DeadLettersPaidFor'
    <3>1. \A d \in Domains : rejections'[d] <= rejections[d]
      BY <1>8, LedgersTyped
    <3>. QED BY <1>3, <1>4, <3>1, PaidStill
  <2>3. (Cardinality(Evicted(c)) + 1) * Rejections <= verdicts'[c]
    <3>. DEFINE n == Cardinality(Evicted(c))
    <3>1. n \in Nat
      BY <1>2, EvictedFinite
    <3>2. n * Rejections + rejections[c] <= verdicts[c]
      BY <1>2 DEF DeadInv, DeadLettersPaidFor, Evicted
    <3>. HIDE DEF n
    <3>3. n * Rejections \in Nat /\ (n + 1) * Rejections = n * Rejections + Rejections
      BY <3>1, Priced
    <3>4. rejections[c] + 1 >= Rejections /\ rejections[c] \in Nat /\ verdicts[c] \in Nat
      BY <1>2, <1>8, LedgersTyped DEF Strikes
    <3>5. (n + 1) * Rejections <= verdicts[c] + 1
      BY <3>2, <3>3, <3>4, EngineAssumption
    <3>. QED BY <1>4, <3>5 DEF n
  <2>4. Evicted(Current)' = Evicted(c)
    BY <1>1, <2>1 DEF Evicted
  <2>5. CopiesStay'
    BY <1>1, <1>3, <2>1 DEF DeadInv, CopiesStay, Copies
  <2>. QED BY <1>1, <2>1, <2>2, <2>3, <2>4, <2>5 DEF DeadInv
<1>. QED BY <1>6, <1>7, <1>8 DEF SyncRejected, c

\* The head of the batch is copied to the dead letters, or not, and the drain ends.
LEMMA CopyPaid ==
    ASSUME QueueInv, DeadInv, QueueInv', Resting', UNCHANGED <<outbox, verdicts>>,
           \A d \in Domains : rejections'[d] <= rejections[d],
           \/ dead' = dead
           \/ pass.at = "bury" /\ dead' = [dead EXCEPT ![Current] = @ \cup {Head(pass.batch)}]
    PROVE  DeadInv'
<1>1. CASE dead' = dead
  <2>1. Still
    BY <1>1 DEF Still
  <2>. QED BY <2>1, StillPaid
<1>2. CASE pass.at = "bury" /\ dead' = [dead EXCEPT ![Current] = @ \cup {Head(pass.batch)}]
  <2>. DEFINE c == Current
              h == Head(pass.batch)
              q == outbox[c]
  <2>1. /\ c \in Domains /\ q \in Seq(Mutations) /\ pass.batch \in Seq(Mutations)
        /\ dead \in [Domains -> SUBSET Mutations]
    BY <1>2, CurrentTyped, Givens DEF Draining, StoreTyped
  <2>2. h \in ToSet(q) /\ h = q[1]
    BY <1>2, Burying
  <2>3. /\ HeadOf(pass.batch, q) /\ Len(pass.batch) <= FlushBatch /\ ~Accepted(pass.batch)
    BY <1>2 DEF QueueInv, UnderWay, Resting
  <2>4. \E i \in DOMAIN q : i <= FlushBatch /\ q[i] \in Poison
    <3>1. PICK i \in DOMAIN pass.batch : pass.batch[i] \in Poison
      BY <2>3 DEF Accepted, ToSet
    <3>2. /\ DOMAIN pass.batch = 1..Len(pass.batch) /\ DOMAIN q = 1..Len(q)
          /\ Len(pass.batch) \in Nat /\ Len(q) \in Nat
      BY <2>1, LenProperties
    <3>3. i \in DOMAIN q /\ i <= FlushBatch /\ q[i] = pass.batch[i]
      BY <2>3, <3>1, <3>2, EngineAssumption DEF HeadOf
    <3>. QED BY <3>1, <3>3
  <2>. HIDE DEF c, h, q
  <2>5. dead'[c] = dead[c] \cup {h} /\ \A d \in Domains \ {c} : dead'[d] = dead[d]
    BY <1>2, <2>1 DEF c, h
  <2>6. \A d \in Domains : Evicted(d)' = Evicted(d)
    BY <2>2, <2>5 DEF Evicted, q
  <2>7. DeadLettersPaidFor'
    <3>1. \A d \in Domains : verdicts'[d] >= verdicts[d]
      BY LedgersTyped
    <3>. QED BY <2>6, <3>1, PaidStill
  <2>8. \A d \in Domains : IsFiniteSet(dead'[d])
    <3>1. IsFiniteSet(dead[c]) /\ IsFiniteSet({h})
      BY <2>1, FS_Singleton DEF DeadInv
    <3>2. IsFiniteSet(dead[c] \cup {h})
      BY <3>1, FS_Union
    <3>. QED BY <2>5, <3>2 DEF DeadInv
  <2>9. ASSUME NEW d \in Domains, Copies(d)' # {}
        PROVE  /\ Copies(d)' = {outbox'[d][1]}
               /\ \E i \in DOMAIN outbox'[d] : i <= FlushBatch /\ outbox'[d][i] \in Poison
    <3>1. CASE d # c
      <4>1. Copies(d)' = Copies(d)
        BY <2>5, <3>1 DEF Copies
      <4>. QED BY <2>9, <4>1 DEF DeadInv, CopiesStay
    <3>2. CASE d = c
      <4>1. Copies(c) \subseteq {h}
        BY <2>1, <2>2 DEF DeadInv, CopiesStay, q
      <4>2. Copies(d)' = Copies(c) \cup {h}
        BY <2>2, <2>5, <3>2 DEF Copies, q
      <4>. QED BY <2>2, <2>4, <3>2, <4>1, <4>2 DEF q
    <3>. QED BY <3>1, <3>2
  <2>10. CopiesStay'
    BY <2>9 DEF CopiesStay, Resting, Copies
  <2>. QED BY <2>7, <2>8, <2>10 DEF DeadInv, Resting
<1>. QED BY <1>1, <1>2

LEMMA ReloadPaid ==
    ASSUME QueueInv, DeadInv, QueueInv', Reload PROVE DeadInv'
<1>1. pass' = Idle /\ rejections' = [d \in Domains |-> 0] /\ UNCHANGED <<outbox, verdicts>>
  BY DEF Reload
<1>2. Resting' /\ \A d \in Domains : rejections'[d] <= rejections[d]
  BY <1>1, Passes, LedgersTyped DEF Resting
<1>3. \/ dead' = dead
      \/ pass.at = "bury" /\ dead' = [dead EXCEPT ![Current] = @ \cup {Head(pass.batch)}]
  BY DEF Reload, Current
<1>. QED BY <1>1, <1>2, <1>3, CopyPaid

LEMMA BuryFailsPaid ==
    ASSUME QueueInv, DeadInv, QueueInv', BuryFails PROVE DeadInv'
<1>1. /\ pass.at = "bury" /\ Draining /\ UNCHANGED <<outbox, verdicts>>
      /\ Finish("failed", TRUE, rejections)
  BY DEF BuryFails, Draining
<1>2. Resting' /\ \A d \in Domains : rejections'[d] <= rejections[d]
  BY <1>1, StopLedger, Givens
<1>3. \/ dead' = dead
      \/ pass.at = "bury" /\ dead' = [dead EXCEPT ![Current] = @ \cup {Head(pass.batch)}]
  BY DEF BuryFails
<1>. QED BY <1>1, <1>2, <1>3, CopyPaid

LEMMA BuryPaid ==
    ASSUME QueueInv, DeadInv, QueueInv', Bury PROVE DeadInv'
<1>. DEFINE c == Current
            h == Head(pass.batch)
            q == outbox[c]
            rj == [rejections EXCEPT ![c] = 0]
<1>1. /\ pass.at = "bury" /\ Draining /\ ~Resting
      /\ dead' = [dead EXCEPT ![c] = @ \cup {h}]
      /\ outbox' = [outbox EXCEPT ![c] = Erased(@, <<h>>)]
      /\ Finish("failed", TRUE, rj)
      /\ UNCHANGED <<served, verdicts>>
  BY DEF Bury, Draining, Resting
<1>2. /\ c \in Domains /\ dead \in [Domains -> SUBSET Mutations] /\ StoreTyped
  BY <1>1, CurrentTyped, Givens DEF StoreTyped
<1>3. /\ h \in ToSet(q) /\ h = q[1] /\ ToSet(<<h>>) = {h}
      /\ <<h>> \in Seq(Mutations) /\ HeadOf(<<h>>, q)
  BY <1>1, Burying
<1>4. /\ ToSet(outbox'[c]) = ToSet(q) \ {h}
      /\ \A d \in Domains \ {c} : outbox'[d] = outbox[d]
  BY <1>1, <1>3, ErasingHead
<1>5. /\ rj \in [Domains -> 0..Rejections] /\ rj[c] = 0
      /\ \A d \in Domains \ {c} : rj[d] = rejections[d]
  BY <1>2, EngineAssumption DEF StoreTyped
<1>6. Resting' /\ \A d \in Domains : rejections'[d] <= rj[d]
  BY <1>1, <1>5, StopLedger
<1>7. (Cardinality(Evicted(c)) + 1) * Rejections <= verdicts[c]
  BY <1>1 DEF DeadInv
<1>. HIDE DEF c, h, q, rj
<1>8. dead'[c] = dead[c] \cup {h} /\ \A d \in Domains \ {c} : dead'[d] = dead[d]
  BY <1>1, <1>2
<1>9. /\ dead'[c] \ ToSet(outbox'[c]) = Evicted(c) \cup {h} /\ h \notin Evicted(c)
      /\ \A d \in Domains \ {c} : Evicted(d)' = Evicted(d) /\ Copies(d)' = Copies(d)
  <2>1. (dead[c] \cup {h}) \ (ToSet(q) \ {h}) = (dead[c] \ ToSet(q)) \cup {h}
    OBVIOUS
  <2>2. Evicted(c) = dead[c] \ ToSet(q)
    BY DEF Evicted, q
  <2>3. dead'[c] \ ToSet(outbox'[c]) = Evicted(c) \cup {h}
    BY <1>4, <1>8, <2>1, <2>2
  <2>4. h \notin Evicted(c)
    BY <1>3, <2>2
  <2>5. \A d \in Domains \ {c} : Evicted(d)' = Evicted(d) /\ Copies(d)' = Copies(d)
    BY <1>4, <1>8 DEF Evicted, Copies
  <2>. QED BY <2>3, <2>4, <2>5
<1>10. dead'[c] \cap ToSet(outbox'[c]) = {}
  <2>1. Copies(c) \subseteq {h}
    BY <1>2, <1>3 DEF DeadInv, CopiesStay, q
  <2>2. dead[c] \cap ToSet(q) \subseteq {h}
    BY <2>1 DEF Copies, q
  <2>. QED BY <1>4, <1>8, <2>2
<1>11. DeadLettersPaidFor'
  <2>. SUFFICES ASSUME NEW d \in Domains
                PROVE  Cardinality(dead'[d] \ ToSet(outbox'[d])) * Rejections + rejections'[d]
                         <= verdicts'[d]
    BY DEF DeadLettersPaidFor
  <2>1. /\ rejections[d] \in Nat /\ rejections'[d] \in Nat /\ verdicts'[d] = verdicts[d]
        /\ verdicts[d] \in Nat
    BY <1>1, EngineAssumption DEF QueueInv, Typed, TypeOK
  <2>2. CASE d = c
    <3>. DEFINE n == Cardinality(Evicted(c))
    <3>1. Cardinality(dead'[d] \ ToSet(outbox'[d])) = n + 1
      BY <1>2, <1>9, <2>2, EvictedFinite, FS_AddElement
    <3>2. rejections'[d] = 0
      BY <1>2, <1>5, <1>6, <2>1, <2>2
    <3>3. n \in Nat
      BY <1>2, EvictedFinite
    <3>4. (n + 1) * Rejections <= verdicts[d]
      BY <1>7, <2>2
    <3>. HIDE DEF n
    <3>5. (n + 1) * Rejections \in Nat
      BY <3>3, Priced, EngineAssumption
    <3>. QED BY <2>1, <3>1, <3>2, <3>4, <3>5
  <2>3. CASE d # c
    <3>1. Cardinality(Evicted(d)) * Rejections \in Nat
      BY EvictedFinite
    <3>2. Cardinality(Evicted(d)) * Rejections + rejections[d] <= verdicts[d]
      BY DEF DeadInv, DeadLettersPaidFor, Evicted
    <3>3. Cardinality(dead'[d] \ ToSet(outbox'[d])) = Cardinality(Evicted(d))
      BY <1>9, <2>3 DEF Evicted
    <3>4. rejections'[d] <= rejections[d]
      BY <1>5, <1>6, <2>3
    <3>. HIDE DEF Evicted
    <3>. QED BY <2>1, <3>1, <3>2, <3>3, <3>4
  <2>. QED BY <2>2, <2>3
<1>12. \A d \in Domains : IsFiniteSet(dead'[d])
  <2>1. IsFiniteSet(dead[c] \cup {h})
    BY <1>2, FS_Singleton, FS_Union DEF DeadInv
  <2>. QED BY <1>8, <2>1 DEF DeadInv
<1>13. CopiesStay'
  <2>. SUFFICES ASSUME NEW d \in Domains, Copies(d)' # {}
                PROVE  /\ Copies(d)' = {outbox'[d][1]}
                       /\ \E i \in DOMAIN outbox'[d] : i <= FlushBatch /\ outbox'[d][i] \in Poison
    BY <1>6 DEF CopiesStay, Resting, Copies
  <2>1. d # c
    BY <1>10 DEF Copies
  <2>2. Copies(d)' = Copies(d) /\ outbox'[d] = outbox[d]
    BY <1>4, <1>9, <2>1
  <2>. QED BY <2>2 DEF DeadInv, CopiesStay
<1>. QED BY <1>6, <1>11, <1>12, <1>13 DEF DeadInv, Resting

\* An accepted batch holds no copy of a dead letter.
LEMMA RemovePaid ==
    ASSUME QueueInv, DeadInv, QueueInv', RemoveBatch PROVE DeadInv'
<1>. DEFINE c == Current
            b == pass.batch
            q == outbox[c]
<1>1. /\ pass.at = "remove" /\ Draining /\ ~Resting
      /\ outbox' = [outbox EXCEPT ![c] = Erased(@, b)]
      /\ UNCHANGED <<dead, served, verdicts>>
  BY DEF RemoveBatch, Draining, Resting
<1>2. /\ c \in Domains /\ b \in Seq(Mutations) /\ q \in Seq(Mutations)
      /\ Typed /\ pass \in Pass
  BY <1>1, CurrentTyped, Givens
<1>3. HeadOf(b, q) /\ Accepted(b)
  BY <1>1 DEF QueueInv, UnderWay
<1>4. /\ ToSet(outbox'[c]) = ToSet(q) \ ToSet(b) /\ ToSet(b) \subseteq ToSet(q)
      /\ \A d \in Domains \ {c} : outbox'[d] = outbox[d]
  BY <1>1, <1>2, <1>3, ErasingHead, HeadInQueue
<1>5. dead[c] \cap ToSet(q) = {}
  BY <1>1, <1>3 DEF DeadInv, CopiesStay, Copies
<1>6. Resting' /\ \A d \in Domains : rejections'[d] <= rejections[d]
  <2>1. CASE Finish("paused", error, rejections) \/ Finish("failed", TRUE, rejections)
    BY <1>1, <2>1, StopLedger, Givens
  <2>2. CASE /\ pass' = [pass EXCEPT !.at = "take", !.batch = <<>>, !.pushed = TRUE]
             /\ rejections' = rejections
    <3>1. pass'.at = "take"
      BY <1>2, <2>2 DEF Pass
    <3>. QED BY <2>2, <3>1, LedgersTyped DEF Resting
  <2>. QED BY <2>1, <2>2 DEF RemoveBatch
<1>. HIDE DEF b, q, c
<1>7. ASSUME NEW d \in Domains PROVE Evicted(d)' = Evicted(d) /\ Copies(d)' \subseteq Copies(d)
  <2>1. CASE d = c
    <3>1. /\ dead[c] \ ToSet(outbox'[c]) = dead[c] \ ToSet(q)
          /\ dead[c] \cap ToSet(outbox'[c]) = {}
      BY <1>4, <1>5
    <3>. QED BY <1>1, <2>1, <3>1 DEF Evicted, Copies, q
  <2>2. CASE d # c
    BY <1>1, <1>4, <2>2 DEF Evicted, Copies
  <2>. QED BY <2>1, <2>2
<1>8. DeadLettersPaidFor'
  <2>1. \A d \in Domains : verdicts'[d] >= verdicts[d]
    BY <1>1, LedgersTyped
  <2>. QED BY <1>6, <1>7, <2>1, PaidStill
<1>9. CopiesStay'
  <2>. SUFFICES ASSUME NEW d \in Domains, Copies(d)' # {}
                PROVE  /\ Copies(d)' = {outbox'[d][1]}
                       /\ \E i \in DOMAIN outbox'[d] : i <= FlushBatch /\ outbox'[d][i] \in Poison
    BY <1>6 DEF CopiesStay, Resting, Copies
  <2>1. d # c
    BY <1>5, <1>7 DEF Copies, q
  <2>2. outbox'[d] = outbox[d] /\ Copies(d)' = Copies(d)
    BY <1>1, <1>4, <2>1 DEF Copies
  <2>. QED BY <2>2 DEF DeadInv, CopiesStay
<1>. QED BY <1>1, <1>6, <1>8, <1>9 DEF DeadInv, Resting

LEMMA DeadInit == Init => DeadInv
<1>. SUFFICES ASSUME Init PROVE DeadInv
  OBVIOUS
<1>1. \A d \in Domains : dead[d] = {} /\ rejections[d] = 0 /\ verdicts[d] = 0
  BY DEF Init
<1>2. \A d \in Domains : Copies(d) = {} /\ Evicted(d) = {}
  BY <1>1 DEF Copies, Evicted
<1>3. pass.at = "idle" /\ IsFiniteSet({}) /\ Cardinality({}) = 0
  BY Passes, FS_EmptySet DEF Init
<1>4. DeadLettersPaidFor
  <2>1. 0 * Rejections + 0 <= 0
    BY EngineAssumption
  <2>. QED BY <1>1, <1>2, <1>3, <2>1 DEF DeadLettersPaidFor, Evicted
<1>. QED BY <1>1, <1>2, <1>3, <1>4 DEF DeadInv, CopiesStay

LEMMA DeadStep == QueueInv /\ QueueInv' /\ DeadInv /\ [Next]_vars => DeadInv'
<1>. SUFFICES ASSUME QueueInv, QueueInv', DeadInv, [Next]_vars PROVE DeadInv'
  OBVIOUS
<1>1. ASSUME Elsewhere PROVE DeadInv'
  BY <1>1, StillPaid DEF Elsewhere, Still
<1>2. ASSUME NEW d \in Domains, NEW m \in Mutations, Enqueue(d, m) PROVE DeadInv'
  BY <1>2, EnqueuePaid
<1>3. ASSUME NEW d \in Domains, BeginSync(d) \/ Unregister(d) \/ FlushDomain(d) PROVE DeadInv'
  BY <1>1, <1>3, BeginSyncTyped, UnregisterTyped, TriggersTyped, Givens
<1>4. CASE DebounceFires \/ RetryFires \/ Periodic \/ Connectivity
  BY <1>1, <1>4, TriggersTyped, Givens
<1>5. CASE GoOffline \/ GoOnline
  BY <1>1, <1>5, NetworkTyped, Givens
<1>6. CASE EndPass
  BY <1>1, <1>6, EndPassTyped, Givens
<1>7. CASE Reload
  BY <1>7, ReloadPaid
<1>8. CASE Take
  BY <1>8, TakePaid
<1>9. CASE TakeFails \/ RemoveFails \/ SyncFails \/ SyncPaused \/ SyncOk
  BY <1>9, DrainStill, StillPaid
<1>10. CASE SyncRejected
  BY <1>10, SyncRejectedPaid
<1>11. CASE Bury \/ BuryFails
  BY <1>11, BuryPaid, BuryFailsPaid
<1>12. CASE RemoveBatch
  BY <1>12, RemovePaid
<1>13. CASE UNCHANGED vars
  <2>1. UNCHANGED <<outbox, dead, verdicts, rejections, pass>>
    BY <1>13 DEF vars, durable, ledgers
  <2>2. Still
    BY <2>1, LedgersTyped DEF Still
  <2>. QED BY <2>2, StillPaid
<1>. QED
  BY <1>2, <1>3, <1>4, <1>5, <1>6, <1>7, <1>8, <1>9, <1>10, <1>11, <1>12, <1>13 DEF Next

\* A dead letter is paid for by DEAD_LETTER_REJECTIONS rejected batches of its
\* own domain, whatever reload or failure cuts a burial short: the copy it
\* leaves behind stays at the head of a queue whose batches are rejected until
\* the burial is done (engine #drainDomain, outbox deadLetter).
THEOREM DeadLettersArePaidFor == Spec => []DeadLettersPaidFor
<1>1. DeadInv => DeadLettersPaidFor
  BY DEF DeadInv
<1>. QED BY <1>1, DeadInit, DeadStep, QueueInvariant, PTL DEF Spec
=============================================================================
