------------------------------ MODULE GateProofs ------------------------------
(***************************************************************************)
(* The gate's types, that a lifted ban stays lifted, and that a ban the    *)
(* table holds is enforced, for any number of addresses and requests and   *)
(* for all windows and thresholds.                                         *)
(*                                                                         *)
(* What could bring a lifted ban back is a copy of it: the row in the      *)
(* table, the snapshot in the hands of the flush, the bucket in memory.    *)
(* The first invariant, LiftInv, says that no copy outlives the lift.  It  *)
(* needs the lock: while a lift is under way there is no snapshot, and     *)
(* what the lift has deleted from the table cannot be written again before *)
(* it clears the memory.                                                   *)
(*                                                                         *)
(* What could end a durable ban early is a shorter one set over it, by a   *)
(* request that was let in before the ban and sets its block after it.     *)
(* The last invariant, EnforcedInv, says that the bucket in memory runs as *)
(* long as each of its copies that is not waived, and that a block is not  *)
(* set over a running one but at the instant of a lift: a window sends one *)
(* request through the locks, and the unit is not banned while it is there.*)
(***************************************************************************)
EXTENDS Gate, FiniteSetTheorems, WellFoundedInduction, TLAPS

LEMMA NoneIsIdle == None.at = "idle"
BY DEF None

(* The history of a unit. *)

\* Induction, as the principle of the least number.
LEMMA LeastNatural ==
    ASSUME NEW T, T \subseteq Nat, T # {}
    PROVE  \E x \in T : \A y \in T : x <= y
<1>1. IsWellFoundedOn(OpToRel(<, Nat), Nat)
  BY NatLessThanWellFounded
<1>2. PICK x \in T : \A y \in T : ~ (<<y, x>> \in OpToRel(<, Nat))
  BY <1>1, WFMin
<1>3. \A y \in T : ~ (y < x)
  BY <1>2 DEF OpToRel
<1>. QED BY <1>3

\* What record_qualifying leaves of a history is one.
LEMMA RecentHistory ==
    ASSUME clock \in Nat, NEW T, T \subseteq Nat, NEW h \in Seq(T)
    PROVE  Recent(h) \in Seq(T)
<1>. DEFINE Is(k) == /\ \A j \in 1..(k - 1) : h[j] + LongWindow < clock
                     /\ k <= Len(h) => h[k] + LongWindow >= clock
            first == CHOOSE k \in 1..(Len(h) + 1) : Is(k)
            S == {k \in 1..(Len(h) + 1) : k <= Len(h) => h[k] + LongWindow >= clock}
<1>1. LongWindow \in Nat /\ Len(h) \in Nat
  BY GateAssumption
<1>0. \A k \in 1..Len(h) : h[k] \in T
  OBVIOUS
<1>2. \A k \in 1..Len(h) : h[k] \in T /\ h[k] \in Nat
  BY <1>0
<1>3. \E k \in 1..(Len(h) + 1) : Is(k)
  <2>1. S \subseteq Nat /\ Len(h) + 1 \in S
    BY <1>1
  <2>2. PICK k \in S : \A y \in S : k <= y
    BY <2>1, LeastNatural
  <2>3. \A j \in 1..(k - 1) : h[j] + LongWindow < clock
    BY <1>1, <1>2, <2>2
  <2>. QED BY <2>2, <2>3
<1>4. first \in 1..(Len(h) + 1)
  BY <1>3
<1>5. Recent(h) = SubSeq(h, first, Len(h))
  BY DEF Recent
<1>. HIDE DEF first
<1>. QED BY <1>1, <1>4, <1>5

-----------------------------------------------------------------------------
(* Types. *)

Lengths  == 0..(TempDuration + LongDuration)
Asking   == [at : {"count", "first block", "record"}, unit : Units]
Blocking == [at : {"cap", "block"}, unit : Units, for : Lengths]
Serving  == [at : {"inner"}, unit : Units, first : BOOLEAN]
Work     == {None} \cup Asking \cup Blocking \cup Serving
Taken    == [at : {"write"}, fixed : [Units -> Fix], bans : [Units -> Until]]
Lifting  == [at : {"delete", "clear ban", "clear window"}, unit : Units]

MemoryOK == /\ fixed \in [Units -> Fix]
            /\ ban \in [Units -> [history : Seq(1..MaxClock), until : Until]]
            /\ suspicious \in [Units -> Nat]
TableOK == table \in [fixed : [Units -> Fix], bans : [Units -> Until]]
ActorsOK == /\ request \in [Requests -> Work]
            /\ flusher \in {None} \cup Taken /\ admin \in {None} \cup Lifting
            /\ flusher = None \/ admin = None
RestOK == lifted \cup cleared \cup waived \subseteq Units /\ clock \in 1..MaxClock /\ faults \in Nat

\* The type invariant with the types of what is under way.
TypeInv == MemoryOK /\ TableOK /\ ActorsOK /\ RestOK

LEMMA Constants ==
    /\ MaxRequests \in Nat \ {0} /\ Window \in Nat \ {0} /\ TempDuration \in Nat \ {0}
    /\ LongDuration \in Nat \ {0} /\ MaxClock \in Nat \ {0} /\ LongWindow \in Nat \ {0}
BY GateAssumption

LEMMA EmptyTyped ==
    /\ NoneFix \in Fix /\ 0 \in Until
    /\ NoneBan \in [history : Seq(1..MaxClock), until : Until]
BY Constants DEF NoneFix, NoneBan, Fix, Until

LEMMA DurationTyped == ASSUME NEW h PROVE Duration(h) \in Lengths
BY Constants DEF Duration, Lengths

LEMMA RequestSteps ==
    ASSUME ActorsOK, NEW r \in Requests, NEW s \in Work, Step(r, s)
    PROVE  request' \in [Requests -> Work]
BY DEF ActorsOK, Step

LEMMA NoneIsWork == None \in Work
BY DEF Work

LEMMA AskingUnit ==
    ASSUME ActorsOK, NEW r \in Requests, request[r].at \in {"count", "first block", "record"}
    PROVE  request[r] \in Asking /\ request[r].unit \in Units
<1>1. request[r] \in Work
  BY DEF ActorsOK
<1>2. request[r] # None /\ request[r] \notin Serving /\ request[r] \notin Blocking
  BY NoneIsIdle DEF Serving, Blocking
<1>3. request[r] \in Asking
  BY <1>1, <1>2 DEF Work
<1>. QED BY <1>3 DEF Asking

LEMMA BlockingUnit ==
    ASSUME ActorsOK, NEW r \in Requests, request[r].at \in {"cap", "block"}
    PROVE  request[r] \in Blocking /\ request[r].unit \in Units /\ request[r].for \in Lengths
<1>1. request[r] \in Work
  BY DEF ActorsOK
<1>2. request[r] # None /\ request[r] \notin Serving /\ request[r] \notin Asking
  BY NoneIsIdle DEF Serving, Asking
<1>3. request[r] \in Blocking
  BY <1>1, <1>2 DEF Work
<1>. QED BY <1>3 DEF Blocking

LEMMA ServingUnit ==
    ASSUME ActorsOK, NEW r \in Requests, request[r].at = "inner"
    PROVE  request[r] \in Serving /\ request[r].unit \in Units
<1>1. request[r] \in Work
  BY DEF ActorsOK
<1>2. request[r] # None /\ request[r] \notin Asking /\ request[r] \notin Blocking
  BY NoneIsIdle DEF Asking, Blocking
<1>3. request[r] \in Serving
  BY <1>1, <1>2 DEF Work
<1>. QED BY <1>3 DEF Serving

LEMMA LiftingUnit ==
    ASSUME ActorsOK, admin.at \in {"delete", "clear ban", "clear window"}
    PROVE  admin \in Lifting /\ admin.unit \in Units /\ flusher = None
<1>1. admin # None
  BY NoneIsIdle
<1>2. admin \in Lifting /\ flusher = None
  BY <1>1 DEF ActorsOK
<1>. QED BY <1>2 DEF Lifting

LEMMA ArriveTyped ==
    ASSUME TypeInv, NEW r \in Requests, NEW u \in Units, Arrive(r, u) PROVE TypeInv'
<1>1. [at |-> "count", unit |-> u] \in Work
  BY DEF Asking, Work
<1>2. request' \in [Requests -> Work]
  BY <1>1, RequestSteps DEF TypeInv, Arrive
<1>. QED BY <1>2 DEF Arrive, memory, history, TypeInv, MemoryOK, TableOK, ActorsOK, RestOK

LEMMA CountTyped == ASSUME TypeInv, NEW r \in Requests, Count(r) PROVE TypeInv'
<1>. DEFINE u == request[r].unit
            w == IF fixed[u].until > clock THEN [fixed[u] EXCEPT !.count = @ + 1]
                 ELSE [count |-> 1, until |-> clock + Window]
            s == IF w.count <= MaxRequests
                 THEN [at |-> "inner", unit |-> u, first |-> w.count = 1]
                 ELSE IF w.count = MaxRequests + 1
                      THEN [at |-> "first block", unit |-> u] ELSE None
<1>1. u \in Units
  BY AskingUnit DEF Count, TypeInv
<1>2. w.count <= MaxRequests + 2 /\ fixed' = [fixed EXCEPT ![u] = w] /\ Step(r, s)
  BY DEF Count
<1>3. fixed[u] \in Fix /\ clock \in 1..MaxClock
  BY <1>1 DEF TypeInv, MemoryOK, RestOK
<1>4. w \in Fix
  <2>1. CASE fixed[u].until > clock
    <3>1. w = [count |-> fixed[u].count + 1, until |-> fixed[u].until]
      BY <1>3, <2>1 DEF Fix
    <3>2. fixed[u].count \in Nat /\ fixed[u].until \in 0..(MaxClock + Window)
      BY <1>3, Constants DEF Fix
    <3>3. fixed[u].count + 1 <= MaxRequests + 2
      <4>1. w.count = fixed[u].count + 1
        BY <3>1
      <4>. HIDE DEF w
      <4>. QED BY <1>2, <4>1
    <3>4. fixed[u].count + 1 \in 0..(MaxRequests + 2)
      BY <3>2, <3>3, Constants
    <3>. QED BY <3>1, <3>2, <3>4 DEF Fix
  <2>2. CASE ~ (fixed[u].until > clock)
    BY <1>3, <2>2, Constants DEF Fix
  <2>. QED BY <2>1, <2>2
<1>5. s \in Work
  BY <1>1 DEF Asking, Serving, Work
<1>6. request' \in [Requests -> Work]
  BY <1>2, <1>5, RequestSteps DEF TypeInv
<1>7. fixed' \in [Units -> Fix]
  BY <1>2, <1>4 DEF TypeInv, MemoryOK
<1>. QED BY <1>6, <1>7 DEF Count, history, TypeInv, MemoryOK, TableOK, ActorsOK, RestOK

LEMMA ObserveTyped ==
    ASSUME TypeInv, NEW r \in Requests, NEW bad \in BOOLEAN, Observe(r, bad) PROVE TypeInv'
<1>. DEFINE q == request[r]
<1>1. request' \in [Requests -> Work]
  BY RequestSteps, NoneIsWork DEF TypeInv, Observe
<1>2. q.unit \in Units
  BY ServingUnit DEF Observe, TypeInv
<1>3. suspicious' \in [Units -> Nat]
  <2>1. suspicious[q.unit] \in Nat
    BY <1>2 DEF TypeInv, MemoryOK
  <2>2. (IF q.first THEN 0 ELSE suspicious[q.unit]) + (IF bad THEN 1 ELSE 0) \in Nat
    BY <2>1
  <2>. QED BY <1>2, <2>2 DEF Observe, TypeInv, MemoryOK
<1>. QED BY <1>1, <1>3 DEF Observe, history, TypeInv, MemoryOK, TableOK, ActorsOK, RestOK

LEMMA FirstBlockTyped == ASSUME TypeInv, NEW r \in Requests, FirstBlock(r) PROVE TypeInv'
<1>1. request[r].unit \in Units
  BY AskingUnit DEF FirstBlock, TypeInv
<1>2. [at |-> "record", unit |-> request[r].unit] \in Work
  BY <1>1 DEF Asking, Work
<1>3. request' \in [Requests -> Work]
  BY <1>2, RequestSteps, NoneIsWork DEF TypeInv, FirstBlock
<1>. QED BY <1>3 DEF FirstBlock, memory, history, TypeInv, MemoryOK, TableOK, ActorsOK, RestOK

LEMMA RecordTyped == ASSUME TypeInv, NEW r \in Requests, Record(r) PROVE TypeInv'
<1>. DEFINE u == request[r].unit
            h == Append(Recent(ban[u].history), clock)
            q == [at |-> "cap", unit |-> u, for |-> Duration(h)]
<1>1. u \in Units
  BY AskingUnit DEF Record, TypeInv
<1>2. clock \in 1..MaxClock /\ clock \in Nat /\ 1..MaxClock \subseteq Nat
  BY Constants DEF TypeInv, RestOK
<1>3. ban[u] \in [history : Seq(1..MaxClock), until : Until]
  BY <1>1 DEF TypeInv, MemoryOK
<1>4. h \in Seq(1..MaxClock)
  <2>1. Recent(ban[u].history) \in Seq(1..MaxClock)
    BY <1>2, <1>3, RecentHistory
  <2>. QED BY <1>2, <2>1
<1>5. q \in Work
  BY <1>1, DurationTyped DEF Blocking, Work
<1>6. ban' = [ban EXCEPT ![u].history = h] /\ Step(r, q)
  BY DEF Record
<1>7. request' \in [Requests -> Work]
  BY <1>5, <1>6, RequestSteps DEF TypeInv
<1>. HIDE DEF h
<1>8. ban' \in [Units -> [history : Seq(1..MaxClock), until : Until]]
  BY <1>1, <1>3, <1>4, <1>6 DEF TypeInv, MemoryOK
<1>. QED BY <1>7, <1>8 DEF Record, history, TypeInv, MemoryOK, TableOK, ActorsOK, RestOK

LEMMA UnderCapTyped == ASSUME TypeInv, NEW r \in Requests, UnderCap(r) PROVE TypeInv'
<1>1. request[r] \in Blocking
  BY BlockingUnit DEF UnderCap, TypeInv
<1>2. [request[r] EXCEPT !.at = "block"] \in Work
  BY <1>1 DEF Blocking, Work
<1>3. request' \in [Requests -> Work]
  BY <1>2, RequestSteps, NoneIsWork DEF TypeInv, UnderCap
<1>. QED BY <1>3 DEF UnderCap, memory, history, TypeInv, MemoryOK, TableOK, ActorsOK, RestOK

LEMMA SetBlockTyped == ASSUME TypeInv, NEW r \in Requests, SetBlock(r) PROVE TypeInv'
<1>. DEFINE u == request[r].unit
            until == clock + request[r].for
<1>1. u \in Units /\ request[r].for \in Lengths
  BY BlockingUnit DEF SetBlock, TypeInv
<1>2. until \in Until
  BY <1>1, Constants DEF TypeInv, RestOK, Lengths, Until
<1>3. ban' = [ban EXCEPT ![u].until = until] /\ Step(r, None)
  BY DEF SetBlock
<1>4. lifted' \subseteq Units /\ waived' \subseteq Units /\ cleared' \subseteq Units
  BY <1>1 DEF SetBlock, TypeInv, RestOK
<1>5. request' \in [Requests -> Work]
  BY <1>3, RequestSteps, NoneIsWork DEF TypeInv
<1>. HIDE DEF until
<1>6. ban' \in [Units -> [history : Seq(1..MaxClock), until : Until]]
  BY <1>1, <1>2, <1>3 DEF TypeInv, MemoryOK
<1>. QED BY <1>4, <1>5, <1>6 DEF SetBlock, TypeInv, MemoryOK, TableOK, ActorsOK, RestOK

LEMMA TakeSnapshotTyped == ASSUME TypeInv, TakeSnapshot PROVE TypeInv'
<1>1. flusher' \in Taken
  BY EmptyTyped DEF TakeSnapshot, Taken, TypeInv, MemoryOK
<1>. QED BY <1>1 DEF TakeSnapshot, FlushMayStart, Free, memory, history, TypeInv, MemoryOK, TableOK,
                     ActorsOK, RestOK

LEMMA FlushTyped == ASSUME TypeInv, Flush PROVE TypeInv'
<1>1. flusher \in Taken
  BY DEF Flush, TypeInv, ActorsOK
<1>2. Written(table, flusher) \in [fixed : [Units -> Fix], bans : [Units -> Until]]
  BY <1>1, EmptyTyped DEF Written, Taken, TypeInv, TableOK
<1>3. TableOK'
  BY <1>2 DEF Flush, TypeInv, TableOK
<1>4. MemoryOK'
  BY EmptyTyped DEF Flush, TypeInv, MemoryOK
<1>. QED BY <1>3, <1>4 DEF Flush, Fault, TypeInv, ActorsOK, RestOK

LEMMA LiftTyped == ASSUME TypeInv, NEW u \in Units, Lift(u) PROVE TypeInv'
BY DEF Lift, Free, Lifting, memory, history, TypeInv, MemoryOK, TableOK, ActorsOK, RestOK

LEMMA DeleteRowsTyped == ASSUME TypeInv, DeleteRows PROVE TypeInv'
<1>. DEFINE u == admin.unit
            rows == [fixed |-> [table.fixed EXCEPT ![u] = NoneFix],
                     bans  |-> [table.bans EXCEPT ![u] = 0]]
<1>1. admin \in Lifting /\ flusher = None
  BY LiftingUnit DEF DeleteRows, TypeInv
<1>2. rows \in [fixed : [Units -> Fix], bans : [Units -> Until]]
  BY EmptyTyped DEF TypeInv, TableOK
<1>3. [admin EXCEPT !.at = "clear ban"] \in Lifting
  BY <1>1 DEF Lifting
<1>4. \/ table' = rows /\ admin' = [admin EXCEPT !.at = "clear ban"] /\ UNCHANGED faults
      \/ Fault /\ admin' = None /\ UNCHANGED table
  BY Zenon DEF DeleteRows
<1>. HIDE DEF rows
<1>5. table' \in [fixed : [Units -> Fix], bans : [Units -> Until]]
  BY <1>2, <1>4 DEF TypeInv, TableOK
<1>6. admin' \in {None} \cup Lifting
  BY <1>3, <1>4
<1>7. faults' \in Nat
  <2>1. UNCHANGED faults \/ faults' = faults + 1
    BY <1>4 DEF Fault
  <2>. QED BY <2>1 DEF TypeInv, RestOK
<1>8. /\ UNCHANGED <<fixed, ban, suspicious, request, flusher, lifted, clock, cleared>>
      /\ waived' \subseteq waived
  BY DEF DeleteRows, memory
<1>. QED BY <1>1, <1>5, <1>6, <1>7, <1>8 DEF TypeInv, MemoryOK, TableOK, ActorsOK, RestOK

LEMMA ClearBanTyped == ASSUME TypeInv, ClearBan PROVE TypeInv'
<1>1. admin \in Lifting /\ admin.unit \in Units /\ flusher = None
  BY LiftingUnit DEF ClearBan, TypeInv
<1>2. [admin EXCEPT !.at = "clear window"] \in Lifting
  BY <1>1 DEF Lifting
<1>. QED BY <1>1, <1>2, EmptyTyped DEF ClearBan, TypeInv, MemoryOK, TableOK, ActorsOK, RestOK

LEMMA ClearWindowTyped == ASSUME TypeInv, ClearWindow PROVE TypeInv'
<1>1. admin.unit \in Units
  BY LiftingUnit DEF ClearWindow, TypeInv
<1>. QED BY <1>1, EmptyTyped DEF ClearWindow, TypeInv, MemoryOK, TableOK, ActorsOK, RestOK

LEMMA TickTyped == ASSUME TypeInv, Tick PROVE TypeInv'
<1>1. clock' \in 1..MaxClock
  BY Constants DEF Tick, TypeInv, RestOK
<1>. QED BY <1>1 DEF Tick, memory, TypeInv, MemoryOK, TableOK, ActorsOK, RestOK

LEMMA RowsTyped ==
    ASSUME TypeInv, NEW rows \in {table, Empty}
    PROVE  rows \in [fixed : [Units -> Fix], bans : [Units -> Until]]
BY EmptyTyped DEF Empty, TypeInv, TableOK

LEMMA RestartTyped ==
    ASSUME TypeInv, NEW rows \in {table, Empty}, Restart(rows) PROVE TypeInv'
<1>0. rows \in [fixed : [Units -> Fix], bans : [Units -> Until]]
  BY RowsTyped
<1>1. fixed' \in [Units -> Fix] /\ suspicious' \in [Units -> Nat]
  BY <1>0, EmptyTyped DEF Restart
<1>2. \A u \in Units : RestoredBan(rows, u) \in Until
  BY <1>0, EmptyTyped DEF RestoredBan
<1>3. \A u \in Units : [NoneBan EXCEPT !.until = RestoredBan(rows, u)]
                           \in [history : Seq(1..MaxClock), until : Until]
  BY <1>2, EmptyTyped
<1>4. ban' \in [Units -> [history : Seq(1..MaxClock), until : Until]]
  BY <1>3 DEF Restart
<1>5. request' \in [Requests -> Work]
  BY NoneIsWork DEF Restart
<1>6. /\ UNCHANGED <<table, lifted, clock, cleared>> /\ flusher' = None /\ admin' = None
      /\ faults' = faults + 1 /\ waived' \subseteq Units
  BY DEF Restart, Fault
<1>. QED BY <1>1, <1>4, <1>5, <1>6 DEF TypeInv, MemoryOK, TableOK, ActorsOK, RestOK

LEMMA InitTypeInv == Init => TypeInv
BY EmptyTyped, Constants, NoneIsWork DEF Init, Empty, TypeInv, MemoryOK, TableOK, ActorsOK, RestOK

LEMMA StepTypeInv == TypeInv /\ [Next]_vars => TypeInv'
<1>. SUFFICES ASSUME TypeInv, [Next]_vars PROVE TypeInv'
  OBVIOUS
<1>1. CASE UNCHANGED vars
  BY <1>1 DEF vars, memory, history, TypeInv, MemoryOK, TableOK, ActorsOK, RestOK
<1>. QED
  BY <1>1, ArriveTyped, ObserveTyped, CountTyped, FirstBlockTyped, RecordTyped,
     UnderCapTyped, SetBlockTyped, TakeSnapshotTyped, FlushTyped, LiftTyped, DeleteRowsTyped, ClearBanTyped, ClearWindowTyped, TickTyped,
     RestartTyped DEF Next

\* The windows, histories, bans and rows of the gate keep their types, and the flush
\* and an administrator never hold PERSISTENCE_LOCK together.
THEOREM GateTyped == Spec => []TypeOK
<1>1. TypeInv => TypeOK
  BY DEF TypeInv, MemoryOK, TableOK, ActorsOK, RestOK, TypeOK
<1>. QED BY <1>1, InitTypeInv, StepTypeInv, PTL DEF Spec

-----------------------------------------------------------------------------
(* What is lifted stays lifted. *)

\* The shapes the argument looks at; histories and windows are left open.
Instants == /\ clock \in Nat
            /\ \A u \in Units : ban[u].until \in Nat /\ table.bans[u] \in Nat
            /\ flusher # None => \A u \in Units : flusher.bans[u] \in Nat
            /\ DOMAIN ban = Units /\ DOMAIN table.bans = Units /\ lifted \subseteq Units

\* One of the two holds PERSISTENCE_LOCK.
Locked == /\ flusher = None \/ admin = None
          /\ admin # None =>
                admin \in [at : {"delete", "clear ban", "clear window"}, unit : Units]

\* The row is gone when the lift goes on to the memory.
Deleted == admin.at = "clear ban" => table.bans[admin.unit] = 0

\* No copy of a lifted ban is still to run.
Forgotten == \A u \in lifted : /\ ban[u].until <= clock /\ table.bans[u] <= clock
                               /\ flusher # None => flusher.bans[u] <= clock

LiftInv == Instants /\ Locked /\ Deleted /\ Forgotten

LEMMA InitLiftInv == Init => LiftInv
BY GateAssumption DEF Init, LiftInv, Instants, Locked, Deleted, Forgotten, Empty, NoneBan, None

\* A step that touches neither bans nor lock keeps the invariant.
LEMMA Elsewhere ==
    ASSUME LiftInv, UNCHANGED <<ban, table, flusher, admin, lifted, clock>>
    PROVE  LiftInv'
BY DEF LiftInv, Instants, Locked, Deleted, Forgotten

\* A ban is set: the unit is not a lifted one any more.
LEMMA SetBlockKeeps ==
    ASSUME TypeInv, LiftInv, NEW r \in Requests, SetBlock(r)
    PROVE  LiftInv'
<1>. DEFINE u == request[r].unit
            until == clock + request[r].for
<1>1. UNCHANGED <<table, flusher, admin, clock>> /\ lifted' = lifted \ {u}
  BY DEF SetBlock
<1>2. u \in Units /\ until \in Nat
  BY BlockingUnit, Constants DEF SetBlock, TypeInv, RestOK, Lengths
<1>3. /\ DOMAIN ban' = Units /\ \A v \in Units \ {u} : ban'[v] = ban[v]
      /\ ban'[u].until = until
  BY <1>2 DEF SetBlock, TypeInv, MemoryOK
<1>. HIDE DEF until
<1>. QED BY <1>1, <1>2, <1>3 DEF LiftInv, Instants, Locked, Deleted, Forgotten

\* A longer history is no longer ban.
LEMMA RecordKeeps ==
    ASSUME TypeInv, LiftInv, NEW r \in Requests, Record(r) PROVE LiftInv'
<1>1. UNCHANGED <<table, flusher, admin, lifted, clock>>
  BY DEF Record, history
<1>2. DOMAIN ban' = Units /\ \A v \in Units : ban'[v].until = ban[v].until
  <2>. DEFINE u == request[r].unit
              h == Append(Recent(ban[u].history), clock)
  <2>1. ban' = [ban EXCEPT ![u].history = h]
    BY DEF Record
  <2>. HIDE DEF h
  <2>. QED BY <2>1 DEF TypeInv, MemoryOK
<1>. QED BY <1>1, <1>2 DEF LiftInv, Instants, Locked, Deleted, Forgotten

LEMMA TakeSnapshotKeeps == ASSUME LiftInv, TakeSnapshot PROVE LiftInv'
<1>1. UNCHANGED <<ban, table, admin, lifted, clock>> /\ admin = None
  BY DEF TakeSnapshot, FlushMayStart, Free, memory, history
<1>2. \A u \in Units : flusher'.bans[u] = IF Banned(u) THEN ban[u].until ELSE 0
  BY DEF TakeSnapshot
<1>3. \A u \in Units : flusher'.bans[u] \in Nat
  BY <1>2 DEF LiftInv, Instants
<1>4. \A u \in lifted : flusher'.bans[u] <= clock
  BY <1>2 DEF LiftInv, Instants, Forgotten, Banned
<1>. QED BY <1>1, <1>3, <1>4 DEF LiftInv, Instants, Locked, Deleted, Forgotten

LEMMA FlushKeeps == ASSUME LiftInv, Flush PROVE LiftInv'
<1>1. UNCHANGED <<admin, lifted, clock>> /\ flusher' = None /\ flusher # None /\ admin = None
  BY DEF Flush, LiftInv, Locked
<1>2. DOMAIN ban' = Units /\ \A u \in Units : ban'[u].until \in {0, ban[u].until}
  BY DEF Flush, NoneBan
<1>3. /\ DOMAIN table'.bans = Units
      /\ \A u \in Units : table'.bans[u] \in {0, table.bans[u], flusher.bans[u]}
  BY DEF Flush, Written, LiftInv, Instants
<1>4. \A u \in Units : /\ ban[u].until \in Nat /\ ban'[u].until \in Nat
                       /\ table.bans[u] \in Nat /\ table'.bans[u] \in Nat
  BY <1>1, <1>2, <1>3 DEF LiftInv, Instants
<1>5. \A u \in lifted : ban'[u].until <= clock /\ table'.bans[u] <= clock
  BY <1>1, <1>2, <1>3 DEF LiftInv, Instants, Forgotten
<1>. QED BY <1>1, <1>2, <1>3, <1>4, <1>5 DEF LiftInv, Instants, Locked, Deleted, Forgotten, None

LEMMA LiftKeeps == ASSUME LiftInv, NEW u \in Units, Lift(u) PROVE LiftInv'
BY DEF LiftInv, Instants, Locked, Deleted, Forgotten, Lift, Free, memory, history

LEMMA DeleteRowsKeeps == ASSUME LiftInv, DeleteRows PROVE LiftInv'
<1>. DEFINE u == admin.unit
<1>0. UNCHANGED <<ban, flusher, lifted, clock>> /\ admin.at = "delete"
  BY DEF DeleteRows, memory
<1>z. admin # None
  BY <1>0, NoneIsIdle
<1>1. UNCHANGED <<ban, flusher, lifted, clock>> /\ admin # None /\ flusher = None /\ u \in Units
  BY <1>0, <1>z DEF LiftInv, Locked
<1>2. CASE admin' = None /\ UNCHANGED table
  BY <1>1, <1>2 DEF LiftInv, Instants, Locked, Deleted, Forgotten, None
<1>3. CASE /\ table'.bans = [table.bans EXCEPT ![u] = 0]
           /\ admin' = [admin EXCEPT !.at = "clear ban"]
  <2>1. admin' = [at |-> "clear ban", unit |-> u]
    BY <1>1, <1>3 DEF LiftInv, Locked
  <2>2. DOMAIN table'.bans = Units /\ \A v \in Units : table'.bans[v] \in {0, table.bans[v]}
    BY <1>3 DEF LiftInv, Instants
  <2>3. table'.bans[u] = 0
    BY <1>1, <1>3 DEF LiftInv, Instants
  <2>4. Instants'
    BY <1>1, <2>2 DEF LiftInv, Instants
  <2>5. Locked' /\ Deleted'
    BY <1>1, <2>1, <2>3 DEF Locked, Deleted
  <2>6. Forgotten'
    BY <1>1, <2>2 DEF LiftInv, Instants, Forgotten
  <2>. QED BY <2>4, <2>5, <2>6 DEF LiftInv
<1>4. \/ admin' = None /\ UNCHANGED table
      \/ /\ table'.bans = [table.bans EXCEPT ![u] = 0]
         /\ admin' = [admin EXCEPT !.at = "clear ban"]
  <2>1. \/ table' = [fixed |-> [table.fixed EXCEPT ![u] = NoneFix],
                     bans  |-> [table.bans EXCEPT ![u] = 0]]
           /\ admin' = [admin EXCEPT !.at = "clear ban"]
        \/ admin' = None /\ UNCHANGED table
    BY Zenon DEF DeleteRows
  <2>2. table' = [fixed |-> [table.fixed EXCEPT ![u] = NoneFix],
                  bans  |-> [table.bans EXCEPT ![u] = 0]]
           => table'.bans = [table.bans EXCEPT ![u] = 0]
    OBVIOUS
  <2>. QED BY ONLY <2>1, <2>2
<1>. QED BY <1>2, <1>3, <1>4

\* The row is gone already, and no snapshot of it is in the hands of the flush.
LEMMA ClearBanKeeps == ASSUME LiftInv, ClearBan PROVE LiftInv'
<1>. DEFINE u == admin.unit
<1>a. admin.at = "clear ban"
  BY DEF ClearBan
<1>b. admin # None
  BY <1>a, NoneIsIdle
<1>c. UNCHANGED <<table, flusher, clock>>
  BY DEF ClearBan
<1>1. /\ UNCHANGED <<table, flusher, clock>> /\ admin # None /\ flusher = None
      /\ u \in Units /\ table.bans[u] = 0
  BY <1>a, <1>b, <1>c DEF LiftInv, Locked, Deleted
<1>2. admin' = [at |-> "clear window", unit |-> u]
  BY <1>1 DEF ClearBan, LiftInv, Locked
<1>3. lifted' = lifted \cup {u} /\ DOMAIN ban' = Units
  BY DEF ClearBan, LiftInv, Instants
<1>4. ban'[u].until = 0 /\ \A v \in Units \ {u} : ban'[v] = ban[v]
  BY <1>1 DEF ClearBan, LiftInv, Instants, NoneBan
<1>5. Instants'
  BY <1>1, <1>3, <1>4 DEF LiftInv, Instants
<1>6. Locked' /\ Deleted'
  BY <1>1, <1>2 DEF Locked, Deleted
<1>7. Forgotten'
  BY <1>1, <1>3, <1>4 DEF LiftInv, Instants, Forgotten
<1>. QED BY <1>5, <1>6, <1>7 DEF LiftInv

LEMMA ClearWindowKeeps == ASSUME LiftInv, ClearWindow PROVE LiftInv'
BY DEF ClearWindow, LiftInv, Instants, Locked, Deleted, Forgotten, None

\* Time takes no ban back to life.
LEMMA TickKeeps == ASSUME LiftInv, Tick PROVE LiftInv'
<1>1. UNCHANGED <<ban, table, flusher, admin, lifted>> /\ clock' = clock + 1
  BY DEF Tick, memory
<1>2. Instants'
  BY <1>1 DEF LiftInv, Instants
<1>3. Locked' /\ Deleted'
  BY <1>1 DEF LiftInv, Locked, Deleted
<1>4. Forgotten'
  BY <1>1 DEF LiftInv, Instants, Forgotten
<1>. QED BY <1>2, <1>3, <1>4 DEF LiftInv

LEMMA RestartKeeps ==
    ASSUME LiftInv, NEW rows \in {table, Empty}, Restart(rows) PROVE LiftInv'
<1>0. \A u \in Units : rows.bans[u] \in {0, table.bans[u]}
  BY DEF Empty
<1>1. UNCHANGED <<table, lifted, clock>> /\ flusher' = None /\ admin' = None
  BY DEF Restart
<1>2. DOMAIN ban' = Units /\ \A u \in Units : ban'[u].until = RestoredBan(rows, u)
  BY DEF Restart, NoneBan
<1>3. Instants'
  BY <1>0, <1>1, <1>2 DEF LiftInv, Instants, RestoredBan
<1>4. Locked' /\ Deleted'
  BY <1>1 DEF Locked, Deleted, None
<1>5. Forgotten'
  BY <1>0, <1>1, <1>2 DEF LiftInv, Instants, Forgotten, RestoredBan
<1>. QED BY <1>3, <1>4, <1>5 DEF LiftInv

LEMMA StepLiftInv == TypeInv /\ LiftInv /\ [Next]_vars => LiftInv'
<1>. SUFFICES ASSUME TypeInv, LiftInv, [Next]_vars PROVE LiftInv'
  OBVIOUS
<1>. USE Elsewhere DEF memory, history
<1>1. ASSUME NEW r \in Requests, NEW u \in Units, Arrive(r, u) PROVE LiftInv'
  BY <1>1 DEF Arrive
<1>2. ASSUME NEW r \in Requests, NEW bad \in BOOLEAN, Observe(r, bad) PROVE LiftInv'
  BY <1>2 DEF Observe
<1>3. ASSUME NEW r \in Requests, Count(r) \/ FirstBlock(r) \/ UnderCap(r) PROVE LiftInv'
  BY <1>3 DEF Count, FirstBlock, UnderCap
<1>4. CASE UNCHANGED vars
  BY <1>4 DEF vars
<1>. QED
  BY <1>1, <1>2, <1>3, <1>4, RecordKeeps, SetBlockKeeps, TakeSnapshotKeeps, FlushKeeps,
     LiftKeeps, DeleteRowsKeeps, ClearBanKeeps, ClearWindowKeeps, TickKeeps, RestartKeeps
     DEF Next

\* A lifted ban stays lifted until a request sets a new one (delete_ban, "cannot
\* resurrect the row"): through every flush, prune, failure and restart.
THEOREM LiftsHold == Spec => []LiftedStaysLifted
<1>1. LiftInv => LiftedStaysLifted
  BY DEF LiftInv, Instants, Forgotten, LiftedStaysLifted, Banned
<1>. QED BY <1>1, InitTypeInv, StepTypeInv, InitLiftInv, StepLiftInv, PTL DEF Spec
-----------------------------------------------------------------------------
(* What the table holds, memory enforces. *)

Counting(r, u) == request[r].at = "count" /\ request[r].unit = u
Locking(r, u)  == /\ request[r].at \in {"first block", "record", "cap", "block"}
                  /\ request[r].unit = u

\* The window of a unit overflows.
Runs(u) == fixed[u].until > clock /\ fixed[u].count > MaxRequests

\* A ban that the table or a snapshot still holds runs as long in memory.
Kept == \A u \in Units \ waived :
           /\ table.bans[u] > clock => ban[u].until >= table.bans[u]
           /\ flusher # None => (flusher.bans[u] > clock => ban[u].until >= flusher.bans[u])

\* One request of a window is on its way through the locks, and the unit is banned when
\* that one sets its block, not before; requests let in earlier then find the window
\* overflowing, and are not sent the same way.
Once(u) == /\ \A r \in Requests : Locking(r, u) =>
                 Runs(u) /\ ~Banned(u) /\ \A s \in Requests \ {r} : ~Locking(s, u)
           /\ \A r \in Requests : Counting(r, u) /\ Banned(u) => Runs(u)

OnceInv == \A u \in Units \ cleared : Once(u)

EnforcedInv == Kept /\ OnceInv

LEMMA Numbers ==
    ASSUME TypeInv
    PROVE  /\ clock \in Nat
           /\ \A u \in Units : /\ ban[u].until \in Nat /\ table.bans[u] \in Nat
                               /\ fixed[u].until \in Nat /\ fixed[u].count \in Nat
                               /\ flusher # None => flusher.bans[u] \in Nat
<1>1. clock \in Nat
  BY Constants DEF TypeInv, RestOK
<1>2. \A u \in Units : ban[u].until \in Nat
  BY Constants DEF TypeInv, MemoryOK, Until
<1>3. \A u \in Units : table.bans[u] \in Nat
  BY Constants DEF TypeInv, TableOK, Until
<1>4. \A u \in Units : fixed[u].until \in Nat /\ fixed[u].count \in Nat
  BY Constants DEF TypeInv, MemoryOK, Fix
<1>5. flusher # None => \A u \in Units : flusher.bans[u] \in Nat
  BY Constants DEF TypeInv, ActorsOK, Taken, Until
<1>. QED BY <1>1, <1>2, <1>3, <1>4, <1>5

\* A step that leaves the bans, their copies and the time alone.
LEMMA KeptStays ==
    ASSUME Kept, UNCHANGED <<table, flusher, clock>>, waived \subseteq waived',
           \A u \in Units : ban'[u].until = ban[u].until
    PROVE  Kept'
BY DEF Kept

LEMMA OnceStays ==
    ASSUME NEW u \in Units, Once(u), Runs(u) => Runs(u)', Banned(u)' => Banned(u),
           \A r \in Requests : /\ Locking(r, u)' => Locking(r, u)
                               /\ Counting(r, u)' => Counting(r, u) \/ ~Banned(u)
    PROVE  Once(u)'
BY DEF Once

\* No request waits for a lock.
LEMMA NoneWaits ==
    ASSUME Kept', \A r \in Requests : request'[r].at \in {"idle", "inner"} PROVE EnforcedInv'
BY DEF EnforcedInv, OnceInv, Once, Locking, Counting

LEMMA OtherRequests ==
    ASSUME ActorsOK, NEW r \in Requests, NEW s, Step(r, s)
    PROVE  /\ request'[r] = s
           /\ \A q \in Requests \ {r} : request'[q] = request[q]
BY DEF ActorsOK, Step

\* A step of a request that goes on or ends, and sets no block.
LEMMA RequestEnforces ==
    ASSUME TypeInv, EnforcedInv, NEW r \in Requests, NEW s, Step(r, s),
           UNCHANGED <<fixed, table, flusher, clock, cleared, waived>>,
           \A u \in Units : ban'[u].until = ban[u].until,
           s.at = "count" => ~Banned(s.unit),
           s.at \in {"first block", "record", "cap", "block"} => Locking(r, s.unit)
    PROVE  EnforcedInv'
<1>1. Kept'
  BY KeptStays DEF EnforcedInv
<1>2. /\ request'[r] = s
      /\ \A q \in Requests \ {r} : request'[q] = request[q]
  BY OtherRequests DEF TypeInv
<1>3. ASSUME NEW u \in Units \ cleared PROVE Once(u)'
  <2>1. Once(u)
    BY DEF EnforcedInv, OnceInv
  <2>2. (Runs(u) => Runs(u)') /\ (Banned(u)' => Banned(u))
    BY DEF Runs, Banned
  <2>3. ASSUME NEW q \in Requests PROVE Locking(q, u)' => Locking(q, u)
    BY <1>2 DEF Locking
  <2>4. ASSUME NEW q \in Requests PROVE Counting(q, u)' => Counting(q, u) \/ ~Banned(u)
    BY <1>2 DEF Counting
  <2>. QED BY <2>1, <2>2, <2>3, <2>4, OnceStays
<1>. QED BY <1>1, <1>3 DEF EnforcedInv, OnceInv

LEMMA ArriveEnforces ==
    ASSUME TypeInv, EnforcedInv, NEW r \in Requests, NEW u \in Units, Arrive(r, u)
    PROVE  EnforcedInv'
<1>. DEFINE s == [at |-> "count", unit |-> u]
<1>1. Step(r, s) /\ ~Banned(u) /\ s.unit = u /\ s.at = "count"
  BY DEF Arrive
<1>2. UNCHANGED <<fixed, ban, table, flusher, clock, cleared, waived>>
  BY DEF Arrive, memory, history
<1>. HIDE DEF s
<1>. QED BY <1>1, <1>2, RequestEnforces

LEMMA ObserveEnforces ==
    ASSUME TypeInv, EnforcedInv, NEW r \in Requests, NEW bad \in BOOLEAN, Observe(r, bad)
    PROVE  EnforcedInv'
BY RequestEnforces, NoneIsIdle DEF Observe, history

LEMMA FirstBlockEnforces ==
    ASSUME TypeInv, EnforcedInv, NEW r \in Requests, FirstBlock(r) PROVE EnforcedInv'
<1>. DEFINE s == [at |-> "record", unit |-> request[r].unit]
<1>1. Step(r, s) \/ Step(r, None)
  BY DEF FirstBlock
<1>2. UNCHANGED <<fixed, ban, table, flusher, clock, cleared, waived>>
  BY DEF FirstBlock, memory, history
<1>3. Locking(r, s.unit) /\ s.at = "record"
  BY DEF FirstBlock, Locking
<1>. HIDE DEF s
<1>. QED BY <1>1, <1>2, <1>3, NoneIsIdle, RequestEnforces

LEMMA RecordEnforces ==
    ASSUME TypeInv, EnforcedInv, NEW r \in Requests, Record(r) PROVE EnforcedInv'
<1>. DEFINE u == request[r].unit
            h == Append(Recent(ban[u].history), clock)
            s == [at |-> "cap", unit |-> u, for |-> Duration(h)]
<1>1. Step(r, s) /\ ban' = [ban EXCEPT ![u].history = h]
  BY DEF Record
<1>2. UNCHANGED <<fixed, table, flusher, clock, cleared, waived>>
  BY DEF Record, history
<1>3. Locking(r, s.unit) /\ s.at = "cap"
  BY DEF Record, Locking
<1>. HIDE DEF s, h
<1>4. \A v \in Units : ban'[v].until = ban[v].until
  BY <1>1 DEF TypeInv, MemoryOK
<1>. QED BY <1>1, <1>2, <1>3, <1>4, RequestEnforces

LEMMA UnderCapEnforces ==
    ASSUME TypeInv, EnforcedInv, NEW r \in Requests, UnderCap(r) PROVE EnforcedInv'
<1>. DEFINE s == [request[r] EXCEPT !.at = "block"]
<1>1. Step(r, s) \/ Step(r, None)
  BY DEF UnderCap
<1>2. UNCHANGED <<fixed, ban, table, flusher, clock, cleared, waived>>
  BY DEF UnderCap, memory, history
<1>3. Locking(r, s.unit) /\ s.at = "block"
  <2>1. request[r] \in Blocking
    BY BlockingUnit DEF UnderCap, TypeInv
  <2>. QED BY <2>1 DEF UnderCap, Locking, Blocking
<1>. HIDE DEF s
<1>. QED BY <1>1, <1>2, <1>3, NoneIsIdle, RequestEnforces

\* A window sends the request on that makes it overflow, when no other is on its way.
LEMMA CountEnforces ==
    ASSUME TypeInv, EnforcedInv, NEW r \in Requests, Count(r) PROVE EnforcedInv'
<1>. DEFINE u == request[r].unit
            w == IF fixed[u].until > clock THEN [fixed[u] EXCEPT !.count = @ + 1]
                 ELSE [count |-> 1, until |-> clock + Window]
            inner == [at |-> "inner", unit |-> u, first |-> w.count = 1]
            first == [at |-> "first block", unit |-> u]
            s == IF w.count <= MaxRequests THEN inner
                 ELSE IF w.count = MaxRequests + 1 THEN first ELSE None
<1>1. Step(r, s) /\ Counting(r, u) /\ fixed' = [fixed EXCEPT ![u] = w]
  BY DEF Count, Counting
<1>2. UNCHANGED <<ban, table, flusher, clock, cleared, waived>>
  BY DEF Count, history
<1>3. u \in Units
  BY AskingUnit DEF Count, TypeInv
<1>4. Kept'
  BY <1>2, KeptStays DEF EnforcedInv
<1>5. /\ request'[r] = s
      /\ \A q \in Requests \ {r} : request'[q] = request[q]
  BY <1>1, OtherRequests DEF TypeInv
<1>6. fixed[u] \in Fix /\ MaxRequests \in Nat \ {0}
  BY <1>3, GateAssumption DEF TypeInv, MemoryOK
<1>7. Runs(u) => w.until > clock /\ w.count > MaxRequests + 1
  BY <1>6 DEF Runs, Fix
<1>8. w.count = MaxRequests + 1 => w.until > clock
  BY <1>6 DEF Fix
<1>9. /\ fixed'[u] = w
      /\ \A v \in Units \ {u} : fixed'[v] = fixed[v]
  BY <1>1, <1>3 DEF TypeInv, MemoryOK
<1>10. inner.at = "inner" /\ first.at = "first block" /\ first.unit = u
  OBVIOUS
<1>15. w.count \in Nat
  BY <1>6 DEF Fix
<1>. HIDE DEF w, inner, first, u
<1>11. ASSUME NEW v \in Units \ cleared, v # u PROVE Once(v)'
  <2>1. Once(v)
    BY DEF EnforcedInv, OnceInv
  <2>2. (Runs(v) => Runs(v)') /\ (Banned(v)' => Banned(v))
    BY <1>2, <1>9, <1>11 DEF Runs, Banned
  <2>3. \A q \in Requests : /\ Locking(q, v)' => Locking(q, v)
                            /\ Counting(q, v)' => Counting(q, v)
    BY <1>5, <1>10, <1>11, NoneIsIdle DEF Locking, Counting
  <2>. QED BY <2>1, <2>2, <2>3, OnceStays
<1>12. ASSUME NEW v \in Units \ cleared, v = u, w.count = MaxRequests + 1 PROVE Once(v)'
  <2>1. Once(v) /\ ~Runs(v)
    BY <1>6, <1>7, <1>12 DEF EnforcedInv, OnceInv
  <2>2. ~Banned(v) /\ \A q \in Requests : ~Locking(q, v)
    BY <1>1, <1>12, <2>1 DEF Once
  <2>3. Runs(v)' /\ ~Banned(v)'
    BY <1>2, <1>6, <1>8, <1>9, <1>12, <2>2 DEF Runs, Banned
  <2>4. \A q \in Requests \ {r} : ~Locking(q, v)'
    BY <1>5, <2>2 DEF Locking
  <2>. QED BY <2>3, <2>4 DEF Once
<1>13. ASSUME NEW v \in Units \ cleared, v = u, w.count # MaxRequests + 1 PROVE Once(v)'
  <2>1. Once(v)
    BY DEF EnforcedInv, OnceInv
  <2>2. Runs(v) => Runs(v)'
    BY <1>2, <1>6, <1>7, <1>9, <1>13, <1>15 DEF Runs
  <2>3. Banned(v)' => Banned(v)
    BY <1>2 DEF Banned
  <2>4. s.at \in {"inner", "idle"}
    BY <1>10, <1>13, NoneIsIdle
  <2>5. \A q \in Requests : /\ Locking(q, v)' => Locking(q, v)
                            /\ Counting(q, v)' => Counting(q, v)
    BY <1>5, <2>4 DEF Locking, Counting
  <2>. QED BY <2>1, <2>2, <2>3, <2>5, OnceStays
<1>14. \A v \in Units \ cleared' : Once(v)'
  BY <1>2, <1>11, <1>12, <1>13
<1>. QED BY <1>4, <1>14 DEF EnforcedInv, OnceInv

\* The block of a unit that is not banned ends no ban; the block after a lift, of one that
\* is, either runs as long or waives the row.
LEMMA SetBlockEnforces ==
    ASSUME TypeInv, EnforcedInv, NEW r \in Requests, SetBlock(r) PROVE EnforcedInv'
<1>. DEFINE u     == request[r].unit
            until == clock + request[r].for
<1>1. /\ Step(r, None) /\ Locking(r, u) /\ ban' = [ban EXCEPT ![u].until = until]
      /\ waived' = IF u \in cleared /\ until < ban[u].until THEN waived \cup {u} ELSE waived
  BY DEF SetBlock, Locking
<1>2. UNCHANGED <<fixed, table, flusher, clock, cleared>>
  BY DEF SetBlock
<1>3. u \in Units /\ request[r].for \in Nat
  BY BlockingUnit, Constants DEF SetBlock, TypeInv, Lengths
<1>4. /\ request'[r] = None
      /\ \A q \in Requests \ {r} : request'[q] = request[q]
  BY <1>1, OtherRequests DEF TypeInv
<1>5. until \in Nat /\ until >= clock
  BY <1>3, Numbers
<1>6. /\ ban'[u].until = until
      /\ \A v \in Units \ {u} : ban'[v] = ban[v]
  BY <1>1, <1>3 DEF TypeInv, MemoryOK
<1>. HIDE DEF u, until
<1>7. u \notin cleared => Once(u)
  BY <1>3 DEF EnforcedInv, OnceInv
<1>8. u \notin waived' => \/ until >= ban[u].until
                          \/ ~Banned(u)
  BY <1>1, <1>3, <1>5, <1>7, Numbers DEF Once
<1>9. Kept'
  <2>1. ASSUME NEW v \in Units \ waived' PROVE v \notin waived
    BY <1>1
  <2>2. ASSUME u \notin waived', NEW b \in Nat, b > clock => ban[u].until >= b
        PROVE  b > clock => until >= b
    BY <1>3, <1>5, <1>8, <2>2, Numbers DEF Banned
  <2>3. /\ table.bans[u] \in Nat
        /\ flusher # None => flusher.bans[u] \in Nat
    BY <1>3, Numbers
  <2>4. u \notin waived' =>
           /\ table.bans[u] > clock => until >= table.bans[u]
           /\ flusher # None => (flusher.bans[u] > clock => until >= flusher.bans[u])
    BY <1>3, <2>1, <2>2, <2>3 DEF EnforcedInv, Kept
  <2>. QED BY <1>2, <1>6, <2>1, <2>4 DEF EnforcedInv, Kept
<1>10. ASSUME NEW v \in Units \ cleared, v # u PROVE Once(v)'
  <2>1. Once(v)
    BY DEF EnforcedInv, OnceInv
  <2>2. (Runs(v) => Runs(v)') /\ (Banned(v)' => Banned(v))
    BY <1>2, <1>6, <1>10 DEF Runs, Banned
  <2>3. \A q \in Requests : /\ Locking(q, v)' => Locking(q, v)
                            /\ Counting(q, v)' => Counting(q, v)
    BY <1>4, NoneIsIdle DEF Locking, Counting
  <2>. QED BY <2>1, <2>2, <2>3, OnceStays
<1>11. ASSUME NEW v \in Units \ cleared, v = u PROVE Once(v)'
  <2>1. Runs(v) /\ \A q \in Requests \ {r} : ~Locking(q, v)
    BY <1>1, <1>7, <1>11 DEF Once
  <2>2. Runs(v)'
    BY <1>2, <2>1 DEF Runs
  <2>3. \A q \in Requests : ~Locking(q, v)'
    BY <1>4, <2>1, NoneIsIdle DEF Locking
  <2>. QED BY <2>2, <2>3 DEF Once
<1>12. \A v \in Units \ cleared' : Once(v)'
  BY <1>2, <1>10, <1>11
<1>. QED BY <1>9, <1>12 DEF EnforcedInv, OnceInv

\* A step of somebody else: no ban is set, and no window ends but by a lift.
LEMMA SameRequests ==
    ASSUME EnforcedInv, Kept', UNCHANGED <<request, clock>>, cleared \subseteq cleared',
           \A u \in Units \ cleared' : /\ Banned(u)' => Banned(u)
                                       /\ Runs(u) => Runs(u)'
    PROVE  EnforcedInv'
<1>1. ASSUME NEW u \in Units \ cleared' PROVE Once(u)'
  <2>1. Once(u)
    BY DEF EnforcedInv, OnceInv
  <2>2. \A r \in Requests : /\ Locking(r, u)' => Locking(r, u)
                            /\ Counting(r, u)' => Counting(r, u)
    BY DEF Locking, Counting
  <2>. QED BY <2>1, <2>2, OnceStays
<1>. QED BY <1>1 DEF EnforcedInv, OnceInv

LEMMA TakeSnapshotEnforces == ASSUME TypeInv, EnforcedInv, TakeSnapshot PROVE EnforcedInv'
<1>1. UNCHANGED <<fixed, ban, table, request, clock, cleared, waived>>
  BY DEF TakeSnapshot, memory, history
<1>2. \A u \in Units : flusher'.bans[u] = IF Banned(u) THEN ban[u].until ELSE 0
  BY DEF TakeSnapshot
<1>3. Kept'
  BY <1>1, <1>2, Numbers DEF EnforcedInv, Kept
<1>. QED BY <1>1, <1>3, SameRequests DEF Banned, Runs

\* The prune leaves the bucket of a banned unit; the row that is written no longer waits
\* for memory to vouch for it.
LEMMA FlushEnforces == ASSUME TypeInv, EnforcedInv, Flush PROVE EnforcedInv'
<1>1. UNCHANGED <<request, clock, cleared>> /\ flusher' = None /\ flusher # None
  BY DEF Flush
<1>2. flusher \in Taken
  BY <1>1 DEF TypeInv, ActorsOK
<1>3. /\ \A u \in Units : ban'[u] = IF Idle(u) THEN NoneBan ELSE ban[u]
      /\ \A u \in Units : fixed'[u] = IF fixed[u].until > clock THEN fixed[u] ELSE NoneFix
  BY DEF Flush
<1>5. /\ clock \in Nat
      /\ \A u \in Units : /\ ban[u].until \in Nat /\ table.bans[u] \in Nat
                          /\ flusher.bans[u] \in Nat
  BY <1>1, Numbers
<1>4. ASSUME NEW u \in Units \ waived'
      PROVE  \/ table'.bans[u] \in {0, table.bans[u], flusher.bans[u]} /\ u \notin waived
             \/ table'.bans[u] = flusher.bans[u] /\ flusher.bans[u] <= ban[u].until
  <2>1. CASE table' = Written(table, flusher)
             /\ waived' = {v \in waived : flusher.bans[v] \notin 1..ban[v].until}
    <3>1. table'.bans[u] = IF flusher.bans[u] # 0 THEN flusher.bans[u]
                           ELSE IF table.bans[u] > clock THEN table.bans[u] ELSE 0
      BY <2>1 DEF Written
    <3>2. CASE u \in waived
      <4>1. flusher.bans[u] \in 1..ban[u].until
        BY <2>1, <3>2
      <4>. QED BY <1>5, <3>1, <4>1
    <3>3. CASE u \notin waived
      BY <3>1, <3>3
    <3>. QED BY <3>2, <3>3
  <2>2. CASE UNCHANGED <<table, waived>>
    BY <2>2
  <2>. QED BY <2>1, <2>2 DEF Flush
<1>6. \A u \in Units : Banned(u) => ban'[u] = ban[u]
  BY <1>3 DEF Idle
<1>7. \A u \in Units : (Banned(u)' => Banned(u)) /\ (Runs(u) => Runs(u)')
  BY <1>1, <1>3, <1>5 DEF NoneBan, Banned, Runs
<1>8. Kept'
  <2>1. ASSUME NEW u \in Units \ waived', table'.bans[u] > clock
        PROVE  ban'[u].until >= table'.bans[u]
    <3>1. ban[u].until >= table'.bans[u]
      BY <1>1, <1>4, <1>5, <2>1 DEF EnforcedInv, Kept
    <3>2. table'.bans[u] \in Nat
      BY <1>4, <1>5
    <3>3. Banned(u)
      BY <1>5, <2>1, <3>1, <3>2 DEF Banned
    <3>. QED BY <1>6, <3>1, <3>3
  <2>. QED BY <1>1, <2>1 DEF Kept
<1>. QED BY <1>1, <1>7, <1>8, SameRequests

LEMMA LiftEnforces ==
    ASSUME TypeInv, EnforcedInv, NEW u \in Units, Lift(u) PROVE EnforcedInv'
<1>1. UNCHANGED <<fixed, ban, table, request, flusher, clock, cleared, waived>>
  BY DEF Lift, memory, history
<1>2. Kept'
  BY <1>1, KeptStays DEF EnforcedInv
<1>. QED BY <1>1, <1>2, SameRequests DEF Banned, Runs

LEMMA DeleteRowsEnforces ==
    ASSUME TypeInv, Locked, EnforcedInv, DeleteRows PROVE EnforcedInv'
<1>1. UNCHANGED <<fixed, ban, request, flusher, clock, cleared>> /\ flusher = None
  BY NoneIsIdle DEF DeleteRows, memory, Locked
<1>2. \/ UNCHANGED <<table, waived>>
      \/ /\ table'.bans = [table.bans EXCEPT ![admin.unit] = 0]
         /\ waived' = waived \ {admin.unit}
  <2>1. \/ table' = [fixed |-> [table.fixed EXCEPT ![admin.unit] = NoneFix],
                     bans  |-> [table.bans EXCEPT ![admin.unit] = 0]]
           /\ waived' = waived \ {admin.unit}
        \/ UNCHANGED <<table, waived>>
    BY Zenon DEF DeleteRows
  <2>. QED BY <2>1
<1>3. clock \in Nat /\ table.bans \in [Units -> Until]
  BY Constants DEF TypeInv, TableOK, RestOK
<1>4. \A v \in Units \ waived' : \/ table'.bans[v] = 0
                                 \/ table'.bans[v] = table.bans[v] /\ v \notin waived
  BY <1>2, <1>3
<1>5. Kept'
  BY <1>1, <1>3, <1>4 DEF EnforcedInv, Kept
<1>. QED BY <1>1, <1>5, SameRequests DEF Banned, Runs

\* Nothing is left of the ban that the lift clears: the row is gone, and there is no snapshot.
LEMMA ClearBanEnforces ==
    ASSUME TypeInv, Deleted, EnforcedInv, ClearBan PROVE EnforcedInv'
<1>. DEFINE u == admin.unit
<1>0. admin.at = "clear ban"
  BY DEF ClearBan
<1>1. /\ UNCHANGED <<fixed, table, request, flusher, clock, waived>> /\ flusher = None
      /\ u \in Units /\ cleared' = cleared \cup {u}
  BY <1>0, LiftingUnit DEF ClearBan, TypeInv
<1>2. table.bans[u] = 0
  BY <1>0 DEF Deleted
<1>3. \A v \in Units \ {u} : ban'[v] = ban[v]
  BY <1>1 DEF ClearBan, TypeInv, MemoryOK
<1>. HIDE DEF u
<1>5. Kept'
  BY <1>1, <1>2, <1>3, Numbers DEF EnforcedInv, Kept
<1>. QED BY <1>1, <1>3, <1>5, SameRequests DEF Banned, Runs

LEMMA ClearWindowEnforces ==
    ASSUME TypeInv, EnforcedInv, ClearWindow PROVE EnforcedInv'
<1>. DEFINE u == admin.unit
<1>0. admin.at = "clear window"
  BY DEF ClearWindow
<1>1. /\ UNCHANGED <<ban, table, request, flusher, clock, waived>>
      /\ u \in Units /\ cleared' = cleared \cup {u}
  BY <1>0, LiftingUnit DEF ClearWindow, TypeInv
<1>2. \A v \in Units \ {u} : fixed'[v] = fixed[v]
  BY <1>1 DEF ClearWindow, TypeInv, MemoryOK
<1>. HIDE DEF u
<1>3. Kept'
  BY <1>1, KeptStays DEF EnforcedInv
<1>. QED BY <1>1, <1>2, <1>3, SameRequests DEF Banned, Runs

\* Time passes when no request waits for a lock.
LEMMA TickEnforces == ASSUME TypeInv, EnforcedInv, Tick PROVE EnforcedInv'
<1>1. /\ UNCHANGED <<ban, table, request, flusher, waived>> /\ clock' = clock + 1
      /\ \A r \in Requests : request[r].at \in {"idle", "inner"}
  BY DEF Tick, memory
<1>2. Kept'
  BY <1>1, Numbers DEF EnforcedInv, Kept
<1>. QED BY <1>1, <1>2, NoneWaits

\* What the read has lost is waived, and nothing else.
LEMMA RestartEnforces ==
    ASSUME TypeInv, EnforcedInv, NEW rows \in {table, Empty}, Restart(rows)
    PROVE  EnforcedInv'
<1>1. /\ UNCHANGED <<table, clock>> /\ flusher' = None /\ request' = [r \in Requests |-> None]
      /\ waived' = IF rows = table THEN {} ELSE {u \in Units : table.bans[u] > clock}
  BY DEF Restart
<1>2. \A u \in Units : ban'[u].until = RestoredBan(rows, u)
  BY DEF Restart, NoneBan
<1>3. ASSUME NEW u \in Units \ waived', table'.bans[u] > clock
      PROVE  ban'[u].until >= table'.bans[u]
  <2>1. rows = table
    BY <1>1, <1>3
  <2>. QED BY <1>1, <1>2, <1>3, <2>1, Numbers DEF RestoredBan
<1>4. Kept'
  BY <1>1, <1>3 DEF Kept
<1>. QED BY <1>1, <1>4, NoneIsIdle, NoneWaits

LEMMA InitEnforcedInv == Init => EnforcedInv
<1>. SUFFICES ASSUME Init PROVE EnforcedInv
  OBVIOUS
<1>1. clock = 1 /\ flusher = None /\ \A u \in Units : table.bans[u] = 0
  BY DEF Init, Empty
<1>2. \A r \in Requests : request[r].at = "idle"
  BY NoneIsIdle DEF Init
<1>3. Kept
  BY <1>1 DEF Kept
<1>4. OnceInv
  BY <1>2 DEF OnceInv, Once, Locking, Counting
<1>. QED BY <1>3, <1>4 DEF EnforcedInv

LEMMA StepEnforcedInv == TypeInv /\ LiftInv /\ EnforcedInv /\ [Next]_vars => EnforcedInv'
<1>. SUFFICES ASSUME TypeInv, LiftInv, EnforcedInv, [Next]_vars PROVE EnforcedInv'
  OBVIOUS
<1>1. Deleted /\ Locked
  BY DEF LiftInv
<1>2. CASE UNCHANGED vars
  <2>1. UNCHANGED <<fixed, ban, table, request, flusher, clock, cleared, waived>>
    BY <1>2 DEF vars, memory, history
  <2>2. Kept'
    BY <2>1, KeptStays DEF EnforcedInv
  <2>. QED BY <2>1, <2>2, SameRequests DEF Banned, Runs
<1>. QED
  BY <1>1, <1>2, ArriveEnforces, ObserveEnforces, CountEnforces, FirstBlockEnforces,
     RecordEnforces, UnderCapEnforces, SetBlockEnforces, TakeSnapshotEnforces, FlushEnforces,
     LiftEnforces, DeleteRowsEnforces, ClearBanEnforces, ClearWindowEnforces, TickEnforces,
     RestartEnforces DEF Next

\* A ban that the table holds is enforced until it expires or is lifted (restore,
\* delete_ban): whatever requests race with it, and through flushes that are lost,
\* lifts that fail half-way and restarts, memory never lets the unit in; but for the
\* rows that a start could not read, and for a block set across a lift.
THEOREM DurableBansHold == Spec => []DurableBanEnforced
<1>1. TypeInv /\ EnforcedInv => DurableBanEnforced
  <2>1. ASSUME TypeInv, EnforcedInv, NEW u \in Units \ waived, table.bans[u] > clock
        PROVE  Banned(u)
    BY <2>1, Numbers DEF EnforcedInv, Kept, Banned
  <2>. QED BY <2>1 DEF DurableBanEnforced
<1>. QED BY <1>1, InitTypeInv, StepTypeInv, InitLiftInv, StepLiftInv, InitEnforcedInv,
            StepEnforcedInv, PTL DEF Spec
=============================================================================
