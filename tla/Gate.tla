--------------------------------- MODULE Gate ---------------------------------
(***************************************************************************)
(* The request gate (crates/rux-request-gate, services/escalation.rs,      *)
(* services/rate_limit_store.rs, admin_bans_v1): fixed windows that count  *)
(* the requests of an address, bans for addresses whose windows keep       *)
(* overflowing with suspicious requests, and the table both are flushed to.*)
(*                                                                         *)
(* Memory is the authority while the process runs and the table after a    *)
(* restart, if it can be read then.  A request passes through several      *)
(* locks, one after another; the flush and an administrator who lifts a    *)
(* ban hold a lock of their own against each other, and none against       *)
(* requests.                                                               *)
(***************************************************************************)
EXTENDS Naturals, FiniteSets, SequencesExt

CONSTANTS Units,            \* addresses, as ban units
          Requests,         \* requests that may be under way at once
          MaxRequests,      \* max_requests of a window
          Window,           \* window_secs, in ticks
          Threshold,        \* suspicious_4xx_per_window
          TempAfter, TempWindow, TempDuration,
          LongAfter, LongWindow, LongDuration,
          MaxBans,          \* max_active_bans
          MaxClock,         \* bound on time
          MaxFaults         \* bound on restarts and failed writes

ASSUME GateAssumption ==
    /\ {Threshold, MaxFaults, MaxBans} \subseteq Nat
    /\ {MaxRequests, Window, TempAfter, TempWindow, TempDuration,
        LongAfter, LongWindow, LongDuration, MaxClock} \subseteq Nat \ {0}

VARIABLES
    fixed,       \* unit -> its window: requests counted, until when (memory)
    ban,         \* unit -> its ban bucket: instants of qualifying windows, until when
    suspicious,  \* unit -> suspicious responses counted (memory)
    table,       \* what the last flush left: the windows and the bans (durable)
    request,     \* request -> what it holds
    flusher,     \* the periodic flush and its snapshot
    admin,       \* the lift under way
    clock, faults,
    \* for the properties:
    lifted,      \* units lifted and not banned again
    cleared,     \* units whose ban or window a lift has cleared at this instant
    waived       \* units whose durable ban memory no longer vouches for

memory  == <<fixed, ban, suspicious>>
history == <<lifted, cleared, waived>>
vars == <<memory, table, request, flusher, admin, clock, faults, history>>

None    == [at |-> "idle"]
NoneFix == [count |-> 0, until |-> 0]
NoneBan == [history |-> <<>>, until |-> 0]
Empty   == [fixed |-> [u \in Units |-> NoneFix], bans |-> [u \in Units |-> 0]]

Init == /\ fixed = [u \in Units |-> NoneFix] /\ ban = [u \in Units |-> NoneBan]
        /\ suspicious = [u \in Units |-> 0]
        /\ table = Empty
        /\ request = [r \in Requests |-> None]
        /\ flusher = None /\ admin = None
        /\ clock = 1 /\ faults = 0
        /\ lifted = {} /\ cleared = {} /\ waived = {}

Fault == faults < MaxFaults /\ faults' = faults + 1
Step(r, s) == request' = [request EXCEPT ![r] = s]
Free == flusher = None /\ admin = None     \* PERSISTENCE_LOCK

Banned(u) == ban[u].until > clock
ActiveBans == Cardinality({u \in Units : Banned(u)})
Since(h, window) == Cardinality({k \in DOMAIN h : h[k] + window >= clock})

-----------------------------------------------------------------------------
(* A request. *)

\* active_ban: an active ban answers at once and counts nothing.
Arrive(r, u) ==
    /\ request[r] = None
    /\ ~Banned(u)
    /\ Step(r, [at |-> "count", unit |-> u])
    /\ UNCHANGED <<memory, table, flusher, admin, clock, faults, history>>

\* incr_expire, and what follows from the count.
Count(r) ==
    LET u == request[r].unit
        w == IF fixed[u].until > clock
             THEN [fixed[u] EXCEPT !.count = @ + 1]
             ELSE [count |-> 1, until |-> clock + Window]
    IN  /\ request[r].at = "count"
        /\ w.count <= MaxRequests + 2
        /\ fixed' = [fixed EXCEPT ![u] = w]
        /\ Step(r, IF w.count <= MaxRequests
                   THEN [at |-> "inner", unit |-> u, first |-> w.count = 1]
                   ELSE IF w.count = MaxRequests + 1
                        THEN [at |-> "first block", unit |-> u] ELSE None)
        /\ UNCHANGED <<ban, suspicious, table, flusher, admin, clock, faults, history>>

\* observe_allowed, after the response: the first request of a window starts the
\* count of suspicious ones anew.
Observe(r, bad) ==
    LET q == request[r]
    IN  /\ q.at = "inner"
        /\ suspicious' = [suspicious EXCEPT ![q.unit] =
                             (IF q.first THEN 0 ELSE @) + (IF bad THEN 1 ELSE 0)]
        /\ Step(r, None)
        /\ UNCHANGED <<fixed, ban, table, flusher, admin, clock, faults, history>>

\* Of a history; the longer ban is considered before the shorter one.
Duration(h) == IF Len(h) >= LongAfter THEN LongDuration
               ELSE IF Since(h, TempWindow) >= TempAfter THEN TempDuration ELSE 0

\* Instants that the long window has left behind go, from the front.
Recent(h) ==
    LET first == CHOOSE k \in 1..(Len(h) + 1) :
                    /\ \A j \in 1..(k - 1) : h[j] + LongWindow < clock
                    /\ k <= Len(h) => h[k] + LongWindow >= clock
    IN  SubSeq(h, first, Len(h))

\* on_first_block: the window qualifies when enough of it was suspicious ...
FirstBlock(r) ==
    LET u == request[r].unit
    IN  /\ request[r].at = "first block"
        /\ Step(r, IF suspicious[u] < Threshold THEN None ELSE [at |-> "record", unit |-> u])
        /\ UNCHANGED <<memory, table, flusher, admin, clock, faults, history>>

\* ... record_qualifying: its instant joins the history, whose counts the request keeps ...
Record(r) ==
    LET u == request[r].unit
        h == Append(Recent(ban[u].history), clock)
    IN  /\ request[r].at = "record"
        /\ ban' = [ban EXCEPT ![u].history = h]
        /\ Step(r, [at |-> "cap", unit |-> u, for |-> Duration(h)])
        /\ UNCHANGED <<fixed, suspicious, table, flusher, admin, clock, faults, history>>

\* ... active_ban_count ...
UnderCap(r) ==
    LET q == request[r]
    IN  /\ q.at = "cap"
        /\ Step(r, IF ActiveBans < MaxBans /\ q.for > 0 THEN [q EXCEPT !.at = "block"]
                                                         ELSE None)
        /\ UNCHANGED <<memory, table, flusher, admin, clock, faults, history>>

\* ... set_block, over whatever block there is.
SetBlock(r) ==
    LET u     == request[r].unit
        until == clock + request[r].for
    IN  /\ request[r].at = "block"
        /\ ban' = [ban EXCEPT ![u].until = until]
        /\ lifted' = lifted \ {u}
        /\ waived' = IF u \in cleared /\ until < ban[u].until THEN waived \cup {u} ELSE waived
        /\ Step(r, None)
        /\ UNCHANGED <<fixed, suspicious, table, flusher, admin, clock, faults, cleared>>

-----------------------------------------------------------------------------
(* The flush, every ten seconds. *)

\* Faulty: the flush does not wait for a lift.
FreeOfFlush == flusher = None

FlushMayStart == Free

\* A bucket is kept while its window or its ban runs; unlike the history of a unit.
TakeSnapshot ==
    /\ FlushMayStart
    /\ flusher' = [at |-> "write", fixed |-> [u \in Units |-> IF fixed[u].until > clock
                                                              THEN fixed[u] ELSE NoneFix],
                   bans |-> [u \in Units |-> IF Banned(u) THEN ban[u].until ELSE 0]]
    /\ UNCHANGED <<memory, table, request, admin, clock, faults, history>>

\* flush: one transaction that purges what has expired and upserts the snapshot.
Written(old, snap) ==
    [fixed |-> [u \in Units |-> IF snap.fixed[u] # NoneFix THEN snap.fixed[u]
                                ELSE IF old.fixed[u].until > clock THEN old.fixed[u]
                                ELSE NoneFix],
     bans  |-> [u \in Units |-> IF snap.bans[u] # 0 THEN snap.bans[u]
                                ELSE IF old.bans[u] > clock THEN old.bans[u] ELSE 0]]

\* prune: what neither blocks nor remembers.
Idle(u) == ~Banned(u) /\ Since(ban[u].history, LongWindow) = 0

Flush ==
    /\ flusher # None
    /\ \/ /\ table' = Written(table, flusher)
          /\ waived' = {u \in waived : flusher.bans[u] \notin 1..ban[u].until}
          /\ UNCHANGED faults
       \/ Fault /\ UNCHANGED <<table, waived>>
    /\ fixed' = [u \in Units |-> IF fixed[u].until > clock THEN fixed[u] ELSE NoneFix]
    /\ ban' = [u \in Units |-> IF Idle(u) THEN NoneBan ELSE ban[u]]
    /\ flusher' = None
    /\ UNCHANGED <<suspicious, request, admin, clock, lifted, cleared>>

-----------------------------------------------------------------------------
(* delete_ban: an administrator lifts a ban. *)

Lift(u) ==
    /\ Free
    /\ admin' = [at |-> "delete", unit |-> u]
    /\ UNCHANGED <<memory, table, request, flusher, clock, faults, history>>

\* delete_ban_rows; a failure leaves the ban as it was.
DeleteRows ==
    LET u == admin.unit
    IN  /\ admin.at = "delete"
        /\ \/ /\ table' = [fixed |-> [table.fixed EXCEPT ![u] = NoneFix],
                           bans  |-> [table.bans EXCEPT ![u] = 0]]
              /\ admin' = [admin EXCEPT !.at = "clear ban"]
              /\ waived' = waived \ {u}
              /\ UNCHANGED faults
           \/ Fault /\ admin' = None /\ UNCHANGED <<table, waived>>
        /\ UNCHANGED <<memory, request, flusher, clock, lifted, cleared>>

ClearBan ==
    LET u == admin.unit
    IN  /\ admin.at = "clear ban"
        /\ ban' = [ban EXCEPT ![u] = NoneBan]
        /\ lifted' = lifted \cup {u} /\ cleared' = cleared \cup {u}
        /\ admin' = [admin EXCEPT !.at = "clear window"]
        /\ UNCHANGED <<fixed, suspicious, table, request, flusher, clock, faults, waived>>

ClearWindow ==
    /\ admin.at = "clear window"
    /\ fixed' = [fixed EXCEPT ![admin.unit] = NoneFix]
    /\ cleared' = cleared \cup {admin.unit}
    /\ admin' = None
    /\ UNCHANGED <<ban, suspicious, table, request, flusher, clock, faults, lifted, waived>>

-----------------------------------------------------------------------------
\* Requests are held up in their handler only: between the locks nothing suspends them.
Tick == /\ clock < MaxClock
        /\ \A r \in Requests : request[r].at \in {"idle", "inner"}
        /\ clock' = clock + 1 /\ cleared' = {}
        /\ UNCHANGED <<memory, table, request, flusher, admin, faults, lifted, waived>>

\* Faulty: a bucket counts only while its window runs.
RestoredWithin(rows, u) == IF rows.fixed[u].until > clock THEN rows.bans[u] ELSE 0

\* restore: what has not expired.
RestoredBan(rows, u) == IF rows.bans[u] > clock THEN rows.bans[u] ELSE 0

\* The process starts with the rows that load has read: those of the table, or none at
\* all when the read fails ("starting with an empty store").
Restart(rows) ==
    /\ Fault
    /\ fixed' = [u \in Units |-> IF rows.fixed[u].until > clock THEN rows.fixed[u]
                                 ELSE NoneFix]
    /\ ban' = [u \in Units |-> [NoneBan EXCEPT !.until = RestoredBan(rows, u)]]
    /\ suspicious' = [u \in Units |-> 0]
    /\ request' = [r \in Requests |-> None]
    /\ flusher' = None /\ admin' = None
    /\ waived' = IF rows = table THEN {} ELSE {u \in Units : table.bans[u] > clock}
    /\ UNCHANGED <<table, clock, lifted, cleared>>

Next == \/ \E r \in Requests : \/ \E u \in Units : Arrive(r, u)
                               \/ \E bad \in BOOLEAN : Observe(r, bad)
                               \/ Count(r) \/ FirstBlock(r) \/ Record(r) \/ UnderCap(r)
                               \/ SetBlock(r)
        \/ TakeSnapshot \/ Flush
        \/ \E u \in Units : Lift(u)
        \/ DeleteRows \/ ClearBan \/ ClearWindow
        \/ Tick \/ \E rows \in {table, Empty} : Restart(rows)

Spec == Init /\ [][Next]_vars
-----------------------------------------------------------------------------
(* Properties. *)

Fix == [count : 0..(MaxRequests + 2), until : 0..(MaxClock + Window)]
Until == 0..(MaxClock + TempDuration + LongDuration)

\* Type invariant.
TypeOK == /\ fixed \in [Units -> Fix]
          /\ \A u \in Units : /\ ban[u].history \in Seq(1..MaxClock)
                              /\ ban[u].until \in Until
                              /\ suspicious[u] \in Nat
          /\ table \in [fixed : [Units -> Fix], bans : [Units -> Until]]
          /\ lifted \cup cleared \cup waived \subseteq Units
          /\ flusher = None \/ admin = None

\* A ban that the table holds is enforced: nothing but its expiry and a lift ends it,
\* through flushes, prunes, lifts that fail half-way and restarts ("the ban stays
\* enforced and the op is safe to retry", "it survives restart").  Two things are
\* excepted: a start that could not read the table, until the next one or until a ban of
\* memory is written over the row; and a ban that was cut down at the instant of a lift,
\* by a request that had counted its windows before the lift and set its block after the
\* next ban.
DurableBanEnforced == \A u \in Units \ waived : table.bans[u] > clock => Banned(u)

\* A lifted ban stays lifted until a request sets a new one, if only one that had its
\* counts before the lift: no snapshot taken before the lift and no restart "can
\* resurrect the row".
LiftedStaysLifted == \A u \in lifted : ~Banned(u) /\ table.bans[u] <= clock
=============================================================================
