----------------------------- MODULE SyncEngine -----------------------------
(***************************************************************************)
(* The client's sync engine in one tab, with the durable outbox behind it  *)
(* (lib/sync/engine.svelte.ts and outbox.ts).                              *)
(*                                                                         *)
(* Callers enqueue mutations for a domain; timers, connectivity and        *)
(* callers ask for a flush.  One flush runs at a time: further requests    *)
(* coalesce into one more pass of the running one.  A pass drains its      *)
(* target domains one after the other; draining a domain takes a batch     *)
(* from the outbox, pushes it, removes it and goes on until the queue is   *)
(* empty.  Every await of that loop is a step of its own, and between two  *)
(* steps anything may happen: an enqueue, another flush request, a timer,  *)
(* a sign-out, going offline, a reload of the page.                        *)
(*                                                                         *)
(* The server is what the engine sees of it: it takes a batch as a whole   *)
(* or, when the batch holds a mutation it finds invalid, rejects it as a   *)
(* whole; and the answer may be lost after the batch was taken.            *)
(*                                                                         *)
(* An operator marked "Faulty" is a plausible bug in the operator after it *)
(* and part of no specification: the checks swap it in to see that the     *)
(* properties notice.                                                      *)
(***************************************************************************)
EXTENDS Naturals, Sequences, FiniteSets, SequencesExt, Outbox

CONSTANTS Domains,        \* domain names
          All,            \* the filter of a flush that names no domain
          Mutations,      \* mutation ids that can be minted
          Poison,         \* mutations whose payload the server rejects
          FlushBatch,     \* FLUSH_BATCH
          Rejections,     \* DEAD_LETTER_REJECTIONS
          MaxFailures,    \* failures beyond this back off alike (6 in the code)
          MaxFaults       \* bound on the faults of the environment

ASSUME EngineAssumption ==
    /\ All \notin Domains
    /\ Poison \subseteq Mutations
    /\ FlushBatch \in Nat \ {0} /\ Rejections \in Nat \ {0}
    /\ MaxFailures \in Nat \ {0} /\ MaxFaults \in Nat

VARIABLES
    outbox,        \* domain -> queued mutations, oldest first (durable)
    dead,          \* domain -> dead-lettered mutations (durable)
    served,        \* mutations the server has taken
    online,        \* navigator.onLine
    domains,       \* registered domains, in registration order
    failures,      \* domain -> consecutive failed rounds (0: no entry)
    rejections,    \* domain -> rejected batches on the dead-letter ledger
    phase, error,  \* the status; error: is lastError set
    retry,         \* is the retry timer armed
    debounce,      \* is the flush debounce armed
    wired,         \* are the external triggers wired
    wasOnline,     \* what the connectivity poll saw last
    coalesced,     \* was a flush asked for during the running one
    active, again, \* filter of this pass, and of the next one
    pass,          \* the pass in progress, and where it awaits
    gone,          \* domains unregistered since the pass began
    faults,        \* faults so far
    owed,          \* domains asked to be flushed and not targeted since
    verdicts       \* domain -> batches the server has rejected

durable == <<outbox, dead>>
timers  == <<retry, debounce, wired, wasOnline>>
request == <<coalesced, active, again, owed>>
ledgers == <<failures, rejections, verdicts>>
status  == <<phase, error>>
vars == <<durable, served, online, domains, ledgers, status, timers, request,
          pass, gone, faults>>

Idle   == [at |-> "idle",   todo |-> <<>>, batch |-> <<>>, pushed |-> FALSE,
           failed |-> FALSE, drained |-> FALSE]
Resync == [Idle EXCEPT !.at = "resync"]
Drain(todo) == [Idle EXCEPT !.at = "take", !.todo = todo]

Registered == ToSet(domains)

\* The registered domains a filter names; names are registered once.
Targets(f, ds) == IF f = All THEN ds
                  ELSE IF f \in ToSet(ds) THEN <<f>> ELSE <<>>

\* Faulty: the failures are counted without end.
GrowOnAndOn(n) == n + 1

Grow(n) == IF n < MaxFailures THEN n + 1 ELSE n

Init == /\ outbox = [d \in Domains |-> <<>>]
        /\ dead = [d \in Domains |-> {}]
        /\ served = {}
        /\ online \in BOOLEAN
        /\ domains = <<>>
        /\ failures = [d \in Domains |-> 0]
        /\ rejections = [d \in Domains |-> 0]
        /\ verdicts = [d \in Domains |-> 0]
        /\ phase = "idle" /\ error = FALSE
        /\ retry = FALSE /\ debounce = FALSE /\ wired = FALSE /\ wasOnline = FALSE
        /\ coalesced = FALSE /\ active = All /\ again = All /\ owed = {}
        /\ pass = Idle /\ gone = {}
        /\ faults = 0

Fault == faults < MaxFaults /\ faults' = faults + 1

-----------------------------------------------------------------------------
(* Asking for a flush.  ds are the registered domains, r and fl the retry   *)
(* timer and the failures as the caller leaves them; more says that another *)
(* flush is asked for in the same breath.                                   *)

StartPass(f, ds, r, fl, more) ==
    LET targets == Targets(f, ds)
    IN  /\ coalesced' = more
        /\ active' = f
        /\ again' = IF more THEN All ELSE f
        /\ owed' = (owed \ ToSet(targets)) \cup (IF more THEN ToSet(ds) ELSE {})
        /\ gone' = {}
        /\ \/ /\ targets = <<>>
              /\ pass' = Resync
              /\ retry' = r /\ failures' = fl
              /\ UNCHANGED status
           \/ /\ targets # <<>> /\ ~online
              /\ pass' = Resync
              /\ retry' = TRUE
              /\ failures' = [d \in Domains |->
                                IF d \in ToSet(targets) THEN Grow(fl[d]) ELSE fl[d]]
              /\ phase' = "error" /\ error' = TRUE
           \/ /\ targets # <<>> /\ online
              /\ pass' = Drain(targets)
              /\ retry' = FALSE /\ failures' = fl
              /\ phase' = "syncing" /\ UNCHANGED error

\* Faulty: the pass to come keeps the filter of the running one.
Narrow(f, more) == again

\* A request with another filter widens the pass to come to all domains.
Widened(f, more) == IF f # active \/ more THEN All ELSE again

Flush(f, ds, r, fl, more) ==
    IF pass.at = "idle"
    THEN StartPass(f, ds, r, fl, more)
    ELSE /\ coalesced' = TRUE
         /\ again' = Widened(f, more)
         /\ owed' = owed \cup ToSet(Targets(f, ds)) \cup (IF more THEN ToSet(ds) ELSE {})
         /\ retry' = r /\ failures' = fl
         /\ UNCHANGED <<active, pass, gone, status>>

EnvUnchanged == UNCHANGED <<served, online, rejections, verdicts>>

\* Another tab's drain notice, or a first-sync retry, for a live domain.
FlushDomain(d) == /\ d \in Registered
                  /\ Flush(d, domains, retry, failures, FALSE)
                  /\ EnvUnchanged
                  /\ UNCHANGED <<durable, domains, debounce, wired, wasOnline, faults>>

DebounceFires == /\ debounce
                 /\ debounce' = FALSE
                 /\ Flush(All, domains, retry, failures, FALSE)
                 /\ EnvUnchanged
                 /\ UNCHANGED <<durable, domains, wired, wasOnline, faults>>

RetryFires == /\ retry
              /\ Flush(All, domains, FALSE, failures, FALSE)
              /\ EnvUnchanged
              /\ UNCHANGED <<durable, domains, debounce, wired, wasOnline, faults>>

\* The 30s interval, and the tab becoming visible.
Periodic == /\ wired /\ online
            /\ Flush(All, domains, retry, failures, FALSE)
            /\ EnvUnchanged
            /\ UNCHANGED <<durable, domains, debounce, wired, wasOnline, faults>>

\* The connectivity poll; a false -> true transition forgives all failures.
Connectivity ==
    /\ wired /\ wasOnline # online
    /\ wasOnline' = online
    /\ IF online
       THEN Flush(All, domains, retry, [d \in Domains |-> 0], FALSE)
       ELSE UNCHANGED <<failures, status, retry, request, pass, gone>>
    /\ EnvUnchanged
    /\ UNCHANGED <<durable, domains, debounce, wired, faults>>

-----------------------------------------------------------------------------
(* Callers and the environment. *)

Minted == (UNION {ToSet(outbox[d]) \cup dead[d] : d \in Domains}) \cup served

Enqueue(d, m) == /\ m \notin Minted
                 /\ outbox' = [outbox EXCEPT ![d] = Append(@, m)]
                 /\ debounce' = TRUE
                 /\ UNCHANGED <<dead, served, online, domains, ledgers, status, retry,
                                wired, wasOnline, request, pass, gone, faults>>

\* beginSync of a store: register, start, flush its domain.  start() wires the
\* triggers if they are down, and flushes when it knows of queued work.
BeginSync(d) ==
    LET ds   == Append(domains, d)
        work == \E c \in ToSet(ds) : outbox[c] # <<>>
    IN  /\ d \notin Registered
        /\ domains' = ds
        /\ wired' = TRUE
        /\ wasOnline' = IF wired THEN wasOnline ELSE online
        /\ \/ Flush(d, ds, retry, failures, FALSE)
           \/ ~wired /\ online /\ work /\ Flush(All, ds, retry, failures, TRUE)
        /\ EnvUnchanged
        /\ UNCHANGED <<durable, debounce, faults>>

\* Sign-out or account switch.  With the last domain the wiring goes down.
Unregister(d) ==
    LET ds == RemoveAt(domains, CHOOSE i \in DOMAIN domains : domains[i] = d)
    IN  /\ d \in Registered
        /\ Fault
        /\ domains' = ds
        /\ failures' = [failures EXCEPT ![d] = 0]
        /\ rejections' = [rejections EXCEPT ![d] = 0]
        /\ gone' = IF pass.at = "idle" THEN gone ELSE gone \cup {d}
        /\ owed' = owed \ {d}
        /\ IF ds = <<>>
           THEN /\ retry' = FALSE /\ phase' = "idle" /\ error' = FALSE
                /\ wired' = FALSE
                /\ debounce' = (debounce /\ ~wired)
           ELSE UNCHANGED <<retry, status, wired, debounce>>
        /\ UNCHANGED <<durable, served, online, verdicts, wasOnline, coalesced,
                       active, again, pass>>

GoOffline == /\ online /\ Fault
             /\ online' = FALSE
             /\ UNCHANGED <<durable, served, domains, ledgers, status, timers,
                            request, pass, gone>>

GoOnline == /\ ~online
            /\ online' = TRUE
            /\ UNCHANGED <<durable, served, domains, ledgers, status, timers,
                           request, pass, gone, faults>>

Accepted(b) == ToSet(b) \cap Poison = {}

\* The page goes away in any state.  The batch under way may have reached the
\* server; a mutation being dead-lettered may have been copied already.
Reload ==
    /\ Fault
    /\ \/ served' = served
       \/ pass.at = "sync" /\ Accepted(pass.batch) /\ served' = served \cup ToSet(pass.batch)
    /\ \/ dead' = dead
       \/ pass.at = "bury" /\ dead' = [dead EXCEPT ![Head(pass.todo)] = @ \cup {Head(pass.batch)}]
    /\ domains' = <<>>
    /\ failures' = [d \in Domains |-> 0]
    /\ rejections' = [d \in Domains |-> 0]
    /\ phase' = "idle" /\ error' = FALSE
    /\ retry' = FALSE /\ debounce' = FALSE /\ wired' = FALSE /\ wasOnline' = FALSE
    /\ coalesced' = FALSE /\ active' = All /\ again' = All /\ owed' = {}
    /\ pass' = Idle /\ gone' = {}
    /\ UNCHANGED <<outbox, online, verdicts>>

-----------------------------------------------------------------------------
(* Draining.  Finish closes the drain of the domain at the head of todo with *)
(* an outcome, the error left standing and the ledger rj.                    *)

Current == Head(pass.todo)
Aborted == Current \in gone

\* Faulty: no look whether anything is registered still.
ArmedAnyway(bad) == bad \/ retry

\* scheduleRetry after a failed pass, for domains that are still there (EC-30).
Armed(bad) == IF bad THEN domains # <<>> ELSE retry

Finish(outcome, e, rj) ==
    LET known == ~Aborted
        bad   == pass.failed \/ (known /\ outcome = "failed")
        good  == pass.drained \/ (known /\ outcome = "drained")
        rest  == Tail(pass.todo)
    IN  /\ failures' = [failures EXCEPT ![Current] =
                          IF ~known THEN @
                          ELSE IF outcome = "failed" THEN Grow(@)
                          ELSE IF outcome = "drained" THEN 0 ELSE @]
        /\ rejections' = IF known /\ outcome = "drained"
                         THEN [rj EXCEPT ![Current] = 0] ELSE rj
        /\ IF rest # <<>>
           THEN /\ pass' = [Drain(rest) EXCEPT !.failed = bad, !.drained = good]
                /\ error' = e
                /\ UNCHANGED <<phase, retry>>
           ELSE /\ pass' = Resync
                /\ phase' = IF bad THEN "error"
                            ELSE IF good \/ ~e THEN "idle" ELSE "error"
                /\ error' = (e /\ (bad \/ ~good))
                /\ retry' = Armed(bad)

DrainUnchanged == UNCHANGED <<online, domains, debounce, wired, wasOnline, request, gone>>

Paused == Finish("paused", error, rejections) /\ UNCHANGED <<durable, served, verdicts>>
Failed == Finish("failed", TRUE, rejections) /\ UNCHANGED <<durable, verdicts>>

\* Faulty: the newest mutation first.
LastBatch(queue) == SubSeq(queue, IF queue = <<>> THEN 1 ELSE Len(queue), Len(queue))

Batch(queue) ==
    SubSeq(queue, 1, IF Len(queue) < FlushBatch THEN Len(queue) ELSE FlushBatch)

\* outbox.take has answered: give up, be done, or push what it returned.
Take == /\ pass.at = "take"
        /\ LET batch == Batch(outbox[Current])
           IN  IF Aborted THEN Paused
               ELSE IF batch = <<>> /\ pass.pushed
               THEN /\ Finish("drained", error, rejections)
                    /\ UNCHANGED <<durable, served, verdicts>>
               ELSE /\ pass' = [pass EXCEPT !.at = "sync", !.batch = batch]
                    /\ UNCHANGED <<durable, served, ledgers, status, retry>>
        /\ DrainUnchanged
        /\ UNCHANGED faults

TakeFails == /\ pass.at = "take" /\ ~Aborted /\ Fault
             /\ Failed
             /\ DrainUnchanged /\ UNCHANGED served

\* The round trip succeeds.
SyncOk == /\ pass.at = "sync" /\ online
          /\ Accepted(pass.batch)
          /\ served' = served \cup ToSet(pass.batch)
          /\ IF Aborted
             THEN Finish("paused", error, rejections)
             ELSE IF pass.batch = <<>>
             THEN Finish("drained", FALSE, rejections)
             ELSE /\ pass' = [pass EXCEPT !.at = "remove"]
                  /\ UNCHANGED <<failures, rejections, status, retry>>
          /\ DrainUnchanged
          /\ UNCHANGED <<durable, verdicts, faults>>

\* The round trip fails before the server took the batch, or after.
SyncFails == /\ pass.at = "sync"
             /\ IF online THEN Fault ELSE UNCHANGED faults
             /\ \/ served' = served
                \/ online /\ Accepted(pass.batch) /\ served' = served \cup ToSet(pass.batch)
             /\ IF Aborted THEN Finish("paused", error, rejections)
                           ELSE Finish("failed", TRUE, rejections)
             /\ DrainUnchanged
             /\ UNCHANGED <<durable, verdicts>>

\* The domain finds that it must not run now: before it calls the server, or
\* when the answer arrives and the account is no longer the same.
SyncPaused == /\ pass.at = "sync" /\ Fault
              /\ \/ served' = served
                 \/ online /\ Accepted(pass.batch) /\ served' = served \cup ToSet(pass.batch)
              /\ Finish("paused", error, rejections)
              /\ DrainUnchanged
              /\ UNCHANGED <<durable, verdicts>>

Strikes(d) == rejections[d] + 1

\* The server finds a mutation of the batch invalid.
SyncRejected ==
    /\ pass.at = "sync" /\ online
    /\ ~Accepted(pass.batch)
    /\ verdicts' = [verdicts EXCEPT ![Current] = @ + 1]
    /\ IF Aborted
       THEN Finish("paused", error, rejections)
       ELSE IF Strikes(Current) >= Rejections
       THEN /\ pass' = [pass EXCEPT !.at = "bury"]
            /\ UNCHANGED <<failures, rejections, status, retry>>
       ELSE Finish("failed", TRUE, [rejections EXCEPT ![Current] = Strikes(Current)])
    /\ DrainUnchanged
    /\ UNCHANGED <<durable, served, faults>>

\* Faulty: the ledger is not cleared for the next head.
BuryOnly ==
    /\ pass.at = "bury"
    /\ dead' = [dead EXCEPT ![Current] = @ \cup {Head(pass.batch)}]
    /\ outbox' = [outbox EXCEPT ![Current] = Erased(@, <<Head(pass.batch)>>)]
    /\ Finish("failed", TRUE, rejections)
    /\ DrainUnchanged
    /\ UNCHANGED <<served, verdicts, faults>>

\* outbox.deadLetter has moved the head of the batch out of the queue.
Bury == /\ pass.at = "bury"
        /\ dead' = [dead EXCEPT ![Current] = @ \cup {Head(pass.batch)}]
        /\ outbox' = [outbox EXCEPT ![Current] = Erased(@, <<Head(pass.batch)>>)]
        /\ Finish("failed", TRUE, [rejections EXCEPT ![Current] = 0])
        /\ DrainUnchanged
        /\ UNCHANGED <<served, verdicts, faults>>

\* It failed, before or after its first transaction.
BuryFails == /\ pass.at = "bury" /\ Fault
             /\ dead' \in {dead, [dead EXCEPT ![Current] = @ \cup {Head(pass.batch)}]}
             /\ Finish("failed", TRUE, rejections)
             /\ DrainUnchanged
             /\ UNCHANGED <<outbox, served, verdicts>>

\* outbox.remove has erased the batch; the snapshot is applied, or that throws.
RemoveBatch ==
    /\ pass.at = "remove"
    /\ outbox' = [outbox EXCEPT ![Current] = Erased(@, pass.batch)]
    /\ \/ /\ Aborted
          /\ Finish("paused", error, rejections)
          /\ UNCHANGED faults
       \/ /\ ~Aborted
          /\ pass' = [pass EXCEPT !.at = "take", !.batch = <<>>, !.pushed = TRUE]
          /\ error' = FALSE
          /\ UNCHANGED <<failures, rejections, phase, retry, faults>>
       \/ /\ ~Aborted /\ Fault
          /\ Finish("failed", TRUE, rejections)
    /\ DrainUnchanged
    /\ UNCHANGED <<dead, served, verdicts>>

RemoveFails == /\ pass.at = "remove" /\ Fault
               /\ Failed
               /\ DrainUnchanged /\ UNCHANGED served

\* The pending counts are read back: run one more pass, or be idle.
EndPass == /\ pass.at = "resync"
           /\ IF coalesced
              THEN StartPass(again, domains, retry, failures, FALSE)
              ELSE /\ pass' = Idle /\ gone' = {}
                   /\ UNCHANGED <<failures, status, retry, request>>
           /\ EnvUnchanged
           /\ UNCHANGED <<durable, domains, debounce, wired, wasOnline, faults>>

-----------------------------------------------------------------------------
Next == \/ \E d \in Domains, m \in Mutations : Enqueue(d, m)
        \/ \E d \in Domains : BeginSync(d) \/ Unregister(d) \/ FlushDomain(d)
        \/ DebounceFires \/ RetryFires \/ Periodic \/ Connectivity
        \/ GoOffline \/ GoOnline \/ Reload
        \/ Take \/ TakeFails
        \/ SyncOk \/ SyncFails \/ SyncPaused \/ SyncRejected
        \/ Bury \/ BuryFails \/ RemoveBatch \/ RemoveFails \/ EndPass

Spec == Init /\ [][Next]_vars

\* Promises settle, armed timers fire, the interval fires while it is wired,
\* and the network comes back.
Settle == SyncOk \/ SyncFails \/ SyncPaused \/ SyncRejected

Fairness == /\ WF_vars(Take \/ TakeFails)
            /\ WF_vars(Settle)
            /\ WF_vars(Bury \/ BuryFails)
            /\ WF_vars(RemoveBatch \/ RemoveFails)
            /\ WF_vars(EndPass)
            /\ WF_vars(Periodic)
            /\ WF_vars(GoOnline)

FairSpec == Spec /\ Fairness
-----------------------------------------------------------------------------
(* Properties. *)

Step == {"idle", "take", "sync", "remove", "bury", "resync"}

\* Type invariant of the engine.
TypeOK ==
    /\ outbox \in [Domains -> Seq(Mutations)]
    /\ dead \in [Domains -> SUBSET Mutations]
    /\ served \subseteq Mutations
    /\ domains \in Seq(Domains)
    /\ failures \in [Domains -> 0..MaxFailures]
    /\ rejections \in [Domains -> 0..Rejections]
    /\ verdicts \in [Domains -> Nat]
    /\ phase \in {"idle", "syncing", "error"}
    /\ {error, retry, debounce, wired, wasOnline, online, coalesced} \subseteq BOOLEAN
    /\ {active, again} \subseteq Domains \cup {All}
    /\ pass.at \in Step
    /\ pass.todo \in Seq(Domains) /\ pass.batch \in Seq(Mutations)
    /\ {pass.pushed, pass.failed, pass.drained} \subseteq BOOLEAN
    /\ gone \subseteq Domains /\ owed \subseteq Domains
    /\ faults \in 0..MaxFaults

\* No mutation is lost: what leaves a queue has been taken by the server or
\* lies in the dead-letter store, whatever was enqueued while the batch was
\* under way and wherever a reload or a failure struck (engine #drainDomain,
\* outbox remove and deadLetter).
NothingLost ==
    [][\A d \in Domains : \A m \in ToSet(outbox[d]) :
          m \in ToSet(outbox'[d]) \cup dead'[d] \cup served']_vars

\* The server sees a domain's mutations in the order they were queued: nothing
\* still queued was overtaken by something queued after it ("ordered FIFO
\* replay per domain", engine.svelte.ts).
FifoAtServer ==
    \A d \in Domains : \A j \in DOMAIN outbox[d] :
        outbox[d][j] \in served =>
            \A i \in 1..(j - 1) : outbox[d][i] \in served

\* A mutation is only dead-lettered at the price of DEAD_LETTER_REJECTIONS
\* rejected batches of its domain: no failure of another kind, no pull-only
\* round and no other domain's verdict is charged to it.  (A copy whose original
\* is still queued, from a move that was cut short, is not evicted yet.)
DeadLettersPaidFor ==
    \A d \in Domains :
        Cardinality(dead[d] \ ToSet(outbox[d])) * Rejections + rejections[d] <= verdicts[d]

\* A request for a flush is never dropped: until a pass has targeted the domain
\* it names, one more pass is booked whose filter covers it ("concurrent calls
\* coalesce into a later pass", EC-44).
NoFlushForgotten ==
    /\ owed # {} => pass.at # "idle" /\ coalesced
    /\ \A d \in owed : again \in {All, d}

\* With no domain left nothing keeps running: no retry is armed and no trigger
\* is wired, even when the last domain went while a pass over another one was
\* failing (EC-30, #scheduleRetry).
QuietWithoutDomains == domains = <<>> => ~retry /\ ~wired

\* A domain that stays registered gets its queue emptied again and again: a
\* failing domain does not block a healthy one, and a mutation the server
\* rejects does not block the ones behind it.
Drains == \A d \in Domains :
             <>[](d \in Registered) => []<>(outbox[d] = <<>>)

\* Does not hold.  What EC-28 says of a failed round ("must not sit idle until the 30s periodic
\* round"): while the engine rests and is registered for a domain whose last
\* round failed, the retry timer is armed.
FailedRoundRetries ==
    pass.at = "idle" =>
        \A d \in Registered : failures[d] > 0 => retry
=============================================================================
