------------------------------- MODULE Sessions -------------------------------
(***************************************************************************)
(* The signed-in sessions of one user (services/auth.rs,                   *)
(* services/session_store.rs, crates/rux-auth, auth_v1/controller.rs).     *)
(*                                                                         *)
(* A session exists three times: as a row of the session store, under the  *)
(* opaque id of its cookie; as an audit row, which the user sees in the    *)
(* list of devices; and as the binding that joins the two.  No transaction *)
(* spans them: every handler writes them one await after another, any      *)
(* write may fail, and requests of one session overlap.  A request works   *)
(* on its own copy of the record and, when it has modified the copy, saves *)
(* it again with the response, whatever became of the row in between.      *)
(* What a start finds it reconciles before the first request, as far as    *)
(* that is switched on and its statements succeed.                         *)
(***************************************************************************)
EXTENDS Naturals, Functions, FiniteSets

CONSTANTS Requests,     \* requests that may be under way at once
          TowerIds,     \* opaque ids of the session store
          AuditIds,     \* ids of audit rows
          None,         \* no id
          MaxSecret,    \* bound on the changes of the password
          MaxFaults     \* bound on failed writes and restarts

ASSUME SessionsAssumption ==
    /\ None \notin TowerIds \cup AuditIds
    /\ MaxSecret \in Nat \ {0} /\ MaxFaults \in Nat

VARIABLES
    sessions,   \* tower id -> the secret its record was signed in under (durable)
    audits,     \* audit id -> whether the row is live (durable)
    binding,    \* tower id -> audit id (durable)
    revoked,    \* terminated tower ids, in memory
    secret,     \* session_auth_secret of the user
    request,    \* request -> what it holds
    issued,     \* tower ids given out so far
    faults,
    \* for the properties:
    killed,     \* tower ids ever terminated
    spared      \* those of them whose rows the last start could not reconcile

rows == <<sessions, audits, binding>>
past == <<killed, spared>>
vars == <<rows, revoked, secret, request, issued, past, faults>>

\* sid: id of its session; hash: secret in its copy of the record; old: the id
\* before the rotation, or the one to terminate; audit: the row it works on.
Idle == [at |-> "idle", sid |-> None, hash |-> 0, modified |-> FALSE,
         old |-> None, audit |-> None]

Init == /\ sessions = [t \in {} |-> 0] /\ audits = [a \in {} |-> TRUE]
        /\ binding = [t \in {} |-> None]
        /\ revoked = {} /\ issued = {} /\ killed = {} /\ spared = {}
        /\ secret = 1 /\ faults = 0
        /\ request = [r \in Requests |-> Idle]

Set(f, x, y)   == [z \in DOMAIN f \cup {x} |-> IF z = x THEN y ELSE f[z]]
Without(f, xs) == Restrict(f, DOMAIN f \ xs)
Revoke(a)      == audits' = [audits EXCEPT ![a] = FALSE]
Faults(n)      == faults + n <= MaxFaults /\ faults' = faults + n
Fault          == Faults(1)

Step(r, s)     == request' = [request EXCEPT ![r] = s]
Goto(r, place) == request' = [request EXCEPT ![r].at = place]
At(r, place)   == request[r].at = place

\* A response is due; a record that was not modified is not saved with it.
Responds(r, q) ==
    Step(r, IF q.modified THEN [q EXCEPT !.at = "respond", !.old = None, !.audit = None]
                          ELSE Idle)
Done(r)        == Responds(r, request[r])

Admissible(t) == t \in DOMAIN sessions /\ sessions[t] = secret /\ t \notin revoked

\* Session::save upserts the record; one without an id is created under a new one.
SaveId(q) == IF q.sid # None THEN {q.sid} ELSE TowerIds \ issued
Save(r, t) == /\ sessions' = Set(sessions, t, request[r].hash)
              /\ issued' = issued \cup {t}

\* Faulty: the request does not learn the new id.
SaveAndForget(r, place) ==
    \E t \in SaveId(request[r]) : Save(r, t) /\ Goto(r, place)

SaveAndGo(r, place) ==
    \E t \in SaveId(request[r]) :
        Save(r, t) /\ Step(r, [request[r] EXCEPT !.at = place, !.sid = t])

-----------------------------------------------------------------------------
(* Any request. *)

\* AuthSession::from_request_parts.  The guard may refresh the cached ban status.
Enter(r, t) ==
    /\ At(r, "idle")
    /\ Admissible(t)
    /\ \E refresh \in BOOLEAN :
          Step(r, [Idle EXCEPT !.at = "in", !.sid = t, !.hash = sessions[t],
                               !.modified = refresh])
    /\ UNCHANGED <<rows, revoked, secret, issued, past, faults>>

Refuse(t) ==
    /\ t \in DOMAIN sessions /\ ~Admissible(t)
    /\ sessions' = Without(sessions, {t})
    /\ UNCHANGED <<audits, binding, revoked, secret, request, issued, past, faults>>

Finish(r) ==
    /\ At(r, "in")
    /\ Done(r)
    /\ UNCHANGED <<rows, revoked, secret, issued, past, faults>>

\* The session layer saves a modified record with the response.
Respond(r) ==
    /\ At(r, "respond")
    /\ \/ (\E t \in SaveId(request[r]) : Save(r, t)) /\ UNCHANGED faults
       \/ Fault /\ UNCHANGED <<sessions, issued>>
    /\ Step(r, Idle)
    /\ UNCHANGED <<audits, binding, revoked, secret, past>>

-----------------------------------------------------------------------------
(* log_in and create_bound_session.  A failed step ends in a 500, after which *)
(* the layer saves nothing.                                                   *)

\* login_with_metadata: the id the browser came with is cycled away.
LogIn(r, t) ==
    /\ At(r, "idle")
    /\ sessions' = Without(sessions, {t})
    /\ Step(r, [Idle EXCEPT !.at = "audit", !.hash = secret, !.modified = TRUE])
    /\ UNCHANGED <<audits, binding, revoked, secret, issued, past, faults>>

CreateAudit(r) ==
    /\ At(r, "audit")
    /\ \/ /\ \E a \in AuditIds \ DOMAIN audits :
               /\ audits' = Set(audits, a, TRUE)
               /\ Step(r, [request[r] EXCEPT !.at = "create", !.audit = a])
          /\ UNCHANGED faults
       \/ Fault /\ Step(r, Idle) /\ UNCHANGED audits
    /\ UNCHANGED <<sessions, binding, revoked, secret, issued, past>>

CreateSession(r) ==
    /\ At(r, "create")
    /\ \/ SaveAndGo(r, "bind") /\ UNCHANGED <<audits, faults>>
       \/ /\ \/ Faults(1) /\ Revoke(request[r].audit)
             \/ Faults(2) /\ UNCHANGED audits
          /\ Step(r, Idle)
          /\ UNCHANGED <<sessions, issued>>
    /\ UNCHANGED <<binding, revoked, secret, past>>

\* The audit row and the row go after n failures; both writes may fail as well.
TornDown(r, n) ==
    \E a, b \in 0..1 :
        /\ Faults(n + a + b)
        /\ IF a = 0 THEN Revoke(request[r].audit) ELSE UNCHANGED audits
        /\ IF b = 0 THEN sessions' = Without(sessions, {request[r].sid}) ELSE UNCHANGED sessions

Bind(r) ==
    /\ At(r, "bind")
    /\ \/ /\ binding' = Set(binding, request[r].sid, request[r].audit)
          /\ Goto(r, "issue")
          /\ UNCHANGED <<sessions, audits, faults>>
       \/ TornDown(r, 1) /\ Step(r, Idle) /\ UNCHANGED binding
    /\ UNCHANGED <<revoked, secret, issued, past>>

\* fresh_auth::issue saves the session again.  It refuses a user whose secret has
\* changed since, and anybody when it has given out too many grants; the answer is no
\* 500 then, and the layer saves the record once more.  A user who cannot be read ends
\* the request just so.
Issue(r) ==
    /\ At(r, "issue")
    /\ \/ /\ request[r].hash = secret
          /\ Save(r, request[r].sid) /\ Done(r)
          /\ UNCHANGED <<audits, faults>>
       \/ /\ \/ /\ \/ request[r].hash # secret /\ TornDown(r, 0)
                   \/ TornDown(r, 1)
                /\ Done(r)
             \/ TornDown(r, 1) /\ Step(r, Idle)
          /\ UNCHANGED issued
       \/ Fault /\ Step(r, Idle) /\ UNCHANGED <<sessions, audits, issued>>
    /\ UNCHANGED <<binding, revoked, secret, past>>

-----------------------------------------------------------------------------
(* log_out *)

LogOut(r) ==
    /\ At(r, "in")
    /\ \/ /\ sessions' = Without(sessions, {request[r].sid})
          /\ Goto(r, "signed out")
          /\ UNCHANGED faults
       \/ Fault /\ Step(r, Idle) /\ UNCHANGED sessions
    /\ UNCHANGED <<audits, binding, revoked, secret, issued, past>>

\* A failure is logged, here and below where a write may be skipped.
RevokeOwn(r) ==
    /\ At(r, "signed out")
    /\ \/ /\ IF request[r].sid \in DOMAIN binding
             THEN Revoke(binding[request[r].sid]) ELSE UNCHANGED audits
          /\ UNCHANGED faults
       \/ Fault /\ UNCHANGED audits
    /\ Step(r, [request[r] EXCEPT !.at = "clear", !.old = request[r].sid])
    /\ UNCHANGED <<sessions, binding, revoked, secret, issued, past>>

ClearBinding(r) ==
    /\ At(r, "clear")
    /\ \/ binding' = Without(binding, {request[r].old}) /\ UNCHANGED faults
       \/ Fault /\ UNCHANGED binding
    /\ Done(r)
    /\ UNCHANGED <<sessions, audits, revoked, secret, issued, past>>

-----------------------------------------------------------------------------
(* sessions_terminate *)

Terminate(r, a) ==
    /\ At(r, "in")
    /\ a \in DOMAIN audits
    /\ Revoke(a)
    /\ Step(r, [request[r] EXCEPT !.at = "find", !.audit = a])
    /\ UNCHANGED <<sessions, binding, revoked, secret, issued, past, faults>>

\* A lookup that fails counts as a miss, here and in a rotation.
FindTower(r) ==
    /\ At(r, "find")
    /\ LET towers == {t \in DOMAIN binding : binding[t] = request[r].audit}
       IN  \/ /\ IF towers = {} THEN Done(r)
                 ELSE \E t \in towers : Step(r, [request[r] EXCEPT !.at = "kill", !.old = t])
              /\ UNCHANGED faults
           \/ Fault /\ Done(r)
    /\ UNCHANGED <<rows, revoked, secret, issued, past>>

\* Faulty: only the row is deleted.
UnsetRevoked(t) == revoked

\* AuthBackend::terminate remembers the id.
SetRevoked(t) == revoked \cup {t}

\* The row may survive a failing delete.
Kill(r) ==
    LET t == request[r].old
    IN  /\ At(r, "kill")
        /\ \/ sessions' = Without(sessions, {t}) /\ UNCHANGED faults
           \/ Fault /\ UNCHANGED sessions
        /\ revoked' = SetRevoked(t)
        /\ killed' = killed \cup {t} /\ spared' = spared \ {t}
        /\ Step(r, [request[r] EXCEPT !.at = "clear", !.audit = None])
        /\ UNCHANGED <<audits, binding, secret, issued>>

-----------------------------------------------------------------------------
(* rotate_session_after_trust_change: two-factor login is switched on or off. *)

Rotate(r) ==
    LET q == request[r]
    IN  /\ At(r, "in")
        /\ \/ /\ sessions' = Without(sessions, {q.sid})
              /\ Step(r, [q EXCEPT !.at = "rotated", !.old = q.sid, !.sid = None,
                                   !.modified = TRUE])
              /\ UNCHANGED faults
           \/ /\ Fault
              /\ Responds(r, [q EXCEPT !.sid = None])
              /\ UNCHANGED sessions
        /\ UNCHANGED <<audits, binding, revoked, secret, issued, past>>

SaveRotated(r) ==
    /\ At(r, "rotated")
    /\ \/ SaveAndGo(r, "move") /\ UNCHANGED faults
       \/ Fault /\ Done(r) /\ UNCHANGED <<sessions, issued>>
    /\ UNCHANGED <<audits, binding, revoked, secret, past>>

FindAudit(r) ==
    /\ At(r, "move")
    /\ LET q == request[r]
       IN  \/ /\ IF q.old \in DOMAIN binding
                 THEN Step(r, [q EXCEPT !.at = "replace", !.audit = binding[q.old]])
                 ELSE Done(r)
              /\ UNCHANGED faults
           \/ Fault /\ Done(r)
    /\ UNCHANGED <<rows, revoked, secret, issued, past>>

\* Faulty: only the old id is unbound.
OldOnly(old, a) == {old}

\* replace_session_mapping: no other id stays bound to the audit row.
Unbound(old, a) == {old} \cup {t \in DOMAIN binding : binding[t] = a}

ReplaceBinding(r) ==
    LET q == request[r]
    IN  /\ At(r, "replace")
        /\ \/ /\ binding' = Set(Without(binding, Unbound(q.old, q.audit)), q.sid, q.audit)
              /\ Done(r)
              /\ UNCHANGED <<sessions, audits, faults>>
           \/ /\ \/ TornDown(r, 1) /\ binding' = Without(binding, {q.old})
                 \/ TornDown(r, 2) /\ UNCHANGED binding
              /\ Step(r, Idle)
        /\ UNCHANGED <<revoked, secret, issued, past>>

-----------------------------------------------------------------------------
\* A password is changed or reset: the secret rotates.
ChangePassword ==
    /\ secret < MaxSecret
    /\ secret' = secret + 1
    /\ UNCHANGED <<rows, revoked, request, issued, past, faults>>

\* reconcile_unbound_sessions: live audit rows without a binding are revoked.
LiveAfterBoot == {a \in DOMAIN audits : audits[a] /\ a \in Range(binding)}

\* Bindings of revoked audit rows go, and their sessions.
Orphans == {t \in DOMAIN binding : binding[t] \notin LiveAfterBoot}

\* delete_unbound_auth_sessions: sessions without a binding go.
Strangers == DOMAIN sessions \ (DOMAIN binding \ Orphans)

\* What becomes of the ids when n of its four steps are through: the audit rows, the
\* sessions of the orphans, their bindings, the strangers.  An orphan is remembered even
\* when its row could not be deleted, a stranger is not.
Reconciled(n, missed) == (IF n >= 2 THEN Orphans ELSE {})
                            \cup (IF n = 4 THEN Strangers \ missed ELSE {})

\* The server starts however far the reconciliation comes, and it does not begin one
\* while web auth is switched off.
Restart(n, missed) ==
    /\ Fault
    /\ audits' = IF n >= 1 THEN [a \in DOMAIN audits |-> a \in LiveAfterBoot] ELSE audits
    /\ revoked' = Reconciled(n, missed)
    /\ sessions' = Without(sessions, revoked' \ missed)
    /\ binding' = IF n >= 3 THEN Without(binding, Orphans) ELSE binding
    /\ request' = [r \in Requests |-> Idle]
    /\ spared' = killed \cap ((IF n = 4 THEN missed ELSE DOMAIN sessions)
                                \ (IF n >= 2 THEN Orphans ELSE {}))
    /\ UNCHANGED <<secret, issued, killed>>

Handle(r) ==
    \/ \E t \in TowerIds : Enter(r, t)
    \/ \E t \in DOMAIN sessions \cup {None} : LogIn(r, t)
    \/ Finish(r) \/ Respond(r)
    \/ CreateAudit(r) \/ CreateSession(r) \/ Bind(r) \/ Issue(r)
    \/ LogOut(r) \/ RevokeOwn(r) \/ ClearBinding(r)
    \/ \E a \in AuditIds : Terminate(r, a)
    \/ FindTower(r) \/ Kill(r)
    \/ Rotate(r) \/ SaveRotated(r) \/ FindAudit(r) \/ ReplaceBinding(r)

Next == \/ \E r \in Requests : Handle(r)
        \/ \E t \in TowerIds : Refuse(t)
        \/ ChangePassword
        \/ \E n \in 0..4, missed \in SUBSET DOMAIN sessions : Restart(n, missed)

Spec == Init /\ [][Next]_vars
-----------------------------------------------------------------------------
(* Properties. *)

Held == [at : {"idle", "in", "respond", "audit", "create", "bind", "issue", "signed out",
               "clear", "find", "kill", "rotated", "move", "replace"},
         sid : TowerIds \cup {None}, hash : 0..MaxSecret, modified : BOOLEAN,
         old : TowerIds \cup {None}, audit : AuditIds \cup {None}]

\* Type invariant.
TypeOK == /\ DOMAIN sessions \cup DOMAIN binding \cup revoked \cup killed \subseteq issued
          /\ spared \subseteq killed
          /\ issued \subseteq TowerIds
          /\ Range(sessions) \subseteq 1..MaxSecret
          /\ DOMAIN audits \subseteq AuditIds /\ Range(audits) \subseteq BOOLEAN
          /\ Range(binding) \subseteq DOMAIN audits
          /\ secret \in 1..MaxSecret
          /\ request \in [Requests -> Held]
          /\ \A r \in Requests :
                /\ request[r].at \in {"in", "bind", "issue", "find", "kill", "move", "replace"}
                      => request[r].sid \in issued
                /\ request[r].at \in {"create", "bind", "issue", "find", "kill", "replace"}
                      => request[r].audit \in DOMAIN audits
                /\ request[r].at = "kill" => request[r].old \in issued

\* A terminated session does not authenticate again (sessions_terminate): not after a
\* request of its own saves its record once more, not when deleting the row or the
\* binding had failed, not after a restart has emptied the memory of terminated ids.
\* Excepted are the rows that were still there when the server last started and that
\* the start did not come to, or failed to delete as strangers: what it had to
\* reconcile always included them.
TerminatedStaysOut == \A t \in killed \ spared : ~Admissible(t)

\* "enforces exactly-one" (replace_session_mapping): however many requests of a
\* session rotate its id at once, its audit row is bound to one id.
OneSessionPerAudit == \A t, u \in DOMAIN binding : binding[t] = binding[u] => t = u

\* Does not hold.  "The tower session is already gone, so the cookie no longer
\* authenticates" (log_out): a request under way saves it again.  The next start that
\* reconciles takes it away.
LoggedOutStaysOut ==
    [][\A r \in Requests, t \in TowerIds :
          At(r, "signed out") /\ request[r].sid = t => ~Admissible(t)']_vars

\* Does not hold.  "The live tower-session record must also be deleted or the cookie
\* authenticates" (sessions_terminate): once all requests have ended, no session of a
\* revoked audit row is let in.  A rotation between FindTower and Kill moves the
\* session to an id the termination does not know; a teardown may fail to delete it.
NoneOutlivesItsAudit ==
    (\A r \in Requests : At(r, "idle")) =>
        \A t \in DOMAIN binding : Admissible(t) => audits[binding[t]]

\* "on any step's failure, revoke the audit row and destroy the tower session so
\* neither lingers" (create_bound_session).
FailClosed ==
    [][\A r \in Requests :
          request[r].at \in {"create", "bind", "issue"} /\ request'[r] = Idle =>
             \/ \E n \in 0..4, missed \in SUBSET DOMAIN sessions : Restart(n, missed)
             \/ ~audits'[request[r].audit] /\ request[r].sid \notin DOMAIN sessions']_vars
=============================================================================
