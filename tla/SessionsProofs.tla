---------------------------- MODULE SessionsProofs ----------------------------
(***************************************************************************)
(* Proofs about Sessions, for any number of requests, sessions and audit   *)
(* rows and any number of failures and restarts.                           *)
(***************************************************************************)
EXTENDS Sessions, TLAPS

USE DEF past

\* A request that does anything works on a record somebody has signed in under, and
\* has no id where it is about to be given one.
Working ==
    \A r \in Requests :
        /\ ~At(r, "idle") => request[r].hash \in 1..MaxSecret
        /\ request[r].at \in {"idle", "audit", "create", "rotated"} => request[r].sid = None

\* A login about to bind its audit row is the only one to bind it.
Binding(r) == request[r].at \in {"create", "bind"}
Bound ==
    /\ OneSessionPerAudit
    /\ \A r \in Requests, t \in DOMAIN binding : Binding(r) => binding[t] # request[r].audit
    /\ \A r, s \in Requests :
          /\ Binding(r) /\ (Binding(s) \/ At(s, "replace"))
          /\ request[r].audit = request[s].audit
          => r = s

\* An id that is about to be bound was not bound before, nor found by a termination.
HasNewId(r) == request[r].at \in {"bind", "move", "replace"}
Fresh ==
    \A r \in Requests : HasNewId(r) =>
        /\ request[r].sid \notin killed \cup DOMAIN binding
        /\ \A s \in Requests : At(s, "kill") => request[s].old # request[r].sid
        /\ \A s \in Requests : HasNewId(s) /\ request[s].sid = request[r].sid => r = s

\* A terminated session is remembered, or gone for good unless a start has spared it;
\* and what its binding still leads to, if anything, is a revoked audit row, so that a
\* start that reconciles takes it away.
Dead(t) == t \in DOMAIN binding => ~audits[binding[t]]
Gone(t) == t \notin DOMAIN sessions /\ \A r \in Requests : request[r].sid # t
Ended ==
    /\ \A t \in killed : (t \in revoked \cup spared \/ Gone(t)) /\ Dead(t)
    /\ \A r \in Requests : /\ At(r, "find") => ~audits[request[r].audit]
                           /\ At(r, "kill") => Dead(request[r].old)

IInv == TypeOK /\ Working /\ Bound /\ Fresh /\ Ended

-----------------------------------------------------------------------------
(* Most steps move one request on and leave of the rows what the invariant *)
(* looks at.  What that is, and what the request has to fit.               *)

KeptSessions(r) ==
    /\ issued \subseteq issued' /\ issued' \subseteq TowerIds
    /\ \A t \in DOMAIN sessions' :
          /\ t \in issued' /\ sessions'[t] \in 1..MaxSecret
          /\ t \in DOMAIN sessions \/ t = request[r].sid \/ t \notin issued

KeptAudits ==
    /\ DOMAIN audits \subseteq DOMAIN audits' /\ DOMAIN audits' \subseteq AuditIds
    /\ \A a \in DOMAIN audits' : audits'[a] \in BOOLEAN
    /\ \A a \in DOMAIN audits : ~audits[a] => ~audits'[a]

KeptBinding == /\ DOMAIN binding' \subseteq DOMAIN binding
               /\ \A t \in DOMAIN binding' : binding'[t] = binding[t]

Typed(q) ==
    /\ q \in Held
    /\ q.at \in {"in", "bind", "issue", "find", "kill", "move", "replace"} => q.sid \in issued'
    /\ q.at \in {"create", "bind", "issue", "find", "kill", "replace"} => q.audit \in DOMAIN audits'
    /\ q.at = "kill" => q.old \in issued
    /\ q.at # "idle" => q.hash \in 1..MaxSecret
    /\ q.at \in {"idle", "audit", "create", "rotated"} => q.sid = None

Fits(r, q) ==
    /\ Typed(q)
    /\ \/ q.sid \in {request[r].sid, None}
       \/ q.sid \notin issued \/ q.sid \in DOMAIN sessions
    /\ q.at = "create" => q.audit \notin DOMAIN audits
    /\ q.at = "bind" => At(r, "create") /\ q.audit = request[r].audit
    /\ q.at \in {"bind", "move"} => q.sid \notin issued
    /\ q.at = "replace" => /\ At(r, "move") /\ q.sid = request[r].sid
                           /\ \E t \in DOMAIN binding : q.audit = binding[t]
    /\ q.at = "kill" => q.old \in DOMAIN binding /\ ~audits[binding[q.old]]
    /\ q.at = "find" => ~audits'[q.audit]

\* A request is typed, on its own.
LEMMA RequestHeld == ASSUME IInv, NEW r \in Requests PROVE request[r] \in Held
BY DEF IInv, TypeOK

\* What the type invariant says of the rows, row by row.
LEMMA Rows ==
    ASSUME TypeOK
    PROVE  /\ \A t \in DOMAIN sessions : sessions[t] \in 1..MaxSecret
           /\ \A a \in DOMAIN audits : audits[a] \in BOOLEAN
           /\ \A t \in DOMAIN binding : binding[t] \in DOMAIN audits
BY DEF TypeOK, Range

LEMMA Moved ==
    ASSUME IInv, NEW r \in Requests, NEW q, Step(r, q), Fits(r, q),
           KeptSessions(r), KeptAudits, KeptBinding, UNCHANGED <<revoked, killed, spared, secret>>
    PROVE  IInv'
<1>1. /\ request' \in [Requests -> Held] /\ request'[r] = q
      /\ \A s \in Requests : s # r => request'[s] = request[s]
  BY DEF Step, IInv, TypeOK, Fits, Typed
<1>. HIDE DEF Step
<1>2. TypeOK'
  <2>1. DOMAIN sessions' \cup DOMAIN binding' \cup revoked' \cup killed' \subseteq issued'
    BY DEF IInv, TypeOK, KeptSessions, KeptBinding
  <2>2. Range(sessions)' \subseteq 1..MaxSecret
    BY DEF KeptSessions, Range
  <2>3. DOMAIN audits' \subseteq AuditIds /\ Range(audits)' \subseteq BOOLEAN
    BY DEF KeptAudits, Range
  <2>4. Range(binding)' \subseteq DOMAIN audits'
    BY Rows DEF IInv, KeptAudits, KeptBinding, Range
  <2>5. \A s \in Requests :
           /\ request'[s].at \in {"in", "bind", "issue", "find", "kill", "move", "replace"}
                 => request'[s].sid \in issued'
           /\ request'[s].at \in {"create", "bind", "issue", "find", "kill", "replace"}
                 => request'[s].audit \in DOMAIN audits'
           /\ request'[s].at = "kill" => request'[s].old \in issued'
    BY <1>1 DEF IInv, TypeOK, KeptSessions, KeptAudits, Fits, Typed
  <2>. QED BY <1>1, <2>1, <2>2, <2>3, <2>4, <2>5 DEF IInv, TypeOK, KeptSessions
<1>3. Working'
  BY <1>1 DEF IInv, Working, At, Fits, Typed
<1>4. Bound'
  <2>1. OneSessionPerAudit'
    BY DEF IInv, Bound, OneSessionPerAudit, KeptBinding
  <2>2. \A s \in Requests, t \in DOMAIN binding' : Binding(s)' => binding'[t] # request'[s].audit
    BY <1>1, Rows DEF IInv, Bound, Binding, KeptBinding, Fits, At
  <2>3. \A s, u \in Requests :
           /\ Binding(s)' /\ (Binding(u)' \/ At(u, "replace")')
           /\ request'[s].audit = request'[u].audit
           => s = u
    <3>1. ASSUME NEW s \in Requests, s # r, Binding(r)' \/ At(r, "replace")', Binding(s)
          PROVE  request[s].audit # q.audit
      BY <1>1, <3>1, Rows DEF IInv, TypeOK, Bound, Binding, Fits, At
    <3>2. ASSUME NEW s \in Requests, s # r, Binding(r)', At(s, "replace")
          PROVE  request[s].audit # q.audit
      BY <1>1, <3>2 DEF IInv, TypeOK, Bound, Binding, Fits, At
    <3>. QED BY <1>1, <3>1, <3>2 DEF IInv, Bound, Binding, At
  <2>. QED BY <2>1, <2>2, <2>3 DEF Bound
<1>5. Fresh'
  <2>1. ASSUME NEW s \in Requests, HasNewId(s)'
        PROVE  request'[s].sid \notin killed' \cup DOMAIN binding'
    BY <1>1, <2>1 DEF IInv, TypeOK, Fresh, HasNewId, KeptBinding, Fits, At
  <2>2. ASSUME NEW s \in Requests, NEW u \in Requests, HasNewId(s)', At(u, "kill")'
        PROVE  request'[u].old # request'[s].sid
    BY <1>1, <2>2 DEF IInv, TypeOK, Fresh, HasNewId, Fits, At
  <2>3. ASSUME NEW s \in Requests, NEW u \in Requests, HasNewId(s)', HasNewId(u)',
               request'[u].sid = request'[s].sid
        PROVE  s = u
    <3>1. ASSUME NEW v \in Requests, v # r, HasNewId(r)', HasNewId(v)
          PROVE  request[v].sid # q.sid
      BY <1>1, <3>1 DEF IInv, TypeOK, Fresh, HasNewId, Fits, At
    <3>. QED BY <1>1, <2>3, <3>1 DEF IInv, Fresh, HasNewId
  <2>. QED BY <2>1, <2>2, <2>3 DEF Fresh
<1>6. Ended'
  <2>1. \A t : Dead(t) => Dead(t)'
    BY Rows DEF IInv, Dead, KeptAudits, KeptBinding
  <2>2. ASSUME NEW t \in killed, t \notin revoked \cup spared
        PROVE  Gone(t)'
    <3>1. t \in issued /\ t \notin DOMAIN sessions /\ \A s \in Requests : request[s].sid # t
      BY <2>2 DEF IInv, TypeOK, Ended, Gone
    <3>2. t # None
      BY <3>1, SessionsAssumption DEF IInv, TypeOK
    <3>. QED BY <1>1, <3>1, <3>2 DEF KeptSessions, Fits, Gone
  <2>3. \A t \in killed' : Dead(t)'
    BY <2>1 DEF IInv, Ended
  <2>4. \A s \in Requests : At(s, "find")' => ~audits'[request'[s].audit]
    BY <1>1 DEF IInv, TypeOK, Ended, KeptAudits, Fits, At
  <2>5. \A s \in Requests : At(s, "kill")' => Dead(request[s].old)'
    <3>1. At(r, "kill")' => Dead(q.old)
      BY <1>1 DEF Fits, Dead, At
    <3>. QED BY <1>1, <2>1, <3>1 DEF IInv, Ended, At
  <2>. QED BY <2>2, <2>3, <2>4, <2>5 DEF Ended
<1>. QED BY <1>2, <1>3, <1>4, <1>5, <1>6 DEF IInv

-----------------------------------------------------------------------------
(* What the writes do to the rows. *)

LEMMA SessionsSame ==
    ASSUME TypeOK, NEW r \in Requests, UNCHANGED <<sessions, issued>>
    PROVE  KeptSessions(r)
BY Rows DEF TypeOK, KeptSessions

LEMMA SessionsLess ==
    ASSUME TypeOK, NEW r \in Requests, NEW ts, sessions' = Without(sessions, ts), UNCHANGED issued
    PROVE  KeptSessions(r)
<1>1. DOMAIN sessions' \subseteq DOMAIN sessions /\ \A t \in DOMAIN sessions' : sessions'[t] = sessions[t]
  BY DEF Without, Restrict
<1>. QED BY <1>1, Rows DEF TypeOK, KeptSessions

LEMMA SessionsMore ==
    ASSUME IInv, NEW r \in Requests, ~At(r, "idle"), NEW t \in SaveId(request[r]), Save(r, t)
    PROVE  /\ KeptSessions(r) /\ t \in issued' /\ t \in TowerIds
           /\ IF request[r].sid = None THEN t \notin issued ELSE t = request[r].sid
<1>1. /\ t \in TowerIds
      /\ IF request[r].sid = None THEN t \notin issued ELSE t = request[r].sid
  BY DEF SaveId, IInv, TypeOK, Held
<1>2. /\ DOMAIN sessions' = DOMAIN sessions \cup {t} /\ issued' = issued \cup {t}
      /\ sessions'[t] = request[r].hash
      /\ \A u \in DOMAIN sessions : u # t => sessions'[u] = sessions[u]
  BY DEF Save, Set
<1>3. request[r].hash \in 1..MaxSecret
  BY DEF IInv, Working
<1>. QED BY <1>1, <1>2, <1>3, Rows DEF IInv, TypeOK, KeptSessions

LEMMA AuditsSame == ASSUME TypeOK, UNCHANGED audits PROVE KeptAudits
BY Rows DEF TypeOK, KeptAudits

LEMMA AuditRevoked ==
    ASSUME TypeOK, NEW a, Revoke(a)
    PROVE  KeptAudits /\ (a \in DOMAIN audits => ~audits'[a])
<1>1. /\ DOMAIN audits' = DOMAIN audits
      /\ \A b \in DOMAIN audits : audits'[b] = IF b = a THEN FALSE ELSE audits[b]
  BY DEF Revoke
<1>2. \A b \in DOMAIN audits : audits'[b] \in BOOLEAN
  BY <1>1, Rows
<1>. QED BY <1>1, <1>2 DEF TypeOK, KeptAudits

LEMMA AuditCreated ==
    ASSUME TypeOK, NEW a \in AuditIds \ DOMAIN audits, audits' = Set(audits, a, TRUE)
    PROVE  KeptAudits /\ a \in DOMAIN audits'
<1>1. /\ DOMAIN audits' = DOMAIN audits \cup {a}
      /\ \A b \in DOMAIN audits' : audits'[b] = IF b = a THEN TRUE ELSE audits[b]
  BY DEF Set
<1>2. \A b \in DOMAIN audits' : audits'[b] \in BOOLEAN
  BY <1>1, Rows
<1>. QED BY <1>1, <1>2 DEF TypeOK, KeptAudits

LEMMA BindingSame == ASSUME UNCHANGED binding PROVE KeptBinding
BY DEF KeptBinding

LEMMA BindingLess == ASSUME NEW ts, binding' = Without(binding, ts) PROVE KeptBinding
BY DEF KeptBinding, Without, Restrict

LEMMA IdleHeld == Idle \in Held /\ Idle.at = "idle" /\ Idle.sid = None
BY SessionsAssumption DEF Idle, Held

LEMMA IdleFits == ASSUME NEW r PROVE Fits(r, Idle)
BY SessionsAssumption DEF Fits, Typed, Idle, Held

\* A request goes on to a place with nothing to know there.
LEMMA GoesOn ==
    ASSUME IInv, NEW r \in Requests, ~At(r, "idle"), NEW q \in Held,
           q.at \in {"respond", "signed out", "clear"}, q.hash = request[r].hash,
           q.sid \in {request[r].sid, None}, Step(r, q),
           KeptSessions(r), KeptAudits, KeptBinding, UNCHANGED <<revoked, killed, spared, secret>>
    PROVE  IInv'
<1>1. q.hash \in 1..MaxSecret
  BY DEF IInv, Working
<1>2. Fits(r, q)
  BY <1>1 DEF Fits, Typed
<1>. QED BY <1>2, Moved

LEMMA GoesTo ==
    ASSUME IInv, NEW r \in Requests, ~At(r, "idle"),
           NEW place \in {"respond", "signed out", "clear"}, Goto(r, place),
           KeptSessions(r), KeptAudits, KeptBinding, UNCHANGED <<revoked, killed, spared, secret>>
    PROVE  IInv'
<1>. DEFINE q == [request[r] EXCEPT !.at = place]
<1>1. q \in Held /\ q.at = place /\ q.sid = request[r].sid /\ q.hash = request[r].hash
  BY RequestHeld DEF Held
<1>2. Step(r, q)
  BY DEF Goto, Step
<1>. HIDE DEF q
<1>. QED BY <1>1, <1>2, GoesOn

\* ... or ends.
LEMMA Ends ==
    ASSUME IInv, NEW r \in Requests, Step(r, Idle),
           KeptSessions(r), KeptAudits, KeptBinding, UNCHANGED <<revoked, killed, spared, secret>>
    PROVE  IInv'
BY Moved, IdleFits

\* A response is due.
LEMMA Answers ==
    ASSUME IInv, NEW r \in Requests, ~At(r, "idle"), NEW q \in Held,
           q.hash = request[r].hash, q.sid \in {request[r].sid, None}, Responds(r, q),
           KeptSessions(r), KeptAudits, KeptBinding, UNCHANGED <<revoked, killed, spared, secret>>
    PROVE  IInv'
<1>1. CASE q.modified
  <2>. DEFINE p == [q EXCEPT !.at = "respond", !.old = None, !.audit = None]
  <2>1. p \in Held /\ p.at = "respond" /\ p.sid = q.sid /\ p.hash = q.hash
    BY DEF Held
  <2>2. Step(r, p)
    BY <1>1 DEF Responds
  <2>. HIDE DEF p
  <2>. QED BY <2>1, <2>2, GoesOn
<1>2. CASE ~q.modified
  BY <1>2, Ends DEF Responds
<1>. QED BY <1>1, <1>2

LEMMA Answered ==
    ASSUME IInv, NEW r \in Requests, ~At(r, "idle"), Done(r),
           KeptSessions(r), KeptAudits, KeptBinding, UNCHANGED <<revoked, killed, spared, secret>>
    PROVE  IInv'
BY RequestHeld, Answers DEF Done

\* A teardown leaves what the invariant looks at, whichever of its writes fail.
LEMMA TearsDown ==
    ASSUME IInv, NEW r \in Requests, NEW n, TornDown(r, n), UNCHANGED issued
    PROVE  KeptSessions(r) /\ KeptAudits
<1>1. \/ sessions' = Without(sessions, {request[r].sid})
      \/ UNCHANGED sessions
  BY DEF TornDown
<1>2. Revoke(request[r].audit) \/ UNCHANGED audits
  BY DEF TornDown
<1>. QED BY <1>1, <1>2, SessionsLess, SessionsSame, AuditRevoked, AuditsSame DEF IInv

-----------------------------------------------------------------------------
(* The handlers. *)

LEMMA EnterKeeps == ASSUME IInv, NEW r \in Requests, NEW t, Enter(r, t) PROVE IInv'
<1>1. PICK refresh \in BOOLEAN :
         Step(r, [Idle EXCEPT !.at = "in", !.sid = t, !.hash = sessions[t], !.modified = refresh])
  BY DEF Enter
<1>. DEFINE q == [Idle EXCEPT !.at = "in", !.sid = t, !.hash = sessions[t], !.modified = refresh]
<1>2. t \in DOMAIN sessions /\ t \in issued /\ t \in TowerIds /\ sessions[t] \in 1..MaxSecret
  BY Rows DEF Enter, Admissible, IInv, TypeOK
<1>3. q \in Held /\ q.at = "in" /\ q.sid = t /\ q.hash = sessions[t]
  <2>1. q.at = "in" /\ q.sid = t /\ q.hash = sessions[t]
    BY IdleHeld DEF Held
  <2>2. q \in Held
    <3>1. sessions[t] \in 0..MaxSecret
      BY <1>2
    <3>. QED BY IdleHeld, <1>2, <3>1 DEF Held
  <2>. QED BY <2>1, <2>2
<1>4. UNCHANGED <<rows, issued, revoked, killed, spared, secret>>
  BY DEF Enter
<1>. HIDE DEF q
<1>5. Fits(r, q)
  BY <1>2, <1>3, <1>4 DEF Fits, Typed
<1>. QED BY <1>1, <1>4, <1>5, Moved, SessionsSame, AuditsSame, BindingSame DEF IInv, rows, q

LEMMA FinishKeeps == ASSUME IInv, NEW r \in Requests, Finish(r) PROVE IInv'
BY Answered, SessionsSame, AuditsSame, BindingSame DEF IInv, Finish, rows, At

LEMMA RespondKeeps == ASSUME IInv, NEW r \in Requests, Respond(r) PROVE IInv'
<1>1. UNCHANGED <<audits, binding, revoked, secret, killed, spared>> /\ Step(r, Idle) /\ ~At(r, "idle")
  BY DEF Respond, At
<1>2. KeptSessions(r)
  BY <1>1, SessionsMore, SessionsSame DEF IInv, Respond
<1>. QED BY <1>1, <1>2, Ends, AuditsSame, BindingSame DEF IInv

LEMMA LogInKeeps == ASSUME IInv, NEW r \in Requests, NEW t, LogIn(r, t) PROVE IInv'
<1>. DEFINE q == [Idle EXCEPT !.at = "audit", !.hash = secret, !.modified = TRUE]
<1>1. Step(r, q) /\ UNCHANGED <<audits, binding, revoked, secret, issued, killed, spared>>
  BY DEF LogIn
<1>2. q \in Held /\ q.at = "audit" /\ q.sid = None /\ q.hash \in 1..MaxSecret
  <2>1. secret \in 1..MaxSecret
    BY DEF IInv, TypeOK
  <2>2. q.at = "audit" /\ q.sid = None /\ q.hash = secret
    BY IdleHeld DEF Held
  <2>3. q \in Held
    <3>1. secret \in 0..MaxSecret
      BY <2>1
    <3>. QED BY IdleHeld, <3>1 DEF Held
  <2>. QED BY <2>1, <2>2, <2>3
<1>. HIDE DEF q
<1>3. Fits(r, q)
  BY <1>2 DEF Fits, Typed
<1>4. KeptSessions(r)
  BY <1>1, SessionsLess DEF IInv, LogIn
<1>. QED BY <1>1, <1>3, <1>4, Moved, AuditsSame, BindingSame DEF IInv

LEMMA CreateAuditKeeps == ASSUME IInv, NEW r \in Requests, CreateAudit(r) PROVE IInv'
<1>1. At(r, "audit") /\ UNCHANGED <<sessions, binding, revoked, secret, issued, killed, spared>>
  BY DEF CreateAudit
<1>2. KeptSessions(r) /\ KeptBinding
  BY <1>1, SessionsSame, BindingSame DEF IInv
<1>3. CASE \E a \in AuditIds \ DOMAIN audits :
              /\ audits' = Set(audits, a, TRUE)
              /\ Step(r, [request[r] EXCEPT !.at = "create", !.audit = a])
  <2>1. PICK a \in AuditIds \ DOMAIN audits :
              /\ audits' = Set(audits, a, TRUE)
              /\ Step(r, [request[r] EXCEPT !.at = "create", !.audit = a])
    BY <1>3
  <2>. DEFINE q == [request[r] EXCEPT !.at = "create", !.audit = a]
  <2>2. q \in Held /\ q.at = "create" /\ q.audit = a
        /\ q.sid = request[r].sid /\ q.hash = request[r].hash
    BY RequestHeld DEF Held
  <2>3. q.sid = None /\ q.hash \in 1..MaxSecret
    BY <1>1, <2>2 DEF IInv, Working, At
  <2>4. KeptAudits /\ a \in DOMAIN audits'
    BY <2>1, AuditCreated DEF IInv
  <2>. HIDE DEF q
  <2>5. Fits(r, q)
    BY <2>2, <2>3, <2>4 DEF Fits, Typed
  <2>. QED BY <1>1, <1>2, <2>1, <2>4, <2>5, Moved DEF q
<1>4. CASE Step(r, Idle) /\ UNCHANGED audits
  BY <1>1, <1>2, <1>4, Ends, AuditsSame DEF IInv
<1>. QED BY <1>3, <1>4 DEF CreateAudit

LEMMA CreateSessionKeeps == ASSUME IInv, NEW r \in Requests, CreateSession(r) PROVE IInv'
<1>1. /\ At(r, "create") /\ ~At(r, "idle") /\ request[r].sid = None
      /\ request[r].audit \in DOMAIN audits /\ request[r].hash \in 1..MaxSecret
      /\ UNCHANGED <<binding, revoked, secret, killed, spared>>
  BY DEF CreateSession, IInv, TypeOK, Working, At
<1>2. CASE SaveAndGo(r, "bind") /\ UNCHANGED audits
  <2>1. PICK t \in SaveId(request[r]) :
           Save(r, t) /\ Step(r, [request[r] EXCEPT !.at = "bind", !.sid = t])
    BY <1>2 DEF SaveAndGo
  <2>. DEFINE q == [request[r] EXCEPT !.at = "bind", !.sid = t]
  <2>2. KeptSessions(r) /\ t \in issued' /\ t \in TowerIds /\ t \notin issued
    BY <1>1, <2>1, SessionsMore
  <2>3. q \in Held /\ q.at = "bind" /\ q.sid = t
        /\ q.audit = request[r].audit /\ q.hash = request[r].hash
    <3>1. request[r] \in Held
      BY DEF IInv, TypeOK
    <3>2. q \in Held
      BY <2>2, <3>1 DEF Held
    <3>. QED BY <3>1, <3>2 DEF Held
  <2>. HIDE DEF q
  <2>4. Fits(r, q)
    BY <1>1, <1>2, <2>2, <2>3 DEF Fits, Typed
  <2>. QED BY <1>1, <1>2, <2>1, <2>2, <2>4, Moved, AuditsSame, BindingSame DEF IInv, q
<1>3. CASE /\ Revoke(request[r].audit) \/ UNCHANGED audits
           /\ Step(r, Idle)
           /\ UNCHANGED <<sessions, issued>>
  BY <1>1, <1>3, Ends, AuditRevoked, AuditsSame, SessionsSame, BindingSame DEF IInv
<1>. QED BY <1>2, <1>3 DEF CreateSession

\* An audit row is bound to an id that was not bound before.
LEMMA Rebound ==
    ASSUME IInv, NEW r \in Requests, At(r, "bind") \/ At(r, "replace"),
           NEW q \in Held, Step(r, q), q.at \in {"idle", "issue", "respond"},
           q.at = "issue" => q.sid = request[r].sid /\ q.audit = request[r].audit,
           q.at # "idle" => q.hash = request[r].hash,
           q.sid \in (IF q.at = "idle" THEN {None} ELSE {request[r].sid, None}),
           UNCHANGED <<sessions, audits, revoked, secret, issued, killed, spared>>,
           DOMAIN binding' \subseteq DOMAIN binding \cup {request[r].sid},
           \A t \in DOMAIN binding' :
              binding'[t] = IF t = request[r].sid THEN request[r].audit ELSE binding[t],
           \A t \in DOMAIN binding' : t # request[r].sid => binding[t] # request[r].audit
    PROVE  IInv'
<1>1. /\ request[r].sid \in issued /\ request[r].audit \in DOMAIN audits
      /\ HasNewId(r) /\ request[r].hash \in 1..MaxSecret
  BY DEF IInv, TypeOK, Working, HasNewId, At
<1>3. /\ request' \in [Requests -> Held] /\ request'[r] = q
      /\ \A s \in Requests : s # r => request'[s] = request[s]
  BY DEF Step, IInv, TypeOK
<1>4. /\ ~Binding(r)' /\ ~HasNewId(r)' /\ ~At(r, "replace")' /\ ~At(r, "find")' /\ ~At(r, "kill")'
  BY <1>3 DEF Binding, HasNewId, At
<1>5. TypeOK'
  <2>1. DOMAIN sessions' \cup DOMAIN binding' \cup revoked' \cup killed' \subseteq issued'
    BY <1>1 DEF IInv, TypeOK
  <2>2. Range(binding)' \subseteq DOMAIN audits'
    BY <1>1, Rows DEF IInv, Range
  <2>3. \A s \in Requests :
           /\ request'[s].at \in {"in", "bind", "issue", "find", "kill", "move", "replace"}
                 => request'[s].sid \in issued'
           /\ request'[s].at \in {"create", "bind", "issue", "find", "kill", "replace"}
                 => request'[s].audit \in DOMAIN audits'
           /\ request'[s].at = "kill" => request'[s].old \in issued'
    BY <1>1, <1>3 DEF IInv, TypeOK
  <2>4. Range(sessions)' \subseteq 1..MaxSecret /\ Range(audits)' \subseteq BOOLEAN
    BY DEF IInv, TypeOK, Range
  <2>. QED BY <1>3, <2>1, <2>2, <2>3, <2>4 DEF IInv, TypeOK
<1>6. Working'
  BY <1>1, <1>3 DEF IInv, Working, At
<1>7. Bound'
  <2>1. OneSessionPerAudit'
    BY DEF IInv, Bound, OneSessionPerAudit
  <2>2. ASSUME NEW s \in Requests, NEW t \in DOMAIN binding', Binding(s)'
        PROVE  binding'[t] # request'[s].audit
    <3>1. s # r /\ Binding(s) /\ request'[s] = request[s]
      BY <1>3, <1>4, <2>2 DEF Binding
    <3>2. request[s].audit # request[r].audit
      BY <3>1 DEF IInv, Bound, Binding, At
    <3>. QED BY <3>1, <3>2 DEF IInv, Bound
  <2>3. \A s, u \in Requests :
           /\ Binding(s)' /\ (Binding(u)' \/ At(u, "replace")')
           /\ request'[s].audit = request'[u].audit
           => s = u
    BY <1>3, <1>4 DEF IInv, Bound, Binding, At
  <2>. QED BY <2>1, <2>2, <2>3 DEF Bound
<1>8. Fresh'
  <2>1. ASSUME NEW s \in Requests, HasNewId(s)'
        PROVE  s # r /\ HasNewId(s) /\ request'[s] = request[s]
    BY <1>3, <1>4, <2>1 DEF HasNewId
  <2>2. \A s \in Requests : HasNewId(s)' => request'[s].sid \notin killed' \cup DOMAIN binding'
    BY <1>1, <2>1 DEF IInv, Fresh
  <2>3. \A s, u \in Requests : HasNewId(s)' /\ At(u, "kill")' => request'[u].old # request'[s].sid
    BY <1>3, <1>4, <2>1 DEF IInv, Fresh, At
  <2>4. \A s, u \in Requests :
           HasNewId(s)' /\ HasNewId(u)' /\ request'[u].sid = request'[s].sid => s = u
    BY <2>1 DEF IInv, Fresh
  <2>. QED BY <2>2, <2>3, <2>4 DEF Fresh
<1>9. Ended'
  <2>1. \A t : t # request[r].sid /\ Dead(t) => Dead(t)'
    BY DEF Dead
  <2>2. request[r].sid \notin killed /\ \A s \in Requests : At(s, "kill") => request[s].old # request[r].sid
    BY <1>1 DEF IInv, Fresh
  <2>3. \A s \in Requests : request'[s].sid \in {request[s].sid, None}
    BY <1>3
  <2>4. \A s \in Requests : /\ At(s, "find")' => ~audits'[request'[s].audit]
                            /\ At(s, "kill")' => Dead(request[s].old)' /\ request'[s].old = request[s].old
    BY <1>3, <1>4, <2>1, <2>2 DEF IInv, Ended, At
  <2>5. \A t \in killed : t # None
    BY SessionsAssumption DEF IInv, TypeOK
  <2>6. \A t \in killed' : (t \in revoked' \cup spared' \/ Gone(t)') /\ Dead(t)'
    BY <2>1, <2>2, <2>3, <2>5 DEF IInv, Ended, Gone
  <2>. QED BY <2>4, <2>6 DEF Ended, Dead
<1>. QED BY <1>5, <1>6, <1>7, <1>8, <1>9 DEF IInv

LEMMA BindKeeps == ASSUME IInv, NEW r \in Requests, Bind(r) PROVE IInv'
<1>1. At(r, "bind") /\ Binding(r) /\ UNCHANGED <<revoked, secret, issued, killed, spared>>
  BY DEF Bind, Binding, At
<1>2. CASE /\ binding' = Set(binding, request[r].sid, request[r].audit)
           /\ Goto(r, "issue")
           /\ UNCHANGED <<sessions, audits>>
  <2>1. /\ DOMAIN binding' = DOMAIN binding \cup {request[r].sid}
        /\ \A t \in DOMAIN binding' :
              binding'[t] = IF t = request[r].sid THEN request[r].audit ELSE binding[t]
    BY <1>2 DEF Set
  <2>2. \A t \in DOMAIN binding : binding[t] # request[r].audit
    BY <1>1 DEF IInv, Bound
  <2>. DEFINE q == [request[r] EXCEPT !.at = "issue"]
  <2>3. q \in Held /\ q.at = "issue" /\ q.sid = request[r].sid
        /\ q.audit = request[r].audit /\ q.hash = request[r].hash
    BY RequestHeld DEF Held
  <2>4. Step(r, q)
    BY <1>2 DEF Goto, Step
  <2>. HIDE DEF q
  <2>. QED BY <1>1, <1>2, <2>1, <2>2, <2>3, <2>4, Rebound
<1>3. CASE TornDown(r, 1) /\ Step(r, Idle) /\ UNCHANGED binding
  BY <1>1, <1>3, TearsDown, Ends, BindingSame
<1>. QED BY <1>2, <1>3 DEF Bind

LEMMA IssueKeeps == ASSUME IInv, NEW r \in Requests, Issue(r) PROVE IInv'
<1>1. ~At(r, "idle") /\ KeptBinding
      /\ UNCHANGED <<binding, revoked, secret, killed, spared>>
  BY BindingSame DEF Issue, At
<1>2. CASE Save(r, request[r].sid) /\ Done(r) /\ UNCHANGED audits
  <2>1. request[r].sid \in SaveId(request[r])
    BY SessionsAssumption DEF Issue, At, IInv, TypeOK, SaveId
  <2>. QED BY <1>1, <1>2, <2>1, SessionsMore, Answered, AuditsSame DEF IInv
<1>3. CASE (TornDown(r, 0) \/ TornDown(r, 1)) /\ (Done(r) \/ Step(r, Idle)) /\ UNCHANGED issued
  <2>1. KeptSessions(r) /\ KeptAudits
    BY <1>3, TearsDown
  <2>. QED BY <1>1, <1>3, <2>1, Answered, Ends
<1>4. CASE Step(r, Idle) /\ UNCHANGED <<sessions, audits, issued>>
  BY <1>1, <1>4, Ends, SessionsSame, AuditsSame DEF IInv
<1>. QED BY <1>2, <1>3, <1>4 DEF Issue

LEMMA LogOutKeeps == ASSUME IInv, NEW r \in Requests, LogOut(r) PROVE IInv'
<1>1. ~At(r, "idle") /\ UNCHANGED <<audits, binding, revoked, secret, issued, killed, spared>>
  BY DEF LogOut, At
<1>2. KeptAudits /\ KeptBinding
  BY <1>1, AuditsSame, BindingSame DEF IInv
<1>3. KeptSessions(r)
  BY <1>1, SessionsLess, SessionsSame DEF IInv, LogOut
<1>4. Goto(r, "signed out") \/ Step(r, Idle)
  BY DEF LogOut
<1>. QED BY <1>1, <1>2, <1>3, <1>4, GoesTo, Ends

LEMMA RevokeOwnKeeps == ASSUME IInv, NEW r \in Requests, RevokeOwn(r) PROVE IInv'
<1>1. ~At(r, "idle") /\ UNCHANGED <<sessions, binding, revoked, secret, issued, killed, spared>>
  BY DEF RevokeOwn, At
<1>. DEFINE q == [request[r] EXCEPT !.at = "clear", !.old = request[r].sid]
<1>2. q \in Held /\ q.at = "clear" /\ q.sid = request[r].sid /\ q.hash = request[r].hash
  BY RequestHeld DEF Held
<1>3. Step(r, q)
  BY DEF RevokeOwn
<1>. HIDE DEF q
<1>4. KeptAudits
  BY AuditRevoked, AuditsSame DEF IInv, RevokeOwn
<1>. QED BY <1>1, <1>2, <1>3, <1>4, GoesOn, SessionsSame, BindingSame DEF IInv

LEMMA ClearBindingKeeps == ASSUME IInv, NEW r \in Requests, ClearBinding(r) PROVE IInv'
<1>1. ~At(r, "idle") /\ UNCHANGED <<sessions, audits, revoked, secret, issued, killed, spared>>
  BY DEF ClearBinding, At
<1>2. KeptBinding
  BY BindingLess, BindingSame DEF ClearBinding
<1>. QED BY <1>1, <1>2, Answered, SessionsSame, AuditsSame DEF IInv, ClearBinding

LEMMA TerminateKeeps == ASSUME IInv, NEW r \in Requests, NEW a, Terminate(r, a) PROVE IInv'
<1>1. /\ At(r, "in") /\ a \in DOMAIN audits /\ a \in AuditIds
      /\ UNCHANGED <<sessions, binding, revoked, secret, issued, killed, spared>>
  BY DEF Terminate, IInv, TypeOK
<1>2. KeptAudits /\ a \in DOMAIN audits' /\ ~audits'[a]
  BY <1>1, AuditRevoked DEF Terminate, IInv, Revoke
<1>. DEFINE q == [request[r] EXCEPT !.at = "find", !.audit = a]
<1>3. Step(r, q)
  BY DEF Terminate
<1>4. q \in Held /\ q.at = "find" /\ q.audit = a
      /\ q.sid = request[r].sid /\ q.hash = request[r].hash
  BY <1>1, RequestHeld DEF Held
<1>5. q.sid \in issued /\ q.hash \in 1..MaxSecret
  BY <1>1, <1>4 DEF IInv, TypeOK, Working, At
<1>. HIDE DEF q
<1>6. Fits(r, q)
  BY <1>1, <1>2, <1>4, <1>5 DEF Fits, Typed
<1>. QED BY <1>1, <1>2, <1>3, <1>6, Moved, SessionsSame, BindingSame DEF IInv

LEMMA FindTowerKeeps == ASSUME IInv, NEW r \in Requests, FindTower(r) PROVE IInv'
<1>1. At(r, "find") /\ ~At(r, "idle")
      /\ UNCHANGED <<sessions, audits, binding, revoked, secret, issued, killed, spared>>
  BY DEF FindTower, At, rows
<1>2. KeptSessions(r) /\ KeptAudits /\ KeptBinding
  BY <1>1, SessionsSame, AuditsSame, BindingSame DEF IInv
<1>3. CASE Done(r)
  BY <1>1, <1>2, <1>3, Answered
<1>4. CASE \E t \in DOMAIN binding : /\ binding[t] = request[r].audit
                                     /\ Step(r, [request[r] EXCEPT !.at = "kill", !.old = t])
  <2>1. PICK t \in DOMAIN binding :
           /\ binding[t] = request[r].audit
           /\ Step(r, [request[r] EXCEPT !.at = "kill", !.old = t])
    BY <1>4
  <2>. DEFINE q == [request[r] EXCEPT !.at = "kill", !.old = t]
  <2>2. t \in issued /\ t \in TowerIds
    BY DEF IInv, TypeOK
  <2>3. q \in Held /\ q.at = "kill" /\ q.old = t /\ q.sid = request[r].sid
        /\ q.audit = request[r].audit /\ q.hash = request[r].hash
    BY <2>2, RequestHeld DEF Held
  <2>4. /\ q.sid \in issued /\ q.audit \in DOMAIN audits /\ q.hash \in 1..MaxSecret
        /\ ~audits[binding[t]]
    BY <1>1, <2>1, <2>3 DEF IInv, TypeOK, Working, Ended, At
  <2>. HIDE DEF q
  <2>5. Fits(r, q)
    BY <1>1, <2>2, <2>3, <2>4 DEF Fits, Typed
  <2>. QED BY <1>1, <1>2, <2>1, <2>5, Moved DEF q
<1>. QED BY <1>3, <1>4 DEF FindTower

LEMMA KillKeeps == ASSUME IInv, NEW r \in Requests, Kill(r) PROVE IInv'
<1>. DEFINE t == request[r].old
<1>. DEFINE q == [request[r] EXCEPT !.at = "clear", !.audit = None]
<1>1. /\ At(r, "kill") /\ t \in issued /\ request[r].hash \in 1..MaxSecret /\ Dead(t)
      /\ UNCHANGED <<audits, binding, secret, issued>>
      /\ revoked' = revoked \cup {t} /\ killed' = killed \cup {t} /\ spared' = spared \ {t}
  BY DEF Kill, SetRevoked, IInv, TypeOK, Working, Ended, At
<1>2. /\ DOMAIN sessions' \subseteq DOMAIN sessions
      /\ \A u \in DOMAIN sessions' : sessions'[u] = sessions[u]
  BY DEF Kill, Without, Restrict
<1>3. q \in Held /\ q.at = "clear" /\ q.sid = request[r].sid /\ q.hash = request[r].hash
  BY RequestHeld DEF Held
<1>4. /\ request' \in [Requests -> Held] /\ request'[r] = q
      /\ \A s \in Requests : s # r => request'[s] = request[s]
  BY <1>3 DEF Kill, Step, IInv, TypeOK
<1>. HIDE DEF q, t
<1>5. /\ ~Binding(r)' /\ ~HasNewId(r)' /\ ~At(r, "replace")' /\ ~At(r, "find")' /\ ~At(r, "kill")'
  BY <1>3, <1>4 DEF Binding, HasNewId, At
<1>6. TypeOK'
  <2>1. DOMAIN sessions' \cup DOMAIN binding' \cup revoked' \cup killed' \subseteq issued'
    BY <1>1, <1>2 DEF IInv, TypeOK
  <2>2. Range(sessions)' \subseteq 1..MaxSecret
    BY <1>2, Rows DEF IInv, Range
  <2>3. \A s \in Requests :
           /\ request'[s].at \in {"in", "bind", "issue", "find", "kill", "move", "replace"}
                 => request'[s].sid \in issued'
           /\ request'[s].at \in {"create", "bind", "issue", "find", "kill", "replace"}
                 => request'[s].audit \in DOMAIN audits'
           /\ request'[s].at = "kill" => request'[s].old \in issued'
    BY <1>1, <1>3, <1>4 DEF IInv, TypeOK
  <2>4. Range(binding)' \subseteq DOMAIN audits' /\ Range(audits)' \subseteq BOOLEAN
    BY <1>1 DEF IInv, TypeOK, Range
  <2>. QED BY <1>1, <1>4, <2>1, <2>2, <2>3, <2>4 DEF IInv, TypeOK
<1>7. Working'
  BY <1>1, <1>3, <1>4 DEF IInv, Working, At
<1>8. Bound'
  BY <1>1, <1>4, <1>5 DEF IInv, Bound, OneSessionPerAudit, Binding, At
<1>9. Fresh'
  <2>1. ASSUME NEW s \in Requests, HasNewId(s)'
        PROVE  s # r /\ HasNewId(s) /\ request'[s] = request[s]
    BY <1>4, <1>5, <2>1 DEF HasNewId
  <2>2. \A s \in Requests : HasNewId(s)' => request'[s].sid \notin killed' \cup DOMAIN binding'
    BY <1>1, <2>1 DEF IInv, Fresh, t
  <2>3. \A s, u \in Requests : HasNewId(s)' /\ At(u, "kill")' => request'[u].old # request'[s].sid
    BY <1>4, <1>5, <2>1 DEF IInv, Fresh, At
  <2>4. \A s, u \in Requests :
           HasNewId(s)' /\ HasNewId(u)' /\ request'[u].sid = request'[s].sid => s = u
    BY <2>1 DEF IInv, Fresh
  <2>. QED BY <2>2, <2>3, <2>4 DEF Fresh
<1>10. Ended'
  <2>1. \A u : Dead(u) => Dead(u)'
    BY <1>1 DEF Dead
  <2>2. \A s \in Requests : request'[s].sid = request[s].sid
    BY <1>3, <1>4
  <2>3. \A s \in Requests : /\ At(s, "find")' => ~audits'[request'[s].audit]
                            /\ At(s, "kill")' => Dead(request[s].old)' /\ request'[s].old = request[s].old
    BY <1>1, <1>4, <1>5, <2>1 DEF IInv, Ended, At
  <2>4. \A u \in killed' : (u \in revoked' \cup spared' \/ Gone(u)') /\ Dead(u)'
    BY <1>1, <1>2, <2>1, <2>2 DEF IInv, Ended, Gone
  <2>. QED BY <2>3, <2>4 DEF Ended, Dead
<1>. QED BY <1>6, <1>7, <1>8, <1>9, <1>10 DEF IInv

LEMMA RotateKeeps == ASSUME IInv, NEW r \in Requests, Rotate(r) PROVE IInv'
<1>1. ~At(r, "idle") /\ UNCHANGED <<audits, binding, revoked, secret, issued, killed, spared>>
  BY DEF Rotate, At
<1>2. KeptAudits /\ KeptBinding
  BY <1>1, AuditsSame, BindingSame DEF IInv
<1>3. KeptSessions(r)
  BY <1>1, SessionsLess, SessionsSame DEF IInv, Rotate
<1>4. CASE Step(r, [request[r] EXCEPT !.at = "rotated", !.old = request[r].sid, !.sid = None,
                                      !.modified = TRUE])
  <2>. DEFINE q == [request[r] EXCEPT !.at = "rotated", !.old = request[r].sid, !.sid = None,
                                      !.modified = TRUE]
  <2>1. q \in Held /\ q.at = "rotated" /\ q.sid = None /\ q.hash = request[r].hash
    BY RequestHeld DEF Held
  <2>2. q.hash \in 1..MaxSecret
    BY <1>1, <2>1 DEF IInv, Working
  <2>. HIDE DEF q
  <2>3. Fits(r, q)
    BY <2>1, <2>2 DEF Fits, Typed
  <2>. QED BY <1>1, <1>2, <1>3, <1>4, <2>3, Moved DEF q
<1>5. CASE Responds(r, [request[r] EXCEPT !.sid = None])
  <2>. DEFINE q == [request[r] EXCEPT !.sid = None]
  <2>1. q \in Held /\ q.sid = None /\ q.hash = request[r].hash
    BY RequestHeld DEF Held
  <2>. HIDE DEF q
  <2>. QED BY <1>1, <1>2, <1>3, <1>5, <2>1, Answers DEF q
<1>. QED BY <1>4, <1>5 DEF Rotate

LEMMA SaveRotatedKeeps == ASSUME IInv, NEW r \in Requests, SaveRotated(r) PROVE IInv'
<1>1. /\ At(r, "rotated") /\ ~At(r, "idle") /\ request[r].sid = None
      /\ request[r].hash \in 1..MaxSecret
      /\ UNCHANGED <<audits, binding, revoked, secret, killed, spared>>
  BY DEF SaveRotated, IInv, Working, At
<1>2. KeptAudits /\ KeptBinding
  BY <1>1, AuditsSame, BindingSame DEF IInv
<1>3. CASE SaveAndGo(r, "move")
  <2>1. PICK t \in SaveId(request[r]) :
           Save(r, t) /\ Step(r, [request[r] EXCEPT !.at = "move", !.sid = t])
    BY <1>3 DEF SaveAndGo
  <2>. DEFINE q == [request[r] EXCEPT !.at = "move", !.sid = t]
  <2>2. KeptSessions(r) /\ t \in issued' /\ t \in TowerIds /\ t \notin issued
    BY <1>1, <2>1, SessionsMore
  <2>3. q \in Held /\ q.at = "move" /\ q.sid = t /\ q.hash = request[r].hash
    BY <2>2, RequestHeld DEF Held
  <2>. HIDE DEF q
  <2>4. Fits(r, q)
    BY <1>1, <2>2, <2>3 DEF Fits, Typed
  <2>. QED BY <1>1, <1>2, <2>1, <2>2, <2>4, Moved DEF q
<1>4. CASE Done(r) /\ UNCHANGED <<sessions, issued>>
  BY <1>1, <1>2, <1>4, Answered, SessionsSame DEF IInv
<1>. QED BY <1>3, <1>4 DEF SaveRotated

LEMMA FindAuditKeeps == ASSUME IInv, NEW r \in Requests, FindAudit(r) PROVE IInv'
<1>1. At(r, "move") /\ ~At(r, "idle")
      /\ UNCHANGED <<sessions, audits, binding, revoked, secret, issued, killed, spared>>
  BY DEF FindAudit, At, rows
<1>2. KeptSessions(r) /\ KeptAudits /\ KeptBinding
  BY <1>1, SessionsSame, AuditsSame, BindingSame DEF IInv
<1>3. CASE Done(r)
  BY <1>1, <1>2, <1>3, Answered
<1>4. CASE /\ request[r].old \in DOMAIN binding
           /\ Step(r, [request[r] EXCEPT !.at = "replace", !.audit = binding[request[r].old]])
  <2>. DEFINE q == [request[r] EXCEPT !.at = "replace", !.audit = binding[request[r].old]]
  <2>1. binding[request[r].old] \in DOMAIN audits /\ binding[request[r].old] \in AuditIds
    BY <1>4, Rows DEF IInv, TypeOK
  <2>2. q \in Held /\ q.at = "replace" /\ q.audit = binding[request[r].old]
        /\ q.sid = request[r].sid /\ q.hash = request[r].hash
    BY <2>1, RequestHeld DEF Held
  <2>3. q.sid \in issued /\ q.hash \in 1..MaxSecret
    BY <1>1, <2>2 DEF IInv, TypeOK, Working, At
  <2>. HIDE DEF q
  <2>4. Fits(r, q)
    BY <1>1, <1>4, <2>1, <2>2, <2>3 DEF Fits, Typed
  <2>. QED BY <1>1, <1>2, <1>4, <2>4, Moved DEF q
<1>. QED BY <1>3, <1>4 DEF FindAudit

LEMMA ReplaceBindingKeeps == ASSUME IInv, NEW r \in Requests, ReplaceBinding(r) PROVE IInv'
<1>1. At(r, "replace") /\ UNCHANGED <<revoked, secret, issued, killed, spared>>
  BY DEF ReplaceBinding
<1>2. CASE /\ binding' = Set(Without(binding, Unbound(request[r].old, request[r].audit)),
                             request[r].sid, request[r].audit)
           /\ Done(r)
           /\ UNCHANGED <<sessions, audits>>
  <2>. DEFINE kept == Without(binding, Unbound(request[r].old, request[r].audit))
  <2>1. /\ DOMAIN kept \subseteq DOMAIN binding
        /\ \A t \in DOMAIN kept : kept[t] = binding[t] /\ binding[t] # request[r].audit
    BY DEF Without, Restrict, Unbound
  <2>. HIDE DEF kept
  <2>2. /\ DOMAIN binding' = DOMAIN kept \cup {request[r].sid}
        /\ \A t \in DOMAIN binding' :
              binding'[t] = IF t = request[r].sid THEN request[r].audit ELSE kept[t]
    BY <1>2 DEF Set, kept
  <2>. DEFINE q == [request[r] EXCEPT !.at = "respond", !.old = None, !.audit = None]
  <2>3. q \in Held /\ q.at = "respond" /\ q.sid = request[r].sid /\ q.hash = request[r].hash
    BY RequestHeld DEF Held
  <2>4. Step(r, q) \/ Step(r, Idle)
    BY <1>2 DEF Done, Responds
  <2>. HIDE DEF q
  <2>. QED BY <1>1, <1>2, <2>1, <2>2, <2>3, <2>4, IdleHeld, Rebound
<1>3. CASE /\ TornDown(r, 1) \/ TornDown(r, 2)
           /\ binding' = Without(binding, {request[r].old}) \/ UNCHANGED binding
           /\ Step(r, Idle)
  <2>1. KeptSessions(r) /\ KeptAudits
    BY <1>1, <1>3, TearsDown
  <2>. QED BY <1>1, <1>3, <2>1, Ends, BindingLess, BindingSame
<1>. QED BY <1>2, <1>3 DEF ReplaceBinding

-----------------------------------------------------------------------------
(* Without a request: a refused cookie, a new password, a restart. *)

LEMMA RowsLess ==
    ASSUME IInv, UNCHANGED <<audits, binding, revoked, request, issued, killed, spared>>,
           secret' \in 1..MaxSecret, DOMAIN sessions' \subseteq DOMAIN sessions,
           \A t \in DOMAIN sessions' : sessions'[t] = sessions[t]
    PROVE  IInv'
<1>1. TypeOK'
  <2>1. Range(sessions)' \subseteq 1..MaxSecret
    BY Rows DEF IInv, Range
  <2>2. Range(binding)' \subseteq DOMAIN audits' /\ Range(audits)' \subseteq BOOLEAN
    BY DEF IInv, TypeOK, Range
  <2>. QED BY <2>1, <2>2 DEF IInv, TypeOK
<1>2. Working' /\ Bound' /\ Fresh'
  BY DEF IInv, Working, Bound, Fresh, OneSessionPerAudit, Binding, HasNewId, At
<1>3. Ended'
  BY DEF IInv, Ended, Gone, Dead, At
<1>. QED BY <1>1, <1>2, <1>3 DEF IInv

LEMMA RefuseKeeps == ASSUME IInv, NEW t, Refuse(t) PROVE IInv'
<1>1. /\ DOMAIN sessions' \subseteq DOMAIN sessions
      /\ \A u \in DOMAIN sessions' : sessions'[u] = sessions[u]
  BY DEF Refuse, Without, Restrict
<1>. QED BY <1>1, RowsLess DEF Refuse, IInv, TypeOK

LEMMA ChangePasswordKeeps == ASSUME IInv, ChangePassword PROVE IInv'
<1>1. secret' \in 1..MaxSecret
  BY SessionsAssumption DEF ChangePassword, IInv, TypeOK
<1>. QED BY <1>1, RowsLess DEF ChangePassword, rows

\* What a restart leaves of the rows, however far its reconciliation comes, ...
LEMMA Restarted ==
    ASSUME TypeOK, NEW n \in 0..4, NEW missed \in SUBSET DOMAIN sessions, Restart(n, missed)
    PROVE  /\ DOMAIN sessions' = DOMAIN sessions \ (revoked' \ missed)
           /\ \A t \in DOMAIN sessions' : sessions'[t] = sessions[t]
           /\ KeptAudits /\ KeptBinding
           /\ revoked' \subseteq DOMAIN binding \cup DOMAIN sessions
<1>1. /\ DOMAIN sessions' = DOMAIN sessions \ (revoked' \ missed)
      /\ \A t \in DOMAIN sessions' : sessions'[t] = sessions[t]
  BY DEF Restart, Without, Restrict
<1>2. ASSUME n >= 1 PROVE KeptAudits
  <2>1. DOMAIN audits' = DOMAIN audits /\ \A a \in DOMAIN audits : audits'[a] = (a \in LiveAfterBoot)
    BY <1>2 DEF Restart
  <2>2. \A a \in DOMAIN audits : a \in LiveAfterBoot => audits[a]
    BY DEF LiveAfterBoot
  <2>3. audits' \in [DOMAIN audits -> BOOLEAN]
    BY <1>2 DEF Restart
  <2>4. \A a \in DOMAIN audits : ~audits[a] => ~audits'[a]
    BY <2>1, <2>2
  <2>. QED BY <2>1, <2>3, <2>4 DEF TypeOK, KeptAudits
<1>3. ASSUME ~(n >= 1) PROVE KeptAudits
  BY <1>3, AuditsSame DEF Restart
<1>4. KeptBinding
  BY BindingSame, BindingLess DEF Restart
<1>5. revoked' \subseteq DOMAIN binding \cup DOMAIN sessions
  BY DEF Restart, Reconciled, Orphans, Strangers
<1>6. KeptAudits
  BY <1>2, <1>3
<1>. QED BY <1>1, <1>4, <1>5, <1>6

\* ... and that it spares every terminated session it has not taken away.
LEMMA RestartSpares ==
    ASSUME IInv, NEW n \in 0..4, NEW missed \in SUBSET DOMAIN sessions, Restart(n, missed),
           NEW t \in killed, t \notin spared'
    PROVE  t \in revoked' \/ t \notin DOMAIN sessions
<1>1. SUFFICES ASSUME t \in DOMAIN sessions PROVE t \in revoked'
  OBVIOUS
<1>2. CASE t \in Orphans
  BY <1>1, <1>2 DEF Restart, Reconciled
<1>3. CASE t \notin Orphans
  <2>1. n = 4 /\ t \notin missed
    BY <1>1, <1>3 DEF Restart
  <2>2. t \notin DOMAIN binding
    BY <1>3 DEF IInv, Ended, Dead, Orphans, LiveAfterBoot
  <2>. QED BY <1>1, <2>1, <2>2 DEF Restart, Reconciled, Strangers
<1>. QED BY <1>2, <1>3

LEMMA RestartKeeps ==
    ASSUME IInv, NEW n \in 0..4, NEW missed \in SUBSET DOMAIN sessions, Restart(n, missed)
    PROVE  IInv'
<1>. USE DEF IInv
<1>0. /\ DOMAIN sessions' = DOMAIN sessions \ (revoked' \ missed)
      /\ \A t \in DOMAIN sessions' : sessions'[t] = sessions[t]
      /\ KeptAudits /\ KeptBinding
      /\ revoked' \subseteq DOMAIN binding \cup DOMAIN sessions
  BY Restarted
<1>1. UNCHANGED <<secret, issued, killed>> /\ request' = [r \in Requests |-> Idle]
      /\ spared' \subseteq killed
  BY DEF Restart
<1>2. Idle \in Held /\ Idle.at = "idle" /\ Idle.sid = None
  BY IdleHeld
<1>3. \A r \in Requests : /\ At(r, "idle")' /\ request'[r].sid = None
                          /\ ~Binding(r)' /\ ~HasNewId(r)' /\ ~At(r, "find")' /\ ~At(r, "kill")'
  BY <1>1, <1>2 DEF At, Binding, HasNewId
<1>4. TypeOK'
  <2>1. Range(sessions)' \subseteq 1..MaxSecret
    BY <1>0, Rows DEF Range
  <2>2. Range(binding)' \subseteq DOMAIN audits'
    BY <1>0, Rows DEF Range, KeptAudits, KeptBinding
  <2>3. DOMAIN audits' \subseteq AuditIds /\ Range(audits)' \subseteq BOOLEAN
    BY <1>0 DEF KeptAudits, Range
  <2>4. DOMAIN sessions' \cup DOMAIN binding' \cup revoked' \cup killed' \subseteq issued'
    BY <1>1, <1>0 DEF TypeOK, KeptBinding
  <2>. QED BY <1>1, <1>2, <2>1, <2>2, <2>3, <2>4 DEF TypeOK
<1>5. Working'
  BY <1>3 DEF Working, At
<1>6. Bound'
  BY <1>3, <1>0 DEF Bound, OneSessionPerAudit, KeptBinding
<1>7. Fresh'
  BY <1>3 DEF Fresh
<1>8. Ended'
  <2>1. ASSUME NEW t \in killed PROVE Dead(t)'
    BY <1>0, Rows DEF Ended, Dead, KeptAudits, KeptBinding
  <2>2. ASSUME NEW t \in killed, t \notin revoked' \cup spared' PROVE Gone(t)'
    <3>1. t # None
      BY SessionsAssumption DEF TypeOK
    <3>2. t \notin DOMAIN sessions
      BY <2>2, RestartSpares
    <3>. QED BY <1>0, <1>3, <3>1, <3>2 DEF Gone
  <2>. QED BY <1>1, <1>3, <2>1, <2>2 DEF Ended
<1>. QED BY <1>4, <1>5, <1>6, <1>7, <1>8

-----------------------------------------------------------------------------
LEMMA Starts == ASSUME Init PROVE IInv
<1>1. Idle \in Held /\ Idle.at = "idle" /\ Idle.sid = None
  BY IdleHeld
<1>2. \A r \in Requests : At(r, "idle") /\ request[r].sid = None
  BY <1>1 DEF Init, At
<1>3. DOMAIN sessions = {} /\ DOMAIN audits = {} /\ DOMAIN binding = {}
  BY DEF Init
<1>4. TypeOK
  BY <1>1, <1>2, <1>3, SessionsAssumption DEF Init, TypeOK, Range
<1>5. Working /\ Bound /\ Fresh /\ Ended
  BY <1>2, <1>3 DEF Init, Working, Bound, Fresh, Ended, OneSessionPerAudit, Binding, HasNewId,
                  Gone, Dead, At
<1>. QED BY <1>4, <1>5 DEF IInv

LEMMA Keeps == ASSUME IInv, [Next]_vars PROVE IInv'
<1>1. ASSUME NEW r \in Requests, Handle(r) PROVE IInv'
  <2>1. ASSUME NEW t, Enter(r, t) PROVE IInv' BY <2>1, EnterKeeps
  <2>2. ASSUME NEW t, LogIn(r, t) PROVE IInv' BY <2>2, LogInKeeps
  <2>3. ASSUME NEW a, Terminate(r, a) PROVE IInv' BY <2>3, TerminateKeeps
  <2>4. CASE Finish(r) \/ Respond(r) \/ CreateAudit(r) \/ CreateSession(r) \/ Bind(r) \/ Issue(r)
    BY <2>4, FinishKeeps, RespondKeeps, CreateAuditKeeps, CreateSessionKeeps, BindKeeps, IssueKeeps
  <2>5. CASE LogOut(r) \/ RevokeOwn(r) \/ ClearBinding(r) \/ FindTower(r) \/ Kill(r)
    BY <2>5, LogOutKeeps, RevokeOwnKeeps, ClearBindingKeeps, FindTowerKeeps, KillKeeps
  <2>6. CASE Rotate(r) \/ SaveRotated(r) \/ FindAudit(r) \/ ReplaceBinding(r)
    BY <2>6, RotateKeeps, SaveRotatedKeeps, FindAuditKeeps, ReplaceBindingKeeps
  <2>. QED BY <1>1, <2>1, <2>2, <2>3, <2>4, <2>5, <2>6 DEF Handle
<1>2. ASSUME NEW t \in TowerIds, Refuse(t) PROVE IInv'
  BY <1>2, RefuseKeeps
<1>3. CASE UNCHANGED vars
  BY <1>3, RowsLess DEF vars, rows, IInv, TypeOK
<1>4. ASSUME NEW n \in 0..4, NEW missed \in SUBSET DOMAIN sessions, Restart(n, missed)
      PROVE  IInv'
  BY <1>4, RestartKeeps
<1>. QED BY <1>1, <1>2, <1>3, <1>4, ChangePasswordKeeps DEF Next

\* The invariant behind the theorems.
THEOREM Invariance == Spec => []IInv
<1>1. Init => IInv BY Starts
<1>2. IInv /\ [Next]_vars => IInv' BY Keeps
<1>. QED BY <1>1, <1>2, PTL DEF Spec

\* The types of the rows and of the requests (TypeOK of Sessions).
THEOREM TypesHold == Spec => []TypeOK
<1>1. IInv => TypeOK BY DEF IInv
<1>. QED BY <1>1, Invariance, PTL

\* A terminated session does not authenticate again (sessions_terminate), whatever
\* requests of it are under way, whichever writes fail and whenever the server restarts;
\* excepted are those whose rows a start found and did not reconcile.
THEOREM TerminationHolds == Spec => []TerminatedStaysOut
<1>1. IInv => TerminatedStaysOut BY DEF IInv, Ended, Gone, TerminatedStaysOut, Admissible
<1>. QED BY <1>1, Invariance, PTL

\* An audit row is bound to one id (replace_session_mapping), however many requests
\* rotate ids and log in at once.
THEOREM OneBindingHolds == Spec => []OneSessionPerAudit
<1>1. IInv => OneSessionPerAudit BY DEF IInv, Bound
<1>. QED BY <1>1, Invariance, PTL
=============================================================================
