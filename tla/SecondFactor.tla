---------------------------- MODULE SecondFactor ----------------------------
(***************************************************************************)
(* Two-factor login and fresh authentication of one user                   *)
(* (auth_v1/controller.rs, services/fresh_auth.rs, pending_login.rs).      *)
(*                                                                         *)
(* The user row is durable and every write of it by these handlers is one  *)
(* conditional update: it names what the handler had read and changes      *)
(* nothing when the row has moved on.  Grants and half-finished logins are *)
(* kept in memory and taken out at most once.  A handler reads the row,    *)
(* checks a code, takes a grant and writes the row, one await after        *)
(* another, while other requests of the user do the same.                  *)
(*                                                                         *)
(* A request may end at any await: it is refused, it fails, or the client  *)
(* goes away (Abandon).  So an action states when its step succeeds.  What *)
(* becomes of the session rows is the subject of Sessions.                 *)
(***************************************************************************)
EXTENDS Naturals, FiniteSets, Functions

CONSTANTS Requests,     \* requests that may be under way at once
          BackupCodes,  \* the backup codes of a factor
          MaxCounter,   \* bound on the TOTP time steps
          MaxSecret,    \* bound on the changes of the password
          MaxFactor,    \* bound on the factors set up
          MaxSids,      \* bound on the session ids
          MaxTokens     \* bound on the grants issued

ASSUME SecondFactorAssumption ==
    {MaxCounter, MaxSecret, MaxFactor, MaxSids, MaxTokens} \subseteq Nat \ {0}

VARIABLES
    user,       \* secret, enabled, factor (0: none), backup codes, watermark
    live,       \* session id -> the secret it was signed in under
    grants,     \* token -> grant, in memory
    pending,    \* the half-finished login of the browser: a set of at most one proof
    request,
    sids, factors, tokens,   \* given out so far
    accepted, again          \* codes accepted, and accepted twice; for the properties

counts == <<sids, factors, tokens>>
codes  == <<accepted, again>>
vars   == <<user, live, grants, pending, request, counts, codes>>

\* What a grant and an update compare.
Proof(u) == [secret |-> u.secret, enabled |-> u.enabled, factor |-> u.factor]

\* sid, token: what its session holds; owner: its user as the session loaded it; seen:
\* the row as last read; code: a backup code still to be spent; spent: what the grant
\* it consumed was proven with; both: has it checked a second factor.
NoProof == [secret |-> 0, enabled |-> FALSE, factor |-> 0]
NoUser  == [secret |-> 0, enabled |-> FALSE, factor |-> 0, backup |-> {}, mark |-> 0]
Idle    == [kind |-> "none", at |-> "idle", sid |-> 0, token |-> 0, owner |-> NoProof,
            seen |-> NoUser, code |-> {}, spent |-> NoProof, both |-> FALSE]

Init == /\ user \in {[NoUser EXCEPT !.secret = 1],
                     [NoUser EXCEPT !.secret = 1, !.enabled = TRUE, !.factor = 1,
                                    !.backup = BackupCodes]}
        /\ live = [s \in {1} |-> 1]
        /\ grants = [t \in {} |-> NoProof] /\ pending = {}
        /\ request = [r \in Requests |-> Idle]
        /\ sids = 1 /\ factors = user.factor /\ tokens = 0
        /\ accepted = {} /\ again = {}

Is(r, kind)   == request[r].kind \in kind
At(r, place)  == request[r].at = place
Step(r, q)    == request' = [request EXCEPT ![r] = q]
Goto(r, place) == Step(r, [request[r] EXCEPT !.at = place])

\* Goes on to a place where what was read and spent is no longer looked at.
Forget(r, place) ==
    Step(r, [request[r] EXCEPT !.at = place, !.seen = NoUser, !.code = {}, !.spent = NoProof])

\* The filters of an update: the row is as the handler has read it.
Unchanged(q) == Proof(user) = Proof(q.seen)

Accept(c) == accepted' = accepted \cup {c} /\ again' = again \cup ({c} \cap accepted)

-----------------------------------------------------------------------------
(* Grants (fresh_auth.rs). *)

Purpose(kind) == IF kind = "verify" THEN "setup" ELSE "action"

\* Faulty: a grant outlives a change of the factor.
SameSecret(g, proof) == g.proof.secret = proof.secret

\* Grant::matches
Matches(g, proof) == g.proof = proof

Usable(t, sid, purpose, proof) ==
    /\ t \in DOMAIN grants
    /\ grants[t].purpose = purpose /\ grants[t].sid = sid
    /\ Matches(grants[t], proof)

\* current_grant reads the row ...
Consult(r) ==
    /\ At(r, "consume")
    /\ user.secret = request[r].owner.secret
    /\ Step(r, [request[r] EXCEPT !.at = "take", !.spent = Proof(user)])
    /\ UNCHANGED <<user, live, grants, pending, counts, codes>>

Done == [act |-> "idle", setup |-> "prepare", verify |-> "enable", disable |-> "clear"]

\* ... and consume_for takes the grant out under the lock.
Take(r) ==
    LET q == request[r]
    IN  /\ At(r, "take")
        /\ Usable(q.token, q.sid, Purpose(q.kind), q.spent)
        /\ grants' = Restrict(grants, DOMAIN grants \ {q.token})
        /\ IF q.kind = "act" THEN Step(r, Idle) ELSE Step(r, [q EXCEPT !.at = Done[q.kind], !.token = 0])
        /\ UNCHANGED <<user, live, pending, counts, codes>>

\* issue_for: the user of the session must still be the row the handler ends with.
OwnerIsCurrent(q, purpose) ==
    IF purpose = "action" THEN q.owner = Proof(q.seen) ELSE q.owner.secret = q.seen.secret

Issue(r) ==
    LET q == request[r]
        purpose == IF q.kind = "setup" THEN "setup" ELSE "action"
        others == {t \in DOMAIN grants : grants[t].sid # q.sid \/ grants[t].purpose # purpose}
        grant == [purpose |-> purpose, sid |-> q.sid, proof |-> Proof(q.seen), both |-> q.both]
    IN  /\ At(r, "issue")
        /\ OwnerIsCurrent(q, purpose)
        /\ tokens < MaxTokens
        /\ tokens' = tokens + 1
        /\ grants' = [t \in others \cup {tokens + 1} |->
                         IF t = tokens + 1 THEN grant ELSE grants[t]]
        /\ Step(r, Idle)
        /\ UNCHANGED <<user, live, pending, sids, factors, codes>>

\* A login that gets no grant is torn down.
TearDown(r) ==
    /\ At(r, "issue") /\ Is(r, {"login", "totp"})
    /\ ~OwnerIsCurrent(request[r], "action")
    /\ live' = Restrict(live, DOMAIN live \ {request[r].sid})
    /\ Step(r, Idle)
    /\ UNCHANGED <<user, grants, pending, counts, codes>>

\* The row is read again before a grant is issued.
Reload(r) ==
    /\ At(r, "reload")
    /\ Is(r, {"reauth"}) => Unchanged(request[r])
    /\ Step(r, [request[r] EXCEPT !.at = "issue", !.seen = user])
    /\ UNCHANGED <<user, live, grants, pending, counts, codes>>

-----------------------------------------------------------------------------
(* Signing in. *)

\* log_in: the password is right.  A user with two factors gets a half-finished login.
LogIn(r) ==
    /\ At(r, "idle")
    /\ Step(r, [Idle EXCEPT !.kind = "login", !.seen = user,
                            !.at = IF user.enabled THEN "pend" ELSE "birth"])
    /\ UNCHANGED <<user, live, grants, pending, counts, codes>>

Pend(r) ==
    /\ At(r, "pend")
    /\ pending' = {Proof(request[r].seen)}
    /\ Step(r, Idle)
    /\ UNCHANGED <<user, live, grants, counts, codes>>

\* pending_login::take
LogInTotp(r) ==
    /\ At(r, "idle")
    /\ \E p \in pending : Step(r, [Idle EXCEPT !.kind = "totp", !.at = "load", !.owner = p])
    /\ pending' = {}
    /\ UNCHANGED <<user, live, grants, counts, codes>>

\* login_with_metadata and create_bound_session
Birth(r) ==
    /\ At(r, "birth")
    /\ sids < MaxSids
    /\ sids' = sids + 1
    /\ live' = [s \in DOMAIN live \cup {sids + 1} |->
                   IF s = sids + 1 THEN request[r].seen.secret ELSE live[s]]
    /\ Step(r, [request[r] EXCEPT !.at = "reload", !.sid = sids + 1,
                                  !.owner = Proof(request[r].seen), !.seen = NoUser])
    /\ UNCHANGED <<user, grants, pending, factors, tokens, codes>>

-----------------------------------------------------------------------------
(* Requests of a session. *)

Kinds == {"reauth", "setup", "verify", "disable", "act"}

\* A request loads its user, and presents the token its session holds.  Without one
\* only a confirmation, and a code for a factor in use, get anywhere.
Begin(r, kind, s) ==
    /\ At(r, "idle")
    /\ live[s] = user.secret
    /\ \E t \in 0..tokens :
          /\ \/ t = 0 /\ kind \in {"reauth", "verify"}
             \/ /\ t \in DOMAIN grants /\ kind # "reauth"
                /\ grants[t].sid = s /\ grants[t].purpose = Purpose(kind)
          /\ Step(r, [Idle EXCEPT !.kind = kind, !.sid = s, !.token = t, !.owner = Proof(user),
                               !.at = IF kind = "act" THEN "consume" ELSE "load"])
    /\ UNCHANGED <<user, live, grants, pending, counts, codes>>

\* Faulty: a half-finished login goes on under another factor or password.
StillEnabled(q) == user.enabled

\* PendingGrant::matches_user
MatchesUser(q) == user.enabled /\ Proof(user) = q.owner

Load(r) ==
    LET q == request[r]
        checked == user.enabled \/ q.kind \in {"verify", "totp"}
    IN  /\ At(r, "load")
        /\ Is(r, {"totp"})   => MatchesUser(q)
        /\ Is(r, {"reauth"}) => user.secret = q.owner.secret
        /\ Is(r, {"verify"}) => /\ user.factor # 0
                                /\ ~user.enabled =>
                                      /\ user.secret = q.owner.secret
                                      /\ Usable(q.token, q.sid, "setup", Proof(user))
        /\ Step(r, [q EXCEPT !.seen = user,
                             !.at = IF q.kind = "setup" THEN "consume"
                                    ELSE IF checked THEN "factor"
                                    ELSE IF q.kind = "reauth" THEN "reload" ELSE "consume"])
        /\ UNCHANGED <<user, live, grants, pending, counts, codes>>

\* Where a request goes on when it has checked the second factor.
Onward(q) == CASE q.kind = "totp"    -> "birth"
               [] q.kind = "reauth"  -> "reload"
               [] q.kind = "disable" -> "consume"
               [] q.kind = "verify"  -> IF q.seen.enabled THEN "enable" ELSE "consume"

\* Faulty: the watermark is written whatever it is by now.
FreshWhenRead(q, c) == c > q.seen.mark

\* The watermark as read, and as the update finds it.
Fresh(q, c) == c > q.seen.mark /\ c > user.mark

\* advance_totp_for_unchanged_user
CheckTotp(r, c) ==
    LET q == request[r]
    IN  /\ At(r, "factor")
        /\ Unchanged(q) /\ Fresh(q, c)
        /\ user' = [user EXCEPT !.mark = c]
        /\ Accept(<<"totp", c>>)
        /\ Step(r, [q EXCEPT !.at = Onward(q), !.both = TRUE])
        /\ UNCHANGED <<live, grants, pending, counts>>

CodesUnchanged(q) == user.backup = q.seen.backup

\* verify_current_second_factor, with a backup code
CheckBackup(r, b) ==
    LET q == request[r]
    IN  /\ At(r, "factor") /\ Is(r, {"reauth", "disable"})
        /\ b \in q.seen.backup
        /\ Unchanged(q) /\ CodesUnchanged(q)
        /\ user' = [user EXCEPT !.backup = q.seen.backup \ {b}]
        /\ Accept(<<"backup", user.factor, b>>)
        /\ Step(r, [q EXCEPT !.at = Onward(q), !.both = TRUE])
        /\ UNCHANGED <<live, grants, pending, counts>>

\* twofa_verify spends a backup code with the update that enables the factor.
ChooseBackup(r, b) ==
    LET q == request[r]
    IN  /\ At(r, "factor") /\ Is(r, {"verify"})
        /\ b \in q.seen.backup
        /\ Step(r, [q EXCEPT !.at = Onward(q), !.code = {b}, !.both = TRUE])
        /\ UNCHANGED <<user, live, grants, pending, counts, codes>>

\* prepare_twofa_setup: a new factor, not yet enabled.
Prepare(r) ==
    LET q == request[r]
    IN  /\ At(r, "prepare")
        /\ ~q.seen.enabled
        /\ Unchanged(q) /\ user.mark = q.seen.mark
        /\ factors < MaxFactor
        /\ factors' = factors + 1
        /\ user' = [user EXCEPT !.factor = factors + 1, !.backup = BackupCodes]
        /\ Forget(r, "reload")
        /\ UNCHANGED <<live, grants, pending, sids, tokens, codes>>

\* Faulty: the factor goes, or comes, whatever became of the row since.
Anyway(q) == TRUE

\* enable_twofa_for_unchanged_user
MayEnable(q) == Unchanged(q)

Enable(r) ==
    LET q == request[r]
    IN  /\ At(r, "enable")
        /\ MayEnable(q)
        /\ \/ /\ q.code = {}
              /\ user' = [user EXCEPT !.enabled = TRUE]
              /\ UNCHANGED codes
           \/ \E b \in q.code :
                 /\ CodesUnchanged(q)
                 /\ user' = [user EXCEPT !.enabled = TRUE, !.backup = q.seen.backup \ {b}]
                 /\ Accept(<<"backup", user.factor, b>>)
        /\ Forget(r, "rotate")
        /\ UNCHANGED <<live, grants, pending, counts>>

\* The filters of the update in twofa_disable.
MayClear(q) == Unchanged(q)

Clear(r) ==
    /\ At(r, "clear")
    /\ MayClear(request[r])
    /\ user' = [user EXCEPT !.enabled = FALSE, !.factor = 0, !.backup = {}]
    /\ Forget(r, "rotate")
    /\ UNCHANGED <<live, grants, pending, counts, codes>>

\* rotate_session_after_trust_change: the grants stay with the old id.
Rotate(r) ==
    LET q == request[r]
    IN  /\ At(r, "rotate")
        /\ sids < MaxSids
        /\ sids' = sids + 1
        /\ live' = [s \in (DOMAIN live \ {q.sid}) \cup {sids + 1} |->
                       IF s = sids + 1 THEN q.owner.secret ELSE live[s]]
        /\ Step(r, Idle)
        /\ UNCHANGED <<user, grants, pending, factors, tokens, codes>>

-----------------------------------------------------------------------------
Abandon(r) ==
    /\ ~At(r, "idle")
    /\ Step(r, Idle)
    /\ UNCHANGED <<user, live, grants, pending, counts, codes>>

ChangePassword ==
    /\ user.secret < MaxSecret
    /\ user' = [user EXCEPT !.secret = @ + 1]
    /\ UNCHANGED <<live, grants, pending, request, counts, codes>>

\* A grant is reaped after its five minutes.
Expire(t) ==
    /\ grants' = Restrict(grants, DOMAIN grants \ {t})
    /\ UNCHANGED <<user, live, pending, request, counts, codes>>

Restart ==
    /\ grants' = [t \in {} |-> NoProof] /\ pending' = {}
    /\ request' = [r \in Requests |-> Idle]
    /\ UNCHANGED <<user, live, counts, codes>>

Handle(r) ==
    \/ LogIn(r) \/ Pend(r) \/ LogInTotp(r) \/ Birth(r)
    \/ \E kind \in Kinds, s \in DOMAIN live : Begin(r, kind, s)
    \/ Load(r)
    \/ \E c \in 1..MaxCounter : CheckTotp(r, c)
    \/ \E b \in BackupCodes : CheckBackup(r, b) \/ ChooseBackup(r, b)
    \/ Consult(r) \/ Take(r) \/ Prepare(r) \/ Enable(r) \/ Clear(r) \/ Rotate(r)
    \/ Reload(r) \/ Issue(r) \/ TearDown(r) \/ Abandon(r)

Next == \/ \E r \in Requests : Handle(r)
        \/ \E t \in DOMAIN grants : Expire(t)
        \/ ChangePassword \/ Restart

Spec == Init /\ [][Next]_vars
-----------------------------------------------------------------------------
(* Properties. *)

Proofs == [secret : 0..MaxSecret, enabled : BOOLEAN, factor : 0..MaxFactor]
Users  == [secret : 0..MaxSecret, enabled : BOOLEAN, factor : 0..MaxFactor,
           backup : SUBSET BackupCodes, mark : 0..MaxCounter]
Grants == [purpose : {"action", "setup"}, sid : 1..MaxSids, proof : Proofs, both : BOOLEAN]
Places == {"idle", "consume", "take", "issue", "reload", "pend", "birth", "load",
           "factor", "prepare", "enable", "clear", "rotate"}
Held   == [kind : Kinds \cup {"none", "login", "totp"}, at : Places, sid : 0..MaxSids,
           token : 0..MaxTokens, owner : Proofs, seen : Users,
           code : SUBSET BackupCodes, spent : Proofs, both : BOOLEAN]

\* Type invariant.  A user with two factors has a factor; one grant per session and
\* purpose; nobody holds more than was given out.
TypeOK == /\ user \in Users /\ user.secret > 0 /\ (user.enabled => user.factor > 0)
          /\ sids \in 1..MaxSids /\ factors \in 0..MaxFactor /\ tokens \in 0..MaxTokens
          /\ DOMAIN live \subseteq 1..sids /\ Range(live) \subseteq 1..user.secret
          /\ DOMAIN grants \subseteq 1..tokens /\ Range(grants) \subseteq Grants
          /\ \A t, u \in DOMAIN grants :
                grants[t].sid = grants[u].sid /\ grants[t].purpose = grants[u].purpose => t = u
          /\ pending \subseteq Proofs /\ Cardinality(pending) < 2
          /\ request \in [Requests -> Held]

\* A code is accepted once ("removing either reopens replay", twofa_verify): however
\* logins, confirmations and changes of the factor overlap, no TOTP time step and no
\* backup code gets two of them through.
EachCodeOnce == again = {}

\* Fresh authentication is complete (fresh_auth::issue, "after complete
\* authentication"): while two-factor login is on, no grant can be used that was
\* issued without the second factor, whenever it was switched on.
FreshMeansBothFactors ==
    \A t \in DOMAIN grants :
        user.enabled /\ Usable(t, grants[t].sid, "action", Proof(user)) => grants[t].both

\* Two-factor login is set up, switched on or off only with a grant taken out for the
\* row as it is when it changes, and switched off only with a code: a password changed
\* or a factor replaced in between stops the request.
TrustChangesProven ==
    [][user'.enabled # user.enabled \/ user'.factor # user.factor =>
          \E r \in Requests : /\ request'[r] # request[r]
                              /\ request[r].spent = Proof(user)
                              /\ user.enabled => request[r].both]_vars

\* A half-finished login ends with the password and the factor it began with.
HalfLoginDies ==
    [][\A r \in Requests :
          request[r].kind = "totp" /\ request'[r].at = "birth" =>
             request[r].owner = Proof(user) \/ request'[r] = request[r]]_vars
=============================================================================
