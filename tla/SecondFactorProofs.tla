------------------------- MODULE SecondFactorProofs -------------------------
(***************************************************************************)
(* Proofs about SecondFactor, for any number of requests, sessions,        *)
(* factors, codes and grants.                                              *)
(*                                                                         *)
(* What a handler compares when it writes the row is the row's proof       *)
(* (password, enabled, factor), and that may come back: two-factor login   *)
(* set up, switched on and off again leaves the row without a factor as it *)
(* was.  That such a return misleads nobody is the argument of this        *)
(* module: a proof with a factor that the row has left never comes back.   *)
(* The operators take the row as a parameter, to speak of two moments.     *)
(***************************************************************************)
EXTENDS SecondFactor, FiniteSetTheorems, TLAPS

\* Proof p was the row's at some time, fs factors having been given out and u being
\* the row now.
Known(p, u, fs) ==
    /\ p.secret <= u.secret /\ p.factor <= fs
    /\ p.enabled => p.factor > 0 /\ (p.factor = u.factor => u.enabled)

\* The row never has proof p again.
Gone(p, u) == \/ p.secret < u.secret
              \/ p.factor > 0 /\ (p.factor # u.factor \/ (u.enabled /\ ~p.enabled))

\* How the row changes.
Ages(u, fs, w, gs) ==
    /\ u.secret <= w.secret /\ fs <= gs
    /\ \/ w.factor = u.factor /\ (u.enabled => w.enabled)
       \/ w.factor = gs /\ fs < gs /\ ~w.enabled
       \/ w.factor = 0 /\ ~w.enabled

\* Of the row as a request has read it (s), and of the proof of the grant it presents
\* (p): they agree, or one of the two is gone, or will be when the row has the other.
Tied(p, s, u) == p = Proof(s) \/ Gone(p, u) \/ (p.factor = 0 /\ s.factor > 0)
Settled(q, u) == q.spent = Proof(q.seen) \/ Gone(q.seen, u)

Changing == {"setup", "verify", "disable"}

\* Where a request can be, and what it knows there.
Placed(q) ==
    /\ q.at = "idle"   => q = Idle
    /\ q.at = "load"   => q.kind \in {"reauth", "setup", "verify", "disable", "totp"}
    /\ q.at = "factor" => q.kind \in {"reauth", "verify", "disable", "totp"}
    /\ q.at \in {"consume", "take"} => q.kind \in {"act", "setup", "verify", "disable"}
    /\ q.at = "prepare" => q.kind = "setup"
    /\ q.at = "enable"  => q.kind = "verify"
    /\ q.at = "clear"   => q.kind = "disable"
    /\ q.at = "rotate"  => q.kind \in {"verify", "disable"}
    /\ q.at = "pend"    => q.kind = "login"
    /\ q.at = "birth"   => q.kind \in {"login", "totp"} /\ q.seen.secret > 0
    /\ q.at \in {"reload", "issue"} => q.kind \in {"reauth", "setup", "login", "totp"}
    /\ q.kind \in Kinds \/ q.at \in {"reload", "issue"} => q.sid > 0
    /\ q.code # {} => /\ q.at \in {"consume", "take", "enable"} /\ q.kind = "verify"
                      /\ q.code \subseteq q.seen.backup
    /\ q.at = "factor" => q.seen.secret > 0
    /\ q.at = "factor" /\ q.kind = "totp" => q.owner = Proof(q.seen)
    /\ q.kind = "verify" /\ q.at \in {"factor", "consume", "take", "enable"} => q.seen.factor > 0
    /\ q.kind = "login" /\ q.at = "birth" => ~q.seen.enabled
    /\ q.kind = "login" /\ q.at \in {"reload", "issue"} => ~q.owner.enabled
    /\ q.kind = "totp" /\ q.at \in {"birth", "reload", "issue"} => q.both
    /\ q.kind = "reauth" /\ q.at \in {"reload", "issue"} /\ q.seen.enabled => q.both
    /\ q.kind = "disable" /\ q.at \in {"consume", "take", "clear"} /\ q.seen.enabled => q.both

\* What holds of a request in a state.
Good(q, u, fs, gs, ts) ==
    /\ q \in Held /\ Placed(q) /\ q.token <= ts /\ Known(q.seen, u, fs)
    /\ q.kind \in Kinds => q.owner.secret \in 1..u.secret
    /\ q.at \in {"factor", "consume"} /\ q.kind \in Changing /\ q.token \in DOMAIN gs
          => Tied(gs[q.token].proof, q.seen, u)
    /\ q.at = "take" /\ q.kind \in Changing /\ q.token \in DOMAIN gs /\ gs[q.token].proof = q.spent
          => Settled(q, u)
    /\ q.at \in {"prepare", "enable", "clear"}
          => Settled(q, u) \/ (q.kind = "verify" /\ q.seen.enabled)

Requested == \A r \in Requests : Good(request[r], user, factors, grants, tokens)

\* A grant of a user with two factors was issued with both.
GrantOK(g, u, fs) == /\ Known(g.proof, u, fs)
                     /\ g.purpose = "action" /\ g.proof.enabled => g.both
Granted == \A t \in DOMAIN grants : GrantOK(grants[t], user, factors)

\* A code that has been accepted is behind the watermark, or gone from the row; the
\* numbers of the factors are not reused.
Spent(u, fs, cs) ==
    /\ u.factor <= fs /\ (u.backup # {} => u.factor > 0)
    /\ \A c \in 1..MaxCounter : <<"totp", c>> \in cs => c <= u.mark
    /\ \A n \in 0..MaxFactor, b \in BackupCodes : <<"backup", n, b>> \in cs =>
          n \in 1..fs /\ (n = u.factor => b \notin u.backup)

IInv == TypeOK /\ Requested /\ Granted /\ Spent(user, factors, accepted) /\ EachCodeOnce

-----------------------------------------------------------------------------
(* The row and its proofs. *)

LEMMA Numbers == /\ \A n \in 0..MaxSecret : n \in Nat
                 /\ \A n \in 0..MaxFactor : n \in Nat
                 /\ \A n \in 0..MaxTokens : n \in Nat
                 /\ {MaxCounter, MaxSecret, MaxFactor, MaxSids, MaxTokens} \subseteq Nat \ {0}
BY SecondFactorAssumption

\* What a proof, or a row, compares is numbers and a flag.
Comparable(p) == p.secret \in Nat /\ p.factor \in Nat /\ p.enabled \in BOOLEAN

LEMMA UsersCompare ==
    ASSUME NEW u \in Users PROVE Comparable(u) /\ Proof(u) \in Proofs
BY Numbers DEF Users, Proofs, Proof, Comparable

LEMMA ProofsCompare == ASSUME NEW p \in Proofs PROVE Comparable(p)
BY Numbers DEF Proofs, Comparable

LEMMA ProofFields ==
    ASSUME NEW u PROVE /\ Proof(u).secret = u.secret /\ Proof(u).factor = u.factor
                       /\ Proof(u).enabled = u.enabled
BY DEF Proof

\* What was known, and what was gone, stays so.
LEMMA Later ==
    ASSUME NEW u, NEW w, NEW fs \in Nat, NEW gs \in Nat, Comparable(u), Comparable(w),
           Ages(u, fs, w, gs), NEW p, Comparable(p), Known(p, u, fs)
    PROVE  Known(p, w, gs) /\ (Gone(p, u) => Gone(p, w))
BY DEF Ages, Known, Gone, Comparable

LEMMA ProofEquality ==
    ASSUME NEW u, NEW w
    PROVE  Proof(u) = Proof(w) <=> /\ u.secret = w.secret /\ u.factor = w.factor
                                   /\ u.enabled = w.enabled
BY DEF Proof

LEMMA ProofOfProof == ASSUME NEW p \in Proofs PROVE Proof(p) = p
BY DEF Proof, Proofs

\* A proof of the past agrees with the row, is gone, or has no factor while the row has.
LEMMA KnownTied ==
    ASSUME NEW u \in Users, u.enabled => u.factor > 0,
           NEW fs \in Nat, NEW p \in Proofs, Known(p, u, fs)
    PROVE  Tied(p, u, u)
<1>1. Comparable(u) /\ Comparable(p)
  BY UsersCompare, ProofsCompare
<1>2. p.secret = u.secret /\ p.factor = u.factor /\ p.enabled = u.enabled => p = Proof(u)
  BY ProofEquality, ProofOfProof
<1>. QED BY <1>1, <1>2 DEF Tied, Known, Gone, Comparable

\* When a grant matches the row, a tied reading agrees with it or is gone.
LEMMA TiedSettles ==
    ASSUME NEW u \in Users, NEW s \in Users, Tied(Proof(u), s, u)
    PROVE  Proof(u) = Proof(s) \/ Gone(s, u)
<1>1. Comparable(u) /\ Comparable(s)
  BY UsersCompare
<1>2. ~Gone(Proof(u), u)
  BY <1>1, ProofFields DEF Gone, Comparable
<1>3. CASE Proof(u).factor = 0 /\ s.factor > 0
  BY <1>1, <1>3, ProofFields DEF Gone, Comparable
<1>. QED BY <1>2, <1>3 DEF Tied

LEMMA CurrentNotGone ==
    ASSUME NEW u \in Users, NEW s \in Users, Proof(u) = Proof(s)
    PROVE  ~Gone(s, u)
BY UsersCompare, ProofEquality DEF Gone, Comparable

-----------------------------------------------------------------------------
(* Requests that wait, and requests that go on. *)

LEMMA Waits ==
    ASSUME NEW u \in Users, NEW w \in Users, NEW fs \in Nat, NEW gs \in Nat,
           Ages(u, fs, w, gs), NEW g, NEW h, NEW ts \in Nat, NEW vs \in Nat, ts <= vs,
           \A t \in DOMAIN h : t <= ts => t \in DOMAIN g /\ h[t] = g[t],
           \A t \in DOMAIN g : g[t].proof \in Proofs /\ Known(g[t].proof, u, fs),
           NEW q, Good(q, u, fs, g, ts)
    PROVE  Good(q, w, gs, h, vs)
<1>1. q \in Held /\ Placed(q) /\ q.seen \in Users /\ q.token \in Nat
  BY Numbers DEF Good, Held
<1>2. Comparable(u) /\ Comparable(w) /\ Comparable(q.seen)
  BY <1>1, UsersCompare
<1>3. Known(q.seen, w, gs) /\ (Gone(q.seen, u) => Gone(q.seen, w))
  BY <1>2, Later DEF Good
<1>4. q.token <= vs
  BY <1>1 DEF Good
<1>5. q.kind \in Kinds => q.owner.secret \in 1..w.secret
  <2>1. u.secret <= w.secret
    BY DEF Ages
  <2>2. q.kind \in Kinds => q.owner.secret \in 1..u.secret
    BY DEF Good
  <2>. QED BY <1>2, <2>1, <2>2 DEF Comparable
<1>6. ASSUME q.token \in DOMAIN h
      PROVE  /\ q.token \in DOMAIN g /\ h[q.token] = g[q.token]
             /\ \A s : Tied(g[q.token].proof, s, u) => Tied(h[q.token].proof, s, w)
  <2>1. q.token \in DOMAIN g /\ h[q.token] = g[q.token]
    BY <1>6 DEF Good
  <2>2. Gone(g[q.token].proof, u) => Gone(g[q.token].proof, w)
    BY <1>2, <2>1, Later, ProofsCompare
  <2>. QED BY <2>1, <2>2 DEF Tied
<1>7. Settled(q, u) => Settled(q, w)
  BY <1>3 DEF Settled
<1>8. q.at \in {"factor", "consume"} /\ q.kind \in Changing /\ q.token \in DOMAIN h
         => Tied(h[q.token].proof, q.seen, w)
  BY <1>6 DEF Good
<1>9. q.at = "take" /\ q.kind \in Changing /\ q.token \in DOMAIN h /\ h[q.token].proof = q.spent
         => Settled(q, w)
  BY <1>6, <1>7 DEF Good
<1>10. q.at \in {"prepare", "enable", "clear"}
          => Settled(q, w) \/ (q.kind = "verify" /\ q.seen.enabled)
  BY <1>7 DEF Good
<1>. QED BY <1>1, <1>3, <1>4, <1>5, <1>8, <1>9, <1>10 DEF Good

\* The rows after a step, and how they got there.
RowsOK == /\ user \in Users /\ user.secret > 0 /\ (user.enabled => user.factor > 0)
          /\ sids \in 1..MaxSids /\ factors \in 0..MaxFactor /\ tokens \in 0..MaxTokens
          /\ DOMAIN live \subseteq 1..sids /\ Range(live) \subseteq 1..user.secret
          /\ DOMAIN grants \subseteq 1..tokens /\ Range(grants) \subseteq Grants
          /\ \A t, u \in DOMAIN grants :
                grants[t].sid = grants[u].sid /\ grants[t].purpose = grants[u].purpose => t = u
          /\ pending \subseteq Proofs /\ Cardinality(pending) < 2

RowsMove == /\ RowsOK' /\ Granted' /\ Spent(user', factors', accepted') /\ again' = {}
            /\ Ages(user, factors, user', factors')
            /\ tokens <= tokens'
            /\ \A t \in DOMAIN grants' : t <= tokens => t \in DOMAIN grants /\ grants'[t] = grants[t]

LEMMA Types ==
    ASSUME IInv
    PROVE  /\ RowsOK /\ Granted /\ Spent(user, factors, accepted) /\ again = {}
           /\ request \in [Requests -> Held]
           /\ \A r \in Requests : Good(request[r], user, factors, grants, tokens)
           /\ user \in Users /\ factors \in Nat /\ tokens \in Nat
           /\ \A t \in DOMAIN grants : /\ grants[t] \in Grants /\ grants[t].proof \in Proofs
                                       /\ Known(grants[t].proof, user, factors)
<1>1. \A t \in DOMAIN grants : grants[t] \in Grants
  BY DEF IInv, TypeOK, Range
<1>2. RowsOK /\ Granted /\ Spent(user, factors, accepted) /\ again = {}
  BY DEF IInv, TypeOK, RowsOK, EachCodeOnce
<1>3. user \in Users /\ factors \in Nat /\ tokens \in Nat
  BY <1>2, Numbers DEF RowsOK
<1>4. \A t \in DOMAIN grants : /\ grants[t] \in Grants /\ grants[t].proof \in Proofs
                              /\ Known(grants[t].proof, user, factors)
  BY <1>1, <1>2 DEF Granted, GrantOK, Grants
<1>5. request \in [Requests -> Held]
  BY DEF IInv, TypeOK
<1>6. \A r \in Requests : Good(request[r], user, factors, grants, tokens)
  BY DEF IInv, Requested
<1>. QED BY <1>2, <1>3, <1>4, <1>5, <1>6

\* Everybody waits.
LEMMA AllWait ==
    ASSUME IInv, RowsMove
    PROVE  \A r \in Requests : Good(request[r], user', factors', grants', tokens')
<1>1. user' \in Users /\ factors' \in Nat /\ tokens' \in Nat
  BY Numbers DEF RowsMove, RowsOK
<1>. QED BY <1>1, Types, Waits DEF RowsMove

\* One request goes on, the others wait.
LEMMA Moved ==
    ASSUME IInv, RowsMove, NEW r \in Requests, NEW q, Step(r, q),
           Good(q, user', factors', grants', tokens')
    PROVE  IInv'
<1>1. \A s \in Requests : request'[s] = IF s = r THEN q ELSE request[s]
  BY Types DEF Step
<1>2. q \in Held
  BY DEF Good
<1>3. request' \in [Requests -> Held]
  BY <1>2, Types DEF Step
<1>4. TypeOK'
  BY <1>3 DEF RowsMove, RowsOK, TypeOK
<1>5. Requested'
  BY <1>1, AllWait DEF Requested
<1>. QED BY <1>4, <1>5 DEF IInv, RowsMove, EachCodeOnce

LEMMA NobodyMoves == ASSUME IInv, RowsMove, UNCHANGED request PROVE IInv'
<1>1. TypeOK'
  BY Types DEF RowsMove, RowsOK, TypeOK
<1>2. Requested'
  BY AllWait DEF Requested
<1>. QED BY <1>1, <1>2 DEF IInv, RowsMove, EachCodeOnce

LEMMA IdleTyped == /\ Idle \in Held /\ NoUser \in Users /\ NoProof \in Proofs
                   /\ Idle.kind = "none" /\ Idle.at = "idle" /\ Idle.code = {} /\ Idle.sid = 0
                   /\ Idle.token = 0 /\ Idle.seen = NoUser /\ Idle.owner = NoProof
                   /\ NoUser.secret = 0 /\ NoUser.factor = 0 /\ ~NoUser.enabled
                   /\ NoUser.backup = {} /\ NoUser.mark = 0
<1>1. 0 \in 0..MaxSecret /\ 0 \in 0..MaxFactor /\ 0 \in 0..MaxCounter /\ 0 \in 0..MaxSids
      /\ 0 \in 0..MaxTokens
  BY Numbers
<1>2. NoUser \in Users /\ NoProof \in Proofs
  BY <1>1 DEF NoUser, NoProof, Users, Proofs
<1>3. Idle \in Held
  BY <1>1, <1>2 DEF Idle, Held, Places
<1>. QED BY <1>2, <1>3 DEF Idle, NoUser

LEMMA IdleGood ==
    ASSUME NEW u \in Users, NEW fs \in Nat, NEW gs, NEW ts \in Nat
    PROVE  Good(Idle, u, fs, gs, ts)
<1>1. Known(NoUser, u, fs)
  BY IdleTyped, UsersCompare DEF Known, Comparable
<1>2. Placed(Idle)
  BY IdleTyped DEF Placed, Kinds
<1>. QED BY <1>1, <1>2, IdleTyped DEF Good, Kinds, Changing

\* A request ends.
LEMMA Ends == ASSUME IInv, RowsMove, NEW r \in Requests, Step(r, Idle) PROVE IInv'
<1>1. user' \in Users /\ factors' \in Nat /\ tokens' \in Nat
  BY Numbers DEF RowsMove, RowsOK
<1>. QED BY <1>1, IdleGood, Moved

\* The steps that only move a request, or also drop a grant.
LEMMA RowsStay ==
    ASSUME IInv, UNCHANGED <<user, live, grants, pending, counts, codes>>
    PROVE  RowsMove
<1>1. RowsOK' /\ Granted' /\ Spent(user', factors', accepted') /\ again' = {}
  BY Types DEF RowsOK, Granted, counts, codes
<1>2. Ages(user, factors, user', factors') /\ tokens <= tokens'
  BY Types, UsersCompare DEF Ages, Comparable, counts
<1>. QED BY <1>1, <1>2 DEF RowsMove, counts

LEMMA GrantsLess ==
    ASSUME IInv, NEW ts, grants' = Restrict(grants, DOMAIN grants \ ts),
           UNCHANGED <<user, live, pending, counts, codes>>
    PROVE  RowsMove
<1>1. /\ DOMAIN grants' \subseteq DOMAIN grants
      /\ \A t \in DOMAIN grants' : grants'[t] = grants[t]
  BY DEF Restrict
<1>2. RowsOK'
  <2>1. Range(grants)' \subseteq Grants
    BY <1>1, Types DEF Range
  <2>2. \A t, u \in DOMAIN grants' :
           grants'[t].sid = grants'[u].sid /\ grants'[t].purpose = grants'[u].purpose => t = u
    BY <1>1, Types DEF RowsOK
  <2>3. RowsOK
    BY Types
  <2>. QED BY <1>1, <2>1, <2>2, <2>3 DEF RowsOK, counts
<1>3. Granted' /\ Spent(user', factors', accepted') /\ again' = {}
  BY <1>1, Types DEF Granted, counts, codes
<1>4. Ages(user, factors, user', factors') /\ tokens <= tokens'
  BY Types, UsersCompare DEF Ages, Comparable, counts
<1>. QED BY <1>1, <1>2, <1>3, <1>4 DEF RowsMove

-----------------------------------------------------------------------------
(* The steps that leave the rows alone. *)

LEMMA ConsultKeeps == ASSUME IInv, NEW r \in Requests, Consult(r) PROVE IInv'
<1>. DEFINE q0 == request[r]
            q  == [q0 EXCEPT !.at = "take", !.spent = Proof(user)]
<1>1. At(r, "consume") /\ Step(r, q) /\ UNCHANGED <<user, live, grants, pending, counts, codes>>
  BY DEF Consult
<1>2. RowsMove
  BY <1>1, RowsStay
<1>3. Good(q0, user, factors, grants, tokens) /\ q0 \in Held /\ q0.at = "consume"
  BY <1>1, Types DEF At
<1>4. Proof(user) \in Proofs
  BY Types, UsersCompare
<1>5. /\ q \in Held /\ q.at = "take" /\ q.spent = Proof(user) /\ q.kind = q0.kind
      /\ q.sid = q0.sid /\ q.token = q0.token /\ q.owner = q0.owner /\ q.seen = q0.seen
      /\ q.code = q0.code /\ q.both = q0.both
  BY <1>3, <1>4 DEF Held, Places
<1>. HIDE DEF q, q0
<1>6. Placed(q)
  BY <1>3, <1>5 DEF Good, Placed
<1>7. ASSUME q.kind \in Changing, q.token \in DOMAIN grants, grants[q.token].proof = q.spent
      PROVE  Settled(q, user)
  <2>1. Tied(Proof(user), q.seen, user)
    BY <1>3, <1>5, <1>7 DEF Good
  <2>2. q.seen \in Users
    BY <1>5 DEF Held
  <2>. QED BY <1>5, <2>1, <2>2, Types, TiedSettles DEF Settled
<1>8. Good(q, user, factors, grants, tokens)
  BY <1>3, <1>5, <1>6, <1>7 DEF Good
<1>9. Good(q, user', factors', grants', tokens')
  BY <1>1, <1>8 DEF counts
<1>. QED BY <1>1, <1>2, <1>9, Moved

LEMMA TakeKeeps == ASSUME IInv, NEW r \in Requests, Take(r) PROVE IInv'
<1>. DEFINE q0 == request[r]
            q  == [q0 EXCEPT !.at = Done[q0.kind], !.token = 0]
<1>1. /\ At(r, "take") /\ Usable(q0.token, q0.sid, Purpose(q0.kind), q0.spent)
      /\ UNCHANGED <<user, live, pending, counts, codes>>
      /\ IF q0.kind = "act" THEN Step(r, Idle) ELSE Step(r, q)
  BY DEF Take
<1>2. RowsMove
  BY <1>1, GrantsLess DEF Take
<1>3. CASE q0.kind = "act"
  BY <1>1, <1>2, <1>3, Ends
<1>4. CASE q0.kind # "act"
  <2>1. Good(q0, user, factors, grants, tokens) /\ q0 \in Held /\ q0.at = "take"
    BY <1>1, Types DEF At
  <2>2. q0.kind \in Changing
    BY <1>4, <2>1 DEF Good, Placed, Changing
  <2>3. Settled(q0, user)
    BY <1>1, <2>1, <2>2 DEF Good, Usable, Matches
  <2>4. /\ Done[q0.kind] \in {"prepare", "enable", "clear"}
        /\ Done[q0.kind] = "prepare" => q0.kind = "setup"
        /\ Done[q0.kind] = "enable" => q0.kind = "verify"
        /\ Done[q0.kind] = "clear" => q0.kind = "disable"
        /\ q0.kind = "verify" => Done[q0.kind] = "enable"
    BY <2>2 DEF Done, Changing
  <2>5. /\ q \in Held /\ q.at = Done[q0.kind] /\ q.spent = q0.spent /\ q.kind = q0.kind
        /\ q.sid = q0.sid /\ q.token = 0 /\ q.owner = q0.owner /\ q.seen = q0.seen
        /\ q.code = q0.code /\ q.both = q0.both
    <3>1. 0 \in 0..MaxTokens
      BY Numbers
    <3>2. Done[q0.kind] \in Places
      BY <2>4 DEF Places
    <3>. QED BY <2>1, <3>1, <3>2 DEF Held
  <2>6. Step(r, q)
    BY <1>1, <1>4
  <2>. HIDE DEF q, q0
  <2>7. Placed(q)
    BY <2>1, <2>2, <2>4, <2>5 DEF Good, Placed
  <2>8. Settled(q, user)
    BY <2>3, <2>5 DEF Settled
  <2>9. Good(q, user, factors, grants', tokens)
    BY <2>1, <2>4, <2>5, <2>7, <2>8, Types DEF Good
  <2>10. Good(q, user', factors', grants', tokens')
    BY <1>1, <2>9 DEF counts
  <2>. QED BY <1>2, <2>6, <2>10, Moved
<1>. QED BY <1>3, <1>4

LEMMA ReloadKeeps == ASSUME IInv, NEW r \in Requests, Reload(r) PROVE IInv'
<1>. DEFINE q0 == request[r]
            q  == [q0 EXCEPT !.at = "issue", !.seen = user]
<1>1. /\ At(r, "reload") /\ Step(r, q) /\ (q0.kind = "reauth" => Unchanged(q0))
      /\ UNCHANGED <<user, live, grants, pending, counts, codes>>
  BY DEF Reload, Is
<1>2. RowsMove
  BY <1>1, RowsStay
<1>3. Good(q0, user, factors, grants, tokens) /\ q0 \in Held /\ q0.at = "reload"
  BY <1>1, Types DEF At
<1>4. user \in Users
  BY Types
<1>5. /\ q \in Held /\ q.at = "issue" /\ q.spent = q0.spent /\ q.kind = q0.kind
      /\ q.sid = q0.sid /\ q.token = q0.token /\ q.owner = q0.owner /\ q.seen = user
      /\ q.code = q0.code /\ q.both = q0.both
  BY <1>3, <1>4 DEF Held, Places
<1>6. q0.kind = "reauth" => user.enabled = q0.seen.enabled
  BY <1>1, ProofEquality DEF Unchanged
<1>. HIDE DEF q, q0
<1>7. Placed(q)
  BY <1>3, <1>5, <1>6 DEF Good, Placed
<1>8. Known(user, user, factors)
  BY Types, UsersCompare DEF Known, Comparable, RowsOK, Spent
<1>9. Good(q, user, factors, grants, tokens)
  BY <1>3, <1>5, <1>7, <1>8 DEF Good
<1>10. Good(q, user', factors', grants', tokens')
  BY <1>1, <1>9 DEF counts
<1>. QED BY <1>1, <1>2, <1>10, Moved

LEMMA LogInKeeps == ASSUME IInv, NEW r \in Requests, LogIn(r) PROVE IInv'
<1>. DEFINE place == IF user.enabled THEN "pend" ELSE "birth"
            q == [Idle EXCEPT !.kind = "login", !.seen = user, !.at = place]
<1>1. Step(r, q) /\ UNCHANGED <<user, live, grants, pending, counts, codes>>
  BY DEF LogIn
<1>2. RowsMove
  BY <1>1, RowsStay
<1>3. user \in Users /\ user.secret > 0
  BY Types DEF RowsOK
<1>4. /\ q \in Held /\ q.at = place /\ q.kind = "login"
      /\ q.sid = 0 /\ q.token = 0 /\ q.seen = user /\ q.code = {}
  BY <1>3, IdleTyped DEF Held, Places
<1>. HIDE DEF q
<1>5. Placed(q)
  BY <1>3, <1>4 DEF Placed, Kinds
<1>6. Known(user, user, factors)
  BY Types, UsersCompare DEF Known, Comparable, RowsOK, Spent
<1>7. Good(q, user, factors, grants, tokens)
  BY <1>4, <1>5, <1>6, Types DEF Good, Kinds, Changing
<1>8. Good(q, user', factors', grants', tokens')
  BY <1>1, <1>7 DEF counts
<1>. QED BY <1>1, <1>2, <1>8, Moved

LEMMA BeginKeeps ==
    ASSUME IInv, NEW r \in Requests, NEW kind \in Kinds, NEW s \in DOMAIN live, Begin(r, kind, s)
    PROVE  IInv'
<1>. DEFINE place == IF kind = "act" THEN "consume" ELSE "load"
<1>1. PICK t \in 0..tokens :
         Step(r, [Idle EXCEPT !.kind = kind, !.sid = s, !.token = t, !.owner = Proof(user),
                              !.at = place])
  BY DEF Begin
<1>. DEFINE q == [Idle EXCEPT !.kind = kind, !.sid = s, !.token = t, !.owner = Proof(user),
                              !.at = place]
<1>2. UNCHANGED <<user, live, grants, pending, counts, codes>>
  BY DEF Begin
<1>3. RowsMove
  BY <1>2, RowsStay
<1>4. /\ user \in Users /\ user.secret > 0 /\ Proof(user) \in Proofs /\ Proof(user).secret = user.secret
      /\ Comparable(user)
  BY Types, UsersCompare, ProofFields DEF RowsOK
<1>5. s \in 0..MaxSids /\ s > 0
  BY Types, Numbers DEF RowsOK
<1>6. t \in 0..MaxTokens /\ t <= tokens
  BY Types, Numbers DEF RowsOK
<1>7. kind \in Kinds \cup {"none", "login", "totp"} /\ place \in Places
  BY DEF Places
<1>8. /\ q.at = place /\ q.kind = kind /\ q.owner = Proof(user)
      /\ q.sid = s /\ q.token = t /\ q.seen = NoUser /\ q.code = {}
  BY IdleTyped DEF Held
<1>9. q \in Held
  BY <1>4, <1>5, <1>6, <1>7, IdleTyped DEF Held
<1>. HIDE DEF q
<1>10. Placed(q)
  BY <1>5, <1>8, IdleTyped DEF Placed, Kinds
<1>11. Known(NoUser, user, factors)
  BY Types, IdleTyped, UsersCompare DEF Known, Comparable
<1>12. q.owner.secret \in 1..user.secret
  BY <1>4, <1>8 DEF Comparable
<1>13. q.at \notin {"factor", "take", "prepare", "enable", "clear"} /\ (q.at = "consume" => q.kind = "act")
  BY <1>8
<1>14. Good(q, user, factors, grants, tokens)
  BY <1>6, <1>8, <1>9, <1>10, <1>11, <1>12, <1>13 DEF Good, Changing
<1>15. Good(q, user', factors', grants', tokens')
  BY <1>2, <1>14 DEF counts
<1>. QED BY <1>1, <1>3, <1>15, Moved DEF q

LEMMA LoadKeeps == ASSUME IInv, NEW r \in Requests, Load(r) PROVE IInv'
<1>. DEFINE q0 == request[r]
            checked == user.enabled \/ q0.kind \in {"verify", "totp"}
            place == IF q0.kind = "setup" THEN "consume"
                     ELSE IF checked THEN "factor"
                     ELSE IF q0.kind = "reauth" THEN "reload" ELSE "consume"
            q == [q0 EXCEPT !.seen = user, !.at = place]
<1>1. /\ At(r, "load") /\ Step(r, q)
      /\ q0.kind = "totp" => q0.owner = Proof(user)
      /\ q0.kind = "verify" => user.factor # 0
      /\ UNCHANGED <<user, live, grants, pending, counts, codes>>
  BY DEF Load, Is, MatchesUser
<1>2. RowsMove
  BY <1>1, RowsStay
<1>3. Good(q0, user, factors, grants, tokens) /\ q0 \in Held /\ q0.at = "load"
  BY <1>1, Types DEF At
<1>4. user \in Users /\ user.secret > 0 /\ user.factor \in Nat
  BY Types, UsersCompare DEF RowsOK, Comparable
<1>5. /\ q \in Held /\ q.at = place /\ q.kind = q0.kind
      /\ q.sid = q0.sid /\ q.token = q0.token /\ q.owner = q0.owner /\ q.seen = user
      /\ q.code = q0.code /\ q.both = q0.both
  <2>1. place \in Places
    BY DEF Places
  <2>. HIDE DEF place
  <2>. QED BY <1>3, <1>4, <2>1 DEF Held
<1>6. q0.kind \in {"reauth", "setup", "verify", "disable", "totp"} /\ q0.code = {}
  BY <1>3 DEF Good, Placed
<1>7. \/ q0.kind \in {"setup", "disable"} /\ place = "consume"
      \/ q0.kind = "reauth" /\ place = "reload" /\ ~user.enabled
      \/ q0.kind \in {"verify", "totp", "reauth", "disable"} /\ place = "factor"
  BY <1>6
<1>8. place = "consume" /\ q0.kind = "disable" => ~user.enabled
  OBVIOUS
<1>. HIDE DEF q, q0, place, checked
<1>9. Placed(q)
  <2>1. q.at \in {"consume", "reload", "factor"} /\ q.code = {} /\ q.seen.secret > 0
    BY <1>4, <1>5, <1>6, <1>7
  <2>2. (q.kind \in Kinds \/ q.at = "reload") => q.sid > 0
    BY <1>3, <1>5, <1>6, <1>7 DEF Good, Placed, Kinds
  <2>3. /\ q.at = "factor" => q.kind \in {"reauth", "verify", "disable", "totp"}
        /\ q.at = "consume" => q.kind \in {"act", "setup", "verify", "disable"}
        /\ q.at = "factor" /\ q.kind = "totp" => q.owner = Proof(q.seen)
        /\ q.kind = "verify" => q.seen.factor > 0
        /\ q.at = "reload" => q.kind = "reauth"
    BY <1>1, <1>4, <1>5, <1>7
  <2>4. /\ q.kind # "login" /\ (q.kind = "totp" => q.at = "factor")
        /\ q.kind = "reauth" /\ q.at = "reload" => ~q.seen.enabled
        /\ q.kind = "disable" /\ q.at = "consume" => ~q.seen.enabled
    BY <1>5, <1>7, <1>8
  <2>. QED BY <2>1, <2>2, <2>3, <2>4 DEF Placed
<1>10. Known(user, user, factors)
  BY Types, UsersCompare DEF Known, Comparable, RowsOK, Spent
<1>11. ASSUME q.token \in DOMAIN grants PROVE Tied(grants[q.token].proof, q.seen, user)
  <2>1. user.enabled => user.factor > 0
    BY Types DEF RowsOK
  <2>. QED BY <1>5, <1>11, <2>1, Types, KnownTied
<1>12. Good(q, user, factors, grants, tokens)
  BY <1>3, <1>5, <1>7, <1>9, <1>10, <1>11 DEF Good
<1>13. Good(q, user', factors', grants', tokens')
  BY <1>1, <1>12 DEF counts
<1>. QED BY <1>1, <1>2, <1>13, Moved

LEMMA AbandonKeeps == ASSUME IInv, NEW r \in Requests, Abandon(r) PROVE IInv'
BY RowsStay, Ends DEF Abandon

LEMMA ExpireKeeps == ASSUME IInv, NEW t, Expire(t) PROVE IInv'
BY GrantsLess, NobodyMoves DEF Expire

-----------------------------------------------------------------------------
(* The steps that change rows other than the user's. *)

\* Only the sessions, the half-finished login and the grants change.
LEMMA UserStays ==
    ASSUME IInv, RowsOK', UNCHANGED <<user, factors, codes>>, Granted', tokens <= tokens',
           \A t \in DOMAIN grants' : t <= tokens => t \in DOMAIN grants /\ grants'[t] = grants[t]
    PROVE  RowsMove
<1>1. Spent(user', factors', accepted') /\ again' = {}
  BY Types DEF codes
<1>2. Ages(user, factors, user', factors')
  BY Types, UsersCompare DEF Ages, Comparable
<1>. QED BY <1>1, <1>2 DEF RowsMove

LEMMA LiveChanges ==
    ASSUME IInv, UNCHANGED <<user, grants, factors, tokens, codes>>, sids' \in 1..MaxSids,
           DOMAIN live' \subseteq 1..sids', \A s \in DOMAIN live' : live'[s] \in 1..user.secret,
           pending' \subseteq Proofs, Cardinality(pending') < 2
    PROVE  RowsMove
<1>1. Range(live)' \subseteq 1..user'.secret
  BY DEF Range
<1>2. RowsOK
  BY Types
<1>3. RowsOK'
  BY <1>1, <1>2 DEF RowsOK
<1>4. Granted' /\ tokens <= tokens'
  BY Types DEF Granted
<1>. QED BY <1>3, <1>4, UserStays

LEMMA LiveFacts ==
    ASSUME IInv
    PROVE  /\ \A s \in DOMAIN live : live[s] \in 1..user.secret /\ s \in 1..sids
           /\ sids \in 1..MaxSids /\ pending \subseteq Proofs /\ Cardinality(pending) < 2
BY Types DEF RowsOK, Range

LEMMA PendKeeps == ASSUME IInv, NEW r \in Requests, Pend(r) PROVE IInv'
<1>1. /\ pending' = {Proof(request[r].seen)} /\ Step(r, Idle)
      /\ UNCHANGED <<user, live, grants, counts, codes>>
  BY DEF Pend
<1>2. request[r].seen \in Users
  BY Types DEF Held
<1>3. pending' \subseteq Proofs /\ Cardinality(pending') = 1
  BY <1>1, <1>2, UsersCompare, FS_Singleton
<1>4. RowsMove
  BY <1>1, <1>3, LiveFacts, LiveChanges DEF counts
<1>. QED BY <1>1, <1>4, Ends

LEMMA LogInTotpKeeps == ASSUME IInv, NEW r \in Requests, LogInTotp(r) PROVE IInv'
<1>1. PICK p \in pending : Step(r, [Idle EXCEPT !.kind = "totp", !.at = "load", !.owner = p])
  BY DEF LogInTotp
<1>. DEFINE q == [Idle EXCEPT !.kind = "totp", !.at = "load", !.owner = p]
<1>2. pending' = {} /\ UNCHANGED <<user, live, grants, counts, codes>>
  BY DEF LogInTotp
<1>3. RowsMove
  BY <1>2, LiveFacts, LiveChanges, FS_EmptySet DEF counts
<1>4. p \in Proofs
  BY LiveFacts
<1>5. /\ q \in Held /\ q.at = "load" /\ q.kind = "totp"
      /\ q.sid = 0 /\ q.token = 0 /\ q.seen = NoUser /\ q.code = {}
  BY <1>4, IdleTyped DEF Held, Places
<1>. HIDE DEF q
<1>6. Placed(q)
  BY <1>5 DEF Placed, Kinds
<1>7. Known(NoUser, user, factors)
  BY Types, IdleTyped, UsersCompare DEF Known, Comparable
<1>8. Good(q, user, factors, grants, tokens)
  BY <1>5, <1>6, <1>7, Types DEF Good, Kinds
<1>9. Good(q, user', factors', grants', tokens')
  BY <1>2, <1>8 DEF counts
<1>. QED BY <1>1, <1>3, <1>9, Moved DEF q

LEMMA BirthKeeps == ASSUME IInv, NEW r \in Requests, Birth(r) PROVE IInv'
<1>. DEFINE q0 == request[r]
            q  == [q0 EXCEPT !.at = "reload", !.sid = sids + 1, !.owner = Proof(q0.seen),
                             !.seen = NoUser]
<1>1. /\ At(r, "birth") /\ Step(r, q) /\ sids < MaxSids /\ sids' = sids + 1
      /\ live' = [s \in DOMAIN live \cup {sids + 1} |->
                     IF s = sids + 1 THEN q0.seen.secret ELSE live[s]]
      /\ UNCHANGED <<user, grants, pending, factors, tokens, codes>>
  BY DEF Birth
<1>2. Good(q0, user, factors, grants, tokens) /\ q0 \in Held /\ q0.at = "birth"
  BY <1>1, Types DEF At
<1>3. q0.seen \in Users /\ Proof(q0.seen) \in Proofs /\ Comparable(q0.seen)
  BY <1>2, UsersCompare DEF Held
<1>4. sids + 1 \in 1..MaxSids /\ sids + 1 \in 0..MaxSids /\ sids + 1 > 0
  BY <1>1, LiveFacts, Numbers
<1>5. q0.seen.secret \in 1..user.secret
  <2>1. q0.seen.secret > 0 /\ q0.seen.secret <= user.secret
    BY <1>2 DEF Good, Placed, Known
  <2>. QED BY <2>1, <1>3 DEF Comparable
<1>6. RowsMove
  <2>1. \A s \in DOMAIN live' : live'[s] \in 1..user.secret
    BY <1>1, <1>5, LiveFacts
  <2>2. DOMAIN live' \subseteq 1..sids'
    BY <1>1, LiveFacts
  <2>. QED BY <1>1, <1>4, <2>1, <2>2, LiveFacts, LiveChanges
<1>7. /\ q.at = "reload" /\ q.kind = q0.kind /\ q.sid = sids + 1 /\ q.token = q0.token
      /\ q.owner = Proof(q0.seen) /\ q.seen = NoUser /\ q.code = q0.code /\ q.both = q0.both
  BY <1>2 DEF Held
<1>8. q \in Held
  BY <1>2, <1>3, <1>4, IdleTyped DEF Held, Places
<1>9. q0.kind = "login" => ~q.owner.enabled
  BY <1>2, <1>7, ProofFields DEF Good, Placed
<1>10. q0.kind \in {"login", "totp"} /\ q0.code = {} /\ (q0.kind = "totp" => q0.both)
  BY <1>2 DEF Good, Placed
<1>. HIDE DEF q, q0
<1>11. Placed(q)
  BY <1>4, <1>7, <1>9, <1>10, IdleTyped DEF Placed, Kinds
<1>12. Known(NoUser, user, factors)
  BY Types, IdleTyped, UsersCompare DEF Known, Comparable
<1>13. Good(q, user, factors, grants, tokens)
  BY <1>2, <1>7, <1>8, <1>10, <1>11, <1>12 DEF Good, Kinds
<1>14. Good(q, user', factors', grants', tokens')
  BY <1>1, <1>13
<1>. QED BY <1>1, <1>6, <1>14, Moved

LEMMA TearDownKeeps == ASSUME IInv, NEW r \in Requests, TearDown(r) PROVE IInv'
<1>1. /\ live' = Restrict(live, DOMAIN live \ {request[r].sid}) /\ Step(r, Idle)
      /\ UNCHANGED <<user, grants, pending, counts, codes>>
  BY DEF TearDown
<1>2. /\ DOMAIN live' \subseteq DOMAIN live
      /\ \A s \in DOMAIN live' : live'[s] = live[s]
  BY <1>1 DEF Restrict
<1>3. RowsMove
  BY <1>1, <1>2, LiveFacts, LiveChanges DEF counts
<1>. QED BY <1>1, <1>3, Ends

LEMMA RotateKeeps == ASSUME IInv, NEW r \in Requests, Rotate(r) PROVE IInv'
<1>1. /\ At(r, "rotate") /\ sids < MaxSids /\ sids' = sids + 1 /\ Step(r, Idle)
      /\ live' = [s \in (DOMAIN live \ {request[r].sid}) \cup {sids + 1} |->
                     IF s = sids + 1 THEN request[r].owner.secret ELSE live[s]]
      /\ UNCHANGED <<user, grants, pending, factors, tokens, codes>>
  BY DEF Rotate
<1>2. request[r].owner.secret \in 1..user.secret
  <2>1. request[r].kind \in Kinds
    BY <1>1, Types DEF Good, Placed, At, Kinds
  <2>. QED BY <2>1, Types DEF Good
<1>3. sids' \in 1..MaxSids
  BY <1>1, LiveFacts, Numbers
<1>4. \A s \in DOMAIN live' : live'[s] \in 1..user.secret
  BY <1>1, <1>2, LiveFacts
<1>5. DOMAIN live' \subseteq 1..sids'
  BY <1>1, LiveFacts
<1>6. RowsMove
  BY <1>1, <1>3, <1>4, <1>5, LiveFacts, LiveChanges
<1>. QED BY <1>1, <1>6, Ends

LEMMA IssueKeeps == ASSUME IInv, NEW r \in Requests, Issue(r) PROVE IInv'
<1>. DEFINE q == request[r]
            purpose == IF q.kind = "setup" THEN "setup" ELSE "action"
            others == {t \in DOMAIN grants : grants[t].sid # q.sid \/ grants[t].purpose # purpose}
            grant == [purpose |-> purpose, sid |-> q.sid, proof |-> Proof(q.seen), both |-> q.both]
<1>1. /\ At(r, "issue") /\ OwnerIsCurrent(q, purpose) /\ tokens < MaxTokens /\ tokens' = tokens + 1
      /\ grants' = [t \in others \cup {tokens + 1} |-> IF t = tokens + 1 THEN grant ELSE grants[t]]
      /\ Step(r, Idle)
      /\ UNCHANGED <<user, live, pending, sids, factors, codes>>
  BY DEF Issue
<1>2. Good(q, user, factors, grants, tokens) /\ q \in Held /\ q.at = "issue"
  BY <1>1, Types DEF At
<1>3. Comparable(q.seen) /\ Proof(q.seen) \in Proofs
  BY <1>2, UsersCompare DEF Held
<1>4. q.sid \in 1..MaxSids
  <2>1. q.sid \in 0..MaxSids
    BY <1>2 DEF Held
  <2>2. q.sid > 0
    BY <1>2 DEF Good, Placed
  <2>. QED BY <2>1, <2>2
<1>5. grant \in Grants /\ grant.proof = Proof(q.seen) /\ grant.both = q.both
      /\ grant.purpose = purpose /\ grant.sid = q.sid
  <2>1. q.both \in BOOLEAN
    BY <1>2 DEF Held
  <2>. QED BY <1>3, <1>4, <2>1 DEF Grants
<1>6. purpose = "action" /\ grant.proof.enabled => grant.both
  <2>1. ASSUME purpose = "action", q.seen.enabled PROVE q.both
    <3>1. q.owner = Proof(q.seen)
      BY <1>1, <2>1 DEF OwnerIsCurrent
    <3>2. q.owner.enabled
      BY <2>1, <3>1, ProofFields
    <3>3. q.kind \in {"login", "totp", "reauth"}
      BY <1>2, <2>1 DEF Good, Placed, Held, Kinds
    <3>. QED BY <1>2, <2>1, <3>2, <3>3 DEF Good, Placed
  <2>. QED BY <1>5, <2>1, ProofFields
<1>7. GrantOK(grant, user, factors)
  <2>1. Known(Proof(q.seen), user, factors)
    BY <1>2, ProofFields DEF Good, Known
  <2>. QED BY <1>5, <1>6, <2>1 DEF GrantOK
<1>8. others \subseteq DOMAIN grants /\ \A t \in others : ~(grants[t].sid = q.sid /\ grants[t].purpose = purpose)
  OBVIOUS
<1>. HIDE DEF q, purpose, others, grant
<1>9. tokens \in Nat /\ DOMAIN grants \subseteq 1..tokens /\ tokens + 1 \notin DOMAIN grants
  BY Types DEF RowsOK
<1>10. /\ DOMAIN grants' = others \cup {tokens + 1} /\ grants'[tokens + 1] = grant
       /\ \A t \in others : grants'[t] = grants[t]
  BY <1>1, <1>8, <1>9
<1>11. \A t \in DOMAIN grants' : t <= tokens => t \in DOMAIN grants /\ grants'[t] = grants[t]
  BY <1>8, <1>9, <1>10
<1>12. Granted'
  <2>1. \A t \in others : GrantOK(grants[t], user, factors)
    BY <1>8, Types DEF Granted
  <2>. QED BY <1>1, <1>7, <1>10, <2>1 DEF Granted
<1>13. RowsOK'
  <2>1. \A t, u \in DOMAIN grants' :
           grants'[t].sid = grants'[u].sid /\ grants'[t].purpose = grants'[u].purpose => t = u
    <3>1. \A t, u \in others :
             grants[t].sid = grants[u].sid /\ grants[t].purpose = grants[u].purpose => t = u
      BY <1>8, Types DEF RowsOK
    <3>. QED BY <1>5, <1>8, <1>10, <3>1
  <2>2. Range(grants)' \subseteq Grants
    BY <1>5, <1>8, <1>10, Types DEF Range
  <2>3. DOMAIN grants' \subseteq 1..tokens' /\ tokens' \in 0..MaxTokens
    BY <1>1, <1>8, <1>9, <1>10, Numbers
  <2>4. RowsOK
    BY Types
  <2>. QED BY <1>1, <2>1, <2>2, <2>3, <2>4 DEF RowsOK
<1>14. RowsMove
  BY <1>1, <1>9, <1>11, <1>12, <1>13, UserStays
<1>. QED BY <1>1, <1>14, Ends

-----------------------------------------------------------------------------
(* The steps that check a second factor. *)

LEMMA CheckedGood ==
    ASSUME NEW q0, NEW u \in Users, NEW fs \in Nat, NEW gs, NEW ts \in Nat,
           Good(q0, u, fs, gs, ts), q0.at = "factor",
           NEW q, q = [q0 EXCEPT !.at = Onward(q0), !.both = TRUE]
    PROVE  Good(q, u, fs, gs, ts)
<1>1. q0 \in Held /\ q0.kind \in {"reauth", "verify", "disable", "totp"}
  BY DEF Good, Placed
<1>2. \/ q0.kind = "totp" /\ Onward(q0) = "birth"
      \/ q0.kind = "reauth" /\ Onward(q0) = "reload"
      \/ q0.kind = "disable" /\ Onward(q0) = "consume"
      \/ q0.kind = "verify" /\ q0.seen.enabled /\ Onward(q0) = "enable"
      \/ q0.kind = "verify" /\ ~q0.seen.enabled /\ Onward(q0) = "consume"
  BY <1>1 DEF Onward
<1>3. Onward(q0) \in Places
  BY <1>2 DEF Places
<1>4. /\ q \in Held /\ q.at = Onward(q0) /\ q.both /\ q.kind = q0.kind
      /\ q.sid = q0.sid /\ q.token = q0.token /\ q.owner = q0.owner /\ q.seen = q0.seen
      /\ q.code = q0.code
  BY <1>1, <1>3 DEF Held
<1>5. Placed(q)
  <2>1. /\ q0.code = {} /\ q0.seen.secret > 0 /\ (q0.kind \in Kinds => q0.sid > 0)
        /\ q0.kind = "totp" => q0.owner = Proof(q0.seen)
        /\ q0.kind = "verify" => q0.seen.factor > 0
    BY DEF Good, Placed
  <2>2. "reauth" \in Kinds
    BY DEF Kinds
  <2>3. CASE q0.kind = "totp"
    BY <1>2, <1>4, <2>1, <2>3 DEF Placed, Kinds
  <2>4. CASE q0.kind = "reauth"
    BY <1>2, <1>4, <2>1, <2>2, <2>4 DEF Placed
  <2>5. CASE q0.kind = "disable"
    BY <1>2, <1>4, <2>1, <2>5 DEF Placed
  <2>6. CASE q0.kind = "verify"
    BY <1>2, <1>4, <2>1, <2>6 DEF Placed
  <2>. QED BY <1>1, <2>3, <2>4, <2>5, <2>6
<1>6. q.at = "consume" /\ q.kind \in Changing /\ q.token \in DOMAIN gs
         => Tied(gs[q.token].proof, q.seen, u)
  BY <1>4 DEF Good
<1>7. q.at \notin {"factor", "take", "prepare", "clear"}
      /\ (q.at = "enable" => q.kind = "verify" /\ q.seen.enabled)
  BY <1>2, <1>4
<1>8. q.token <= ts /\ Known(q.seen, u, fs) /\ (q.kind \in Kinds => q.owner.secret \in 1..u.secret)
  BY <1>4 DEF Good
<1>. QED BY <1>4, <1>5, <1>6, <1>7, <1>8 DEF Good

\* The row's codes change: the watermark rises to an unused step, or an unused backup
\* code goes.
LEMMA CodeAccepted ==
    ASSUME IInv, UNCHANGED <<live, grants, pending, counts>>, user' \in Users,
           Proof(user') = Proof(user),
           \/ \E c \in 1..MaxCounter : /\ user.mark < c /\ user'.mark = c /\ user'.backup = user.backup
                                       /\ Accept(<<"totp", c>>)
           \/ \E b \in user.backup : /\ user'.mark = user.mark /\ user'.backup = user.backup \ {b}
                                     /\ Accept(<<"backup", user.factor, b>>)
    PROVE  RowsMove
<1>1. user'.secret = user.secret /\ user'.factor = user.factor /\ user'.enabled = user.enabled
  BY ProofEquality
<1>2. Comparable(user) /\ Comparable(user') /\ user.mark \in Nat /\ user'.mark \in Nat
      /\ user.backup \subseteq BackupCodes /\ user.factor \in 0..MaxFactor
  BY Types, UsersCompare, Numbers DEF Users
<1>3. RowsOK'
  BY <1>1, Types DEF RowsOK, counts
<1>4. Granted'
  BY <1>1, Types DEF Granted, GrantOK, Known, counts
<1>5. Ages(user, factors, user', factors') /\ tokens <= tokens'
  BY <1>1, <1>2, Types DEF Ages, Comparable, counts
<1>6. Spent(user', factors', accepted') /\ again' = {}
  <2>1. CASE \E c \in 1..MaxCounter : /\ user.mark < c /\ user'.mark = c /\ user'.backup = user.backup
                                      /\ Accept(<<"totp", c>>)
    <3>1. PICK c \in 1..MaxCounter : /\ user.mark < c /\ user'.mark = c /\ user'.backup = user.backup
                                     /\ Accept(<<"totp", c>>)
      BY <2>1
    <3>2. <<"totp", c>> \notin accepted
      BY <1>2, <3>1, Types DEF Spent
    <3>3. again' = {}
      BY <3>1, <3>2, Types DEF Accept
    <3>4. \A d \in 1..MaxCounter : <<"totp", d>> \in accepted' => d <= user'.mark
      <4>1. \A d \in 1..MaxCounter : <<"totp", d>> \in accepted' => d = c \/ <<"totp", d>> \in accepted
        BY <3>1 DEF Accept
      <4>2. \A d \in 1..MaxCounter : <<"totp", d>> \in accepted => d <= user.mark
        BY Types DEF Spent
      <4>. QED BY <1>2, <3>1, <4>1, <4>2
    <3>5. \A n \in 0..MaxFactor, b \in BackupCodes :
             <<"backup", n, b>> \in accepted' => <<"backup", n, b>> \in accepted
      BY <3>1 DEF Accept
    <3>. QED BY <1>1, <3>1, <3>3, <3>4, <3>5, Types DEF Spent, counts
  <2>2. CASE \E b \in user.backup : /\ user'.mark = user.mark /\ user'.backup = user.backup \ {b}
                                    /\ Accept(<<"backup", user.factor, b>>)
    <3>1. PICK b \in user.backup : /\ user'.mark = user.mark /\ user'.backup = user.backup \ {b}
                                   /\ Accept(<<"backup", user.factor, b>>)
      BY <2>2
    <3>2. <<"backup", user.factor, b>> \notin accepted
      BY <1>2, <3>1, Types DEF Spent
    <3>3. again' = {}
      BY <3>1, <3>2, Types DEF Accept
    <3>4. \A d \in 1..MaxCounter : <<"totp", d>> \in accepted' => <<"totp", d>> \in accepted
      BY <3>1 DEF Accept
    <3>5. \A n \in 0..MaxFactor, a \in BackupCodes :
             <<"backup", n, a>> \in accepted' =>
                (n = user.factor /\ a = b) \/ <<"backup", n, a>> \in accepted
      BY <3>1 DEF Accept
    <3>6. user.factor \in 1..factors
      BY <1>2, <3>1, Types DEF Spent
    <3>7. /\ \A d \in 1..MaxCounter : <<"totp", d>> \in accepted' => d <= user'.mark
          /\ user'.factor <= factors' /\ (user'.backup # {} => user'.factor > 0)
      BY <1>1, <3>1, <3>4, Types DEF Spent, counts
    <3>8. ASSUME NEW n \in 0..MaxFactor, NEW a \in BackupCodes, <<"backup", n, a>> \in accepted'
          PROVE  n \in 1..factors' /\ (n = user'.factor => a \notin user'.backup)
      <4>1. CASE n = user.factor /\ a = b
        BY <1>1, <3>1, <3>6, <4>1 DEF counts
      <4>2. CASE <<"backup", n, a>> \in accepted
        BY <1>1, <3>1, <4>2, Types DEF Spent, counts
      <4>. QED BY <3>5, <3>8, <4>1, <4>2
    <3>. QED BY <3>3, <3>7, <3>8 DEF Spent
  <2>. QED BY <2>1, <2>2
<1>. QED BY <1>3, <1>4, <1>5, <1>6 DEF RowsMove, counts

LEMMA CheckedKeeps ==
    ASSUME IInv, RowsMove, NEW r \in Requests, At(r, "factor"),
           Step(r, [request[r] EXCEPT !.at = Onward(request[r]), !.both = TRUE])
    PROVE  IInv'
<1>. DEFINE q == [request[r] EXCEPT !.at = Onward(request[r]), !.both = TRUE]
<1>1. Good(request[r], user', factors', grants', tokens')
  BY AllWait
<1>2. user' \in Users /\ factors' \in Nat /\ tokens' \in Nat
  BY Numbers DEF RowsMove, RowsOK
<1>3. Good(q, user', factors', grants', tokens')
  BY <1>1, <1>2, CheckedGood DEF At
<1>. QED BY <1>3, Moved

LEMMA CheckTotpKeeps ==
    ASSUME IInv, NEW r \in Requests, NEW c \in 1..MaxCounter, CheckTotp(r, c) PROVE IInv'
<1>1. /\ At(r, "factor") /\ user.mark < c /\ user' = [user EXCEPT !.mark = c]
      /\ Accept(<<"totp", c>>)
      /\ Step(r, [request[r] EXCEPT !.at = Onward(request[r]), !.both = TRUE])
      /\ UNCHANGED <<live, grants, pending, counts>>
  <2>1. user.mark \in Nat
    BY Types, Numbers DEF Users
  <2>. QED BY <2>1 DEF CheckTotp, Fresh
<1>2. c \in 0..MaxCounter /\ user \in Users
  BY Types, Numbers
<1>3. /\ user' \in Users /\ user'.mark = c /\ user'.backup = user.backup
      /\ user'.secret = user.secret /\ user'.factor = user.factor /\ user'.enabled = user.enabled
  BY <1>1, <1>2 DEF Users
<1>4. RowsMove
  BY <1>1, <1>3, ProofEquality, CodeAccepted
<1>. QED BY <1>1, <1>4, CheckedKeeps

LEMMA CheckBackupKeeps ==
    ASSUME IInv, NEW r \in Requests, NEW b \in BackupCodes, CheckBackup(r, b) PROVE IInv'
<1>1. /\ At(r, "factor") /\ b \in user.backup /\ user' = [user EXCEPT !.backup = user.backup \ {b}]
      /\ Accept(<<"backup", user.factor, b>>)
      /\ Step(r, [request[r] EXCEPT !.at = Onward(request[r]), !.both = TRUE])
      /\ UNCHANGED <<live, grants, pending, counts>>
  BY DEF CheckBackup, CodesUnchanged
<1>2. user \in Users /\ user.backup \ {b} \in SUBSET BackupCodes
  BY Types DEF Users
<1>3. /\ user' \in Users /\ user'.mark = user.mark /\ user'.backup = user.backup \ {b}
      /\ user'.secret = user.secret /\ user'.factor = user.factor /\ user'.enabled = user.enabled
  BY <1>1, <1>2 DEF Users
<1>4. RowsMove
  BY <1>1, <1>3, ProofEquality, CodeAccepted
<1>. QED BY <1>1, <1>4, CheckedKeeps

LEMMA ChooseBackupKeeps ==
    ASSUME IInv, NEW r \in Requests, NEW b \in BackupCodes, ChooseBackup(r, b) PROVE IInv'
<1>. DEFINE q0 == request[r]
            q1 == [q0 EXCEPT !.at = Onward(q0), !.both = TRUE]
            q  == [q0 EXCEPT !.at = Onward(q0), !.code = {b}, !.both = TRUE]
<1>1. /\ At(r, "factor") /\ q0.kind = "verify" /\ b \in q0.seen.backup /\ Step(r, q)
      /\ UNCHANGED <<user, live, grants, pending, counts, codes>>
  BY DEF ChooseBackup, Is
<1>2. RowsMove
  BY <1>1, RowsStay
<1>3. q0 \in Held /\ Good(q1, user, factors, grants, tokens)
  BY <1>1, Types, CheckedGood DEF At
<1>4. Onward(q0) \in {"enable", "consume"}
  BY <1>1 DEF Onward
<1>5. Onward(q0) \in Places
  BY <1>4 DEF Places
<1>6. /\ q \in Held /\ q.at = Onward(q0) /\ q.both = TRUE /\ q.kind = q0.kind /\ q.sid = q0.sid
      /\ q.token = q0.token /\ q.owner = q0.owner /\ q.seen = q0.seen /\ q.spent = q0.spent
      /\ q.code = {b}
  BY <1>3, <1>5 DEF Held
<1>7. /\ q1.at = Onward(q0) /\ q1.both = TRUE /\ q1.kind = q0.kind /\ q1.sid = q0.sid
      /\ q1.token = q0.token /\ q1.owner = q0.owner /\ q1.seen = q0.seen /\ q1.spent = q0.spent
  BY <1>3, <1>5 DEF Held
<1>. HIDE DEF q, q1, q0
<1>8. Placed(q)
  BY <1>1, <1>3, <1>4, <1>6, <1>7 DEF Good, Placed
<1>9. Good(q, user, factors, grants, tokens)
  BY <1>3, <1>4, <1>6, <1>7, <1>8 DEF Good, Settled
<1>10. Good(q, user', factors', grants', tokens')
  BY <1>1, <1>9 DEF counts
<1>. QED BY <1>1, <1>2, <1>10, Moved

-----------------------------------------------------------------------------
(* The steps that change what a grant compares. *)

LEMMA ProofChanges ==
    ASSUME IInv, UNCHANGED <<live, grants, pending, sids, tokens>>, user' \in Users,
           factors' \in 0..MaxFactor, Ages(user, factors, user', factors'),
           user'.secret > 0, user'.enabled => user'.factor > 0,
           Spent(user', factors', accepted'), again' = {}
    PROVE  RowsMove
<1>1. Comparable(user) /\ Comparable(user') /\ factors' \in Nat
  BY Types, UsersCompare, Numbers
<1>2. RowsOK'
  <2>1. Range(live)' \subseteq 1..user'.secret
    <3>1. user.secret <= user'.secret
      BY DEF Ages
    <3>. QED BY <1>1, <3>1, LiveFacts DEF Range, Comparable
  <2>2. RowsOK
    BY Types
  <2>. QED BY <2>1, <2>2 DEF RowsOK
<1>3. Granted'
  BY <1>1, Types, Later, ProofsCompare DEF Granted, GrantOK
<1>. QED BY <1>2, <1>3, Types DEF RowsMove

\* Going on with everything forgotten.
LEMMA Forgets ==
    ASSUME IInv, RowsMove, NEW r \in Requests, NEW place, Forget(r, place),
           \/ place = "reload" /\ request[r].kind = "setup"
           \/ place = "rotate" /\ request[r].kind \in {"verify", "disable"}
    PROVE  IInv'
<1>. DEFINE q0 == request[r]
            q  == [q0 EXCEPT !.at = place, !.seen = NoUser, !.code = {}, !.spent = NoProof]
<1>1. user' \in Users /\ factors' \in Nat /\ tokens' \in Nat
  BY Numbers DEF RowsMove, RowsOK
<1>2. Good(q0, user', factors', grants', tokens') /\ q0 \in Held
  BY AllWait DEF Good
<1>3. place \in Places
  BY DEF Places
<1>4. /\ q \in Held /\ q.at = place /\ q.kind = q0.kind /\ q.sid = q0.sid
      /\ q.token = q0.token /\ q.owner = q0.owner /\ q.seen = NoUser /\ q.code = {}
  BY <1>2, <1>3, IdleTyped DEF Held
<1>5. Known(NoUser, user', factors')
  BY <1>1, IdleTyped, UsersCompare DEF Known, Comparable
<1>6. Step(r, q)
  BY DEF Forget
<1>. HIDE DEF q
<1>7. Placed(q)
  BY <1>2, <1>4, IdleTyped DEF Good, Placed, Kinds
<1>8. Good(q, user', factors', grants', tokens')
  BY <1>2, <1>4, <1>5, <1>7 DEF Good
<1>. QED BY <1>6, <1>8, Moved

LEMMA PrepareKeeps == ASSUME IInv, NEW r \in Requests, Prepare(r) PROVE IInv'
<1>1. /\ At(r, "prepare") /\ ~request[r].seen.enabled /\ Proof(user) = Proof(request[r].seen)
      /\ factors < MaxFactor /\ factors' = factors + 1
      /\ user' = [user EXCEPT !.factor = factors + 1, !.backup = BackupCodes]
      /\ Forget(r, "reload")
      /\ UNCHANGED <<live, grants, pending, sids, tokens, codes>>
  BY DEF Prepare, Unchanged
<1>2. ~user.enabled
  BY <1>1, ProofEquality
<1>3. factors' \in 0..MaxFactor /\ factors \in Nat /\ user \in Users
  BY <1>1, Types, Numbers
<1>4. /\ user' \in Users /\ user'.mark = user.mark /\ user'.backup = BackupCodes
      /\ user'.secret = user.secret /\ user'.factor = factors' /\ user'.enabled = user.enabled
  BY <1>1, <1>3 DEF Users
<1>5. Comparable(user)
  BY Types, UsersCompare
<1>6. Ages(user, factors, user', factors')
  BY <1>1, <1>2, <1>3, <1>4, <1>5 DEF Ages, Comparable
<1>7. Spent(user', factors', accepted') /\ again' = {}
  <2>1. accepted' = accepted /\ again' = again
    BY <1>1 DEF codes
  <2>2. \A n \in 0..MaxFactor, b \in BackupCodes :
           <<"backup", n, b>> \in accepted => n \in 1..factors
    BY Types DEF Spent
  <2>3. \A c \in 1..MaxCounter : <<"totp", c>> \in accepted => c <= user.mark
    BY Types DEF Spent
  <2>. QED BY <1>1, <1>3, <1>4, <2>1, <2>2, <2>3, Types DEF Spent
<1>8. RowsMove
  BY <1>1, <1>2, <1>3, <1>4, <1>6, <1>7, Types, ProofChanges DEF RowsOK
<1>9. request[r].kind = "setup"
  BY <1>1, Types DEF Good, Placed, At
<1>. QED BY <1>1, <1>8, <1>9, Forgets

LEMMA EnableKeeps == ASSUME IInv, NEW r \in Requests, Enable(r) PROVE IInv'
<1>. DEFINE q == request[r]
<1>1. /\ At(r, "enable") /\ Proof(user) = Proof(q.seen) /\ Forget(r, "rotate")
      /\ UNCHANGED <<live, grants, pending, counts>>
  BY DEF Enable, MayEnable, Unchanged
<1>2. Good(q, user, factors, grants, tokens) /\ q \in Held /\ q.at = "enable"
  BY <1>1, Types DEF At
<1>3. q.kind = "verify" /\ user.factor > 0 /\ q.code \subseteq q.seen.backup
  BY <1>1, <1>2, ProofEquality DEF Good, Placed
<1>4. user \in Users /\ Comparable(user) /\ user.backup \subseteq BackupCodes /\ user.factor \in 0..MaxFactor
  BY Types, UsersCompare DEF Users
<1>5. /\ user' \in Users /\ user'.mark = user.mark /\ user'.secret = user.secret
      /\ user'.factor = user.factor /\ user'.enabled = TRUE
      /\ \/ user'.backup = user.backup /\ UNCHANGED codes
         \/ \E b \in user.backup : /\ user'.backup = user.backup \ {b}
                                   /\ Accept(<<"backup", user.factor, b>>)
  <2>1. CASE user' = [user EXCEPT !.enabled = TRUE] /\ UNCHANGED codes
    BY <1>4, <2>1 DEF Users
  <2>2. CASE \E b \in q.code : /\ CodesUnchanged(q)
                               /\ user' = [user EXCEPT !.enabled = TRUE, !.backup = q.seen.backup \ {b}]
                               /\ Accept(<<"backup", user.factor, b>>)
    <3>1. PICK b \in user.backup : /\ user' = [user EXCEPT !.enabled = TRUE, !.backup = user.backup \ {b}]
                                   /\ Accept(<<"backup", user.factor, b>>)
      BY <1>3, <2>2 DEF CodesUnchanged
    <3>2. user.backup \ {b} \in SUBSET BackupCodes
      BY <1>4
    <3>3. /\ user' \in Users /\ user'.mark = user.mark /\ user'.secret = user.secret
          /\ user'.factor = user.factor /\ user'.enabled = TRUE /\ user'.backup = user.backup \ {b}
      BY <1>4, <3>1, <3>2 DEF Users
    <3>. QED BY <3>1, <3>3
  <2>. QED BY <2>1, <2>2 DEF Enable
<1>6. Ages(user, factors, user', factors')
  BY <1>1, <1>4, <1>5, Types DEF Ages, Comparable, counts
<1>7. Spent(user', factors', accepted') /\ again' = {}
  <2>1. CASE user'.backup = user.backup /\ UNCHANGED codes
    BY <1>1, <1>5, <2>1, Types DEF Spent, counts, codes
  <2>2. CASE \E b \in user.backup : /\ user'.backup = user.backup \ {b}
                                    /\ Accept(<<"backup", user.factor, b>>)
    <3>1. PICK b \in user.backup : /\ user'.backup = user.backup \ {b}
                                   /\ Accept(<<"backup", user.factor, b>>)
      BY <2>2
    <3>2. <<"backup", user.factor, b>> \notin accepted
      BY <1>4, <3>1, Types DEF Spent
    <3>3. again' = {}
      BY <3>1, <3>2, Types DEF Accept
    <3>4. \A d \in 1..MaxCounter : <<"totp", d>> \in accepted' => <<"totp", d>> \in accepted
      BY <3>1 DEF Accept
    <3>5. \A n \in 0..MaxFactor, a \in BackupCodes :
             <<"backup", n, a>> \in accepted' =>
                (n = user.factor /\ a = b) \/ <<"backup", n, a>> \in accepted
      BY <3>1 DEF Accept
    <3>6. user.factor \in 1..factors
      BY <1>3, <1>4, Types DEF Spent
    <3>7. /\ \A d \in 1..MaxCounter : <<"totp", d>> \in accepted' => d <= user'.mark
          /\ user'.factor <= factors' /\ user'.factor > 0
      BY <1>1, <1>3, <1>5, <3>4, Types DEF Spent, counts
    <3>8. ASSUME NEW n \in 0..MaxFactor, NEW a \in BackupCodes, <<"backup", n, a>> \in accepted'
          PROVE  n \in 1..factors' /\ (n = user'.factor => a \notin user'.backup)
      <4>1. CASE n = user.factor /\ a = b
        BY <1>1, <3>1, <3>6, <4>1 DEF counts
      <4>2. CASE <<"backup", n, a>> \in accepted
        BY <1>1, <1>5, <3>1, <4>2, Types DEF Spent, counts
      <4>. QED BY <3>5, <3>8, <4>1, <4>2
    <3>. QED BY <3>3, <3>7, <3>8 DEF Spent
  <2>. QED BY <1>5, <2>1, <2>2
<1>8. RowsMove
  <2>1. factors' \in 0..MaxFactor /\ user'.secret > 0 /\ user'.factor > 0
    BY <1>1, <1>3, <1>5, Types DEF RowsOK, counts
  <2>. QED BY <1>1, <1>5, <1>6, <1>7, <2>1, ProofChanges DEF counts
<1>. QED BY <1>1, <1>3, <1>8, Forgets

LEMMA ClearKeeps == ASSUME IInv, NEW r \in Requests, Clear(r) PROVE IInv'
<1>1. /\ At(r, "clear") /\ Forget(r, "rotate")
      /\ user' = [user EXCEPT !.enabled = FALSE, !.factor = 0, !.backup = {}]
      /\ UNCHANGED <<live, grants, pending, counts, codes>>
  BY DEF Clear
<1>2. user \in Users /\ Comparable(user) /\ 0 \in 0..MaxFactor
  BY Types, UsersCompare, Numbers
<1>3. /\ user' \in Users /\ user'.mark = user.mark /\ user'.backup = {}
      /\ user'.secret = user.secret /\ user'.factor = 0 /\ user'.enabled = FALSE
  BY <1>1, <1>2 DEF Users
<1>4. Ages(user, factors, user', factors')
  BY <1>1, <1>2, <1>3, Types DEF Ages, Comparable, counts
<1>5. Spent(user', factors', accepted') /\ again' = {}
  BY <1>1, <1>3, Types DEF Spent, counts, codes
<1>6. RowsMove
  BY <1>1, <1>3, <1>4, <1>5, Types, ProofChanges DEF RowsOK, counts
<1>7. request[r].kind = "disable"
  BY <1>1, Types DEF Good, Placed, At
<1>. QED BY <1>1, <1>6, <1>7, Forgets

LEMMA ChangePasswordKeeps == ASSUME IInv, ChangePassword PROVE IInv'
<1>1. /\ user.secret < MaxSecret /\ user' = [user EXCEPT !.secret = user.secret + 1]
      /\ UNCHANGED <<live, grants, pending, request, counts, codes>>
  BY DEF ChangePassword
<1>2. user \in Users /\ Comparable(user)
  BY Types, UsersCompare
<1>3. user.secret + 1 \in 0..MaxSecret
  BY <1>1, <1>2, Numbers DEF Comparable
<1>4. /\ user' \in Users /\ user'.mark = user.mark /\ user'.backup = user.backup
      /\ user'.secret = user.secret + 1 /\ user'.factor = user.factor /\ user'.enabled = user.enabled
  BY <1>1, <1>2, <1>3 DEF Users
<1>5. Ages(user, factors, user', factors')
  BY <1>1, <1>2, <1>4, Types DEF Ages, Comparable, counts
<1>6. Spent(user', factors', accepted') /\ again' = {}
  BY <1>1, <1>4, Types DEF Spent, counts, codes
<1>7. user'.secret > 0
  BY <1>2, <1>4 DEF Comparable
<1>8. RowsMove
  BY <1>1, <1>4, <1>5, <1>6, <1>7, Types, ProofChanges DEF RowsOK, counts
<1>. QED BY <1>1, <1>8, NobodyMoves

LEMMA RestartKeeps == ASSUME IInv, Restart PROVE IInv'
<1>1. /\ DOMAIN grants' = {} /\ pending' = {}
      /\ request' = [r \in Requests |-> Idle] /\ UNCHANGED <<user, live, counts, codes>>
  BY DEF Restart
<1>2. RowsOK'
  <2>1. RowsOK
    BY Types
  <2>2. Range(grants)' = {}
    BY <1>1 DEF Range
  <2>. QED BY <1>1, <2>1, <2>2, FS_EmptySet DEF RowsOK, counts
<1>3. Granted'
  BY <1>1 DEF Granted
<1>4. Spent(user', factors', accepted') /\ EachCodeOnce'
  BY <1>1, Types DEF counts, codes, EachCodeOnce
<1>5. user' \in Users /\ factors' \in Nat /\ tokens' \in Nat
  BY <1>1, Types DEF counts
<1>6. Requested'
  BY <1>1, <1>5, IdleGood DEF Requested
<1>7. TypeOK'
  BY <1>1, <1>2, IdleTyped DEF RowsOK, TypeOK
<1>. QED BY <1>3, <1>4, <1>6, <1>7 DEF IInv

-----------------------------------------------------------------------------
LEMMA Starts == ASSUME Init PROVE IInv
<1>1. /\ NoUser \in Users /\ 1 \in 0..MaxSecret /\ 1 \in 0..MaxFactor /\ 0 \in 0..MaxFactor
      /\ 1 \in 1..MaxSids /\ 0 \in 0..MaxTokens
  BY IdleTyped, Numbers
<1>2. /\ user \in Users /\ user.secret = 1 /\ (user.enabled => user.factor > 0)
      /\ user.factor \in 0..MaxFactor /\ (user.backup # {} => user.factor > 0)
  <2>1. CASE user = [NoUser EXCEPT !.secret = 1]
    BY <1>1, <2>1, IdleTyped DEF Users
  <2>2. CASE user = [NoUser EXCEPT !.secret = 1, !.enabled = TRUE, !.factor = 1,
                                   !.backup = BackupCodes]
    <3>1. user.secret = 1 /\ user.factor = 1
      BY <1>1, <2>2 DEF Users
    <3>2. user \in Users
      BY <1>1, <2>2 DEF Users
    <3>. QED BY <1>1, <3>1, <3>2
  <2>. QED BY <2>1, <2>2 DEF Init
<1>3. /\ DOMAIN live = {1} /\ live[1] = 1 /\ DOMAIN grants = {} /\ pending = {}
      /\ request = [r \in Requests |-> Idle]
      /\ sids = 1 /\ factors = user.factor /\ tokens = 0 /\ accepted = {} /\ again = {}
  BY DEF Init
<1>4. RowsOK
  <2>1. Range(live) \subseteq 1..user.secret /\ Range(grants) \subseteq Grants
    BY <1>2, <1>3 DEF Range
  <2>. QED BY <1>1, <1>2, <1>3, <2>1, FS_EmptySet DEF RowsOK
<1>5. TypeOK
  BY <1>3, <1>4, IdleTyped DEF RowsOK, TypeOK
<1>6. Requested
  <2>1. factors \in Nat /\ tokens \in Nat
    BY <1>2, <1>3, Numbers
  <2>. QED BY <1>2, <1>3, <2>1, IdleGood DEF Requested
<1>7. Granted /\ EachCodeOnce
  BY <1>3 DEF Granted, EachCodeOnce
<1>8. Spent(user, factors, accepted)
  BY <1>2, <1>3, Numbers DEF Spent
<1>. QED BY <1>5, <1>6, <1>7, <1>8 DEF IInv

LEMMA Keeps == ASSUME IInv, [Next]_vars PROVE IInv'
<1>1. ASSUME NEW r \in Requests, Handle(r) PROVE IInv'
  <2>1. ASSUME NEW kind \in Kinds, NEW s \in DOMAIN live, Begin(r, kind, s) PROVE IInv'
    BY <2>1, BeginKeeps
  <2>2. ASSUME NEW c \in 1..MaxCounter, CheckTotp(r, c) PROVE IInv'
    BY <2>2, CheckTotpKeeps
  <2>3. ASSUME NEW b \in BackupCodes, CheckBackup(r, b) \/ ChooseBackup(r, b) PROVE IInv'
    BY <2>3, CheckBackupKeeps, ChooseBackupKeeps
  <2>4. CASE LogIn(r) \/ Pend(r) \/ LogInTotp(r) \/ Birth(r) \/ Load(r)
    BY <2>4, LogInKeeps, PendKeeps, LogInTotpKeeps, BirthKeeps, LoadKeeps
  <2>5. CASE Consult(r) \/ Take(r) \/ Prepare(r) \/ Enable(r) \/ Clear(r) \/ Rotate(r)
    BY <2>5, ConsultKeeps, TakeKeeps, PrepareKeeps, EnableKeeps, ClearKeeps, RotateKeeps
  <2>6. CASE Reload(r) \/ Issue(r) \/ TearDown(r) \/ Abandon(r)
    BY <2>6, ReloadKeeps, IssueKeeps, TearDownKeeps, AbandonKeeps
  <2>. QED BY <1>1, <2>1, <2>2, <2>3, <2>4, <2>5, <2>6 DEF Handle
<1>2. ASSUME NEW t \in DOMAIN grants, Expire(t) PROVE IInv'
  BY <1>2, ExpireKeeps
<1>3. CASE UNCHANGED vars
  BY <1>3, RowsStay, NobodyMoves DEF vars
<1>. QED BY <1>1, <1>2, <1>3, ChangePasswordKeeps, RestartKeeps DEF Next

\* The invariant behind the theorems.
THEOREM Invariance == Spec => []IInv
<1>1. Init => IInv BY Starts
<1>2. IInv /\ [Next]_vars => IInv' BY Keeps
<1>. QED BY <1>1, <1>2, PTL DEF Spec

\* The types of the row, the grants and the requests (TypeOK of SecondFactor).
THEOREM TypesHold == Spec => []TypeOK
<1>1. IInv => TypeOK BY DEF IInv
<1>. QED BY <1>1, Invariance, PTL

\* No TOTP time step and no backup code is accepted twice (advance_totp_for_unchanged_user
\* and the updates that spend a backup code), however many requests present it at once.
THEOREM CodesHold == Spec => []EachCodeOnce
<1>1. IInv => EachCodeOnce BY DEF IInv
<1>. QED BY <1>1, Invariance, PTL

\* While two-factor login is on, a usable grant was issued with the second factor
\* (fresh_auth::issue), whenever it was switched on.
THEOREM FreshnessHolds == Spec => []FreshMeansBothFactors
<1>1. ASSUME IInv PROVE FreshMeansBothFactors
  <2>1. ASSUME NEW t \in DOMAIN grants, user.enabled,
               Usable(t, grants[t].sid, "action", Proof(user))
        PROVE  grants[t].both
    <3>1. grants[t].purpose = "action" /\ grants[t].proof.enabled
      BY <2>1, ProofFields DEF Usable, Matches
    <3>. QED BY <1>1, <3>1, Types DEF Granted, GrantOK
  <2>. QED BY <2>1 DEF FreshMeansBothFactors
<1>. QED BY <1>1, Invariance, PTL

\* The three updates of the factor are the only steps that change what is enabled.
LEMMA OnlyThese ==
    ASSUME Next, user'.enabled # user.enabled \/ user'.factor # user.factor, IInv
    PROVE  \E r \in Requests : Prepare(r) \/ Enable(r) \/ Clear(r)
<1>1. user' # user
  OBVIOUS
<1>2. user \in Users
  BY Types
<1>3. ASSUME NEW r \in Requests, Handle(r) PROVE Prepare(r) \/ Enable(r) \/ Clear(r)
  <2>1. ~\E kind \in Kinds, s \in DOMAIN live : Begin(r, kind, s)
    BY <1>1 DEF Begin
  <2>2. ~\E c \in 1..MaxCounter : CheckTotp(r, c)
    BY <1>2 DEF CheckTotp, Users
  <2>3. ~\E b \in BackupCodes : CheckBackup(r, b) \/ ChooseBackup(r, b)
    BY <1>1, <1>2 DEF CheckBackup, ChooseBackup, Users
  <2>4. ~(LogIn(r) \/ Pend(r) \/ LogInTotp(r) \/ Birth(r) \/ Load(r) \/ Consult(r) \/ Take(r))
    BY <1>1 DEF LogIn, Pend, LogInTotp, Birth, Load, Consult, Take
  <2>5. ~(Rotate(r) \/ Reload(r) \/ Issue(r) \/ TearDown(r) \/ Abandon(r))
    BY <1>1 DEF Rotate, Reload, Issue, TearDown, Abandon
  <2>. QED BY <1>3, <2>1, <2>2, <2>3, <2>4, <2>5 DEF Handle
<1>4. ~ChangePassword
  BY <1>2 DEF ChangePassword, Users
<1>5. ~Restart /\ ~\E t \in DOMAIN grants : Expire(t)
  BY <1>1 DEF Restart, Expire
<1>. QED BY <1>3, <1>4, <1>5 DEF Next

\* Two-factor login is set up, switched on or off only with a grant for the row as it is
\* then, and switched off only with a code (the filters of twofa_setup, twofa_verify and
\* twofa_disable): although the row's proof may return to an earlier value in between.
THEOREM TrustHolds == Spec => TrustChangesProven
<1>1. ASSUME IInv, Next, user'.enabled # user.enabled \/ user'.factor # user.factor
      PROVE  \E r \in Requests : /\ request'[r] # request[r]
                                 /\ request[r].spent = Proof(user)
                                 /\ user.enabled => request[r].both
  <2>1. PICK r \in Requests : Prepare(r) \/ Enable(r) \/ Clear(r)
    BY <1>1, OnlyThese
  <2>. DEFINE q == request[r]
  <2>2. Good(q, user, factors, grants, tokens) /\ q \in Held /\ q.seen \in Users /\ user \in Users
    BY <1>1, Types DEF Held
  <2>3. Proof(user) = Proof(q.seen) /\ q.at \in {"prepare", "enable", "clear"}
    BY <2>1 DEF Prepare, Enable, Clear, MayEnable, MayClear, Unchanged, At
  <2>4. user.enabled = q.seen.enabled /\ user.factor = q.seen.factor
    BY <2>3, ProofEquality
  <2>5. request'[r].at \in {"reload", "rotate"}
    <3>1. request \in [Requests -> Held]
      BY <1>1, Types
    <3>2. \E place \in {"reload", "rotate"} : Forget(r, place)
      BY <2>1 DEF Prepare, Enable, Clear
    <3>. QED BY <2>2, <3>1, <3>2 DEF Forget, Step, Held
  <2>6. ~(q.kind = "verify" /\ q.seen.enabled)
    <3>1. ASSUME q.kind = "verify", q.seen.enabled PROVE FALSE
      <4>1. Enable(r)
        BY <2>1, <2>2, <3>1 DEF Good, Placed, Prepare, Clear, At
      <4>2. user'.enabled = TRUE /\ user'.factor = user.factor
        BY <2>2, <4>1 DEF Enable, Users
      <4>. QED BY <1>1, <2>4, <3>1, <4>2
    <3>. QED BY <3>1
  <2>7. q.spent = Proof(user)
    BY <2>2, <2>3, <2>6, CurrentNotGone DEF Good, Settled
  <2>8. user.enabled => q.both
    <3>1. CASE q.at = "prepare"
      BY <2>1, <2>4, <3>1 DEF Prepare, Enable, Clear, At
    <3>2. CASE q.at = "enable"
      BY <2>2, <2>4, <2>6, <3>2 DEF Good, Placed
    <3>3. CASE q.at = "clear"
      BY <2>2, <2>4, <3>3 DEF Good, Placed
    <3>. QED BY <2>3, <3>1, <3>2, <3>3
  <2>. QED BY <2>3, <2>5, <2>7, <2>8
<1>. DEFINE A == [user'.enabled # user.enabled \/ user'.factor # user.factor =>
                     \E r \in Requests : /\ request'[r] # request[r]
                                         /\ request[r].spent = Proof(user)
                                         /\ user.enabled => request[r].both]_vars
<1>2. IInv /\ [Next]_vars => A
  BY <1>1
<1>. QED BY <1>2, Invariance, PTL DEF Spec, TrustChangesProven

\* A half-finished login becomes a session only under the password and the factor it
\* began with (PendingGrant::matches_user and the update that spends its code).
THEOREM HalfLoginsHold == Spec => HalfLoginDies
<1>1. ASSUME IInv, Next, NEW r \in Requests, request[r].kind = "totp", request'[r].at = "birth"
      PROVE  request[r].owner = Proof(user) \/ request'[r] = request[r]
  <2>. DEFINE q == request[r]
  <2>1. Good(q, user, factors, grants, tokens) /\ q \in Held /\ request \in [Requests -> Held]
    BY <1>1, Types
  <2>2. \A s \in Requests : \A p : s # r /\ Step(s, p) => request'[r] = request[r]
    BY <2>1 DEF Step
  <2>3. \A p : Step(r, p) => request'[r] = p
    BY <2>1 DEF Step
  <2>4. Idle.at # "birth" /\ q.at # "idle"
    BY <1>1, <2>1, IdleTyped DEF Good, Placed
  <2>5. ASSUME NEW s \in Requests, Handle(s), s # r PROVE request'[r] = request[r]
    BY <2>2, <2>5 DEF Handle, LogIn, Pend, LogInTotp, Birth, Begin, Load, CheckTotp, CheckBackup,
                      ChooseBackup, Consult, Take, Prepare, Enable, Clear, Rotate, Reload, Issue,
                      TearDown, Abandon, Forget
  <2>6. ASSUME Handle(r) PROVE q.owner = Proof(user)
    <3>1. CASE \E c \in 1..MaxCounter : CheckTotp(r, c)
      BY <1>1, <2>1, <3>1 DEF CheckTotp, Unchanged, Good, Placed, At
    <3>2. ~(LogIn(r) \/ Pend(r) \/ LogInTotp(r) \/ Issue(r) \/ TearDown(r) \/ Rotate(r) \/ Abandon(r))
      BY <1>1, <2>3, <2>4 DEF LogIn, Pend, LogInTotp, Issue, TearDown, Rotate, Abandon, At
    <3>3. ~\E kind \in Kinds, s \in DOMAIN live : Begin(r, kind, s)
      BY <2>4 DEF Begin, At
    <3>4. ~\E b \in BackupCodes : CheckBackup(r, b) \/ ChooseBackup(r, b)
      BY <1>1 DEF CheckBackup, ChooseBackup, Is
    <3>5. ~(Consult(r) \/ Take(r) \/ Prepare(r) \/ Enable(r) \/ Clear(r))
      BY <1>1, <2>1 DEF Consult, Take, Prepare, Enable, Clear, At, Good, Placed
    <3>6. ~(Birth(r) \/ Reload(r))
      BY <1>1, <2>1, <2>3 DEF Birth, Reload, Held
    <3>7. ~Load(r)
      BY <1>1, <2>1, <2>3 DEF Load, Held
    <3>. QED BY <2>6, <3>1, <3>2, <3>3, <3>4, <3>5, <3>6, <3>7 DEF Handle
  <2>7. ASSUME UNCHANGED request PROVE request'[r] = request[r]
    BY <2>7
  <2>8. ~Restart
    BY <1>1, <2>4 DEF Restart
  <2>. QED BY <1>1, <2>5, <2>6, <2>7, <2>8 DEF Next, Expire, ChangePassword
<1>. DEFINE A == [\A r \in Requests :
                     request[r].kind = "totp" /\ request'[r].at = "birth" =>
                        request[r].owner = Proof(user) \/ request'[r] = request[r]]_vars
<1>2. IInv /\ [Next]_vars => A
  BY <1>1
<1>. QED BY <1>2, Invariance, PTL DEF Spec, HalfLoginDies
=============================================================================
