------------------------------ MODULE Recovery ------------------------------
(***************************************************************************)
(* Password reset and email verification of one user                       *)
(* (forgot_password_v1, email_verification_v1 and their tables).           *)
(*                                                                         *)
(* Each kind of code has one row in its table.  A verification code is     *)
(* mailed to the stored address; a reset code to the address as the        *)
(* request has spelled it, which need not be the stored form.  A reset     *)
(* code is exchanged for a token, kept in memory with the                  *)
(* session_auth_secret of the user at that moment; the token is taken out  *)
(* to reset the password and put back only when the server was too busy to *)
(* hash the new one.  Between the awaits of a request other requests run:  *)
(* codes are replaced, the email or the password change.                   *)
(*                                                                         *)
(* A database transaction of these handlers is one step: SQLite lets none  *)
(* commit that has read what another one wrote since.  A request may end   *)
(* at any await: refused, failed or left by the client (Abandon).          *)
(***************************************************************************)
EXTENDS Naturals, Sequences, Functions

CONSTANTS Requests,   \* requests that may be under way at once
          Emails,     \* addresses in their stored form
          Spellings,  \* addresses as a request may give them
          Normal,     \* spelling -> stored form: normalize_email
          NoEmail,
          MaxCodes,   \* bound on the codes mailed
          MaxTokens,  \* bound on the reset tokens
          MaxSecret   \* bound on the changes of the secret

ASSUME RecoveryAssumption ==
    /\ Emails \subseteq Spellings /\ NoEmail \notin Spellings
    /\ Normal \in [Spellings -> Emails] /\ \A e \in Emails : Normal[e] = e
    /\ {MaxCodes, MaxTokens, MaxSecret} \subseteq Nat \ {0}

VARIABLES
    user,        \* email, secret, verified (durable)
    code,        \* kind -> the code in its table, 0: none (durable)
    mail,        \* the addresses mailed to; a code is its place in it
    grants,      \* token -> the secret and the code it stands for, in memory
    generation,  \* the newest token, 0: none, in memory
    request,
    tokens,      \* tokens minted so far
    spent        \* tokens that have reset the password; for the properties

vars == <<user, code, mail, grants, generation, request, tokens, spent>>

Kinds == {"reset", "verify"}
Empty == [t \in {} |-> t]

\* A request that names an address, and one that holds a state of the account.
Naming(place, kind, email, c) ==
    [at |-> place, kind |-> kind, email |-> email, code |-> c, token |-> 0, secret |-> 0]
Holding(place, c, t, secret) ==
    [at |-> place, kind |-> "reset", email |-> NoEmail, code |-> c, token |-> t,
     secret |-> secret]
Idle == Naming("idle", "none", NoEmail, 0)

Init == /\ user \in {[email |-> e, secret |-> 1, verified |-> FALSE] : e \in Emails}
        /\ code = [reset |-> 0, verify |-> 1]
        /\ mail = <<user.email>>
        /\ grants = Empty /\ generation = 0
        /\ request = [r \in Requests |-> Idle]
        /\ tokens = 0 /\ spent = {}

At(r, place) == request[r].at = place
Step(r, q)   == request' = [request EXCEPT ![r] = q]
Add(f, x, y) == [z \in DOMAIN f \cup {x} |-> IF z = x THEN y ELSE f[z]]
Codes == DOMAIN mail

-----------------------------------------------------------------------------
(* Codes. *)

\* forgot_password generate finds the account by the normal form of what was typed ...
RequestReset(r, s) ==
    /\ At(r, "idle")
    /\ Normal[s] = user.email
    /\ Step(r, Naming("store", "reset", s, 0))
    /\ UNCHANGED <<user, code, mail, grants, generation, tokens, spent>>

\* ... email_verification resend loads the user of its session.
RequestVerify(r) ==
    /\ At(r, "idle")
    /\ Step(r, Naming("store", "verify", user.email, 0))
    /\ UNCHANGED <<user, code, mail, grants, generation, tokens, spent>>

\* Faulty: the code is stored although the email has changed since.
AnyEmail(e) == TRUE

SameEmail(e) == user.email = Normal[e]

\* regenerate_for_email replaces the code; it goes to the address as the request has it.
Store(r) ==
    LET q == request[r]
    IN  /\ At(r, "store")
        /\ SameEmail(q.email)
        /\ Len(mail) < MaxCodes
        /\ mail' = Append(mail, q.email)
        /\ code' = [code EXCEPT ![q.kind] = Len(mail')]
        /\ Step(r, Idle)
        /\ UNCHANGED <<user, grants, generation, tokens, spent>>

\* email_verification verify loads its user with the session ...
Present(r, c) ==
    /\ At(r, "idle")
    /\ Step(r, Naming("check", "verify", user.email, c))
    /\ UNCHANGED <<user, code, mail, grants, generation, tokens, spent>>

\* ... and verify_code spends the code, for that address only.
VerifyEmail(r) ==
    /\ At(r, "check")
    /\ code.verify = request[r].code
    /\ SameEmail(request[r].email)
    /\ code' = [code EXCEPT !.verify = 0]
    /\ user' = [user EXCEPT !.verified = TRUE]
    /\ Step(r, Idle)
    /\ UNCHANGED <<mail, grants, generation, tokens, spent>>

-----------------------------------------------------------------------------
(* Reset tokens. *)

\* forgot_password verify: the code goes, the account as it is now is remembered ...
VerifyReset(r, c) ==
    /\ At(r, "idle")
    /\ code.reset = c
    /\ code' = [code EXCEPT !.reset = 0]
    /\ Step(r, Holding("mint", c, 0, user.secret))
    /\ UNCHANGED <<user, mail, grants, generation, tokens, spent>>

\* Faulty: the earlier tokens of the user stay.
Besides(t, g) == Add(grants, t, g)

\* TokenMap::mint
Instead(t, g) == [u \in {t} |-> g]

\* ... and its token replaces the earlier ones.
Mint(r) ==
    LET q == request[r]
        t == tokens + 1
    IN  /\ At(r, "mint")
        /\ t <= MaxTokens
        /\ tokens' = t /\ generation' = t
        /\ grants' = Instead(t, [secret |-> q.secret, code |-> q.code])
        /\ Step(r, Idle)
        /\ UNCHANGED <<user, code, mail, spent>>

\* TokenMap::take
Take(r, t) ==
    /\ At(r, "idle")
    /\ grants' = Restrict(grants, DOMAIN grants \ {t})
    /\ Step(r, Holding("reset", grants[t].code, t, grants[t].secret))
    /\ UNCHANGED <<user, code, mail, generation, tokens, spent>>

\* Faulty: the token resets whatever password there is by now.
Unbound(q) == TRUE

Bound(q) == q.secret = user.secret

\* forgot_password reset: codes go, the password and with it the secret changes.
Reset(r) ==
    LET q == request[r]
    IN  /\ At(r, "reset")
        /\ Bound(q)
        /\ user.secret < MaxSecret
        /\ user' = [user EXCEPT !.secret = @ + 1]
        /\ code' = [code EXCEPT !.reset = 0]
        /\ spent' = spent \cup {q.token}
        /\ Step(r, Idle)
        /\ UNCHANGED <<mail, grants, generation, tokens>>

\* The hash of the new password finds the server too busy: the transaction is undone ...
Busy(r) ==
    LET q == request[r]
    IN  /\ At(r, "reset")
        /\ Bound(q)
        /\ Step(r, Holding("restore", q.code, q.token, q.secret))
        /\ UNCHANGED <<user, code, mail, grants, generation, tokens, spent>>

\* Faulty: a token comes back although a newer one was minted.
Always(q) == TRUE

Newest(q) == generation = q.token

\* ... and restore_after_rejection puts the token back.
Restore(r) ==
    LET q == request[r]
    IN  /\ At(r, "restore")
        /\ grants' = IF Newest(q)
                     THEN Add(grants, q.token, [secret |-> q.secret, code |-> q.code])
                     ELSE grants
        /\ Step(r, Idle)
        /\ UNCHANGED <<user, code, mail, generation, tokens, spent>>

-----------------------------------------------------------------------------
\* Faulty: the codes of the old address stay valid.
KeptCodes == code

NoCodes == [k \in Kinds |-> 0]

\* User::update with another email: both kinds of codes go, the secret rotates.
ChangeEmail(e) ==
    /\ e # user.email
    /\ user.secret < MaxSecret
    /\ user' = [email |-> e, secret |-> user.secret + 1, verified |-> FALSE]
    /\ code' = NoCodes
    /\ UNCHANGED <<mail, grants, generation, request, tokens, spent>>

ChangePassword ==
    /\ user.secret < MaxSecret
    /\ user' = [user EXCEPT !.secret = @ + 1]
    /\ UNCHANGED <<code, mail, grants, generation, request, tokens, spent>>

\* A code runs out after three hours, or an admin deletes it.
ExpireCode(kind) ==
    /\ code[kind] # 0
    /\ code' = [code EXCEPT ![kind] = 0]
    /\ UNCHANGED <<user, mail, grants, generation, request, tokens, spent>>

\* reap_stale drops a token and its generation after ten minutes.
ExpireToken ==
    /\ generation # 0
    /\ grants' = Empty /\ generation' = 0
    /\ UNCHANGED <<user, code, mail, request, tokens, spent>>

Restart ==
    /\ grants' = Empty /\ generation' = 0
    /\ request' = [r \in Requests |-> Idle]
    /\ UNCHANGED <<user, code, mail, tokens, spent>>

Abandon(r) ==
    /\ ~At(r, "idle")
    /\ Step(r, Idle)
    /\ UNCHANGED <<user, code, mail, grants, generation, tokens, spent>>

Handle(r) ==
    \/ \E s \in Spellings : RequestReset(r, s)
    \/ RequestVerify(r) \/ Store(r)
    \/ \E c \in Codes : Present(r, c) \/ VerifyReset(r, c)
    \/ VerifyEmail(r) \/ Mint(r)
    \/ \E t \in DOMAIN grants : Take(r, t)
    \/ Reset(r) \/ Busy(r) \/ Restore(r) \/ Abandon(r)

Next == \/ \E r \in Requests : Handle(r)
        \/ \E e \in Emails : ChangeEmail(e)
        \/ \E k \in Kinds : ExpireCode(k)
        \/ ChangePassword \/ ExpireToken \/ Restart

Spec == Init /\ [][Next]_vars
-----------------------------------------------------------------------------
(* Properties. *)

Grant == [secret : 1..user.secret, code : Codes]
Held  == [at : {"idle", "store", "check", "mint", "reset", "restore"},
          kind : Kinds \cup {"none"}, email : Spellings \cup {NoEmail}, code : 0..MaxCodes, token : 0..MaxTokens,
          secret : 0..MaxSecret]

HasToken(r) == At(r, "reset") \/ At(r, "restore")

\* Type invariant.  The token in memory, at most one, is that of the generation, and
\* nobody holds a token that is there too.
TypeOK == /\ user \in [email : Emails, secret : 1..MaxSecret, verified : BOOLEAN]
          /\ mail \in Seq(Spellings) /\ Len(mail) <= MaxCodes
          /\ code \in [Kinds -> {0} \cup Codes]
          /\ tokens \in 0..MaxTokens /\ spent \subseteq 1..tokens /\ generation \in 0..tokens
          /\ DOMAIN grants \subseteq {generation} \cap 1..tokens
          /\ Range(grants) \subseteq Grant
          /\ request \in [Requests -> Held]
          /\ \A r \in Requests :
                /\ HasToken(r) => request[r].token \in 1..tokens \ DOMAIN grants
                /\ At(r, "check") \/ At(r, "mint") \/ HasToken(r) => request[r].code \in Codes
                /\ At(r, "store") => request[r].email \in Spellings

\* An address is verified by a code that went to it ("Email address changed; request a
\* new verification code", verify_code), however resends, verifications and changes of
\* the address overlap.
VerifiedByItsOwner ==
    [][user'.verified /\ ~user.verified => mail[code.verify] = user.email]_vars

\* A password is reset with a code that went to an address which names the account at
\* that moment ("Account email changed; request a new reset code",
\* regenerate_for_email).  Which spelling of it, the request has chosen.
ResetByItsOwner ==
    [][\A r \in Requests :
          At(r, "reset") /\ spent' # spent /\ request'[r] # request[r] =>
             Normal[mail[request[r].code]] = user.email]_vars

\* Does not hold.  "The stored form is what mail is delivered to" (normalize_email), but
\* a reset code goes to the spelling of the request (forgot_password_v1 generate).
MailedToStoredForm == Range(mail) \subseteq Emails

\* The reset tokens implement OneTimeToken.
Taken == {request[r].token : r \in {s \in Requests : HasToken(s) /\ Bound(request[s])}}
Free  == {t \in DOMAIN grants : grants[t].secret = user.secret}
Tokens == INSTANCE OneTimeToken WITH minted <- tokens, good <- Free \cup Taken,
                                     taken <- Taken, spent <- spent
ImplementsOneTimeToken == Tokens!Spec
=============================================================================
