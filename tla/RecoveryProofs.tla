--------------------------- MODULE RecoveryProofs ---------------------------
(* Proofs about Recovery. *)
EXTENDS Recovery, TLAPS

\* What the handlers keep, beside the types: secrets only grow, the generation is that
\* of the last token, and no two resets hold one token.
Holder(r) == At(r, "mint") \/ HasToken(r)
Orderly ==
    /\ \A r \in Requests : Holder(r) => request[r].secret \in 1..user.secret
    /\ generation \in {0, tokens}
    /\ \A r, s \in Requests :
          HasToken(r) /\ HasToken(s) /\ request[r].token = request[s].token => r = s

\* A code in its table went to an address that names the account of now, a verification
\* code to the stored one, and so did the one behind whatever holds the secret of now.
Addressed ==
    /\ \A k \in Kinds : code[k] # 0 => Normal[mail[code[k]]] = user.email
    /\ code.verify # 0 => mail[code.verify] = user.email
    /\ \A t \in DOMAIN grants :
          grants[t].secret = user.secret => Normal[mail[grants[t].code]] = user.email
    /\ \A r \in Requests :
          Holder(r) /\ request[r].secret = user.secret =>
             Normal[mail[request[r].code]] = user.email

\* A verification code is on its way to an address in its stored form.
Stored == \A r \in Requests :
             At(r, "store") /\ request[r].kind = "verify" => request[r].email \in Emails

IInv == TypeOK /\ Orderly /\ Addressed /\ Stored

LEMMA IdleHeld == Idle \in Held /\ Idle.at = "idle"
BY RecoveryAssumption DEF Idle, Naming, Held, Kinds

LEMMA InitIInv == Init => IInv
<1>. SUFFICES ASSUME Init PROVE IInv
  OBVIOUS
<1>. USE RecoveryAssumption DEF Init
<1>1. PICK e \in Emails : user = [email |-> e, secret |-> 1, verified |-> FALSE]
  OBVIOUS
<1>2. mail = <<e>> /\ user.email = e /\ user.secret = 1 /\ Normal[e] = e
  BY <1>1
<1>3. mail \in Seq(Spellings) /\ Len(mail) = 1 /\ mail[1] = e /\ DOMAIN mail = 1..1
  BY <1>2
<1>4. DOMAIN grants = {} /\ Range(grants) = {}
  BY DEF Empty, Range
<1>5. \A r \in Requests : request[r] = Idle
  OBVIOUS
<1>6. code \in [Kinds -> {0} \cup Codes] /\ \A k \in Kinds : code[k] \in {0, 1}
  BY <1>3 DEF Kinds, Codes
<1>7. TypeOK
  <2>1. user \in [email : Emails, secret : 1..MaxSecret, verified : BOOLEAN]
    BY <1>1
  <2>2. request \in [Requests -> Held]
    BY IdleHeld
  <2>. QED BY <2>1, <2>2, <1>3, <1>4, <1>5, <1>6, IdleHeld DEF TypeOK, HasToken, At
<1>8. Orderly
  BY <1>5, IdleHeld DEF Orderly, Holder, HasToken, At
<1>9. Addressed
  BY <1>2, <1>3, <1>4, <1>5, <1>6, IdleHeld DEF Addressed, Holder, HasToken, At, Kinds
<1>10. Stored
  BY <1>5, IdleHeld DEF Stored, At
<1>. QED BY <1>7, <1>8, <1>9, <1>10 DEF IInv

\* One request goes on to q, the others stay where they are.
LEMMA Stepped ==
    ASSUME TypeOK, NEW r \in Requests, NEW q \in Held, Step(r, q)
    PROVE  /\ request' \in [Requests -> Held]
           /\ request'[r] = q
           /\ \A s \in Requests \ {r} : request'[s] = request[s]
BY DEF TypeOK, Step

\* A request that comes to name an address holds nothing.
LEMMA NamingKeeps ==
    ASSUME IInv, NEW r \in Requests, NEW q \in Held, Step(r, q),
           q.at \in {"idle", "store", "check"}, q.at = "check" => q.code \in Codes,
           q.at = "store" => q.email \in Spellings,
           q.at = "store" /\ q.kind = "verify" => q.email \in Emails,
           UNCHANGED <<user, code, mail, grants, generation, tokens, spent>>
    PROVE  IInv'
<1>1. /\ request' \in [Requests -> Held]
      /\ request'[r] = q
      /\ \A s \in Requests \ {r} : request'[s] = request[s]
  BY Stepped DEF IInv
<1>. USE <1>1 DEF IInv
<1>2. TypeOK'
  BY DEF TypeOK, HasToken, At, Codes, Grant
<1>3. Orderly'
  BY DEF Orderly, Holder, HasToken, At
<1>4. Addressed'
  BY DEF Addressed, Holder, HasToken, At
<1>5. Stored'
  BY DEF Stored, At
<1>. QED BY <1>2, <1>3, <1>4, <1>5

LEMMA RequestKeeps ==
    ASSUME IInv, NEW r \in Requests,
           RequestVerify(r) \/ \E s \in Spellings : RequestReset(r, s)
    PROVE  IInv'
<1>1. user.email \in Emails /\ Emails \subseteq Spellings
  BY RecoveryAssumption DEF IInv, TypeOK
<1>2. ASSUME NEW s \in Spellings, RequestReset(r, s) PROVE IInv'
  <2>. DEFINE q == Naming("store", "reset", s, 0)
  <2>1. q \in Held /\ q.at = "store" /\ q.email = s /\ q.kind = "reset"
    BY RecoveryAssumption DEF Naming, Held, Kinds
  <2>. QED BY <1>2, <2>1, NamingKeeps DEF RequestReset
<1>3. CASE RequestVerify(r)
  <2>. DEFINE q == Naming("store", "verify", user.email, 0)
  <2>1. q \in Held /\ q.at = "store" /\ q.email = user.email
    BY <1>1, RecoveryAssumption DEF Naming, Held, Kinds
  <2>. QED BY <1>1, <1>3, <2>1, NamingKeeps DEF RequestVerify
<1>. QED BY <1>2, <1>3

LEMMA PresentKeeps ==
    ASSUME IInv, NEW r \in Requests, NEW c \in Codes, Present(r, c)
    PROVE  IInv'
<1>. DEFINE q == Naming("check", "verify", user.email, c)
<1>1. user.email \in Spellings /\ c \in 0..MaxCodes
  BY RecoveryAssumption DEF IInv, TypeOK, Codes
<1>2. q \in Held /\ q.at = "check" /\ q.code = c
  BY <1>1, RecoveryAssumption DEF Naming, Held, Kinds
<1>. QED BY <1>2, NamingKeeps DEF Present

LEMMA AbandonKeeps ==
    ASSUME IInv, NEW r \in Requests, Abandon(r)
    PROVE  IInv'
BY IdleHeld, NamingKeeps DEF Abandon

LEMMA StoreKeeps ==
    ASSUME IInv, NEW r \in Requests, Store(r)
    PROVE  IInv'
<1>1. /\ request' \in [Requests -> Held]
      /\ request'[r] = Idle
      /\ \A s \in Requests \ {r} : request'[s] = request[s]
  BY Stepped, IdleHeld DEF IInv, Store
<1>2. /\ request[r].email \in Spellings /\ Normal[request[r].email] = user.email
      /\ request[r].kind = "verify" => request[r].email = user.email
  BY RecoveryAssumption DEF IInv, TypeOK, Stored, At, Store, SameEmail
<1>3. /\ mail' \in Seq(Spellings) /\ Len(mail') = Len(mail) + 1 /\ Len(mail') <= MaxCodes
      /\ Normal[mail'[Len(mail')]] = user.email
      /\ request[r].kind = "verify" => mail'[Len(mail')] = user.email
      /\ \A c \in Codes : c \in Codes' /\ mail'[c] = mail[c]
      /\ Len(mail') \in Codes'
  BY <1>2, RecoveryAssumption DEF IInv, TypeOK, Store, Codes
<1>4. /\ code' \in [Kinds -> {0} \cup Codes']
      /\ \A k \in Kinds : code'[k] \in {code[k], Len(mail')}
      /\ code'.verify # code.verify => request[r].kind = "verify" /\ code'.verify = Len(mail')
  BY <1>3 DEF IInv, TypeOK, Store, Kinds
<1>. USE <1>1, IdleHeld DEF IInv, Store
<1>5. TypeOK'
  BY <1>3, <1>4 DEF TypeOK, HasToken, At, Grant
<1>6. Orderly'
  BY DEF Orderly, Holder, HasToken, At
<1>7. Addressed'
  <2>1. \A k \in Kinds : code'[k] # 0 => Normal[mail'[code'[k]]] = user.email
    BY <1>3, <1>4 DEF Addressed, TypeOK
  <2>2. \A t \in DOMAIN grants : grants[t].code \in Codes
    BY DEF TypeOK, Range, Grant
  <2>3. \A s \in Requests : Holder(s) => request[s].code \in Codes
    BY DEF TypeOK, Holder
  <2>4. \A t \in DOMAIN grants :
           grants[t].secret = user.secret => Normal[mail'[grants[t].code]] = user.email
    BY <2>2, <1>3 DEF Addressed
  <2>5. \A s \in Requests : Holder(s)' => Holder(s) /\ request'[s] = request[s]
    BY DEF Holder, HasToken, At
  <2>6. \A s \in Requests :
           Holder(s)' /\ request'[s].secret = user.secret =>
              Normal[mail'[request'[s].code]] = user.email
    <3>. SUFFICES ASSUME NEW s \in Requests, Holder(s)', request'[s].secret = user.secret
                  PROVE  Normal[mail'[request'[s].code]] = user.email
      OBVIOUS
    <3>1. Holder(s) /\ request'[s] = request[s] /\ request[s].code \in Codes
      BY <2>3, <2>5
    <3>2. Normal[mail[request[s].code]] = user.email
      BY <3>1 DEF Addressed
    <3>3. mail'[request[s].code] = mail[request[s].code]
      BY <1>3, <3>1
    <3>. QED BY <3>1, <3>2, <3>3
  <2>7. code'.verify # 0 => mail'[code'.verify] = user.email
    BY <1>3, <1>4 DEF Addressed, TypeOK, Kinds
  <2>. QED BY <2>1, <2>4, <2>6, <2>7 DEF Addressed
<1>8. Stored'
  BY DEF Stored, At
<1>. QED BY <1>5, <1>6, <1>7, <1>8

LEMMA VerifyEmailKeeps ==
    ASSUME IInv, NEW r \in Requests, VerifyEmail(r)
    PROVE  IInv'
<1>1. /\ request' \in [Requests -> Held]
      /\ request'[r] = Idle
      /\ \A s \in Requests \ {r} : request'[s] = request[s]
  BY Stepped, IdleHeld DEF IInv, VerifyEmail
<1>2. /\ user'.email = user.email /\ user'.secret = user.secret
      /\ user' \in [email : Emails, secret : 1..MaxSecret, verified : BOOLEAN]
  BY DEF IInv, TypeOK, VerifyEmail
<1>3. code' \in [Kinds -> {0} \cup Codes] /\ \A k \in Kinds : code'[k] \in {0, code[k]}
  BY DEF IInv, TypeOK, VerifyEmail
<1>. USE <1>1, <1>2, <1>3, IdleHeld DEF IInv, VerifyEmail
<1>4. TypeOK'
  BY DEF TypeOK, HasToken, At, Codes, Grant
<1>5. Orderly'
  BY DEF Orderly, Holder, HasToken, At
<1>6. Addressed'
  BY DEF Addressed, Holder, HasToken, At, Kinds
<1>7. Stored'
  BY DEF Stored, At
<1>. QED BY <1>4, <1>5, <1>6, <1>7

LEMMA VerifyResetKeeps ==
    ASSUME IInv, NEW r \in Requests, NEW c \in Codes, VerifyReset(r, c)
    PROVE  IInv'
<1>. DEFINE q == Holding("mint", c, 0, user.secret)
<1>1. user.secret \in 1..MaxSecret /\ c \in 0..MaxCodes /\ c # 0 /\ c \in Codes
  BY RecoveryAssumption DEF IInv, TypeOK, Codes
<1>2. q \in Held /\ q.at = "mint" /\ q.code = c /\ q.secret = user.secret
  BY <1>1, RecoveryAssumption DEF Holding, Held, Kinds
<1>3. Normal[mail[c]] = user.email
  BY <1>1 DEF IInv, Addressed, VerifyReset, Kinds
<1>4. Step(r, q)
  BY DEF VerifyReset
<1>. HIDE DEF q
<1>5. /\ request' \in [Requests -> Held]
      /\ request'[r] = q
      /\ \A s \in Requests \ {r} : request'[s] = request[s]
  BY <1>2, <1>4, Stepped DEF IInv
<1>6. code' \in [Kinds -> {0} \cup Codes] /\ \A k \in Kinds : code'[k] \in {0, code[k]}
  BY DEF IInv, TypeOK, VerifyReset
<1>. USE <1>2, <1>5, <1>6 DEF IInv, VerifyReset
<1>7. TypeOK'
  BY <1>1 DEF TypeOK, HasToken, At, Codes, Grant
<1>8. Orderly'
  BY <1>1 DEF Orderly, Holder, HasToken, At
<1>9. Addressed'
  BY <1>3 DEF Addressed, Holder, HasToken, At, Kinds
<1>10. Stored'
  BY DEF Stored, At
<1>. QED BY <1>7, <1>8, <1>9, <1>10

LEMMA MintKeeps ==
    ASSUME IInv, NEW r \in Requests, Mint(r)
    PROVE  IInv'
<1>. DEFINE q == request[r]
            t == tokens + 1
            g == [secret |-> q.secret, code |-> q.code]
<1>1. /\ request' \in [Requests -> Held]
      /\ request'[r] = Idle
      /\ \A s \in Requests \ {r} : request'[s] = request[s]
  BY Stepped, IdleHeld DEF IInv, Mint
<1>2. q.code \in Codes /\ q.secret \in 1..user.secret
  BY DEF IInv, TypeOK, Orderly, Holder, HasToken, At, Mint
<1>3. DOMAIN grants' = {t} /\ grants'[t] = g
  BY DEF Mint, Instead
<1>4. g \in Grant /\ Range(grants') \subseteq Grant
  BY <1>2, <1>3 DEF Grant, Range
<1>5. tokens' = t /\ generation' = t /\ t \in 1..MaxTokens
  BY RecoveryAssumption DEF IInv, TypeOK, Mint
<1>. USE <1>1, <1>5, IdleHeld DEF IInv, Mint
<1>6. TypeOK'
  BY SMTT(20), <1>3, <1>4, RecoveryAssumption DEF TypeOK, HasToken, At, Codes, Grant
<1>7. Orderly'
  BY DEF Orderly, Holder, HasToken, At
<1>8. Addressed'
  BY <1>3 DEF Addressed, Holder, HasToken, At
<1>9. Stored'
  BY DEF Stored, At
<1>. QED BY <1>6, <1>7, <1>8, <1>9

LEMMA TakeKeeps ==
    ASSUME IInv, NEW r \in Requests, NEW t \in DOMAIN grants, Take(r, t)
    PROVE  IInv'
<1>. DEFINE q == Holding("reset", grants[t].code, t, grants[t].secret)
<1>1. grants[t].code \in Codes /\ grants[t].secret \in 1..user.secret
  BY DEF IInv, TypeOK, Range, Grant
<1>2. t \in 1..tokens /\ DOMAIN grants = {t}
  BY DEF IInv, TypeOK
<1>3. /\ grants[t].code \in 0..MaxCodes /\ grants[t].secret \in 0..MaxSecret
      /\ t \in 0..MaxTokens
  BY <1>1, <1>2, RecoveryAssumption DEF IInv, TypeOK, Codes
<1>4. /\ q \in Held /\ q.at = "reset" /\ q.token = t
      /\ q.code = grants[t].code /\ q.secret = grants[t].secret
  BY <1>3 DEF Holding, Held, Kinds
<1>5. Step(r, q)
  BY DEF Take
<1>. HIDE DEF q
<1>6. /\ request' \in [Requests -> Held]
      /\ request'[r] = q
      /\ \A s \in Requests \ {r} : request'[s] = request[s]
  BY <1>4, <1>5, Stepped DEF IInv
<1>7. DOMAIN grants' = {} /\ Range(grants') = {}
  BY <1>2 DEF Take, Restrict, Range
<1>. USE <1>4, <1>6, <1>7 DEF IInv, Take
<1>8. TypeOK'
  BY <1>1, <1>2 DEF TypeOK, HasToken, At, Codes
<1>9. Orderly'
  <2>1. \A s \in Requests : HasToken(s) => request[s].token # t
    BY <1>2 DEF TypeOK
  <2>. QED BY <2>1, <1>1 DEF Orderly, Holder, HasToken, At
<1>10. Addressed'
  BY DEF Addressed, Holder, HasToken, At
<1>11. Stored'
  BY DEF Stored, At
<1>. QED BY <1>8, <1>9, <1>10, <1>11

\* Nothing of before a change of the secret holds the secret of after it.
LEMMA SecretGrows ==
    ASSUME IInv, user'.secret = user.secret + 1, user' \in [email : Emails,
               secret : 1..MaxSecret, verified : BOOLEAN],
           code' \in [Kinds -> {0} \cup Codes],
           \A k \in Kinds : code'[k] # 0 => user'.email = user.email /\ code'[k] = code[k],
           request' \in [Requests -> Held],
           \A s \in Requests : request'[s] \in {request[s], Idle},
           spent' \subseteq 1..tokens,
           UNCHANGED <<mail, grants, generation, tokens>>
    PROVE  IInv'
<1>. USE IdleHeld DEF IInv
<1>1. user.secret \in Nat
  BY DEF TypeOK
<1>2. \A t \in DOMAIN grants : grants[t].secret \in 1..user.secret
  BY DEF TypeOK, Range, Grant
<1>3. Grant \subseteq Grant'
  BY <1>1 DEF Grant, Codes
<1>4. \A s \in Requests : Holder(s)' => Holder(s) /\ request'[s] = request[s]
  BY DEF Holder, HasToken, At
<1>5. TypeOK'
  BY <1>3, <1>4 DEF TypeOK, HasToken, At, Codes, Holder
<1>6. Orderly'
  BY <1>1, <1>4 DEF Orderly, Holder, HasToken, At
<1>7. Addressed'
  BY <1>1, <1>2, <1>4 DEF Addressed, Orderly, Kinds
<1>8. Stored'
  BY DEF Stored, At
<1>. QED BY <1>5, <1>6, <1>7, <1>8

LEMMA ResetKeeps ==
    ASSUME IInv, NEW r \in Requests, Reset(r)
    PROVE  IInv'
<1>1. /\ request' \in [Requests -> Held]
      /\ \A s \in Requests : request'[s] \in {request[s], Idle}
  BY Stepped, IdleHeld DEF IInv, Reset
<1>2. /\ user'.secret = user.secret + 1 /\ user'.email = user.email
      /\ user' \in [email : Emails, secret : 1..MaxSecret, verified : BOOLEAN]
  BY RecoveryAssumption DEF IInv, TypeOK, Reset
<1>3. code' \in [Kinds -> {0} \cup Codes] /\ \A k \in Kinds : code'[k] \in {0, code[k]}
  BY DEF IInv, TypeOK, Reset
<1>4. spent' \subseteq 1..tokens
  BY DEF IInv, TypeOK, HasToken, At, Reset
<1>. QED BY <1>1, <1>2, <1>3, <1>4, SecretGrows DEF Reset

LEMMA ChangeEmailKeeps ==
    ASSUME IInv, NEW e \in Emails, ChangeEmail(e)
    PROVE  IInv'
<1>1. /\ user'.secret = user.secret + 1
      /\ user' \in [email : Emails, secret : 1..MaxSecret, verified : BOOLEAN]
  BY RecoveryAssumption DEF IInv, TypeOK, ChangeEmail
<1>2. code' \in [Kinds -> {0} \cup Codes] /\ \A k \in Kinds : code'[k] = 0
  BY DEF ChangeEmail, NoCodes
<1>3. request' \in [Requests -> Held] /\ spent' \subseteq 1..tokens
  BY DEF IInv, TypeOK, ChangeEmail
<1>. QED BY <1>1, <1>2, <1>3, SecretGrows DEF ChangeEmail

LEMMA ChangePasswordKeeps == ASSUME IInv, ChangePassword PROVE IInv'
<1>1. /\ user'.secret = user.secret + 1 /\ user'.email = user.email
      /\ user' \in [email : Emails, secret : 1..MaxSecret, verified : BOOLEAN]
  BY RecoveryAssumption DEF IInv, TypeOK, ChangePassword
<1>2. /\ request' \in [Requests -> Held] /\ spent' \subseteq 1..tokens
      /\ code' \in [Kinds -> {0} \cup Codes]
  BY DEF IInv, TypeOK, ChangePassword
<1>. QED BY <1>1, <1>2, SecretGrows DEF ChangePassword

LEMMA BusyKeeps ==
    ASSUME IInv, NEW r \in Requests, Busy(r)
    PROVE  IInv'
<1>. DEFINE q == Holding("restore", request[r].code, request[r].token, request[r].secret)
<1>1. request[r] \in Held /\ At(r, "reset") /\ Step(r, q)
  BY DEF IInv, TypeOK, Busy
<1>2. /\ q \in Held /\ q.at = "restore" /\ q.token = request[r].token
      /\ q.code = request[r].code /\ q.secret = request[r].secret
  BY <1>1, RecoveryAssumption DEF Holding, Held, Kinds
<1>. HIDE DEF q
<1>3. /\ request' \in [Requests -> Held]
      /\ request'[r] = q
      /\ \A s \in Requests \ {r} : request'[s] = request[s]
  BY <1>1, <1>2, Stepped DEF IInv
<1>. USE <1>1, <1>2, <1>3 DEF IInv, Busy
<1>4. TypeOK'
  BY DEF TypeOK, HasToken, At, Codes, Grant
<1>5. Orderly'
  BY DEF Orderly, Holder, HasToken, At
<1>6. Addressed'
  BY DEF Addressed, Holder, HasToken, At
<1>7. Stored'
  BY DEF Stored, At
<1>. QED BY <1>4, <1>5, <1>6, <1>7

LEMMA RestoreKeeps ==
    ASSUME IInv, NEW r \in Requests, Restore(r)
    PROVE  IInv'
<1>. DEFINE q == request[r]
            t == request[r].token
            g == [secret |-> q.secret, code |-> q.code]
<1>1. /\ request' \in [Requests -> Held]
      /\ request'[r] = Idle
      /\ \A s \in Requests \ {r} : request'[s] = request[s]
  BY Stepped, IdleHeld DEF IInv, Restore
<1>2. q.code \in Codes /\ q.secret \in 1..user.secret /\ t \in 1..tokens \ DOMAIN grants
  BY DEF IInv, TypeOK, Orderly, Holder, HasToken, At, Restore
<1>3. CASE ~Newest(q)
  <2>1. UNCHANGED grants
    BY <1>3 DEF Restore
  <2>. QED BY <2>1, IdleHeld, NamingKeeps DEF Restore
<1>4. CASE Newest(q)
  <2>1. DOMAIN grants = {} /\ generation = t
    BY <1>2, <1>4 DEF IInv, TypeOK, Newest
  <2>2. DOMAIN grants' = {t} /\ grants'[t] = g
    BY <1>4, <2>1 DEF Restore, Add
  <2>3. Range(grants') \subseteq Grant
    BY <1>2, <2>2 DEF Range, Grant
  <2>4. \A s \in Requests \ {r} : HasToken(s) => request[s].token # t
    BY DEF IInv, Orderly, HasToken, Restore
  <2>. USE <1>1, IdleHeld DEF IInv, Restore
  <2>5. TypeOK'
    BY <1>2, <2>1, <2>2, <2>3, <2>4 DEF TypeOK, HasToken, At, Codes, Grant
  <2>6. Orderly'
    BY DEF Orderly, Holder, HasToken, At
  <2>7. Addressed'
    BY <2>2 DEF Addressed, Holder, HasToken, At
  <2>8. Stored'
    BY DEF Stored, At
  <2>. QED BY <2>5, <2>6, <2>7, <2>8
<1>. QED BY <1>3, <1>4

LEMMA ExpireKeeps ==
    ASSUME IInv, ExpireToken \/ Restart \/ \E k \in Kinds : ExpireCode(k)
    PROVE  IInv'
<1>. USE IdleHeld DEF IInv
<1>1. CASE ExpireToken \/ Restart
  <2>1. DOMAIN grants' = {} /\ Range(grants') = {} /\ generation' = 0
    BY <1>1 DEF ExpireToken, Restart, Empty, Range
  <2>2. /\ UNCHANGED <<user, code, mail, tokens, spent>>
        /\ request' \in [Requests -> Held]
        /\ \A s \in Requests : request'[s] \in {request[s], Idle}
    BY <1>1 DEF ExpireToken, Restart, TypeOK
  <2>3. TypeOK'
    BY <2>1, <2>2 DEF TypeOK, HasToken, At, Codes
  <2>4. Orderly' /\ Addressed' /\ Stored'
    BY <2>1, <2>2 DEF Orderly, Addressed, Stored, Holder, HasToken, At
  <2>. QED BY <2>3, <2>4
<1>2. ASSUME NEW k \in Kinds, ExpireCode(k) PROVE IInv'
  <2>1. /\ code' \in [Kinds -> {0} \cup Codes]
        /\ \A j \in Kinds : code'[j] \in {0, code[j]}
    BY <1>2 DEF TypeOK, ExpireCode
  <2>2. TypeOK'
    BY <1>2, <2>1 DEF TypeOK, ExpireCode, HasToken, At, Codes, Grant
  <2>3. Orderly' /\ Addressed' /\ Stored'
    BY <1>2, <2>1 DEF Orderly, Addressed, Stored, ExpireCode, Holder, HasToken, At, Kinds
  <2>. QED BY <2>2, <2>3
<1>. QED BY <1>1, <1>2

LEMMA NextKeeps == IInv /\ [Next]_vars => IInv'
<1>. SUFFICES ASSUME IInv, [Next]_vars PROVE IInv'
  OBVIOUS
<1>1. ASSUME NEW r \in Requests, Handle(r) PROVE IInv'
  BY <1>1, RequestKeeps, StoreKeeps, PresentKeeps, VerifyResetKeeps, VerifyEmailKeeps,
     MintKeeps, TakeKeeps, ResetKeeps, BusyKeeps, RestoreKeeps, AbandonKeeps DEF Handle
<1>2. CASE UNCHANGED vars
  BY <1>2 DEF vars, IInv, TypeOK, Orderly, Addressed, Stored, Holder, HasToken, At,
           Codes, Grant
<1>. QED BY <1>1, <1>2, ChangeEmailKeeps, ChangePasswordKeeps, ExpireKeeps DEF Next

\* The types are right whatever the order of requests, changes and restarts.
THEOREM TypeCorrect == Spec => []TypeOK
<1>1. Spec => []IInv
  BY InitIInv, NextKeeps, PTL DEF Spec
<1>2. IInv => TypeOK
  BY DEF IInv
<1>. QED BY <1>1, <1>2, PTL

\* Whatever the order of resends, verifications and changes of the address, an address is
\* verified by a code that was mailed to it (email_verification verify_code).
THEOREM AddressVerifiedByItsOwner == Spec => VerifiedByItsOwner
<1>1. IInv /\ [Next]_vars => [user'.verified /\ ~user.verified => mail[code.verify] = user.email]_vars
  <2>. SUFFICES ASSUME IInv, Next, user'.verified, ~user.verified
                PROVE  mail[code.verify] = user.email
    OBVIOUS
  <2>1. PICK r \in Requests : VerifyEmail(r)
    <3>1. \A r \in Requests : Handle(r) /\ user'.verified => VerifyEmail(r)
      BY DEF Handle, RequestReset, RequestVerify, Store, Present, VerifyReset, Mint, Take, Reset, Busy,
             Restore, Abandon, IInv, TypeOK
    <3>2. (\E e \in Emails : ChangeEmail(e)) => ~user'.verified
      BY DEF ChangeEmail
    <3>3. ChangePassword \/ ExpireToken \/ Restart \/ (\E k \in Kinds : ExpireCode(k))
             => user'.verified = user.verified
      BY DEF ChangePassword, ExpireToken, Restart, ExpireCode, IInv, TypeOK
    <3>. QED BY <3>1, <3>2, <3>3 DEF Next
  <2>2. request[r].code # 0
    BY <2>1 DEF VerifyEmail, IInv, TypeOK, At, Codes
  <2>. QED BY <2>1, <2>2 DEF VerifyEmail, IInv, Addressed, Kinds
<1>2. Spec => []IInv
  BY InitIInv, NextKeeps, PTL DEF Spec
<1>. QED BY <1>1, <1>2, PTL DEF Spec, VerifiedByItsOwner

\* A password is reset with a code that went to an address naming the account at that
\* moment, although the address, the password, the codes and the tokens may change at
\* every await between.
THEOREM PasswordResetByItsOwner == Spec => ResetByItsOwner
<1>. DEFINE A == \A r \in Requests :
                    At(r, "reset") /\ spent' # spent /\ request'[r] # request[r] =>
                       Normal[mail[request[r].code]] = user.email
<1>1. IInv /\ [Next]_vars => [A]_vars
  <2>. SUFFICES ASSUME IInv, Next, NEW r \in Requests, At(r, "reset"), spent' # spent,
                       request'[r] # request[r]
                PROVE  Normal[mail[request[r].code]] = user.email
    OBVIOUS
  <2>1. PICK s \in Requests : Reset(s)
    BY DEF Next, Handle, RequestReset, RequestVerify, Store, Present, VerifyEmail, VerifyReset, Mint, Take,
           Busy, Restore, Abandon, ChangeEmail, ChangePassword, ExpireToken, Restart, ExpireCode
  <2>2. s = r
    BY <2>1 DEF Reset, Step, IInv, TypeOK
  <2>. QED BY <2>1, <2>2 DEF Reset, Bound, IInv, Addressed, Holder, HasToken
<1>2. Spec => []IInv
  BY InitIInv, NextKeeps, PTL DEF Spec
<1>. QED BY <1>1, <1>2, PTL DEF Spec, ResetByItsOwner

-----------------------------------------------------------------------------
(* Recovery implements OneTimeToken. *)

Good == Free \cup Taken

\* What lies in the open is the newest token, and no reset holds it.
LEMMA Apart ==
    ASSUME IInv
    PROVE  /\ Free \subseteq DOMAIN grants /\ DOMAIN grants \subseteq {tokens}
           /\ Taken \cap DOMAIN grants = {}
           /\ Good \cup Taken \subseteq 1..tokens
           /\ \A t \in DOMAIN grants : grants[t].secret \in 1..user.secret
           /\ \A r \in Requests : HasToken(r) => request[r].secret \in 1..user.secret
BY DEF IInv, TypeOK, Orderly, Free, Taken, Good, Range, Grant, Holder

\* Where the account keeps its secret and every request its hold of a token, the resets
\* hold the same tokens.
LEMMA SameResets ==
    ASSUME user'.secret = user.secret,
           \A r \in Requests : HasToken(r) \/ HasToken(r)' =>
              /\ HasToken(r) /\ HasToken(r)'
              /\ request'[r].token = request[r].token
              /\ request'[r].secret = request[r].secret
    PROVE  Taken' = Taken
BY DEF Taken, Bound

\* A request that leaves its reset takes its own token along and no other.
LEMMA LeavesReset ==
    ASSUME IInv, NEW r \in Requests, HasToken(r), Step(r, Idle),
           user'.secret = user.secret
    PROVE  /\ Taken' = Taken \ {request[r].token}
           /\ Bound(request[r]) => request[r].token \in Taken
           /\ ~Bound(request[r]) => Taken' = Taken
<1>1. /\ request'[r] = Idle
      /\ \A s \in Requests \ {r} : request'[s] = request[s]
  BY Stepped, IdleHeld DEF IInv
<1>. QED BY <1>1, IdleHeld DEF IInv, Orderly, Taken, Bound, HasToken, At

\* A change of the secret voids every token.
LEMMA SecretVoids ==
    ASSUME IInv, user'.secret = user.secret + 1, UNCHANGED grants,
           \A r \in Requests : HasToken(r)' => request'[r] = request[r]
    PROVE  Good' = {} /\ Taken' = {}
<1>1. user.secret \in Nat
  BY DEF IInv, TypeOK
<1>2. \A t \in DOMAIN grants : grants[t].secret # user'.secret
  BY <1>1, Apart
<1>3. \A r \in Requests : HasToken(r)' => request'[r].secret # user'.secret
  BY <1>1, Apart DEF HasToken, At
<1>4. Free' = {}
  BY <1>2 DEF Free
<1>5. Taken' = {}
  BY <1>3 DEF Taken, Bound
<1>. QED BY <1>4, <1>5 DEF Good

LEMMA InitRefines == Init => Tokens!Init
<1>. SUFFICES ASSUME Init PROVE Tokens!Init
  OBVIOUS
<1>1. Free = {}
  BY DEF Init, Free, Empty
<1>2. Taken = {}
  BY IdleHeld DEF Init, Taken, HasToken, At
<1>. QED BY <1>1, <1>2 DEF Init, Tokens!Init

Stutters == UNCHANGED <<tokens, Good, Taken, spent>>

\* A step of a request that holds no token, to a place where it holds none.
LEMMA Aside ==
    ASSUME IInv, NEW r \in Requests, NEW q, Step(r, q), ~HasToken(r), q.at \notin {"reset", "restore"},
           user'.secret = user.secret, UNCHANGED <<grants, tokens, spent>>
    PROVE  Stutters
<1>1. request'[r] = q /\ \A s \in Requests \ {r} : request'[s] = request[s]
  BY DEF Step, IInv, TypeOK
<1>2. \A s \in Requests : HasToken(s) \/ HasToken(s)' =>
         HasToken(s) /\ HasToken(s)' /\ request'[s] = request[s]
  BY <1>1 DEF HasToken, At
<1>. QED BY <1>2, SameResets DEF Stutters, Good, Free

LEMMA AsideRefines ==
    ASSUME IInv, NEW r \in Requests,
           \/ \E s \in Spellings : RequestReset(r, s)
           \/ RequestVerify(r) \/ Store(r)
           \/ \E c \in Codes : Present(r, c) \/ VerifyReset(r, c)
           \/ VerifyEmail(r)
    PROVE  Stutters
<1>. USE IdleHeld, Aside DEF HasToken
<1>1. ASSUME NEW s \in Spellings, RequestReset(r, s) PROVE Stutters
  BY <1>1 DEF RequestReset, Naming, At
<1>2. CASE Store(r)
  BY <1>2 DEF Store, At
<1>3. ASSUME NEW c \in Codes, Present(r, c) PROVE Stutters
  BY <1>3 DEF Present, Naming, At
<1>4. ASSUME NEW c \in Codes, VerifyReset(r, c) PROVE Stutters
  BY <1>4 DEF VerifyReset, Holding, At
<1>5. CASE VerifyEmail(r)
  <2>1. user'.secret = user.secret
    BY <1>5 DEF VerifyEmail, IInv, TypeOK
  <2>. QED BY <1>5, <2>1 DEF VerifyEmail, At
<1>6. CASE RequestVerify(r)
  BY <1>6 DEF RequestVerify, Naming, At
<1>. QED BY <1>1, <1>2, <1>3, <1>4, <1>5, <1>6

LEMMA MintRefines ==
    ASSUME IInv, NEW r \in Requests, Mint(r)
    PROVE  Tokens!Mint
<1>. DEFINE t == tokens + 1
<1>1. request'[r] = Idle /\ \A s \in Requests \ {r} : request'[s] = request[s]
  BY Stepped, IdleHeld DEF IInv, Mint
<1>2. Taken' = Taken
  BY <1>1, IdleHeld, SameResets DEF Mint, HasToken, At
<1>3. Free' \in {{}, {t}}
  BY DEF Free, Mint, Instead
<1>. QED BY <1>2, <1>3 DEF Good, Mint, Tokens!Mint

LEMMA TakeRefines ==
    ASSUME IInv, NEW r \in Requests, NEW t \in DOMAIN grants, Take(r, t)
    PROVE  (t \in Good /\ Tokens!Take(t)) \/ Stutters
<1>. DEFINE q == Holding("reset", grants[t].code, t, grants[t].secret)
<1>1. q.at = "reset" /\ q.token = t /\ q.secret = grants[t].secret
  BY DEF Holding
<1>2. Step(r, q)
  BY DEF Take
<1>. HIDE DEF q
<1>3. request'[r] = q /\ \A s \in Requests \ {r} : request'[s] = request[s]
  BY <1>2 DEF Step, IInv, TypeOK
<1>4. DOMAIN grants = {t} /\ Free' = {}
  BY Apart DEF Take, Restrict, Free
<1>5. CASE grants[t].secret = user.secret
  <2>1. Free = {t}
    BY <1>4, <1>5 DEF Free
  <2>2. Taken' = Taken \cup {t}
    BY <1>1, <1>3, <1>5 DEF Taken, Bound, HasToken, At, Take
  <2>3. t \notin Taken
    BY Apart
  <2>. QED BY <1>4, <2>1, <2>2, <2>3 DEF Good, Take, Tokens!Take
<1>6. CASE grants[t].secret # user.secret
  <2>1. Free = {}
    BY <1>4, <1>6 DEF Free
  <2>2. Taken' = Taken
    BY <1>1, <1>3, <1>6 DEF Taken, Bound, HasToken, At, Take
  <2>. QED BY <1>4, <2>1, <2>2 DEF Good, Take, Stutters
<1>. QED BY <1>5, <1>6

LEMMA ResetRefines ==
    ASSUME IInv, NEW r \in Requests, Reset(r)
    PROVE  \E t \in Good : Tokens!Spend(t)
<1>. DEFINE t == request[r].token
<1>1. t \in Taken
  BY DEF Reset, Taken, HasToken
<1>2. request'[r] = Idle /\ \A s \in Requests \ {r} : request'[s] = request[s]
  BY Stepped, IdleHeld DEF IInv, Reset
<1>3. user'.secret = user.secret + 1
  BY DEF IInv, TypeOK, Reset
<1>4. Good' = {} /\ Taken' = {}
  BY <1>2, <1>3, IdleHeld, SecretVoids DEF Reset, HasToken, At
<1>5. t \in Good
  BY <1>1 DEF Good
<1>. QED BY <1>1, <1>4, <1>5 DEF Reset, Good, Tokens!Spend

\* Busy: the token stays in the hands of its reset.
LEMMA BusyRefines ==
    ASSUME IInv, NEW r \in Requests, Busy(r)
    PROVE  Stutters
<1>. DEFINE q == Holding("restore", request[r].code, request[r].token, request[r].secret)
<1>1. q.at = "restore" /\ q.token = request[r].token /\ q.secret = request[r].secret
  BY DEF Holding
<1>2. request'[r] = q /\ \A s \in Requests \ {r} : request'[s] = request[s]
  BY DEF Busy, Step, IInv, TypeOK
<1>. HIDE DEF q
<1>3. Taken' = Taken
  BY <1>1, <1>2, SameResets DEF Busy, HasToken, At
<1>. QED BY <1>3 DEF Busy, Stutters, Good, Free

\* A token put back after the secret has changed is void already.
LEMMA RestoreRefines ==
    ASSUME IInv, NEW r \in Requests, Restore(r)
    PROVE  Tokens!Next \/ Stutters
<1>. DEFINE t == request[r].token
<1>1. HasToken(r) /\ Step(r, Idle) /\ UNCHANGED user /\ t \notin DOMAIN grants
  BY DEF Restore, HasToken, IInv, TypeOK
<1>2. CASE ~Bound(request[r])
  <2>1. Taken' = Taken
    BY <1>1, <1>2, LeavesReset
  <2>2. Free' = Free
    BY <1>1, <1>2 DEF Restore, Free, Add, Bound
  <2>. QED BY <2>1, <2>2 DEF Restore, Stutters, Good
<1>3. ASSUME Bound(request[r])
      PROVE  t \in Taken /\ Taken' = Taken \ {t} /\ t \in Good
  BY <1>1, <1>3, LeavesReset DEF Good
<1>4. CASE Bound(request[r]) /\ Newest(request[r])
  <2>1. t \in 1..tokens /\ tokens \in Nat /\ generation = t
    BY <1>3, <1>4, Apart DEF IInv, TypeOK, Newest
  <2>2. DOMAIN grants = {} /\ t = tokens
    <3>1. generation \in {0, tokens}
      BY DEF IInv, Orderly
    <3>2. t = tokens
      BY <2>1, <3>1
    <3>3. DOMAIN grants \subseteq {tokens}
      BY Apart
    <3>. QED BY <1>1, <3>2, <3>3
  <2>3. Free = {} /\ Free' = {t}
    BY <1>4, <2>2 DEF Restore, Free, Add, Bound
  <2>4. Good' = Good
    BY <1>3, <1>4, <2>3 DEF Good
  <2>5. Tokens!PutBack(t)
    BY <1>3, <1>4, <2>2, <2>4 DEF Restore, Good, Tokens!PutBack
  <2>. QED BY <1>3, <1>4, <2>5 DEF Good, Tokens!Next
<1>5. CASE Bound(request[r]) /\ ~Newest(request[r])
  <2>1. Free' = Free /\ t \notin Free
    BY <1>1, <1>5, Apart DEF Restore, Free
  <2>2. Good' = Good \ {t}
    BY <1>3, <1>5, <2>1 DEF Good
  <2>3. Tokens!Void({t})
    BY <1>3, <1>5, <2>2 DEF Restore, Good, Tokens!Void
  <2>. QED BY <1>3, <1>5, <2>3 DEF Good, Tokens!Next
<1>. QED BY <1>2, <1>4, <1>5

LEMMA AbandonRefines ==
    ASSUME IInv, NEW r \in Requests, Abandon(r)
    PROVE  Tokens!Next \/ Stutters
<1>. DEFINE t == request[r].token
<1>1. CASE ~HasToken(r)
  BY <1>1, IdleHeld, Aside DEF Abandon
<1>2. CASE HasToken(r)
  <2>1. Free' = Free
    BY DEF Abandon, Free
  <2>2. CASE Bound(request[r])
    <3>1. t \in Taken /\ Taken' = Taken \ {t} /\ t \in Good
      BY <1>2, <2>2, LeavesReset DEF Abandon, Good
    <3>2. Good' = Good \ {t}
      BY <2>1, <3>1, Apart DEF Good
    <3>3. Tokens!Void({t})
      BY <3>1, <3>2 DEF Abandon, Good, Tokens!Void
    <3>. QED BY <3>1, <3>3 DEF Good, Tokens!Next
  <2>3. CASE ~Bound(request[r])
    <3>1. Taken' = Taken
      BY <1>2, <2>3, LeavesReset DEF Abandon
    <3>. QED BY <2>1, <3>1 DEF Abandon, Good, Stutters
  <2>. QED BY <2>2, <2>3
<1>. QED BY <1>1, <1>2

\* What is not a request may void tokens and nothing else.
LEMMA OtherRefines ==
    ASSUME IInv,
           \/ \E e \in Emails : ChangeEmail(e)
           \/ \E k \in Kinds : ExpireCode(k)
           \/ ChangePassword \/ ExpireToken \/ Restart
    PROVE  Tokens!Next \/ Stutters
<1>1. ASSUME (\E e \in Emails : ChangeEmail(e)) \/ ChangePassword
      PROVE  Tokens!Next
  <2>1. user'.secret = user.secret + 1
    BY <1>1 DEF ChangeEmail, ChangePassword, IInv, TypeOK
  <2>2. UNCHANGED <<grants, request, tokens, spent>>
    BY <1>1 DEF ChangeEmail, ChangePassword
  <2>3. Good' = {} /\ Taken' = {}
    BY <2>1, <2>2, SecretVoids
  <2>4. Tokens!Void(Good)
    BY <2>2, <2>3 DEF Good, Tokens!Void
  <2>. QED BY <2>4 DEF Good, Tokens!Next
<1>2. ASSUME \E k \in Kinds : ExpireCode(k)
      PROVE  Stutters
  BY <1>2 DEF ExpireCode, Stutters, Good, Free, Taken, Bound, HasToken, At
<1>3. CASE ExpireToken
  <2>1. Taken' = Taken /\ Free' = {}
    BY <1>3 DEF ExpireToken, Taken, Free, Bound, HasToken, At, Empty
  <2>2. Good' = Good \ Free /\ Taken' = Taken \ Free
    BY <2>1, Apart DEF Good
  <2>3. Tokens!Void(Free)
    BY <1>3, <2>2 DEF ExpireToken, Good, Tokens!Void
  <2>. QED BY <2>3 DEF Good, Tokens!Next
<1>4. CASE Restart
  <2>1. Taken' = {} /\ Free' = {}
    BY <1>4, IdleHeld DEF Restart, Taken, Free, HasToken, At, Empty
  <2>2. Tokens!Void(Good)
    BY <1>4, <2>1 DEF Restart, Good, Tokens!Void
  <2>. QED BY <2>2 DEF Good, Tokens!Next
<1>. QED BY <1>1, <1>2, <1>3, <1>4

LEMMA NextRefines == IInv /\ [Next]_vars => [Tokens!Next]_(Tokens!vars)
<1>. SUFFICES ASSUME IInv, [Next]_vars PROVE Tokens!Next \/ UNCHANGED Tokens!vars
  OBVIOUS
<1>1. Stutters => UNCHANGED Tokens!vars
  BY DEF Stutters, Good, Tokens!vars
<1>2. UNCHANGED vars => Stutters
  BY DEF vars, Stutters, Good, Free, Taken, Bound, HasToken, At
<1>3. ASSUME NEW r \in Requests, Handle(r) PROVE Tokens!Next \/ Stutters
  <2>1. CASE \E t \in DOMAIN grants : Take(r, t)
    BY <2>1, TakeRefines DEF Tokens!Next, Good
  <2>2. CASE Mint(r)
    BY <2>2, MintRefines DEF Tokens!Next
  <2>3. CASE Reset(r)
    BY <2>3, ResetRefines DEF Tokens!Next, Good
  <2>. QED BY <1>3, <2>1, <2>2, <2>3, AsideRefines, BusyRefines, RestoreRefines,
               AbandonRefines DEF Handle
<1>4. Next => Tokens!Next \/ Stutters
  BY <1>3, OtherRefines DEF Next
<1>. QED BY <1>1, <1>2, <1>4

\* Reset tokens behave as OneTimeToken says: a token spent is gone and takes all others
\* along, a newer one voids those in the open, and one put back after a rejection is still
\* the newest.
THEOREM TokensImplement == Spec => ImplementsOneTimeToken
<1>1. Spec => []IInv
  BY InitIInv, NextKeeps, PTL DEF Spec
<1>. QED BY <1>1, InitRefines, NextRefines, PTL DEF Spec, ImplementsOneTimeToken, Tokens!Spec

\* A token that has reset the password is never good again, and of the tokens that may
\* still be presented at most one is: the newest.  A token taken out before the newer one
\* was minted may still be spent (OneTimeToken!Spend), and voids the newer one then.
THEOREM TokensKeepPromise == Spec => []Tokens!Promise
<1>1. Tokens!Init => Tokens!Promise
  BY DEF Tokens!Init, Tokens!Promise
<1>2. IInv /\ Tokens!Promise /\ [Tokens!Next]_(Tokens!vars) => Tokens!Promise'
  <2>. SUFFICES ASSUME tokens \in Nat, Tokens!Promise, [Tokens!Next]_(Tokens!vars)
                PROVE  Tokens!Promise'
    BY DEF IInv, TypeOK
  <2>1. CASE Tokens!Mint
    BY <2>1 DEF Tokens!Mint, Tokens!Promise
  <2>. QED BY <2>1 DEF Tokens!Next, Tokens!vars, Tokens!Take, Tokens!PutBack, Tokens!Spend,
              Tokens!Void, Tokens!Promise
<1>3. Spec => []IInv
  BY InitIInv, NextKeeps, PTL DEF Spec
<1>. QED BY <1>1, <1>2, <1>3, InitRefines, NextRefines, PTL DEF Spec
=============================================================================
