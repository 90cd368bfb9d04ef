---------------------------- MODULE OneTimeToken ----------------------------
(***************************************************************************)
(* What a password-reset token promises, whatever the handlers do.         *)
(*                                                                         *)
(* A token is good from its minting until it is spent or void, and lies in *)
(* the open or in the hands of one reset.  Minting a token voids those in  *)
(* the open.  A reset spends the token it has taken, once, and voids all   *)
(* others with it; a reset that was turned away may put its token back,    *)
(* unless a newer one has been minted.  Any token may turn void at any     *)
(* time.                                                                   *)
(***************************************************************************)
EXTENDS Naturals

VARIABLES minted,   \* tokens so far: they are 1..minted
          good,     \* tokens that may still be spent
          taken,    \* those in the hands of a reset
          spent     \* tokens that have reset the password

vars == <<minted, good, taken, spent>>

Init == minted = 0 /\ good = {} /\ taken = {} /\ spent = {}

\* A token may be void from the first.
Mint == /\ minted' = minted + 1
        /\ good' \in {taken, taken \cup {minted + 1}}
        /\ UNCHANGED <<taken, spent>>

Take(t) == /\ t \in good \ taken
           /\ taken' = taken \cup {t}
           /\ UNCHANGED <<minted, good, spent>>

PutBack(t) == /\ t \in taken /\ t = minted
              /\ taken' = taken \ {t}
              /\ UNCHANGED <<minted, good, spent>>

Spend(t) == /\ t \in taken
            /\ good' = {} /\ taken' = {}
            /\ spent' = spent \cup {t}
            /\ UNCHANGED minted

Void(ts) == /\ good' = good \ ts /\ taken' = taken \ ts
            /\ UNCHANGED <<minted, spent>>

Next == \/ Mint
        \/ \E t \in good : Take(t) \/ PutBack(t) \/ Spend(t)
        \/ \E ts \in SUBSET good : Void(ts)

Spec == Init /\ [][Next]_vars
-----------------------------------------------------------------------------
\* A token spent is never good again, and at most one lies in the open: the newest.
Promise == /\ good \cup spent \subseteq 1..minted /\ taken \subseteq good
           /\ good \cap spent = {}
           /\ good \ taken \subseteq {minted}
=============================================================================
