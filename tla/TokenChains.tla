----------------------------- MODULE TokenChains -----------------------------
(***************************************************************************)
(* What refresh tokens are for, without users, rows and requests: a token  *)
(* is given out by a login or in place of one that is in use, and the      *)
(* tokens that go back to one login are its chain.  Whoever renews takes   *)
(* the token in first, so a chain never has two tokens in use; a token     *)
(* that was spent stays so.                                                *)
(*                                                                         *)
(* This is an abstract specification.  It describes no piece of code; the  *)
(* rules are those of the refresh tokens in docs/product-foundation.md,    *)
(* section 5.1, as the code keeps them when requests do not overlap.       *)
(***************************************************************************)
CONSTANT Tokens

VARIABLES
    state,  \* new, open, due (taken in, its successor not yet made) or spent
    chain   \* the token of the login each goes back to

vars == <<state, chain>>

TypeOK ==
    /\ state \in [Tokens -> {"new", "open", "due", "spent"}]
    /\ chain \in [Tokens -> Tokens]

Init ==
    /\ state = [k \in Tokens |-> "new"]
    /\ chain = [k \in Tokens |-> k]

InUse(k) == state[k] \in {"open", "due"}

\* A login gives out the first token of a chain.
Grant(k) ==
    /\ state[k] = "new"
    /\ state' = [state EXCEPT ![k] = "open"]
    /\ UNCHANGED chain

\* A refresh takes its token in.
TakeIn(k) ==
    /\ state[k] = "open"
    /\ state' = [state EXCEPT ![k] = "due"]
    /\ UNCHANGED chain

\* A new token is given out in place of the one that was taken in.
Replace(k, n) ==
    /\ state[k] = "due"
    /\ state[n] = "new"
    /\ state' = [state EXCEPT ![k] = "spent", ![n] = "open"]
    /\ chain' = [chain EXCEPT ![n] = chain[k]]

\* Tokens are closed: a logout, a refresh that fails half way, a token used
\* again, a user deleted.
Close(ks) ==
    /\ \A k \in ks : InUse(k)
    /\ state' = [k \in Tokens |-> IF k \in ks THEN "spent" ELSE state[k]]
    /\ UNCHANGED chain

Next ==
    \/ \E k \in Tokens : Grant(k) \/ TakeIn(k)
    \/ \E k, n \in Tokens : Replace(k, n)
    \/ \E ks \in SUBSET Tokens : Close(ks)

Spec == Init /\ [][Next]_vars
=============================================================================
