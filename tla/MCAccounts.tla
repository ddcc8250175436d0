----------------------------- MODULE MCAccounts -----------------------------
(***************************************************************************)
(* Small instances of the accounts for TLC: one or two users, and sessions *)
(* and handlers enough for two refreshes of one session to cross.          *)
(***************************************************************************)
EXTENDS AccountProperties, TLC

Symmetry == Permutations(Users) \cup Permutations(Sessions)
            \cup Permutations(Tokens) \cup Permutations(Handlers)
=============================================================================
