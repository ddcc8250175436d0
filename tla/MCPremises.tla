----------------------------- MODULE MCPremises -----------------------------
(* An instance of Premises for TLC: one kost with a room, and who works on them
   at the same time. *)
EXTENDS Premises, TLC

MCKostOf == [r \in Rooms |-> CHOOSE k \in Kosts : TRUE]
MCDuties ==
    {{"edit", "verify", "reject", "show", "hide", "drop", "assign", "decide"},
     {"addRoom", "update", "delete", "edit", "reject", "drop"}}
Symmetry == Permutations(Handlers) \cup Permutations(Bookings) \cup Permutations(Surveys)
=============================================================================
