---------------------------- MODULE MCNavigation ----------------------------
(* An instance of Navigation for TLC: one user with an office, and one who may
   register as a tenant or an owner. *)
EXTENDS Navigation

CONSTANTS u1, u2
MCUsers == {u1, u2}
MCFirstRoles == {[u \in MCUsers |-> IF u = u1 THEN r ELSE "none"] :
                     r \in {"teknisi", "super_admin"}}
MCPromotions == {<<"tenant", "owner">>}
MCTyped == {<<"dashboard", "bookings">>}
=============================================================================
