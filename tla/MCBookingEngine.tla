--------------------------- MODULE MCBookingEngine ---------------------------
(***************************************************************************)
(* Small instances of the booking engine for TLC.  Two rooms of one kost   *)
(* or one room, and bookings and handlers enough for the races the engine  *)
(* has: two requests on one booking, and a third booking between them.     *)
(***************************************************************************)
EXTENDS BookingProperties, TLC

CONSTANTS k1, o1

MCKosts == {k1}
MCOwners == {o1}
MCKostOf == [r \in Rooms |-> k1]
MCOwnerOf == [k \in MCKosts |-> o1]

NoKinds == {}
Symmetry == Permutations(Bookings) \cup Permutations(Handlers) \cup Permutations(Rooms)
=============================================================================
