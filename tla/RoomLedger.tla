----------------------------- MODULE RoomLedger -----------------------------
(***************************************************************************)
(* What the booking engine is for, without its tables: every room is free, *)
(* closed for maintenance, held for one booking, or let under one.  A room *)
(* goes from one booking to the next only through being free; a booking    *)
(* holds a room once, and lets it once.                                    *)
(*                                                                         *)
(* This is an abstract specification.  It describes no piece of code; the  *)
(* rules are those of the state machine in docs/product-foundation.md,     *)
(* section 1.5, as the code keeps them when requests do not overlap.       *)
(***************************************************************************)
CONSTANTS Rooms, Bookings

VARIABLES
    holder,  \* who has each room
    seen,    \* bookings that have held a room
    over     \* bookings whose lease is over

vars == <<holder, seen, over>>

Free == [state |-> "free"]
Closed == [state |-> "closed"]
HeldBy(b) == [state |-> "held", by |-> b]
LetTo(b) == [state |-> "let", by |-> b]

Holders == {Free, Closed} \cup {HeldBy(b) : b \in Bookings} \cup {LetTo(b) : b \in Bookings}

TypeOK ==
    /\ holder \in [Rooms -> Holders]
    /\ seen \subseteq Bookings
    /\ over \subseteq seen

Init ==
    /\ holder \in [Rooms -> {Free, Closed}]
    /\ seen = {}
    /\ over = {}

\* A new booking takes a free room.
Hold(r, b) ==
    /\ holder[r] = Free
    /\ b \notin seen
    /\ holder' = [holder EXCEPT ![r] = HeldBy(b)]
    /\ seen' = seen \cup {b}
    /\ UNCHANGED over

\* Bookings are cancelled or rejected, or expire, and give their rooms back.
Release(rs) ==
    /\ \A r \in rs : holder[r].state = "held"
    /\ holder' = [r \in Rooms |-> IF r \in rs THEN Free ELSE holder[r]]
    /\ UNCHANGED <<seen, over>>

\* The owner approves: the room is held for this booking, or the booking has
\* given it back while the owner was deciding and nobody has taken it.
Let(r, b) ==
    /\ holder[r] \in {HeldBy(b), Free}
    /\ b \in seen \ over
    /\ \A q \in Rooms : holder[q] # LetTo(b)
    /\ holder' = [holder EXCEPT ![r] = LetTo(b)]
    /\ UNCHANGED <<seen, over>>

\* The owner ends the contract.
Vacate(r, b) ==
    /\ holder[r] = LetTo(b)
    /\ holder' = [holder EXCEPT ![r] = Free]
    /\ over' = over \cup {b}
    /\ UNCHANGED seen

Next ==
    \/ \E r \in Rooms, b \in Bookings : Hold(r, b) \/ Let(r, b) \/ Vacate(r, b)
    \/ \E rs \in SUBSET Rooms : Release(rs)

Spec == Init /\ [][Next]_vars
=============================================================================
