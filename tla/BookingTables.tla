--------------------------- MODULE BookingTables ---------------------------
(***************************************************************************)
(* The tables the booking engine works on (rooms, bookings, contracts, the *)
(* verified kosts), the requests in flight, and the statements the engine  *)
(* is made of.  BookingEngine says what the handlers do with them.         *)
(*                                                                         *)
(* The columns a later step reads are status, room, tenant and the two     *)
(* deadlines.                                                              *)
(***************************************************************************)
EXTENDS Integers

CONSTANTS
    Kosts,          \* boarding houses
    Owners,         \* their owners
    Rooms,          \* rooms
    Tenants,        \* users with the tenant role
    Bookings,       \* ids a new booking may get
    Handlers,       \* requests the server works on at a time
    KostOf,         \* rooms.kost_id
    OwnerOf,        \* kosts.owner_id
    BookingExpiry,  \* cfg.BookingExpiryHours, in clock ticks
    LeaseTerms,     \* time from the approval to the end date, in ticks
    Recorded        \* the kinds of notice the model keeps

\* Deadlines count down: "left" is the deadline minus the clock, and Past
\* stands for every deadline that is behind us.
Past == -1

NoticeKinds == {"booked", "agenda", "processing", "approved", "rejected", "ended"}

ASSUME TopologyAssumption == KostOf \in [Rooms -> Kosts] /\ OwnerOf \in [Kosts -> Owners]
ASSUME ExpiryAssumption == BookingExpiry \in Nat \ {0}
ASSUME LeaseAssumption == LeaseTerms \subseteq Nat \cup {Past}
ASSUME RecordedAssumption == Recorded \subseteq NoticeKinds

VARIABLES
    room,      \* rooms.status
    booking,   \* the bookings table
    contract,  \* the contracts table, by booking (booking_id is UNIQUE)
    listed,    \* the kosts whose status is verified
    req,       \* what each handler is doing
    notices    \* rows of notifications and events, of the Recorded kinds

vars == <<room, booking, contract, listed, req, notices>>

---------------------------------------------------------------------------
(* Rows *)

RoomStatus == {"available", "reserved", "occupied", "maintenance"}
Live == {"pending", "processing"}
BookingStatus == Live \cup {"approved", "rejected", "expired", "cancelled"}

BookingRow == [status : BookingStatus, room : Rooms, tenant : Tenants, left : Int]
NoBooking == [status |-> "none"]

ContractRow == [status : {"active", "ended"}, left : Int]
NoContract == [status |-> "none"]

Ops == {"cancel", "process", "approve", "reject", "end"}
Request == [op : Ops \cup {"create"}, booking : Bookings, stage : {"checked", "notify"}]
Idle == [op |-> "none"]

Notice == [kind : Recorded, booking : Bookings]

TypeOK ==
    /\ room \in [Rooms -> RoomStatus]
    /\ booking \in [Bookings -> BookingRow \cup {NoBooking}]
    /\ contract \in [Bookings -> ContractRow \cup {NoContract}]
    /\ listed \in SUBSET Kosts
    /\ req \in [Handlers -> Request \cup {Idle}]
    /\ notices \in SUBSET Notice

IsLive(b) == booking[b].status \in Live
IsActive(b) == contract[b].status = "active"

\* The partial unique index uq_bookings_room_pending: a second pending
\* booking of the same room is refused.
PendingFor(r) == {b \in Bookings : booking[b].status = "pending" /\ booking[b].room = r}

\* The owner of the kost the booking's room is in, as GetBookingWithKostOwner
\* and EndContract look it up.
OwnerFor(b) == OwnerOf[KostOf[booking[b].room]]

\* UPDATE bookings SET status = to WHERE id = b AND status IN from.
Moved(b, from, to) == [booking EXCEPT ![b].status = IF @ \in from THEN to ELSE @]

\* UPDATE rooms SET status = to WHERE id = r AND status IN from.
RoomMoved(r, from, to) == [room EXCEPT ![r] = IF @ \in from THEN to ELSE @]

\* One tick of the clock on a deadline.
Aged(left) == IF left > Past THEN left - 1 ELSE Past

---------------------------------------------------------------------------
Init ==
    /\ room \in [Rooms -> {"available", "maintenance"}]
    /\ booking = [b \in Bookings |-> NoBooking]
    /\ contract = [b \in Bookings |-> NoContract]
    /\ listed \in SUBSET Kosts
    /\ req = [h \in Handlers |-> Idle]
    /\ notices = {}

(* Requests *)

\* Handler h passed its guards on the row as read and goes on to write.
Begin(h, op, b) ==
    /\ req[h] = Idle
    /\ req' = [req EXCEPT ![h] = [op |-> op, booking |-> b, stage |-> "checked"]]
    /\ UNCHANGED <<room, booking, contract, listed, notices>>

\* Handler h is about to run the transaction of op on booking b.
Committing(h, op, b) ==
    req[h] = [op |-> op, booking |-> b, stage |-> "checked"]

\* The transaction is committed; the notifications are still to be written.
NotifyNext(h, op, b) ==
    req' = [req EXCEPT ![h] = [op |-> op, booking |-> b, stage |-> "notify"]]

Done(h) == req' = [req EXCEPT ![h] = Idle]

\* The bookings the worker's statement picks: live, their deadline reached.
Overdue == {b \in Bookings : IsLive(b) /\ booking[b].left <= 0}

\* The notices each operation writes once its transaction is committed.
KindsOf(op) ==
    CASE op = "create"  -> {"booked", "agenda"}
      [] op = "process" -> {"processing"}
      [] op = "approve" -> {"approved"}
      [] op = "reject"  -> {"rejected"}
      [] op = "end"     -> {"ended"}
      [] OTHER          -> {}
============================================================================
