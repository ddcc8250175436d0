-------------------------- MODULE BookingProperties --------------------------
(***************************************************************************)
(* What the booking engine keeps, with requests overlapping (Spec) and     *)
(* with requests one at a time (SerialSpec), and what the repository's     *)
(* documents say of it that the code does not keep.                        *)
(***************************************************************************)
EXTENDS BookingEngine

(* Bookings of a room, those still live, and those with an active contract. *)
OnRoom(r) == {b \in Bookings : booking[b] # NoBooking /\ booking[b].room = r}
LiveOn(r) == {b \in OnRoom(r) : IsLive(b)}
ActiveOn(r) == {b \in OnRoom(r) : IsActive(b)}

---------------------------------------------------------------------------
(* Kept whatever overlaps                                                  *)

\* At most one pending booking per room, even when a stale cancellation or
\* rejection has made a room available that another booking reserves: there
\* only the unique index stands between two tenants (migration 000001).
OnePendingPerRoom ==
    \A b, c \in Bookings :
        /\ booking[b].status = "pending"
        /\ booking[c].status = "pending"
        /\ booking[b].room = booking[c].room
        => b = c

\* A reserved room has a booking somebody can still decide on or that will
\* expire: no race of Cancel, Reject, Approve, EndContract and the worker
\* strands a room as reserved with nobody able to free it.
ReservedHasBooking == \A r \in Rooms : room[r] = "reserved" => LiveOn(r) # {}

\* An occupied room has an active contract: EndContract, stale or not, never
\* leaves a room occupied by a contract that is over.
OccupiedHasContract == \A r \in Rooms : room[r] = "occupied" => ActiveOn(r) # {}

\* No race of the handlers and the worker strands a room: it is reserved or
\* occupied only with something behind it that can still be ended.
RoomsBacked == ReservedHasBooking /\ OccupiedHasContract

\* A booking with a contract is approved, or a stale Reject has written over
\* the approval; the conditional updates (Cancel, MarkProcessing, the worker)
\* never touch a booking that has a contract.  An approved booking has one.
ContractedIsDecided ==
    \A b \in Bookings :
        /\ contract[b] # NoContract => booking[b].status \in {"approved", "rejected"}
        /\ booking[b].status = "approved" => contract[b] # NoContract

\* A notice that a booking was approved, or its contract ended, is true: a
\* best-effort notice may be lost but it is never ahead of its commit.
NoticesTrue ==
    \A n \in notices :
        /\ n.kind \in {"booked", "agenda"} => booking[n.booking] # NoBooking
        /\ n.kind = "approved" => contract[n.booking] # NoContract
        /\ n.kind = "ended" => contract[n.booking].status = "ended"

\* What a handler has in hand is in the tables: its booking exists, ending a
\* contract presupposes one, and by the time it notifies, its commit shows.
RequestsSound ==
    \A h \in Handlers : req[h] # Idle =>
        LET b == req[h].booking IN
        /\ booking[b] # NoBooking
        /\ req[h].op = "end" => contract[b] # NoContract
        /\ req[h].stage = "notify" /\ req[h].op = "approve" => contract[b] # NoContract
        /\ req[h].stage = "notify" /\ req[h].op = "end" => contract[b].status = "ended"

\* The inductive invariant that carries the six invariants above; it is what
\* BookingProofs shows every step of the engine to preserve.
EngineInv ==
    /\ TypeOK
    /\ RequestsSound
    /\ OnePendingPerRoom
    /\ ReservedHasBooking
    /\ OccupiedHasContract
    /\ ContractedIsDecided
    /\ NoticesTrue

\* A booking that is decided, expired or cancelled is never pending or
\* processing again: MarkProcessing on a stale read cannot revive it.
NeverReopened ==
    [][\A b \in Bookings : booking[b] # NoBooking /\ ~IsLive(b) => ~IsLive(b)']_vars

\* A booking gets one contract in its life, which only goes from active to
\* ended: two approvals of one booking, with an EndContract between them,
\* cannot bring an ended contract back.
ContractOnlyEnds ==
    [][\A b \in Bookings :
        /\ contract[b] # NoContract => contract'[b] # NoContract
        /\ contract[b].status = "ended" => contract'[b].status = "ended"]_vars

---------------------------------------------------------------------------
(* What must happen                                                        *)

\* No reservation outlives the booking's deadline: a reserved room becomes
\* available or occupied.
ReservationEnds == \A r \in Rooms : room[r] = "reserved" ~> room[r] # "reserved"

---------------------------------------------------------------------------
(* Kept when requests do not overlap                                       *)

\* rooms.status, the bookings and the contracts agree: a room is reserved for
\* exactly one live booking, occupied under exactly one active contract, and
\* has neither otherwise.
RoomAgrees(r) ==
    /\ room[r] \in {"available", "maintenance"} => LiveOn(r) = {} /\ ActiveOn(r) = {}
    /\ room[r] = "reserved" => ActiveOn(r) = {} /\ \E b \in Bookings : LiveOn(r) = {b}
    /\ room[r] = "occupied" => LiveOn(r) = {} /\ \E b \in Bookings : ActiveOn(r) = {b}

RoomsAgree == \A r \in Rooms : RoomAgrees(r)

\* What RoomsAgree rests on (BookingProofs): the only request in hand finds,
\* when it commits, the row as it read it, or expired with its room free again.
Lapsed(b) == booking[b].status = "expired" /\ room[booking[b].room] = "available"

InHand ==
    \A h \in Handlers : req[h] # Idle /\ req[h].stage = "checked" =>
        LET b == req[h].booking IN
        /\ req[h].op = "end" => IsActive(b)
        /\ req[h].op = "approve" => IsLive(b) \/ Lapsed(b)
        /\ req[h].op \in {"cancel", "process", "reject"} =>
                booking[b].status = "pending" \/ Lapsed(b)

\* The engine keeps the ledger: what the tables say of each room goes only
\* through the steps RoomLedger allows.
HolderOf(r) ==
    CASE room[r] = "available"   -> [state |-> "free"]
      [] room[r] = "maintenance" -> [state |-> "closed"]
      [] room[r] = "reserved"    -> [state |-> "held", by |-> CHOOSE b \in Bookings : b \in LiveOn(r)]
      [] OTHER                   -> [state |-> "let", by |-> CHOOSE b \in Bookings : b \in ActiveOn(r)]

Ledger == INSTANCE RoomLedger WITH
    holder <- [r \in Rooms |-> HolderOf(r)],
    seen <- {b \in Bookings : booking[b] # NoBooking},
    over <- {b \in Bookings : contract[b].status = "ended"}

KeepsLedger == Ledger!Spec

\* What the pages know of a row, in the words of Pages.
Desk == INSTANCE Pages

ShownStatus(row) == IF row.status = "none" THEN "absent" ELSE row.status

\* The owner decides on a booking that has expired since he was answered.
DecidedLate(h, b) ==
    /\ booking[b].status = "expired"
    /\ \/ Committing(h, "approve", b) /\ booking'[b].status = "approved"
       \/ Committing(h, "reject", b) /\ booking'[b].status = "rejected"

BookingForeseen(b) ==
    \/ Desk!Foreseen(Desk!BookingMoves, "bookings",
                     ShownStatus(booking[b]), ShownStatus(booking'[b]))
    \/ \E h \in Handlers : DecidedLate(h, b)

ContractForeseen(b) ==
    Desk!Foreseen(Desk!BookingMoves, "contracts",
                  ShownStatus(contract[b]), ShownStatus(contract'[b]))

RoomForeseen(r) ==
    \/ Desk!Foreseen(Desk!RoomMoves, "rooms", room[r], room'[r])
    \/ /\ room[r] = "available" /\ room'[r] = "occupied"
       /\ \E h \in Handlers, b \in Bookings : DecidedLate(h, b) /\ booking[b].room = r

\* The pages offer a move at the statuses Pages says the server takes it at,
\* and expect what Pages says of it: no step of the engine takes a booking, a
\* contract or a room another way, but for a decision that comes late, which
\* is written over the expiry and lets the room the expiry had made available.
MovesForeseen ==
    [][/\ \A b \in Bookings : BookingForeseen(b) /\ ContractForeseen(b)
       /\ \A r \in Rooms : RoomForeseen(r)]_vars

---------------------------------------------------------------------------
(* What the documents say and the code does not keep                       *)

\* README.md:20 names overlapping bookings as the problem the system solves:
\* a room is let under one contract at a time.
NoDoubleLet == \A b, c \in Bookings :
    IsActive(b) /\ IsActive(c) /\ booking[b].room = booking[c].room => b = c
=============================================================================
