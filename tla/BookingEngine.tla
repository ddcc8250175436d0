--------------------------- MODULE BookingEngine ---------------------------
(***************************************************************************)
(* The booking engine of the backend (backend/internal/modules/bookings):  *)
(* tenants book rooms, owners decide, a worker expires what nobody decided *)
(* in time.  All state is in Postgres; what runs concurrently are HTTP     *)
(* handlers, each in a goroutine of its own, and the expiry worker.        *)
(*                                                                         *)
(* Every handler but Create first READS the booking (or contract) outside  *)
(* any transaction, decides on that snapshot, and then WRITES in one       *)
(* transaction.  The model keeps exactly that split: a Check action takes  *)
(* the guards on the row as read, a Commit action writes whatever the row  *)
(* has become, and any other step may come in between.  A transaction is   *)
(* one step: each locks its booking row, then its room row, so two of them *)
(* are serialised by Postgres' row locks, and a WHERE clause is evaluated  *)
(* on the locked row (READ COMMITTED).                                     *)
(*                                                                         *)
(* The columns a later step reads are status, room, tenant and the two     *)
(* deadlines; a snapshot therefore only has to remember which row it is    *)
(* of, because Save writes the status the handler has chosen and, in every *)
(* other modelled column, the value it never changes.                      *)
(*                                                                         *)
(* A definition marked "Slip" is no part of the engine: it is the          *)
(* operation that follows as one plausible mistake in the code would make  *)
(* it, and putting it in its place must break a property.                  *)
(***************************************************************************)
EXTENDS BookingTables

---------------------------------------------------------------------------
\* Slip: Create without the unique index of pending bookings.
CreateUnindexed(h, t, r, b) ==
    /\ req[h] = Idle
    /\ booking[b] = NoBooking
    /\ room[r] = "available"
    /\ KostOf[r] \in listed
    /\ booking' = [booking EXCEPT ![b] = [status |-> "pending", room |-> r,
                                          tenant |-> t, left |-> BookingExpiry]]
    /\ room' = [room EXCEPT ![r] = "reserved"]
    /\ NotifyNext(h, "create", b)
    /\ UNCHANGED <<contract, listed, notices>>

(* Create: CreateBookingTx holds the room row FOR UPDATE from its status   *)
(* check to its commit, so the whole transaction is one step.              *)
Create(h, t, r, b) ==
    /\ req[h] = Idle
    /\ booking[b] = NoBooking
    /\ room[r] = "available"
    /\ KostOf[r] \in listed
    /\ PendingFor(r) = {}
    /\ booking' = [booking EXCEPT ![b] = [status |-> "pending", room |-> r,
                                          tenant |-> t, left |-> BookingExpiry]]
    /\ room' = [room EXCEPT ![r] = "reserved"]
    /\ NotifyNext(h, "create", b)
    /\ UNCHANGED <<contract, listed, notices>>

(* Cancel, by the tenant: both updates are conditional, but the second is  *)
(* made whether or not the first found its row still pending.  It notifies *)
(* nobody.                                                                 *)
CheckCancel(h, t, b) ==
    /\ booking[b].status = "pending"
    /\ booking[b].tenant = t
    /\ Begin(h, "cancel", b)

\* Slip: Cancel without "AND status = 'pending'" in its update.
CommitCancelAnyway(h, b) ==
    /\ Committing(h, "cancel", b)
    /\ booking' = Moved(b, BookingStatus, "cancelled")
    /\ room' = RoomMoved(booking[b].room, {"reserved"}, "available")
    /\ Done(h)
    /\ UNCHANGED <<contract, listed, notices>>

CommitCancel(h, b) ==
    /\ Committing(h, "cancel", b)
    /\ booking' = Moved(b, {"pending"}, "cancelled")
    /\ room' = RoomMoved(booking[b].room, {"reserved"}, "available")
    /\ Done(h)
    /\ UNCHANGED <<contract, listed, notices>>

(* MarkProcessing, by the owner: one conditional update, outside any       *)
(* transaction; the row count is not looked at, so the notice follows even *)
(* when nothing was updated.                                               *)
CheckProcess(h, o, b) ==
    /\ booking[b].status = "pending"
    /\ OwnerFor(b) = o
    /\ Begin(h, "process", b)

\* Slip: MarkProcessing without "AND status = 'pending'" in its update.
CommitProcessAnyway(h, b) ==
    /\ Committing(h, "process", b)
    /\ booking' = Moved(b, BookingStatus, "processing")
    /\ NotifyNext(h, "process", b)
    /\ UNCHANGED <<room, contract, listed, notices>>

CommitProcess(h, b) ==
    /\ Committing(h, "process", b)
    /\ booking' = Moved(b, {"pending"}, "processing")
    /\ NotifyNext(h, "process", b)
    /\ UNCHANGED <<room, contract, listed, notices>>

(* Approve, by the owner: the deadline is compared on the row as read; the *)
(* transaction inserts the contract (one per booking), overwrites the      *)
(* booking whatever it has become, and occupies the room whatever it is.   *)
CheckApprove(h, o, b) ==
    /\ IsLive(b)
    /\ booking[b].left >= 0
    /\ OwnerFor(b) = o
    /\ Begin(h, "approve", b)

\* Slip: Approve with contracts.booking_id not unique, and the contract upserted.
CommitApproveUpsert(h, b, term) ==
    /\ Committing(h, "approve", b)
    /\ contract' = [contract EXCEPT ![b] = [status |-> "active", left |-> term]]
    /\ booking' = Moved(b, BookingStatus, "approved")
    /\ room' = RoomMoved(booking[b].room, RoomStatus, "occupied")
    /\ NotifyNext(h, "approve", b)
    /\ UNCHANGED <<listed, notices>>

CommitApprove(h, b, term) ==
    /\ Committing(h, "approve", b)
    /\ contract[b] = NoContract
    /\ contract' = [contract EXCEPT ![b] = [status |-> "active", left |-> term]]
    /\ booking' = Moved(b, BookingStatus, "approved")
    /\ room' = RoomMoved(booking[b].room, RoomStatus, "occupied")
    /\ NotifyNext(h, "approve", b)
    /\ UNCHANGED <<listed, notices>>

(* Reject, by the owner: pending bookings only; the transaction overwrites *)
(* the booking whatever it has become, and frees the room if reserved.     *)
CheckReject(h, o, b) ==
    /\ booking[b].status = "pending"
    /\ OwnerFor(b) = o
    /\ Begin(h, "reject", b)

\* Slip: Reject that forgets the room.
CommitRejectHolding(h, b) ==
    /\ Committing(h, "reject", b)
    /\ booking' = Moved(b, BookingStatus, "rejected")
    /\ NotifyNext(h, "reject", b)
    /\ UNCHANGED <<room, contract, listed, notices>>

CommitReject(h, b) ==
    /\ Committing(h, "reject", b)
    /\ booking' = Moved(b, BookingStatus, "rejected")
    /\ room' = RoomMoved(booking[b].room, {"reserved"}, "available")
    /\ NotifyNext(h, "reject", b)
    /\ UNCHANGED <<contract, listed, notices>>

\* Slip: EndContract of a contract that has ended already.
CheckEndTwice(h, o, b) ==
    /\ contract[b] # NoContract
    /\ OwnerFor(b) = o
    /\ Begin(h, "end", b)

(* EndContract, by the owner: overwrites the contract and makes the room   *)
(* available whatever it is.                                               *)
CheckEnd(h, o, b) ==
    /\ IsActive(b)
    /\ OwnerFor(b) = o
    /\ Begin(h, "end", b)

CommitEnd(h, b) ==
    /\ Committing(h, "end", b)
    /\ contract' = [contract EXCEPT ![b].status = "ended"]
    /\ room' = RoomMoved(booking[b].room, RoomStatus, "available")
    /\ NotifyNext(h, "end", b)
    /\ UNCHANGED <<booking, listed, notices>>

---------------------------------------------------------------------------
\* Slip: The notices written before the transaction.
NotifyEarly(h, kinds) ==
    /\ req[h].op # "none"
    /\ kinds \subseteq (KindsOf(req[h].op) \cap Recorded)
    /\ notices' = notices \cup [kind : kinds, booking : {req[h].booking}]
    /\ UNCHANGED <<room, booking, contract, listed, req>>

(* What a committed request still writes: notifications and, for Create,   *)
(* the survey in the owner's agenda.  Each insert is best effort (its      *)
(* error is logged and swallowed) and none is retried, so any part of them *)
(* may be missing when the handler is done, or all of them when the server *)
(* stops here.                                                             *)
Notify(h, kinds) ==
    /\ req[h].op # "none"
    /\ req[h].stage = "notify"
    /\ kinds \subseteq (KindsOf(req[h].op) \cap Recorded)
    /\ notices' = notices \cup [kind : kinds, booking : {req[h].booking}]
    /\ Done(h)
    /\ UNCHANGED <<room, booking, contract, listed>>

(* A request that has checked its guards ends without a write: the unique  *)
(* index on contracts.booking_id refuses it, the transaction fails, the    *)
(* client is gone and the request context cancelled, or the server stops.  *)
(* The server restarting is every request in flight ending this way (or in *)
(* Notify without a notice).                                               *)
Abort(h) ==
    /\ req[h].op # "none"
    /\ req[h].stage = "checked"
    /\ Done(h)
    /\ UNCHANGED <<room, booking, contract, listed, notices>>

---------------------------------------------------------------------------
\* Slip: The worker as it was before the processing status (migration 000009).
OverduePending == {b \in Bookings : booking[b].status = "pending" /\ booking[b].left <= 0}

\* Slip: The worker freeing the rooms of the pending bookings it expires only.
ExpireHolding ==
    /\ Overdue # {}
    /\ booking' = [b \in Bookings |-> IF b \in Overdue THEN [booking[b] EXCEPT !.status = "expired"]
                                                       ELSE booking[b]]
    /\ room' = [r \in Rooms |->
                    IF room[r] = "reserved" /\ \E b \in OverduePending : booking[b].room = r
                    THEN "available" ELSE room[r]]
    /\ UNCHANGED <<contract, listed, req, notices>>

(* The worker's statement: every overdue booking expires, and its room is  *)
(* freed if it is reserved, in one step.                                   *)
ExpirePendingBookings ==
    /\ Overdue # {}
    /\ booking' = [b \in Bookings |-> IF b \in Overdue THEN [booking[b] EXCEPT !.status = "expired"]
                                                       ELSE booking[b]]
    /\ room' = [r \in Rooms |->
                    IF room[r] = "reserved" /\ \E b \in Overdue : booking[b].room = r
                    THEN "available" ELSE room[r]]
    /\ UNCHANGED <<contract, listed, req, notices>>

(* The environment: time passes; admins and technicians verify and reject  *)
(* kosts (the kosts and survey modules).                                   *)
AgedBooking(b) ==
    IF booking[b] = NoBooking THEN NoBooking ELSE [booking[b] EXCEPT !.left = Aged(@)]
AgedContract(b) ==
    IF contract[b] = NoContract THEN NoContract ELSE [contract[b] EXCEPT !.left = Aged(@)]

Tick ==
    /\ booking' = [b \in Bookings |-> AgedBooking(b)]
    /\ contract' = [b \in Bookings |-> AgedContract(b)]
    /\ UNCHANGED <<room, listed, req, notices>>

KostDecision(k) ==
    /\ listed' \in {listed \cup {k}, listed \ {k}}
    /\ UNCHANGED <<room, booking, contract, req, notices>>

---------------------------------------------------------------------------
TenantStep(h, t, b) ==
    \/ \E r \in Rooms : Create(h, t, r, b)
    \/ CheckCancel(h, t, b)

OwnerStep(h, o, b) ==
    \/ CheckProcess(h, o, b)
    \/ CheckApprove(h, o, b)
    \/ CheckReject(h, o, b)
    \/ CheckEnd(h, o, b)

CommitStep(h, b) ==
    \/ CommitCancel(h, b)
    \/ CommitProcess(h, b)
    \/ \E term \in LeaseTerms : CommitApprove(h, b, term)
    \/ CommitReject(h, b)
    \/ CommitEnd(h, b)

FinishStep(h) ==
    \/ \E kinds \in SUBSET Recorded : Notify(h, kinds)
    \/ Abort(h)

Next ==
    \/ \E h \in Handlers, t \in Tenants, b \in Bookings : TenantStep(h, t, b)
    \/ \E h \in Handlers, o \in Owners, b \in Bookings : OwnerStep(h, o, b)
    \/ \E h \in Handlers, b \in Bookings : CommitStep(h, b)
    \/ \E h \in Handlers : FinishStep(h)
    \/ ExpirePendingBookings
    \/ Tick
    \/ \E k \in Kosts : KostDecision(k)

Spec == Init /\ [][Next]_vars

(* Time passes, and the worker, started by main and restarted with it,     *)
(* runs on every tick of its ticker.  Requests are owed nothing.           *)
FairSpec == Spec /\ WF_vars(Tick) /\ WF_vars(ExpirePendingBookings)

(* The same system when requests do not overlap: the worker, the clock and *)
(* the admins still run between a request's read and its write, but no     *)
(* second request does.                                                    *)
Alone == \A g, h \in Handlers : req[g].op # "none" /\ req[h].op # "none" => g = h

SerialNext == Next /\ Alone'

SerialSpec == Init /\ [][SerialNext]_vars
============================================================================
