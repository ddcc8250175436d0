---------------------------- MODULE BookingProofs ----------------------------
(***************************************************************************)
(* Proofs about the booking engine for every set of rooms, bookings and    *)
(* handlers.                                                               *)
(***************************************************************************)
EXTENDS BookingProperties, TLAPS

USE TopologyAssumption, ExpiryAssumption, LeaseAssumption, RecordedAssumption

(* A row of bookings is a BookingRow or no row at all, told by its status. *)
LEMMA RowTypes ==
    ASSUME TypeOK, NEW b \in Bookings
    PROVE  /\ booking[b] # NoBooking <=> booking[b].status \in BookingStatus
           /\ booking[b] # NoBooking <=> booking[b] \in BookingRow
           /\ contract[b] # NoContract <=> contract[b].status \in {"active", "ended"}
           /\ contract[b] # NoContract <=> contract[b] \in ContractRow
BY DEF TypeOK, BookingRow, NoBooking, ContractRow, NoContract, BookingStatus, Live

LEMMA RequestTypes ==
    ASSUME TypeOK, NEW h \in Handlers, req[h] # Idle
    PROVE  req[h] \in Request /\ req[h].op # "none" /\ req[h].booking \in Bookings
BY DEF TypeOK, Request, Idle, Ops

LEMMA InitInv == Init => EngineInv
<1> SUFFICES ASSUME Init PROVE EngineInv
    OBVIOUS
<1>1. TypeOK
  BY DEF Init, TypeOK, RoomStatus
<1>2. RequestsSound
  BY DEF Init, RequestsSound
<1>3. OnePendingPerRoom
  BY DEF Init, OnePendingPerRoom, NoBooking
<1>4. ReservedHasBooking /\ OccupiedHasContract
  BY DEF Init, ReservedHasBooking, OccupiedHasContract
<1>5. ContractedIsDecided
  BY DEF Init, ContractedIsDecided, NoBooking
<1>6. NoticesTrue
  BY DEF Init, NoticesTrue
<1>7. QED
  BY <1>1, <1>2, <1>3, <1>4, <1>5, <1>6 DEF EngineInv

LEMMA CreateInv ==
    ASSUME EngineInv, NEW h \in Handlers, NEW t \in Tenants, NEW r \in Rooms, NEW b \in Bookings,
           Create(h, t, r, b)
    PROVE  EngineInv'
<1> USE DEF EngineInv
<1>1. TypeOK'
  BY DEF TypeOK, Create, NotifyNext, Request, BookingRow, BookingStatus, Live, RoomStatus
<1>2.
      /\ booking'[b] = [status |-> "pending", room |-> r, tenant |-> t, left |-> BookingExpiry]
      /\ \A c \in Bookings : c # b => booking'[c] = booking[c]
      /\ contract[b] = NoContract
      /\ booking[b] = NoBooking
      /\ contract' = contract
  BY RowTypes DEF TypeOK, Create, ContractedIsDecided, NoBooking
<1>3. RequestsSound'
  BY <1>1, <1>2, RequestTypes DEF TypeOK, RequestsSound, Create, NotifyNext, NoBooking, Idle
<1>4. OnePendingPerRoom'
  BY <1>2 DEF OnePendingPerRoom, Create, PendingFor
<1>5. ReservedHasBooking'
  BY <1>1, <1>2 DEF TypeOK, ReservedHasBooking, Create, LiveOn, OnRoom, IsLive, Live, NoBooking
<1>6. OccupiedHasContract'
  BY <1>1, <1>2, RowTypes DEF TypeOK, OccupiedHasContract, Create, ActiveOn, OnRoom, IsActive, NoBooking
<1>7. ContractedIsDecided'
  BY <1>1, <1>2, RowTypes DEF ContractedIsDecided
<1>8. NoticesTrue'
  BY <1>1, <1>2 DEF TypeOK, NoticesTrue, Notice, Create, NoBooking
<1>9. QED
  BY <1>1, <1>3, <1>4, <1>5, <1>6, <1>7, <1>8

(* A request that only checks its guards changes nothing but its handler.  *)
LEMMA BeginInv ==
    ASSUME EngineInv, NEW h \in Handlers, NEW b \in Bookings, NEW op \in Ops,
           booking[b] # NoBooking, op = "end" => contract[b] # NoContract,
           Begin(h, op, b)
    PROVE  EngineInv'
<1> USE DEF EngineInv
<1>1. TypeOK'
  BY DEF TypeOK, Begin, Request
<1>2. RequestsSound'
  BY DEF TypeOK, RequestsSound, Begin
<1>3. OnePendingPerRoom' /\ ReservedHasBooking' /\ OccupiedHasContract'
  BY DEF Begin, OnePendingPerRoom, ReservedHasBooking, OccupiedHasContract, LiveOn, ActiveOn,
         OnRoom, IsLive, IsActive
<1>4. ContractedIsDecided' /\ NoticesTrue'
  BY DEF Begin, ContractedIsDecided, NoticesTrue
<1>5. QED
  BY <1>1, <1>2, <1>3, <1>4

LEMMA CheckInv ==
    ASSUME EngineInv, NEW h \in Handlers, NEW b \in Bookings,
           NEW t \in Tenants \cup Owners,
           \/ CheckCancel(h, t, b)
           \/ OwnerStep(h, t, b)
    PROVE  EngineInv'
<1>1. CASE CheckCancel(h, t, b) \/ CheckProcess(h, t, b) \/ CheckApprove(h, t, b) \/ CheckReject(h, t, b)
  <2>1. booking[b] # NoBooking
    BY <1>1 DEF CheckCancel, CheckProcess, CheckApprove, CheckReject, IsLive, Live, NoBooking
  <2>2. \E op \in Ops \ {"end"} : Begin(h, op, b)
    BY <1>1 DEF CheckCancel, CheckProcess, CheckApprove, CheckReject, Ops
  <2>3. QED
    BY <2>1, <2>2, BeginInv
<1>2. CASE CheckEnd(h, t, b)
  <2>1. contract[b] # NoContract
    BY <1>2 DEF CheckEnd, IsActive, NoContract
  <2>2. booking[b] # NoBooking
    BY <2>1, RowTypes DEF EngineInv, ContractedIsDecided, BookingStatus
  <2>3. QED
    BY <1>2, <2>1, <2>2, BeginInv DEF CheckEnd, Ops
<1>3. QED
  BY <1>1, <1>2 DEF OwnerStep

(* The row a request is about is there when it commits.                    *)
LEMMA CommitRow ==
    ASSUME TypeOK, RequestsSound, NEW h \in Handlers, NEW b \in Bookings, NEW op \in Ops,
           Committing(h, op, b)
    PROVE  /\ booking[b] \in BookingRow
           /\ op = "end" => contract[b] \in ContractRow
           /\ req[h] # Idle /\ req[h].op = op /\ req[h].booking = b /\ req[h].stage = "checked"
BY RowTypes DEF RequestsSound, Committing, Idle, Ops

(* Rows stay where they are: none appears, disappears or changes its room. *)
RowsStay ==
    \A b \in Bookings :
        /\ booking'[b] = NoBooking <=> booking[b] = NoBooking
        /\ booking[b] # NoBooking => booking'[b].room = booking[b].room

LEMMA RoomsStay ==
    ASSUME RowsStay
    PROVE  \A r \in Rooms : OnRoom(r)' = OnRoom(r)
BY DEF RowsStay, OnRoom

(* What the update of one booking row, and of one room row, does.          *)
LEMMA MovedRow ==
    ASSUME TypeOK, NEW b \in Bookings, booking[b] \in BookingRow,
           NEW from \in SUBSET BookingStatus, NEW to \in BookingStatus,
           booking' = Moved(b, from, to)
    PROVE  /\ booking' \in [Bookings -> BookingRow \cup {NoBooking}]
           /\ booking'[b].status = IF booking[b].status \in from THEN to ELSE booking[b].status
           /\ \A c \in Bookings : c # b => booking'[c] = booking[c]
           /\ RowsStay
<1>1. /\ booking' \in [Bookings -> BookingRow \cup {NoBooking}]
      /\ booking'[b] \in BookingRow
      /\ booking'[b].room = booking[b].room
      /\ booking'[b].status = IF booking[b].status \in from THEN to ELSE booking[b].status
      /\ \A c \in Bookings : c # b => booking'[c] = booking[c]
  BY DEF TypeOK, Moved, BookingRow
<1>2. RowsStay
  BY <1>1 DEF RowsStay, BookingRow, NoBooking, BookingStatus, Live
<1>3. QED
  BY <1>1, <1>2

LEMMA MovedRoom ==
    ASSUME TypeOK, NEW r \in Rooms, NEW from \in SUBSET RoomStatus, NEW to \in RoomStatus,
           room' = RoomMoved(r, from, to)
    PROVE  /\ room' \in [Rooms -> RoomStatus]
           /\ room'[r] = IF room[r] \in from THEN to ELSE room[r]
           /\ \A q \in Rooms : q # r => room'[q] = room[q]
BY DEF TypeOK, RoomMoved

LEMMA CommitCancelInv ==
    ASSUME EngineInv, NEW h \in Handlers, NEW b \in Bookings, CommitCancel(h, b)
    PROVE  EngineInv'
<1> USE DEF EngineInv
<1> DEFINE r == booking[b].room
<1>1. booking[b] \in BookingRow /\ r \in Rooms
  BY CommitRow DEF CommitCancel, Ops, BookingRow
<1>2. /\ booking' \in [Bookings -> BookingRow \cup {NoBooking}]
      /\ booking'[b].status = IF booking[b].status \in {"pending"} THEN "cancelled" ELSE booking[b].status
      /\ \A c \in Bookings : c # b => booking'[c] = booking[c]
      /\ RowsStay
  BY <1>1, MovedRow DEF CommitCancel, BookingStatus, Live
<1>3. /\ room' \in [Rooms -> RoomStatus]
      /\ room'[r] = IF room[r] \in {"reserved"} THEN "available" ELSE room[r]
      /\ \A q \in Rooms : q # r => room'[q] = room[q]
  BY <1>1, MovedRoom DEF CommitCancel, RoomStatus
<1>4. contract' = contract /\ notices' = notices
  BY DEF CommitCancel
<1>5. TypeOK'
  BY <1>2, <1>3 DEF TypeOK, CommitCancel, Done
<1>6. RequestsSound'
  BY <1>2, <1>4 DEF TypeOK, RequestsSound, RowsStay, CommitCancel, Done, Idle, Request
<1>7. OnePendingPerRoom'
  BY <1>2 DEF OnePendingPerRoom, RowsStay, NoBooking
<1>8. ReservedHasBooking'
  BY <1>1, <1>2, <1>3 DEF ReservedHasBooking, RowsStay, LiveOn, OnRoom, IsLive
<1>9. OccupiedHasContract'
  BY <1>1, <1>2, <1>3, <1>4, RoomsStay DEF OccupiedHasContract, ActiveOn, IsActive
<1>10. ContractedIsDecided'
  BY <1>2, <1>4 DEF ContractedIsDecided
<1>11. NoticesTrue'
  BY <1>2, <1>4 DEF TypeOK, NoticesTrue, Notice, RowsStay
<1>12. QED
  BY <1>5, <1>6, <1>7, <1>8, <1>9, <1>10, <1>11

LEMMA CommitProcessInv ==
    ASSUME EngineInv, NEW h \in Handlers, NEW b \in Bookings, CommitProcess(h, b)
    PROVE  EngineInv'
<1> USE DEF EngineInv
<1>1. booking[b] \in BookingRow
  BY CommitRow DEF CommitProcess, Ops
<1>2. /\ booking' \in [Bookings -> BookingRow \cup {NoBooking}]
      /\ booking'[b].status = IF booking[b].status \in {"pending"} THEN "processing" ELSE booking[b].status
      /\ \A c \in Bookings : c # b => booking'[c] = booking[c]
      /\ RowsStay
  BY <1>1, MovedRow DEF CommitProcess, BookingStatus, Live
<1>3. room' = room /\ contract' = contract /\ notices' = notices
  BY DEF CommitProcess
<1>4. TypeOK'
  BY <1>2, <1>3 DEF TypeOK, CommitProcess, NotifyNext, Request, Ops
<1>5. RequestsSound'
  BY <1>1, <1>2, <1>3, RowTypes DEF TypeOK, RequestsSound, RowsStay, CommitProcess, NotifyNext, Idle, Request
<1>6. OnePendingPerRoom'
  BY <1>2 DEF OnePendingPerRoom, RowsStay, NoBooking
<1>7. ReservedHasBooking'
  BY <1>1, <1>2, <1>3 DEF ReservedHasBooking, RowsStay, LiveOn, OnRoom, IsLive, Live
<1>8. OccupiedHasContract'
  BY <1>2, <1>3, RoomsStay DEF OccupiedHasContract, ActiveOn, IsActive
<1>9. ContractedIsDecided'
  BY <1>2, <1>3 DEF ContractedIsDecided
<1>10. NoticesTrue'
  BY <1>2, <1>3 DEF TypeOK, NoticesTrue, Notice, RowsStay
<1>11. QED
  BY <1>4, <1>5, <1>6, <1>7, <1>8, <1>9, <1>10

LEMMA CommitApproveInv ==
    ASSUME EngineInv, NEW h \in Handlers, NEW b \in Bookings, NEW term \in LeaseTerms,
           CommitApprove(h, b, term)
    PROVE  EngineInv'
<1> USE DEF EngineInv
<1>1. booking[b] \in BookingRow /\ booking[b] # NoBooking
  BY CommitRow, RowTypes DEF CommitApprove, Ops
<1> PICK r \in Rooms : r = booking[b].room
  BY <1>1 DEF BookingRow
<1>2. /\ booking' \in [Bookings -> BookingRow \cup {NoBooking}]
      /\ booking'[b].status = "approved"
      /\ \A c \in Bookings : c # b => booking'[c] = booking[c]
      /\ RowsStay
  BY <1>1, MovedRow DEF CommitApprove, BookingStatus, Live, BookingRow
<1>3. /\ room' \in [Rooms -> RoomStatus]
      /\ room'[r] = "occupied"
      /\ \A q \in Rooms : q # r => room'[q] = room[q]
  BY <1>1, MovedRoom DEF CommitApprove, RoomStatus, TypeOK
<1>4. /\ contract' \in [Bookings -> ContractRow \cup {NoContract}]
      /\ contract[b] = NoContract
      /\ contract'[b] # NoContract
      /\ contract'[b].status = "active"
      /\ \A c \in Bookings : c # b => contract'[c] = contract[c]
      /\ notices' = notices
  BY DEF TypeOK, CommitApprove, ContractRow, NoContract
<1>5. TypeOK'
  BY <1>2, <1>3, <1>4 DEF TypeOK, CommitApprove, NotifyNext, Request, Ops
<1>6. RequestsSound'
  <2>1. req' = [req EXCEPT ![h] = [op |-> "approve", booking |-> b, stage |-> "notify"]]
    BY DEF CommitApprove, NotifyNext
  <2>2. booking'[b] # NoBooking
    BY <1>1, <1>2 DEF RowsStay
  <2>3. ASSUME NEW g \in Handlers, g # h, req'[g] # Idle
        PROVE  /\ booking'[req'[g].booking] # NoBooking
               /\ req'[g].op = "end" => contract'[req'[g].booking] # NoContract
               /\ req'[g].stage = "notify" /\ req'[g].op = "approve" => contract'[req'[g].booking] # NoContract
               /\ req'[g].stage = "notify" /\ req'[g].op = "end" => contract'[req'[g].booking].status = "ended"
    <3>1. req'[g] = req[g] /\ req[g] # Idle
      BY <2>1, <2>3 DEF TypeOK
    <3>2. req[g].booking \in Bookings
      BY <3>1, RequestTypes
    <3>3. /\ booking[req[g].booking] # NoBooking
          /\ req[g].op = "end" => contract[req[g].booking] # NoContract
          /\ req[g].stage = "notify" /\ req[g].op = "approve" => contract[req[g].booking] # NoContract
          /\ req[g].stage = "notify" /\ req[g].op = "end" => contract[req[g].booking].status = "ended"
      BY <3>1 DEF RequestsSound
    <3>4. contract[b].status # "ended"
      BY <1>4 DEF NoContract
    <3>5. QED
      BY <1>2, <1>4, <3>1, <3>2, <3>3, <3>4 DEF RowsStay
  <2>4. QED
    BY <1>4, <2>1, <2>2, <2>3 DEF TypeOK, RequestsSound
<1>7. OnePendingPerRoom'
  BY <1>2 DEF OnePendingPerRoom, RowsStay, NoBooking
<1>8. ReservedHasBooking'
  BY <1>1, <1>2, <1>3 DEF ReservedHasBooking, RowsStay, LiveOn, OnRoom, IsLive
<1>9. OccupiedHasContract'
  <2>1. ASSUME NEW q \in Rooms, q # r, ActiveOn(q) # {}
        PROVE  ActiveOn(q)' # {}
    <3>1. PICK c \in Bookings : c \in OnRoom(q) /\ IsActive(c)
      BY <2>1 DEF ActiveOn, OnRoom
    <3>2. c # b /\ c \in OnRoom(q)'
      BY <1>2, <2>1, <3>1, RoomsStay DEF OnRoom
    <3>3. QED
      BY <1>4, <3>1, <3>2 DEF ActiveOn, IsActive
  <2>2. b \in OnRoom(r)'
    BY <1>1, <1>2, RoomsStay DEF OnRoom
  <2>3. b \in ActiveOn(r)'
    BY <1>4, <2>2 DEF ActiveOn, IsActive
  <2>4. ASSUME NEW q \in Rooms, room'[q] = "occupied"
        PROVE  ActiveOn(q)' # {}
    BY <1>3, <2>1, <2>3, <2>4 DEF OccupiedHasContract
  <2>5. QED
    BY <2>4 DEF OccupiedHasContract
<1>10. ContractedIsDecided'
  BY <1>2, <1>4 DEF ContractedIsDecided
<1>11. NoticesTrue'
  BY <1>2, <1>4 DEF TypeOK, NoticesTrue, Notice, RowsStay, NoContract
<1>12. QED
  BY <1>5, <1>6, <1>7, <1>8, <1>9, <1>10, <1>11

LEMMA CommitRejectInv ==
    ASSUME EngineInv, NEW h \in Handlers, NEW b \in Bookings, CommitReject(h, b)
    PROVE  EngineInv'
<1> USE DEF EngineInv
<1> DEFINE r == booking[b].room
<1>1. booking[b] \in BookingRow /\ r \in Rooms /\ booking[b] # NoBooking
  BY CommitRow, RowTypes DEF CommitReject, Ops, BookingRow
<1>2. /\ booking' \in [Bookings -> BookingRow \cup {NoBooking}]
      /\ booking'[b].status = "rejected"
      /\ \A c \in Bookings : c # b => booking'[c] = booking[c]
      /\ RowsStay
  BY <1>1, MovedRow DEF CommitReject, BookingStatus, Live, BookingRow
<1>3. /\ room' \in [Rooms -> RoomStatus]
      /\ room'[r] = IF room[r] \in {"reserved"} THEN "available" ELSE room[r]
      /\ \A q \in Rooms : q # r => room'[q] = room[q]
  BY <1>1, MovedRoom DEF CommitReject, RoomStatus
<1>4. contract' = contract /\ notices' = notices
  BY DEF CommitReject
<1>5. TypeOK'
  BY <1>2, <1>3, <1>4 DEF TypeOK, CommitReject, NotifyNext, Request, Ops
<1>6. RequestsSound'
  BY <1>1, <1>2, <1>4 DEF TypeOK, RequestsSound, RowsStay, CommitReject, NotifyNext, Idle, Request
<1>7. OnePendingPerRoom'
  BY <1>2 DEF OnePendingPerRoom, RowsStay, NoBooking
<1>8. ReservedHasBooking'
  BY <1>1, <1>2, <1>3 DEF ReservedHasBooking, RowsStay, LiveOn, OnRoom, IsLive
<1>9. OccupiedHasContract'
  BY <1>1, <1>2, <1>3, <1>4, RoomsStay DEF OccupiedHasContract, ActiveOn, IsActive
<1>10. ContractedIsDecided'
  BY <1>2, <1>4 DEF ContractedIsDecided
<1>11. NoticesTrue'
  BY <1>2, <1>4 DEF TypeOK, NoticesTrue, Notice, RowsStay
<1>12. QED
  BY <1>5, <1>6, <1>7, <1>8, <1>9, <1>10, <1>11

LEMMA CommitEndInv ==
    ASSUME EngineInv, NEW h \in Handlers, NEW b \in Bookings, CommitEnd(h, b)
    PROVE  EngineInv'
<1> USE DEF EngineInv
<1>1. booking[b] \in BookingRow /\ contract[b] \in ContractRow /\ contract[b] # NoContract
  BY CommitRow, RowTypes DEF CommitEnd, Ops
<1> PICK r \in Rooms : r = booking[b].room
  BY <1>1 DEF BookingRow
<1>2. booking' = booking /\ notices' = notices
  BY DEF CommitEnd
<1>3. /\ room' \in [Rooms -> RoomStatus]
      /\ room'[r] = "available"
      /\ \A q \in Rooms : q # r => room'[q] = room[q]
  BY MovedRoom DEF CommitEnd, RoomStatus, TypeOK
<1>4. /\ contract' \in [Bookings -> ContractRow \cup {NoContract}]
      /\ contract'[b].status = "ended"
      /\ contract'[b] # NoContract
      /\ \A c \in Bookings : c # b => contract'[c] = contract[c]
  BY <1>1 DEF TypeOK, CommitEnd, ContractRow, NoContract
<1>5. TypeOK'
  BY <1>2, <1>3, <1>4 DEF TypeOK, CommitEnd, NotifyNext, Request, Ops
<1>6. RequestsSound'
  BY <1>1, <1>2, <1>4, RowTypes DEF TypeOK, RequestsSound, CommitEnd, NotifyNext, Idle, Request,
     BookingRow, NoBooking
<1>7. OnePendingPerRoom'
  BY <1>2 DEF OnePendingPerRoom
<1>8. ReservedHasBooking'
  BY <1>2, <1>3 DEF ReservedHasBooking, LiveOn, OnRoom, IsLive
<1>9. OccupiedHasContract'
  BY <1>2, <1>3, <1>4 DEF OccupiedHasContract, ActiveOn, OnRoom, IsActive
<1>10. ContractedIsDecided'
  BY <1>1, <1>2, <1>4 DEF ContractedIsDecided
<1>11. NoticesTrue'
  BY <1>2, <1>4 DEF TypeOK, NoticesTrue, Notice, NoContract
<1>12. QED
  BY <1>5, <1>6, <1>7, <1>8, <1>9, <1>10, <1>11

(* A request that is over is in hand no longer; what it told is true.      *)
LEMMA FinishInv ==
    ASSUME EngineInv, NEW h \in Handlers, FinishStep(h)
    PROVE  EngineInv'
<1> USE DEF EngineInv
<1>1. /\ req' = [req EXCEPT ![h] = Idle]
      /\ UNCHANGED <<room, booking, contract, listed>>
  BY DEF FinishStep, Notify, Abort, Done
<1>2. RequestsSound'
  BY <1>1 DEF TypeOK, RequestsSound
<1>3. OnePendingPerRoom' /\ ReservedHasBooking' /\ OccupiedHasContract' /\ ContractedIsDecided'
  BY <1>1 DEF OnePendingPerRoom, ReservedHasBooking, OccupiedHasContract, ContractedIsDecided,
     LiveOn, ActiveOn, OnRoom, IsLive, IsActive
<1>4. CASE notices' = notices
  <2>1. TypeOK'
    BY <1>1, <1>4 DEF TypeOK
  <2>2. NoticesTrue'
    BY <1>1, <1>4 DEF NoticesTrue
  <2>3. QED
    BY <1>2, <1>3, <2>1, <2>2
<1>5. ASSUME NEW kinds \in SUBSET Recorded, Notify(h, kinds)
      PROVE  TypeOK' /\ NoticesTrue'
  <2> DEFINE b == req[h].booking
  <2>1. req[h] # Idle /\ req[h] \in Request
    BY <1>5, RequestTypes DEF Notify, Idle
  <2>2. b \in Bookings /\ req[h].op \in Ops \cup {"create"} /\ req[h].stage = "notify"
    BY <1>5, <2>1 DEF Request, Notify
  <2>3. \A n \in notices' : n \in notices \/ (n.kind \in kinds /\ n.booking = b)
    BY <1>5 DEF Notify
  <2>4. TypeOK'
    BY <1>1, <1>5, <2>2 DEF TypeOK, Notify, Notice
  <2>5. /\ booking[b] # NoBooking
        /\ "approved" \in kinds => contract[b] # NoContract
        /\ "ended" \in kinds => contract[b].status = "ended"
    <3>1. kinds \subseteq KindsOf(req[h].op)
      BY <1>5 DEF Notify
    <3>2. /\ "approved" \in KindsOf(req[h].op) => req[h].op = "approve"
          /\ "ended" \in KindsOf(req[h].op) => req[h].op = "end"
      BY DEF KindsOf
    <3>3. QED
      BY <2>1, <2>2, <3>1, <3>2 DEF RequestsSound
  <2>6. NoticesTrue'
    BY <1>1, <2>3, <2>5 DEF NoticesTrue
  <2>7. QED
    BY <2>4, <2>6
<1>6. QED
  BY <1>2, <1>3, <1>4, <1>5 DEF FinishStep, Abort

LEMMA ExpireInv ==
    ASSUME EngineInv, ExpirePendingBookings
    PROVE  EngineInv'
<1> USE DEF EngineInv
<1>1. /\ \A b \in Overdue : booking[b] \in BookingRow /\ booking[b] # NoBooking
      /\ Overdue \subseteq Bookings
  BY RowTypes DEF Overdue, IsLive, BookingStatus
<1>2. /\ booking' \in [Bookings -> BookingRow \cup {NoBooking}]
      /\ \A b \in Overdue : booking'[b].status = "expired" /\ booking'[b].room = booking[b].room
      /\ \A b \in Bookings \ Overdue : booking'[b] = booking[b]
  BY <1>1 DEF TypeOK, ExpirePendingBookings, BookingRow, BookingStatus
<1>3. RowsStay
  BY <1>1, <1>2 DEF RowsStay, NoBooking
<1>4. /\ room' \in [Rooms -> RoomStatus]
      /\ \A r \in Rooms : room'[r] = "reserved" => room[r] = "reserved" /\ \A b \in Overdue : booking[b].room # r
      /\ \A r \in Rooms : room'[r] = "occupied" => room[r] = "occupied"
  BY DEF TypeOK, ExpirePendingBookings, RoomStatus
<1>5. contract' = contract /\ req' = req /\ notices' = notices /\ listed' = listed
  BY DEF ExpirePendingBookings
<1>6. TypeOK'
  BY <1>2, <1>4, <1>5 DEF TypeOK
<1>7. RequestsSound'
  BY <1>3, <1>5, RequestTypes DEF RequestsSound, RowsStay
<1>8. OnePendingPerRoom'
  BY <1>2 DEF OnePendingPerRoom
<1>9. ReservedHasBooking'
  <2>1. ASSUME NEW r \in Rooms, room'[r] = "reserved"
        PROVE  LiveOn(r)' # {}
    <3>1. PICK b \in Bookings : b \in LiveOn(r)
      BY <1>4, <2>1 DEF ReservedHasBooking, LiveOn, OnRoom
    <3>2. b \notin Overdue
      BY <1>4, <2>1, <3>1 DEF LiveOn, OnRoom
    <3>3. b \in LiveOn(r)'
      BY <1>2, <3>1, <3>2 DEF LiveOn, OnRoom, IsLive
    <3>4. QED
      BY <3>3
  <2>2. QED
    BY <2>1 DEF ReservedHasBooking
<1>10. OccupiedHasContract'
  BY <1>3, <1>4, <1>5, RoomsStay DEF OccupiedHasContract, ActiveOn, IsActive
<1>11. ContractedIsDecided'
  BY <1>1, <1>2, <1>5 DEF ContractedIsDecided, Overdue, IsLive, Live
<1>12. NoticesTrue'
  BY <1>3, <1>5 DEF TypeOK, NoticesTrue, Notice, RowsStay
<1>13. QED
  BY <1>6, <1>7, <1>8, <1>9, <1>10, <1>11, <1>12

(* Time changes deadlines only.                                            *)
LEMMA TickRows ==
    ASSUME TypeOK, Tick
    PROVE  /\ TypeOK'
           /\ RowsStay
           /\ \A b \in Bookings : booking'[b].status = booking[b].status
           /\ \A b \in Bookings : contract'[b].status = contract[b].status
           /\ \A b \in Bookings : contract'[b] = NoContract <=> contract[b] = NoContract
<1>1. ASSUME NEW b \in Bookings
      PROVE  /\ booking'[b] \in BookingRow \cup {NoBooking}
             /\ booking'[b].status = booking[b].status
             /\ booking'[b] = NoBooking <=> booking[b] = NoBooking
             /\ booking[b] # NoBooking => booking'[b].room = booking[b].room
  BY RowTypes DEF TypeOK, Tick, AgedBooking, Aged, Past, BookingRow, NoBooking, BookingStatus, Live
<1>2. ASSUME NEW b \in Bookings
      PROVE  /\ contract'[b] \in ContractRow \cup {NoContract}
             /\ contract'[b].status = contract[b].status
             /\ contract'[b] = NoContract <=> contract[b] = NoContract
  BY RowTypes DEF TypeOK, Tick, AgedContract, Aged, Past, ContractRow, NoContract
<1>3. TypeOK'
  BY <1>1, <1>2 DEF TypeOK, Tick
<1>4. QED
  BY <1>1, <1>2, <1>3 DEF RowsStay

LEMMA TickInv ==
    ASSUME EngineInv, Tick
    PROVE  EngineInv'
<1> USE DEF EngineInv
<1>1. room' = room /\ req' = req /\ notices' = notices
  BY DEF Tick
<1>2. RequestsSound'
  BY <1>1, TickRows, RequestTypes DEF RequestsSound, RowsStay
<1>3. OnePendingPerRoom'
  BY TickRows DEF OnePendingPerRoom, RowsStay, NoBooking
<1>4. ReservedHasBooking'
  BY <1>1, TickRows, RoomsStay DEF ReservedHasBooking, LiveOn, OnRoom, IsLive, RowsStay
<1>5. OccupiedHasContract'
  BY <1>1, TickRows, RoomsStay DEF OccupiedHasContract, ActiveOn, OnRoom, IsActive, RowsStay
<1>6. ContractedIsDecided'
  BY TickRows DEF ContractedIsDecided
<1>7. NoticesTrue'
  BY <1>1, TickRows DEF TypeOK, NoticesTrue, Notice, RowsStay
<1>8. QED
  BY <1>2, <1>3, <1>4, <1>5, <1>6, <1>7, TickRows

LEMMA QuietInv ==
    ASSUME EngineInv, UNCHANGED <<room, booking, contract, req, notices>>, listed' \in SUBSET Kosts
    PROVE  EngineInv'
BY DEF EngineInv, TypeOK, RequestsSound, OnePendingPerRoom, ReservedHasBooking,
   OccupiedHasContract, ContractedIsDecided, NoticesTrue, LiveOn, ActiveOn, OnRoom, IsLive, IsActive

LEMMA NextInv == EngineInv /\ [Next]_vars => EngineInv'
<1> SUFFICES ASSUME EngineInv, [Next]_vars PROVE EngineInv'
    OBVIOUS
<1>1. ASSUME NEW h \in Handlers, NEW t \in Tenants, NEW b \in Bookings, TenantStep(h, t, b)
      PROVE  EngineInv'
  BY <1>1, CreateInv, CheckInv DEF TenantStep
<1>2. ASSUME NEW h \in Handlers, NEW o \in Owners, NEW b \in Bookings, OwnerStep(h, o, b)
      PROVE  EngineInv'
  BY <1>2, CheckInv
<1>3. ASSUME NEW h \in Handlers, NEW b \in Bookings, CommitStep(h, b)
      PROVE  EngineInv'
  BY <1>3, CommitCancelInv, CommitProcessInv, CommitApproveInv, CommitRejectInv, CommitEndInv
     DEF CommitStep
<1>4. ASSUME NEW h \in Handlers, FinishStep(h)
      PROVE  EngineInv'
  BY <1>4, FinishInv
<1>5. ASSUME NEW k \in Kosts, KostDecision(k)
      PROVE  EngineInv'
  BY <1>5, QuietInv DEF KostDecision, EngineInv, TypeOK
<1>6. CASE UNCHANGED vars
  BY <1>6, QuietInv DEF vars, EngineInv, TypeOK
<1>7. QED
  BY <1>1, <1>2, <1>3, <1>4, <1>5, <1>6, ExpireInv, TickInv DEF Next

(***************************************************************************)
(* Whatever overlaps                                                       *)
(***************************************************************************)
THEOREM EngineCorrect == Spec => []EngineInv
<1>1. QED
  BY InitInv, NextInv, PTL DEF Spec

\* Every variable keeps its type: no step of a handler, of the worker or of
\* the clock writes a status the schema's enums do not have.
THEOREM TypeCorrect == Spec => []TypeOK
<1>1. EngineInv => TypeOK
  BY DEF EngineInv
<1>2. QED
  BY <1>1, EngineCorrect, PTL

\* Two bookings are never pending for one room (CreateBookingTx and the
\* partial unique index), however many requests overlap.
THEOREM OnePendingCorrect == Spec => []OnePendingPerRoom
<1>1. EngineInv => OnePendingPerRoom
  BY DEF EngineInv
<1>2. QED
  BY <1>1, EngineCorrect, PTL

\* A reserved room always has a live booking, so the worker's expiry frees it
\* in the end: no race strands it.
THEOREM ReservedCorrect == Spec => []ReservedHasBooking
<1>1. EngineInv => ReservedHasBooking
  BY DEF EngineInv
<1>2. QED
  BY <1>1, EngineCorrect, PTL

\* An occupied room always has an active contract, so its owner can always
\* end it: EndContract leaves no room occupied by nobody.
THEOREM OccupiedCorrect == Spec => []OccupiedHasContract
<1>1. EngineInv => OccupiedHasContract
  BY DEF EngineInv
<1>2. QED
  BY <1>1, EngineCorrect, PTL

\* The two together: no room is stranded.
THEOREM RoomsBackedCorrect == Spec => []RoomsBacked
<1>1. ReservedHasBooking /\ OccupiedHasContract => RoomsBacked
  BY DEF RoomsBacked
<1>2. QED
  BY <1>1, ReservedCorrect, OccupiedCorrect, PTL

\* A booking with a contract is never cancelled or expired, and an approved
\* booking has its contract.
THEOREM ContractedCorrect == Spec => []ContractedIsDecided
<1>1. EngineInv => ContractedIsDecided
  BY DEF EngineInv
<1>2. QED
  BY <1>1, EngineCorrect, PTL

\* A notice of an approval or of the end of a contract is never false.
THEOREM NoticesCorrect == Spec => []NoticesTrue
<1>1. EngineInv => NoticesTrue
  BY DEF EngineInv
<1>2. QED
  BY <1>1, EngineCorrect, PTL

(* The rows after a step: what the two action properties compare.          *)
LEMMA RowStep ==
    ASSUME EngineInv, [Next]_vars, NEW b \in Bookings, booking[b] # NoBooking
    PROVE  /\ ~IsLive(b) => ~IsLive(b)'
           /\ contract[b] # NoContract => contract'[b] # NoContract
           /\ contract[b].status = "ended" => contract'[b].status = "ended"
<1> USE DEF EngineInv
<1> DEFINE Goal == /\ ~IsLive(b) => ~IsLive(b)'
                   /\ contract[b] # NoContract => contract'[b] # NoContract
                   /\ contract[b].status = "ended" => contract'[b].status = "ended"
<1>1. ASSUME NEW h \in Handlers, NEW t \in Tenants, NEW r \in Rooms, NEW c \in Bookings, Create(h, t, r, c)
      PROVE  Goal
  BY <1>1 DEF TypeOK, Create, IsLive
<1>2. ASSUME UNCHANGED <<booking, contract>>
      PROVE  Goal
  BY <1>2 DEF IsLive
<1>3. ASSUME NEW c \in Bookings, NEW from \in SUBSET BookingStatus, NEW to \in BookingStatus,
             booking[c] \in BookingRow, booking' = Moved(c, from, to), contract' = contract,
             to \in Live => from \subseteq Live
      PROVE  Goal
  BY <1>3, MovedRow DEF IsLive
<1>4. ASSUME NEW h \in Handlers, NEW c \in Bookings, CommitCancel(h, c) \/ CommitProcess(h, c) \/ CommitReject(h, c)
      PROVE  Goal
  <2>1. booking[c] \in BookingRow
    BY <1>4, CommitRow DEF CommitCancel, CommitProcess, CommitReject, Ops
  <2>2. /\ contract' = contract
        /\ \/ booking' = Moved(c, {"pending"}, "cancelled")
           \/ booking' = Moved(c, {"pending"}, "processing")
           \/ booking' = Moved(c, BookingStatus, "rejected")
    BY <1>4 DEF CommitCancel, CommitProcess, CommitReject
  <2>3. QED
    BY <2>1, <2>2, <1>3 DEF BookingStatus, Live
<1>5. ASSUME NEW h \in Handlers, NEW c \in Bookings, NEW term \in LeaseTerms, CommitApprove(h, c, term)
      PROVE  Goal
  <2>1. booking[c] \in BookingRow
    BY <1>5, CommitRow DEF CommitApprove, Ops
  <2>2. ~IsLive(b) => ~IsLive(b)'
    BY <1>5, <2>1, MovedRow DEF CommitApprove, IsLive, BookingStatus, Live
  <2>3. QED
    BY <1>5, <2>2 DEF TypeOK, CommitApprove, NoContract
<1>6. ASSUME NEW h \in Handlers, NEW c \in Bookings, CommitEnd(h, c)
      PROVE  Goal
  <2>1. contract[c] \in ContractRow
    BY <1>6, CommitRow DEF CommitEnd, Ops
  <2>2. QED
    BY <1>6, <2>1 DEF TypeOK, CommitEnd, IsLive, ContractRow, NoContract
<1>7. CASE ExpirePendingBookings
  BY <1>7, RowTypes DEF TypeOK, ExpirePendingBookings, Overdue, IsLive, BookingRow, Live
<1>8. CASE Tick
  BY <1>8, TickRows DEF IsLive
<1>9. ASSUME NEW h \in Handlers, FinishStep(h)
      PROVE  Goal
  BY <1>9, <1>2 DEF FinishStep, Notify, Abort
<1>10. ASSUME NEW h \in Handlers, NEW t \in Tenants \cup Owners, NEW c \in Bookings,
              CheckCancel(h, t, c) \/ OwnerStep(h, t, c)
       PROVE  Goal
  BY <1>10, <1>2 DEF OwnerStep, CheckCancel, CheckProcess, CheckApprove, CheckReject, CheckEnd, Begin
<1>11. QED
  <2>1. CASE UNCHANGED vars
    BY <2>1, <1>2 DEF vars
  <2>2. ASSUME NEW k \in Kosts, KostDecision(k)
        PROVE  Goal
    BY <2>2, <1>2 DEF KostDecision
  <2>3. QED
    BY <1>1, <1>4, <1>5, <1>6, <1>7, <1>8, <1>9, <1>10, <2>1, <2>2
       DEF Next, TenantStep, CommitStep

\* A booking that has been decided, has expired or was cancelled is never live
\* again, whatever stale read a MarkProcessing started from.
THEOREM NeverReopenedCorrect == Spec => NeverReopened
<1>1. EngineInv /\ [Next]_vars
      => [\A b \in Bookings : booking[b] # NoBooking /\ ~IsLive(b) => ~IsLive(b)']_vars
  BY RowStep
<1>2. QED
  BY <1>1, EngineCorrect, PTL DEF Spec, NeverReopened

\* A booking has one contract in its life, and an ended contract stays ended.
THEOREM ContractOnlyEndsCorrect == Spec => ContractOnlyEnds
<1>1. ASSUME EngineInv, [Next]_vars, NEW b \in Bookings
      PROVE  /\ contract[b] # NoContract => contract'[b] # NoContract
             /\ contract[b].status = "ended" => contract'[b].status = "ended"
  <2>1. contract[b] # NoContract \/ contract[b].status = "ended" => booking[b] # NoBooking
    BY <1>1, RowTypes DEF EngineInv, ContractedIsDecided, BookingStatus
  <2>2. QED
    BY <1>1, <2>1, RowStep
<1>2. EngineInv /\ [Next]_vars
      => [\A b \in Bookings :
            /\ contract[b] # NoContract => contract'[b] # NoContract
            /\ contract[b].status = "ended" => contract'[b].status = "ended"]_vars
  BY <1>1
<1>3. QED
  BY <1>2, EngineCorrect, PTL DEF Spec, ContractOnlyEnds

---------------------------------------------------------------------------
(***************************************************************************)
(* Proofs about the booking engine when requests do not overlap: the       *)
(* rooms, the bookings and the contracts agree, and the engine implements  *)
(* the room ledger.                                                        *)
(***************************************************************************)

(* RoomsAgree, said booking by booking: with ReservedHasBooking and        *)
(* OccupiedHasContract it is the whole of it.                              *)
HeldAgrees ==
    \A b \in Bookings : IsLive(b) =>
        /\ room[booking[b].room] = "reserved"
        /\ \A c \in Bookings : IsLive(c) /\ booking[c].room = booking[b].room => c = b

LetAgrees ==
    \A b \in Bookings : IsActive(b) =>
        /\ room[booking[b].room] = "occupied"
        /\ \A c \in Bookings : IsActive(c) /\ booking[c].room = booking[b].room => c = b

SerialInv ==
    /\ EngineInv
    /\ Alone
    /\ InHand
    /\ HeldAgrees
    /\ LetAgrees

LEMMA SerialAgreement == SerialInv => RoomsAgree
<1> SUFFICES ASSUME SerialInv, NEW r \in Rooms PROVE RoomAgrees(r)
    BY DEF RoomsAgree
<1>1. \A b \in LiveOn(r) : room[r] = "reserved" /\ LiveOn(r) = {b}
  BY DEF SerialInv, HeldAgrees, LiveOn, OnRoom
<1>2. \A b \in ActiveOn(r) : room[r] = "occupied" /\ ActiveOn(r) = {b}
  BY DEF SerialInv, LetAgrees, ActiveOn, OnRoom
<1>3. LiveOn(r) \subseteq Bookings /\ ActiveOn(r) \subseteq Bookings
  BY DEF LiveOn, ActiveOn, OnRoom
<1>4. /\ room[r] = "reserved" => LiveOn(r) # {}
      /\ room[r] = "occupied" => ActiveOn(r) # {}
  BY DEF SerialInv, EngineInv, ReservedHasBooking, OccupiedHasContract
<1>5. QED
  BY <1>1, <1>2, <1>3, <1>4 DEF RoomAgrees

LEMMA SerialInit == Init => SerialInv
<1> SUFFICES ASSUME Init PROVE SerialInv
    OBVIOUS
<1>1. EngineInv
  BY InitInv
<1>2. Alone /\ InHand
  BY DEF Init, Alone, InHand, Idle
<1>3. HeldAgrees /\ LetAgrees
  BY DEF Init, HeldAgrees, LetAgrees, IsLive, IsActive, Live, NoBooking, NoContract
<1>4. QED
  BY <1>1, <1>2, <1>3 DEF SerialInv

(* Once the only request in hand has committed or ended, none is left that *)
(* may still commit.                                                       *)
LEMMA HandsEmpty ==
    ASSUME TypeOK, Alone, NEW h \in Handlers, req[h] # Idle,
           NEW x, x = Idle \/ x.stage = "notify",
           req' = [req EXCEPT ![h] = x]
    PROVE  InHand'
<1>1. \A g \in Handlers : g # h => req[g] = Idle
  BY RequestTypes DEF Alone, Idle
<1>2. QED
  BY <1>1 DEF TypeOK, InHand

LEMMA CreateSerial ==
    ASSUME SerialInv, Alone', NEW h \in Handlers, NEW t \in Tenants, NEW r \in Rooms,
           NEW b \in Bookings, Create(h, t, r, b)
    PROVE  InHand' /\ HeldAgrees' /\ LetAgrees'
<1> USE DEF SerialInv, EngineInv
<1>1. /\ booking'[b] = [status |-> "pending", room |-> r, tenant |-> t, left |-> BookingExpiry]
      /\ \A c \in Bookings : c # b => booking'[c] = booking[c]
      /\ contract[b] = NoContract
      /\ contract' = contract
      /\ room[r] = "available"
      /\ room' = [room EXCEPT ![r] = "reserved"]
  BY RowTypes DEF TypeOK, Create, ContractedIsDecided, NoBooking
<1>2. InHand'
  <2>1. req'[h] = [op |-> "create", booking |-> b, stage |-> "notify"]
    BY DEF Create, NotifyNext, TypeOK
  <2>2. \A g \in Handlers : g # h => req'[g] = req[g]
    BY DEF Create, NotifyNext, TypeOK
  <2>3. \A g \in Handlers : g # h => req[g] = Idle
    BY <2>1, <2>2, RequestTypes DEF Alone
  <2>4. QED
    BY <2>1, <2>2, <2>3 DEF InHand
<1>3. \A c \in Bookings : IsLive(c) \/ IsActive(c) => booking[c].room \in Rooms /\ booking[c].room # r /\ c # b
  BY <1>1, RowTypes DEF HeldAgrees, LetAgrees, IsLive, IsActive, BookingStatus, BookingRow,
     ContractedIsDecided, NoContract, Create, NoBooking, Live
<1>4. HeldAgrees'
  BY <1>1, <1>3 DEF HeldAgrees, IsLive, TypeOK
<1>5. LetAgrees'
  BY <1>1, <1>3 DEF LetAgrees, IsActive, TypeOK, NoContract
<1>6. QED
  BY <1>2, <1>4, <1>5

(* The two agreements depend on nothing but statuses and rooms.            *)
LEMMA AgreementKept ==
    ASSUME HeldAgrees, LetAgrees, RowsStay, room' = room,
           \A b \in Bookings : /\ IsLive(b)' => IsLive(b)
                               /\ IsActive(b)' => IsActive(b)
                               /\ IsLive(b) \/ IsActive(b) => booking[b] # NoBooking
    PROVE  HeldAgrees' /\ LetAgrees'
BY DEF HeldAgrees, LetAgrees, RowsStay

LEMMA CheckSerial ==
    ASSUME SerialInv, Alone', NEW h \in Handlers, NEW t \in Tenants \cup Owners, NEW b \in Bookings,
           CheckCancel(h, t, b) \/ OwnerStep(h, t, b)
    PROVE  InHand' /\ HeldAgrees' /\ LetAgrees'
<1> USE DEF SerialInv, EngineInv
<1>1. UNCHANGED <<room, booking, contract>>
  BY DEF CheckCancel, OwnerStep, CheckProcess, CheckApprove, CheckReject, CheckEnd, Begin
<1>2. HeldAgrees' /\ LetAgrees'
  BY <1>1 DEF HeldAgrees, LetAgrees, IsLive, IsActive
<1>3. PICK op \in Ops : Begin(h, op, b)
  BY DEF CheckCancel, OwnerStep, CheckProcess, CheckApprove, CheckReject, CheckEnd, Ops
<1>4. /\ req'[h] = [op |-> op, booking |-> b, stage |-> "checked"]
      /\ \A g \in Handlers : g # h => req'[g] = req[g]
  BY <1>3 DEF TypeOK, Begin
<1>5. /\ op = "end" => IsActive(b)
      /\ op = "approve" => IsLive(b)
      /\ op \in {"cancel", "process", "reject"} => booking[b].status = "pending"
  BY <1>4 DEF CheckCancel, OwnerStep, CheckProcess, CheckApprove, CheckReject, CheckEnd, Begin, TypeOK
<1>6. \A g \in Handlers : g # h => req[g] = Idle
  BY <1>3, <1>4, RequestTypes DEF Alone, Ops
<1>7. InHand'
  BY <1>1, <1>4, <1>5, <1>6 DEF InHand, IsActive, IsLive
<1>8. QED
  BY <1>2, <1>7

(* A booking its request may still move: live, or expired with its room    *)
(* free.  Nobody else has the room.                                        *)
LEMMA RoomIsIts ==
    ASSUME SerialInv, NEW b \in Bookings, booking[b] \in BookingRow, IsLive(b) \/ Lapsed(b)
    PROVE  /\ contract[b] = NoContract
           /\ \A c \in Bookings : (IsLive(c) \/ IsActive(c)) /\ c # b => booking[c].room # booking[b].room
           /\ room[booking[b].room] \in {"available", "reserved"}
<1> USE DEF SerialInv, EngineInv
<1>1. contract[b] = NoContract
  BY DEF ContractedIsDecided, IsLive, Live, Lapsed
<1>2. room[booking[b].room] \in {"available", "reserved"}
  BY DEF HeldAgrees, Lapsed
<1>3. ASSUME NEW c \in Bookings, IsActive(c), c # b
      PROVE  booking[c].room # booking[b].room
  BY <1>2, <1>3 DEF LetAgrees
<1>4. ASSUME NEW c \in Bookings, IsLive(c), c # b
      PROVE  booking[c].room # booking[b].room
  BY <1>4 DEF HeldAgrees, Lapsed
<1>5. QED
  BY <1>1, <1>2, <1>3, <1>4

(* Cancel and Reject give the room back.                                   *)
LEMMA GiveBackSerial ==
    ASSUME SerialInv, NEW h \in Handlers, NEW b \in Bookings,
           CommitCancel(h, b) \/ CommitReject(h, b)
    PROVE  InHand' /\ HeldAgrees' /\ LetAgrees'
<1> USE DEF SerialInv, EngineInv
<1>1. booking[b] \in BookingRow /\ req[h] # Idle /\ req[h].booking = b /\ req[h].stage = "checked"
      /\ req[h].op \in {"cancel", "reject"}
  BY CommitRow DEF CommitCancel, CommitReject, Ops
<1> PICK r \in Rooms : r = booking[b].room
  BY <1>1 DEF BookingRow
<1>2. booking[b].status = "pending" \/ Lapsed(b)
  BY <1>1 DEF InHand
<1>3. IsLive(b) \/ Lapsed(b)
  BY <1>2 DEF IsLive, Live
<1>4. /\ booking'[b].status \in {"cancelled", "rejected", "expired"}
      /\ \A c \in Bookings : c # b => booking'[c] = booking[c]
      /\ RowsStay
  <2>1. CASE CommitCancel(h, b)
    BY <1>1, <1>2, <2>1, MovedRow DEF CommitCancel, BookingStatus, Live, Lapsed
  <2>2. CASE CommitReject(h, b)
    BY <1>1, <2>2, MovedRow DEF CommitReject, BookingStatus, Live, BookingRow
  <2>3. QED
    BY <2>1, <2>2
<1>5. /\ contract' = contract
      /\ \A q \in Rooms : q # r => room'[q] = room[q]
  BY MovedRoom DEF CommitCancel, CommitReject, RoomStatus
<1>6. \A c \in Bookings : IsLive(c)' => c # b /\ IsLive(c)
  BY <1>4 DEF IsLive, Live
<1>7. \A c \in Bookings : IsLive(c) \/ IsActive(c) => booking[c] \in BookingRow
  BY RowTypes DEF IsLive, IsActive, BookingStatus, ContractedIsDecided, NoContract
<1>8. \A c \in Bookings : (IsLive(c) /\ c # b) \/ IsActive(c) =>
        /\ booking[c].room \in Rooms \ {r}
        /\ booking'[c].room = booking[c].room
        /\ room'[booking[c].room] = room[booking[c].room]
  BY <1>1, <1>3, <1>4, <1>5, <1>7, RoomIsIts DEF BookingRow, IsActive, NoContract
<1>9. HeldAgrees'
  BY <1>6, <1>8 DEF HeldAgrees
<1>10. LetAgrees'
  BY <1>5, <1>8 DEF LetAgrees, IsActive
<1>11. InHand'
  <2>1. \/ req' = [req EXCEPT ![h] = Idle]
        \/ req' = [req EXCEPT ![h] = [op |-> "reject", booking |-> b, stage |-> "notify"]]
    BY DEF CommitCancel, CommitReject, Done, NotifyNext
  <2>2. QED
    BY <1>1, <2>1, HandsEmpty
<1>12. QED
  BY <1>9, <1>10, <1>11

LEMMA ProcessSerial ==
    ASSUME SerialInv, NEW h \in Handlers, NEW b \in Bookings, CommitProcess(h, b)
    PROVE  InHand' /\ HeldAgrees' /\ LetAgrees'
<1> USE DEF SerialInv, EngineInv
<1>1. booking[b] \in BookingRow /\ req[h] # Idle /\ booking[b] # NoBooking
  BY CommitRow, RowTypes DEF CommitProcess, Ops
<1>2. /\ booking'[b].status = IF booking[b].status \in {"pending"} THEN "processing" ELSE booking[b].status
      /\ \A c \in Bookings : c # b => booking'[c] = booking[c]
      /\ RowsStay
  BY <1>1, MovedRow DEF CommitProcess, BookingStatus, Live
<1>3. room' = room /\ contract' = contract
  BY DEF CommitProcess
<1>4. \A c \in Bookings : /\ IsLive(c)' => IsLive(c)
                          /\ IsActive(c)' => IsActive(c)
                          /\ IsLive(c) \/ IsActive(c) => booking[c] # NoBooking
  BY <1>2, <1>3, RowTypes DEF IsLive, IsActive, Live, NoContract, NoBooking, ContractedIsDecided
<1>5. InHand'
  BY <1>1, HandsEmpty DEF CommitProcess, NotifyNext
<1>6. QED
  BY <1>2, <1>3, <1>4, <1>5, AgreementKept

LEMMA ApproveSerial ==
    ASSUME SerialInv, NEW h \in Handlers, NEW b \in Bookings, NEW term \in LeaseTerms,
           CommitApprove(h, b, term)
    PROVE  InHand' /\ HeldAgrees' /\ LetAgrees'
<1> USE DEF SerialInv, EngineInv
<1>1. booking[b] \in BookingRow /\ req[h] # Idle /\ req[h].booking = b /\ req[h].stage = "checked"
      /\ req[h].op = "approve"
  BY CommitRow DEF CommitApprove, Ops
<1> PICK r \in Rooms : r = booking[b].room
  BY <1>1 DEF BookingRow
<1>2. IsLive(b) \/ Lapsed(b)
  BY <1>1 DEF InHand
<1>3. /\ booking'[b].status = "approved"
      /\ \A c \in Bookings : c # b => booking'[c] = booking[c]
      /\ RowsStay
  BY <1>1, MovedRow DEF CommitApprove, BookingStatus, Live, BookingRow
<1>4. /\ \A c \in Bookings : c # b => contract'[c] = contract[c]
      /\ room'[r] = "occupied"
      /\ \A q \in Rooms : q # r => room'[q] = room[q]
  BY MovedRoom DEF CommitApprove, RoomStatus, TypeOK
<1>5. \A c \in Bookings : IsLive(c)' => c # b /\ IsLive(c)
  BY <1>3 DEF IsLive, Live
<1>6. \A c \in Bookings : IsActive(c)' /\ c # b => IsActive(c)
  BY <1>4 DEF IsActive
<1>7. \A c \in Bookings : IsLive(c) \/ IsActive(c) => booking[c] \in BookingRow
  BY RowTypes DEF IsLive, IsActive, BookingStatus, ContractedIsDecided, NoContract
<1>8. \A c \in Bookings : (IsLive(c) \/ IsActive(c)) /\ c # b =>
        /\ booking[c].room \in Rooms \ {r}
        /\ booking'[c].room = booking[c].room
        /\ room'[booking[c].room] = room[booking[c].room]
  BY <1>1, <1>2, <1>3, <1>4, <1>7, RoomIsIts DEF BookingRow
<1>9. HeldAgrees'
  BY <1>5, <1>8 DEF HeldAgrees
<1>10. booking'[b].room = r
  BY <1>1, <1>3, RowTypes DEF RowsStay
<1>11. LetAgrees'
  BY <1>4, <1>6, <1>8, <1>10 DEF LetAgrees
<1>12. InHand'
  BY <1>1, HandsEmpty DEF CommitApprove, NotifyNext
<1>13. QED
  BY <1>9, <1>11, <1>12

LEMMA EndSerial ==
    ASSUME SerialInv, NEW h \in Handlers, NEW b \in Bookings, CommitEnd(h, b)
    PROVE  InHand' /\ HeldAgrees' /\ LetAgrees'
<1> USE DEF SerialInv, EngineInv
<1>1. booking[b] \in BookingRow /\ contract[b] \in ContractRow
      /\ req[h] # Idle /\ req[h].booking = b /\ req[h].stage = "checked" /\ req[h].op = "end"
  BY CommitRow DEF CommitEnd, Ops
<1> PICK r \in Rooms : r = booking[b].room
  BY <1>1 DEF BookingRow
<1>2. IsActive(b) /\ room[r] = "occupied"
  BY <1>1 DEF InHand, LetAgrees
<1>3. /\ \A c \in Bookings : c # b => contract'[c] = contract[c]
      /\ contract'[b].status = "ended"
      /\ booking' = booking
      /\ \A q \in Rooms : q # r => room'[q] = room[q]
  BY <1>1, MovedRoom DEF CommitEnd, RoomStatus, TypeOK, ContractRow
<1>4. \A c \in Bookings : IsActive(c)' => c # b /\ IsActive(c)
  BY <1>3 DEF IsActive
<1>5. \A c \in Bookings : IsLive(c) \/ (IsActive(c) /\ c # b) => booking[c].room \in Rooms \ {r}
  BY <1>2, RowTypes DEF IsLive, IsActive, BookingStatus, ContractedIsDecided, NoContract, BookingRow,
     HeldAgrees, LetAgrees
<1>6. HeldAgrees'
  BY <1>3, <1>5 DEF HeldAgrees, IsLive
<1>7. LetAgrees'
  BY <1>3, <1>4, <1>5 DEF LetAgrees
<1>8. InHand'
  BY <1>1, HandsEmpty DEF CommitEnd, NotifyNext
<1>9. QED
  BY <1>6, <1>7, <1>8

LEMMA ExpireSerial ==
    ASSUME SerialInv, ExpirePendingBookings
    PROVE  InHand' /\ HeldAgrees' /\ LetAgrees'
<1> USE DEF SerialInv, EngineInv
<1>1. /\ \A b \in Overdue : booking[b] \in BookingRow /\ booking[b] # NoBooking /\ IsLive(b)
      /\ Overdue \subseteq Bookings
  BY RowTypes DEF Overdue, IsLive, BookingStatus
<1>2. /\ \A b \in Overdue : booking'[b].status = "expired" /\ booking'[b].room = booking[b].room
      /\ \A b \in Bookings \ Overdue : booking'[b] = booking[b]
      /\ contract' = contract /\ req' = req
  BY <1>1 DEF TypeOK, ExpirePendingBookings, BookingRow
<1>3. \A r \in Rooms : room'[r] = IF room[r] = "reserved" /\ \E b \in Overdue : booking[b].room = r
                                  THEN "available" ELSE room[r]
  BY DEF ExpirePendingBookings
<1>4. \A c \in Bookings : IsLive(c) \/ IsActive(c) => booking[c] \in BookingRow
  BY RowTypes DEF IsLive, IsActive, BookingStatus, ContractedIsDecided, NoContract
<1>5. \A c \in Bookings : IsLive(c)' => IsLive(c) /\ c \notin Overdue
  BY <1>1, <1>2 DEF IsLive, Live
<1>6. HeldAgrees'
  <2>1. ASSUME NEW c \in Bookings, IsLive(c)'
        PROVE  /\ booking'[c] = booking[c]
               /\ booking[c].room \in Rooms
               /\ room'[booking[c].room] = "reserved"
    <3>1. \A b \in Overdue : booking[b].room # booking[c].room
      BY <1>1, <1>5, <2>1 DEF HeldAgrees
    <3>2. QED
      BY <1>2, <1>3, <1>4, <1>5, <2>1, <3>1 DEF HeldAgrees, BookingRow
  <2>2. QED
    BY <1>5, <2>1 DEF HeldAgrees
<1>7. LetAgrees'
  <2>1. \A c \in Bookings : IsActive(c) => /\ booking[c].room \in Rooms
                                           /\ booking'[c].room = booking[c].room
                                           /\ room'[booking[c].room] = "occupied"
    BY <1>1, <1>2, <1>3, <1>4 DEF LetAgrees, BookingRow
  <2>2. QED
    BY <1>2, <2>1 DEF LetAgrees, IsActive
<1>8. ASSUME NEW b \in Bookings, IsLive(b) \/ Lapsed(b), booking[b] \in BookingRow
      PROVE  Lapsed(b)' \/ (booking'[b] = booking[b] /\ IsLive(b))
  <2> PICK r \in Rooms : r = booking[b].room
    BY <1>8 DEF BookingRow
  <2>1. CASE b \in Overdue
    BY <1>1, <1>2, <1>3, <2>1 DEF Lapsed, HeldAgrees
  <2>2. CASE b \notin Overdue
    BY <1>2, <1>3, <1>8, <2>2 DEF Lapsed
  <2>3. QED
    BY <2>1, <2>2
<1>9. InHand'
  <2>1. ASSUME NEW g \in Handlers, req[g] # Idle, req[g].stage = "checked"
        PROVE  /\ req[g].op = "end" => IsActive(req[g].booking)'
               /\ req[g].op = "approve" => (IsLive(req[g].booking) \/ Lapsed(req[g].booking))'
               /\ req[g].op \in {"cancel", "process", "reject"} =>
                     (booking[req[g].booking].status = "pending" \/ Lapsed(req[g].booking))'
    <3>1. PICK b \in Bookings : b = req[g].booking
      BY <2>1, RequestTypes
    <3>2. booking[b] \in BookingRow
      BY <2>1, <3>1, RowTypes DEF RequestsSound
    <3>3. /\ req[g].op = "end" => IsActive(b)
          /\ req[g].op = "approve" => IsLive(b) \/ Lapsed(b)
          /\ req[g].op \in {"cancel", "process", "reject"} => booking[b].status = "pending" \/ Lapsed(b)
      BY <2>1, <3>1 DEF InHand
    <3>4. req'[g] = req[g]
      BY <1>2
    <3>5. req[g].op \in {"approve", "cancel", "process", "reject"} =>
            Lapsed(b)' \/ (booking'[b] = booking[b] /\ IsLive(b))
      <4>1. booking[b].status = "pending" => IsLive(b)
        BY DEF IsLive, Live
      <4>2. QED
        BY <1>8, <3>2, <3>3, <4>1
    <3>6. req[g].op = "end" => IsActive(b)'
      BY <1>2, <3>3 DEF IsActive
    <3>7. req[g].op = "approve" => (IsLive(b) \/ Lapsed(b))'
      BY <3>5 DEF IsLive
    <3>8. req[g].op \in {"cancel", "process", "reject"} => (booking[b].status = "pending" \/ Lapsed(b))'
      BY <3>3, <3>5 DEF Lapsed, IsLive, Live
    <3>9. QED
      BY <3>1, <3>4, <3>6, <3>7, <3>8 DEF IsActive, IsLive, Lapsed
  <2>2. QED
    BY <1>2, <2>1 DEF InHand
<1>10. QED
  BY <1>6, <1>7, <1>9

LEMMA FinishSerial ==
    ASSUME SerialInv, NEW h \in Handlers, FinishStep(h)
    PROVE  InHand' /\ HeldAgrees' /\ LetAgrees'
<1> USE DEF SerialInv, EngineInv
<1>1. /\ req' = [req EXCEPT ![h] = Idle]
      /\ UNCHANGED <<room, booking, contract>>
      /\ req[h] # Idle
  BY DEF FinishStep, Notify, Abort, Done, Idle
<1>2. HeldAgrees' /\ LetAgrees'
  BY <1>1 DEF HeldAgrees, LetAgrees, IsLive, IsActive
<1>3. InHand'
  BY <1>1, HandsEmpty
<1>4. QED
  BY <1>2, <1>3

LEMMA TickSerial ==
    ASSUME SerialInv, Tick
    PROVE  InHand' /\ HeldAgrees' /\ LetAgrees'
<1> USE DEF SerialInv, EngineInv
<1>1. room' = room /\ req' = req
  BY DEF Tick
<1>2. \A b \in Bookings : IsLive(b) \/ IsActive(b) \/ Lapsed(b) => booking[b] # NoBooking
  BY RowTypes DEF IsLive, IsActive, Lapsed, BookingStatus, ContractedIsDecided, NoContract
<1>3. HeldAgrees' /\ LetAgrees'
  BY <1>1, <1>2, TickRows, AgreementKept DEF IsLive, IsActive
<1>4. InHand'
  <2>1. ASSUME NEW b \in Bookings
        PROVE  /\ booking'[b].status = booking[b].status
               /\ contract'[b].status = contract[b].status
               /\ Lapsed(b) => Lapsed(b)'
    BY <1>1, <1>2, TickRows DEF RowsStay, Lapsed
  <2>2. ASSUME NEW h \in Handlers, req[h] # Idle
        PROVE  req[h].booking \in Bookings
    BY <2>2, RequestTypes
  <2>3. QED
    BY <1>1, <2>1, <2>2 DEF InHand, IsLive, IsActive, Lapsed
<1>5. QED
  BY <1>3, <1>4

LEMMA QuietSerial ==
    ASSUME SerialInv, UNCHANGED <<room, booking, contract, req>>
    PROVE  InHand' /\ HeldAgrees' /\ LetAgrees'
BY DEF SerialInv, InHand, HeldAgrees, LetAgrees, IsLive, IsActive, Lapsed

LEMMA SerialStep == SerialInv /\ [SerialNext]_vars => SerialInv'
<1> SUFFICES ASSUME SerialInv, [SerialNext]_vars PROVE SerialInv'
    OBVIOUS
<1> DEFINE Goal == InHand' /\ HeldAgrees' /\ LetAgrees'
<1>1. EngineInv'
  BY NextInv DEF SerialInv, SerialNext
<1>2. Alone'
  BY DEF SerialInv, SerialNext, vars, Alone
<1>3. ASSUME NEW h \in Handlers, NEW t \in Tenants, NEW b \in Bookings, TenantStep(h, t, b)
      PROVE  Goal
  BY <1>2, <1>3, CreateSerial, CheckSerial DEF TenantStep
<1>4. ASSUME NEW h \in Handlers, NEW o \in Owners, NEW b \in Bookings, OwnerStep(h, o, b)
      PROVE  Goal
  BY <1>2, <1>4, CheckSerial
<1>5. ASSUME NEW h \in Handlers, NEW b \in Bookings, CommitStep(h, b)
      PROVE  Goal
  BY <1>5, GiveBackSerial, ProcessSerial, ApproveSerial, EndSerial DEF CommitStep
<1>6. ASSUME NEW h \in Handlers, FinishStep(h)
      PROVE  Goal
  BY <1>6, FinishSerial
<1>7. ASSUME NEW k \in Kosts, KostDecision(k)
      PROVE  Goal
  BY <1>7, QuietSerial DEF KostDecision
<1>8. ASSUME UNCHANGED vars
      PROVE  Goal
  BY <1>8, QuietSerial DEF vars
<1>9. Goal
  BY <1>3, <1>4, <1>5, <1>6, <1>7, <1>8, ExpireSerial, TickSerial DEF SerialNext, Next
<1>10. QED
  BY <1>1, <1>2, <1>9 DEF SerialInv

\* When requests do not overlap, rooms, bookings and contracts agree: a room
\* is reserved for exactly one live booking, occupied under exactly one active
\* contract, and free of both otherwise, with the worker, the clock and aborted
\* requests at any point.
THEOREM AgreementCorrect == SerialSpec => []RoomsAgree
<1>1. QED
  BY SerialInit, SerialStep, SerialAgreement, PTL DEF SerialSpec

---------------------------------------------------------------------------
(***************************************************************************)
(* The booking engine, with requests that do not overlap, implements the   *)
(* room ledger: every step of it is a step of RoomLedger, or changes       *)
(* nothing the ledger shows.                                               *)
(***************************************************************************)

(* Who has room r, without the CHOOSE.                                     *)
HolderSays(r) ==
    /\ room[r] = "available" => HolderOf(r) = Ledger!Free
    /\ room[r] = "maintenance" => HolderOf(r) = Ledger!Closed
    /\ room[r] = "reserved" => \E b \in LiveOn(r) : TRUE
    /\ room[r] = "occupied" => \E b \in ActiveOn(r) : TRUE
    /\ \A b \in LiveOn(r) : room[r] = "reserved" /\ HolderOf(r) = Ledger!HeldBy(b)
    /\ \A b \in ActiveOn(r) : room[r] = "occupied" /\ HolderOf(r) = Ledger!LetTo(b)

LEMMA HolderKnown == SerialInv => \A r \in Rooms : HolderSays(r)
<1> SUFFICES ASSUME SerialInv, NEW r \in Rooms PROVE HolderSays(r)
    OBVIOUS
<1>1. RoomAgrees(r) /\ room[r] \in RoomStatus
  BY SerialAgreement DEF RoomsAgree, SerialInv, EngineInv, TypeOK
<1>2. LiveOn(r) \subseteq Bookings /\ ActiveOn(r) \subseteq Bookings
  BY DEF LiveOn, ActiveOn, OnRoom
<1>3. ASSUME NEW b \in LiveOn(r)
      PROVE  room[r] = "reserved" /\ HolderOf(r) = Ledger!HeldBy(b)
  <2>1. room[r] = "reserved" /\ LiveOn(r) = {b}
    BY <1>1, <1>3 DEF RoomAgrees, RoomStatus
  <2>2. (CHOOSE c \in Bookings : c \in LiveOn(r)) = b
    BY <1>2, <2>1
  <2>3. QED
    BY <2>1, <2>2 DEF HolderOf, Ledger!HeldBy
<1>4. ASSUME NEW b \in ActiveOn(r)
      PROVE  room[r] = "occupied" /\ HolderOf(r) = Ledger!LetTo(b)
  <2>1. room[r] = "occupied" /\ ActiveOn(r) = {b}
    BY <1>1, <1>4 DEF RoomAgrees, RoomStatus
  <2>2. (CHOOSE c \in Bookings : c \in ActiveOn(r)) = b
    BY <1>2, <2>1
  <2>3. QED
    BY <2>1, <2>2 DEF HolderOf, Ledger!LetTo
<1>5. /\ room[r] = "available" => HolderOf(r) = Ledger!Free
      /\ room[r] = "maintenance" => HolderOf(r) = Ledger!Closed
  BY DEF HolderOf, Ledger!Free, Ledger!Closed
<1>6. /\ room[r] = "reserved" => \E b \in LiveOn(r) : TRUE
      /\ room[r] = "occupied" => \E b \in ActiveOn(r) : TRUE
  BY <1>1 DEF RoomAgrees
<1>7. QED
  BY <1>3, <1>4, <1>5, <1>6 DEF HolderSays

LEMMA HolderKnownNext == SerialInv' => \A r \in Rooms : HolderSays(r)'
<1>1. SerialInv' => (\A r \in Rooms : HolderSays(r))'
  BY HolderKnown, PTL
<1>2. QED
  BY <1>1

LEMMA HolderKept ==
    ASSUME SerialInv, SerialInv', NEW r \in Rooms, room'[r] = room[r],
           LiveOn(r) \subseteq LiveOn(r)', ActiveOn(r) \subseteq ActiveOn(r)'
    PROVE  HolderOf(r)' = HolderOf(r)
<1>1. HolderSays(r) /\ HolderSays(r)'
  BY HolderKnown, HolderKnownNext
<1>2. room[r] \in RoomStatus
  BY DEF SerialInv, EngineInv, TypeOK
<1>3. CASE room[r] \in {"available", "maintenance"}
  BY <1>1, <1>3 DEF HolderSays, Ledger!Free, Ledger!Closed
<1>4. CASE room[r] = "reserved"
  <2>1. PICK b : b \in LiveOn(r) /\ b \in LiveOn(r)'
    BY <1>1, <1>4 DEF HolderSays
  <2>2. QED
    BY <1>1, <2>1 DEF HolderSays, Ledger!HeldBy
<1>5. CASE room[r] = "occupied"
  <2>1. PICK b : b \in ActiveOn(r) /\ b \in ActiveOn(r)'
    BY <1>1, <1>5 DEF HolderSays
  <2>2. QED
    BY <1>1, <2>1 DEF HolderSays, Ledger!LetTo
<1>6. QED
  BY <1>2, <1>3, <1>4, <1>5 DEF RoomStatus

LEMMA LedgerInit == Init => Ledger!Init
<1> SUFFICES ASSUME Init PROVE Ledger!Init
    OBVIOUS
<1>1. \A r \in Rooms : HolderOf(r) \in {Ledger!Free, Ledger!Closed}
  BY DEF Init, HolderOf, Ledger!Free, Ledger!Closed
<1>2. \A b \in Bookings : booking[b] = NoBooking /\ contract[b].status # "ended"
  BY DEF Init, NoContract
<1>3. QED
  BY <1>1, <1>2 DEF Ledger!Init

(* A step that moves no status and no room moves nothing in the ledger.    *)
LEMMA LedgerStutter ==
    ASSUME SerialInv, SerialInv', RowsStay,
           \A r \in Rooms : /\ room'[r] = room[r]
                            /\ LiveOn(r) \subseteq LiveOn(r)'
                            /\ ActiveOn(r) \subseteq ActiveOn(r)',
           \A b \in Bookings : contract'[b].status = "ended" <=> contract[b].status = "ended"
    PROVE  UNCHANGED Ledger!vars
<1>1. \A r \in Rooms : HolderOf(r)' = HolderOf(r)
  BY HolderKept
<1>2. QED
  BY <1>1 DEF Ledger!vars, RowsStay

LEMMA QuietLedger ==
    ASSUME SerialInv, SerialInv', UNCHANGED <<room, booking, contract>>
    PROVE  UNCHANGED Ledger!vars
BY LedgerStutter DEF RowsStay, LiveOn, ActiveOn, OnRoom, IsLive, IsActive

LEMMA TickLedger ==
    ASSUME SerialInv, SerialInv', Tick
    PROVE  UNCHANGED Ledger!vars
<1> USE DEF SerialInv, EngineInv
<1>1. room' = room
  BY DEF Tick
<1>2. \A r \in Rooms : LiveOn(r) \subseteq LiveOn(r)' /\ ActiveOn(r) \subseteq ActiveOn(r)'
  BY TickRows, RoomsStay DEF LiveOn, ActiveOn, OnRoom, IsLive, IsActive
<1>3. QED
  BY <1>1, <1>2, TickRows, LedgerStutter

LEMMA ProcessLedger ==
    ASSUME SerialInv, SerialInv', NEW h \in Handlers, NEW b \in Bookings, CommitProcess(h, b)
    PROVE  UNCHANGED Ledger!vars
<1> USE DEF SerialInv, EngineInv
<1>1. booking[b] \in BookingRow
  BY CommitRow DEF CommitProcess, Ops
<1>2. /\ booking'[b].status = IF booking[b].status \in {"pending"} THEN "processing" ELSE booking[b].status
      /\ \A c \in Bookings : c # b => booking'[c] = booking[c]
      /\ RowsStay
  BY <1>1, MovedRow DEF CommitProcess, BookingStatus, Live
<1>3. room' = room /\ contract' = contract
  BY DEF CommitProcess
<1>4. \A r \in Rooms : LiveOn(r) \subseteq LiveOn(r)' /\ ActiveOn(r) \subseteq ActiveOn(r)'
  BY <1>2, <1>3, RoomsStay DEF LiveOn, ActiveOn, OnRoom, IsLive, IsActive, Live
<1>5. QED
  BY <1>2, <1>3, <1>4, LedgerStutter

LEMMA CreateLedger ==
    ASSUME SerialInv, SerialInv', NEW h \in Handlers, NEW t \in Tenants, NEW r \in Rooms,
           NEW b \in Bookings, Create(h, t, r, b)
    PROVE  Ledger!Hold(r, b)
<1> USE DEF SerialInv, EngineInv
<1>1. /\ booking'[b] = [status |-> "pending", room |-> r, tenant |-> t, left |-> BookingExpiry]
      /\ booking[b] = NoBooking
      /\ \A c \in Bookings : c # b => booking'[c] = booking[c]
      /\ contract' = contract
      /\ room[r] = "available"
      /\ room'[r] = "reserved"
      /\ \A q \in Rooms : q # r => room'[q] = room[q]
  BY DEF TypeOK, Create
<1>2. booking'[b] # NoBooking
  BY <1>1 DEF NoBooking
<1>3. HolderOf(r) = Ledger!Free
  BY <1>1, HolderKnown DEF HolderSays
<1>4. HolderOf(r)' = Ledger!HeldBy(b)
  <2>1. b \in LiveOn(r)'
    BY <1>1, <1>2 DEF LiveOn, OnRoom, IsLive, Live
  <2>2. QED
    BY <2>1, HolderKnownNext DEF HolderSays, Ledger!HeldBy
<1>5. ASSUME NEW q \in Rooms, q # r
      PROVE  HolderOf(q)' = HolderOf(q)
  <2>1. OnRoom(q) \subseteq OnRoom(q)' /\ b \notin OnRoom(q)
    BY <1>1 DEF OnRoom
  <2>2. LiveOn(q) \subseteq LiveOn(q)' /\ ActiveOn(q) \subseteq ActiveOn(q)'
    BY <1>1, <2>1 DEF LiveOn, ActiveOn, IsLive, IsActive, OnRoom
  <2>3. QED
    BY <1>1, <1>5, <2>2, HolderKept
<1>6. QED
  BY <1>1, <1>2, <1>3, <1>4, <1>5 DEF Ledger!Hold

(* A room given back by its live booking b, or nothing new if the worker   *)
(* has given it back before.                                               *)
LEMMA GiveBackLedger ==
    ASSUME SerialInv, SerialInv', NEW h \in Handlers, NEW b \in Bookings,
           CommitCancel(h, b) \/ CommitReject(h, b)
    PROVE  \E rs \in SUBSET Rooms : Ledger!Release(rs)
<1> USE DEF SerialInv, EngineInv
<1>1. booking[b] \in BookingRow /\ req[h] # Idle /\ req[h].booking = b /\ req[h].stage = "checked"
      /\ req[h].op \in {"cancel", "reject"}
  BY CommitRow DEF CommitCancel, CommitReject, Ops
<1> PICK r \in Rooms : r = booking[b].room
  BY <1>1 DEF BookingRow
<1>2. IsLive(b) \/ Lapsed(b)
  BY <1>1 DEF InHand, IsLive, Live
<1>3. /\ \A c \in Bookings : c # b => booking'[c] = booking[c]
      /\ RowsStay
      /\ contract' = contract
  BY <1>1, MovedRow DEF CommitCancel, CommitReject, BookingStatus, Live
<1>4. /\ room'[r] = IF room[r] \in {"reserved"} THEN "available" ELSE room[r]
      /\ \A q \in Rooms : q # r => room'[q] = room[q]
  BY MovedRoom DEF CommitCancel, CommitReject, RoomStatus
<1>5. room[r] \in {"available", "reserved"}
  BY <1>1, <1>2, RoomIsIts
<1>6. HolderOf(r)' = Ledger!Free
  BY <1>4, <1>5, HolderKnownNext DEF HolderSays, Ledger!Free
<1>7. ASSUME NEW q \in Rooms, q # r
      PROVE  HolderOf(q)' = HolderOf(q)
  <2>1. OnRoom(q) = OnRoom(q)' /\ b \notin OnRoom(q)
    BY <1>3, <1>7, RoomsStay DEF OnRoom
  <2>2. LiveOn(q) \subseteq LiveOn(q)' /\ ActiveOn(q) \subseteq ActiveOn(q)'
    BY <1>3, <2>1 DEF LiveOn, ActiveOn, IsLive, IsActive, OnRoom
  <2>3. QED
    BY <1>4, <1>7, <2>2, HolderKept
<1>8. UNCHANGED <<{c \in Bookings : booking[c] # NoBooking}, {c \in Bookings : contract[c].status = "ended"}>>
  BY <1>3 DEF RowsStay
<1>9. CASE room[r] = "reserved"
  <2>1. HolderOf(r).state = "held"
    BY <1>9, HolderKnown DEF HolderSays, Ledger!HeldBy
  <2>2. Ledger!Release({r})
    BY <1>6, <1>7, <1>8, <2>1 DEF Ledger!Release
  <2>3. QED
    BY <2>2
<1>10. CASE room[r] = "available"
  <2>1. HolderOf(r) = Ledger!Free
    BY <1>10, HolderKnown DEF HolderSays
  <2>2. Ledger!Release({})
    BY <1>6, <1>7, <1>8, <2>1 DEF Ledger!Release, Ledger!Free
  <2>3. QED
    BY <2>2
<1>11. QED
  BY <1>5, <1>9, <1>10

LEMMA ApproveLedger ==
    ASSUME SerialInv, SerialInv', NEW h \in Handlers, NEW b \in Bookings, NEW term \in LeaseTerms,
           CommitApprove(h, b, term)
    PROVE  \E r \in Rooms : Ledger!Let(r, b)
<1> USE DEF SerialInv, EngineInv
<1>1. booking[b] \in BookingRow /\ booking[b] # NoBooking
      /\ req[h] # Idle /\ req[h].booking = b /\ req[h].stage = "checked" /\ req[h].op = "approve"
  BY CommitRow, RowTypes DEF CommitApprove, Ops
<1> PICK r \in Rooms : r = booking[b].room
  BY <1>1 DEF BookingRow
<1>2. IsLive(b) \/ Lapsed(b)
  BY <1>1 DEF InHand
<1>3. /\ \A c \in Bookings : c # b => booking'[c] = booking[c] /\ contract'[c] = contract[c]
      /\ RowsStay
      /\ contract[b] = NoContract
      /\ contract'[b].status = "active"
  BY <1>1, MovedRow DEF CommitApprove, BookingStatus, Live, TypeOK
<1>4. /\ room'[r] = "occupied"
      /\ \A q \in Rooms : q # r => room'[q] = room[q]
  BY MovedRoom DEF CommitApprove, RoomStatus, TypeOK
<1>5. HolderOf(r) \in {Ledger!HeldBy(b), Ledger!Free}
  <2>1. CASE IsLive(b)
    <3>1. b \in LiveOn(r)
      BY <1>1, <2>1 DEF LiveOn, OnRoom
    <3>2. QED
      BY <3>1, HolderKnown DEF HolderSays
  <2>2. CASE Lapsed(b)
    BY <2>2, HolderKnown DEF HolderSays, Lapsed
  <2>3. QED
    BY <1>2, <2>1, <2>2
<1>6. ASSUME NEW q \in Rooms
      PROVE  HolderOf(q) # Ledger!LetTo(b)
  <2>1. HolderSays(q) /\ room[q] \in RoomStatus /\ b \notin ActiveOn(q)
    BY <1>3, HolderKnown DEF TypeOK, ActiveOn, IsActive, NoContract
  <2>2. \A c, d : Ledger!LetTo(c) = Ledger!LetTo(d) => c = d
    BY DEF Ledger!LetTo
  <2>3. \A c : /\ Ledger!LetTo(b) # Ledger!HeldBy(c)
               /\ Ledger!LetTo(b) # Ledger!Free
               /\ Ledger!LetTo(b) # Ledger!Closed
    BY DEF Ledger!LetTo, Ledger!HeldBy, Ledger!Free, Ledger!Closed
  <2>4. QED
    BY <2>1, <2>2, <2>3 DEF HolderSays, RoomStatus
<1>7. HolderOf(r)' = Ledger!LetTo(b)
  <2>1. b \in ActiveOn(r)'
    BY <1>1, <1>3, RoomsStay DEF ActiveOn, OnRoom, IsActive
  <2>2. QED
    BY <2>1, HolderKnownNext DEF HolderSays, Ledger!LetTo
<1>8. ASSUME NEW q \in Rooms, q # r
      PROVE  HolderOf(q)' = HolderOf(q)
  <2>1. OnRoom(q) = OnRoom(q)' /\ b \notin OnRoom(q)
    BY <1>3, <1>8, RoomsStay DEF OnRoom
  <2>2. LiveOn(q) \subseteq LiveOn(q)' /\ ActiveOn(q) \subseteq ActiveOn(q)'
    BY <1>3, <2>1 DEF LiveOn, ActiveOn, IsLive, IsActive, OnRoom
  <2>3. QED
    BY <1>4, <1>8, <2>2, HolderKept
<1>9. /\ \A c \in Bookings : booking'[c] # NoBooking <=> booking[c] # NoBooking
      /\ \A c \in Bookings : contract'[c].status = "ended" <=> contract[c].status = "ended"
      /\ contract[b].status # "ended"
  BY <1>3 DEF RowsStay, NoContract
<1>10. Ledger!Let(r, b)
  BY <1>1, <1>5, <1>6, <1>7, <1>8, <1>9 DEF Ledger!Let
<1>11. QED
  BY <1>10

LEMMA EndLedger ==
    ASSUME SerialInv, SerialInv', NEW h \in Handlers, NEW b \in Bookings, CommitEnd(h, b)
    PROVE  \E r \in Rooms : Ledger!Vacate(r, b)
<1> USE DEF SerialInv, EngineInv
<1>1. booking[b] \in BookingRow /\ booking[b] # NoBooking /\ contract[b] \in ContractRow
      /\ req[h] # Idle /\ req[h].booking = b /\ req[h].stage = "checked" /\ req[h].op = "end"
  BY CommitRow, RowTypes DEF CommitEnd, Ops
<1> PICK r \in Rooms : r = booking[b].room
  BY <1>1 DEF BookingRow
<1>2. b \in ActiveOn(r)
  BY <1>1 DEF InHand, ActiveOn, OnRoom
<1>3. /\ \A c \in Bookings : c # b => contract'[c] = contract[c]
      /\ contract'[b].status = "ended"
      /\ booking' = booking
      /\ room'[r] = "available"
      /\ \A q \in Rooms : q # r => room'[q] = room[q]
  BY <1>1, MovedRoom DEF CommitEnd, RoomStatus, TypeOK, ContractRow
<1>4. HolderOf(r) = Ledger!LetTo(b)
  BY <1>2, HolderKnown DEF HolderSays
<1>5. HolderOf(r)' = Ledger!Free
  BY <1>3, HolderKnownNext DEF HolderSays, Ledger!Free
<1>6. ASSUME NEW q \in Rooms, q # r
      PROVE  HolderOf(q)' = HolderOf(q)
  <2>1. LiveOn(q) \subseteq LiveOn(q)' /\ ActiveOn(q) \subseteq ActiveOn(q)'
    BY <1>3, <1>6 DEF LiveOn, ActiveOn, IsLive, IsActive, OnRoom
  <2>2. QED
    BY <1>3, <1>6, <2>1, HolderKept
<1>7. Ledger!Vacate(r, b)
  BY <1>3, <1>4, <1>5, <1>6 DEF Ledger!Vacate
<1>8. QED
  BY <1>7

LEMMA ExpireLedger ==
    ASSUME SerialInv, SerialInv', ExpirePendingBookings
    PROVE  \E rs \in SUBSET Rooms : Ledger!Release(rs)
<1> USE DEF SerialInv, EngineInv
<1> DEFINE rs == {r \in Rooms : room[r] = "reserved" /\ \E b \in Overdue : booking[b].room = r}
<1>1. /\ \A b \in Overdue : booking[b] \in BookingRow /\ booking[b] # NoBooking /\ IsLive(b)
      /\ Overdue \subseteq Bookings
  BY RowTypes DEF Overdue, IsLive, BookingStatus
<1>2. /\ \A b \in Overdue : booking'[b].status = "expired" /\ booking'[b].room = booking[b].room
      /\ \A b \in Bookings \ Overdue : booking'[b] = booking[b]
      /\ contract' = contract
  BY <1>1 DEF TypeOK, ExpirePendingBookings, BookingRow
<1>3. RowsStay
  BY <1>1, <1>2 DEF RowsStay, NoBooking
<1>4. \A r \in Rooms : room'[r] = IF r \in rs THEN "available" ELSE room[r]
  BY DEF ExpirePendingBookings
<1>5. ASSUME NEW r \in rs
      PROVE  HolderOf(r).state = "held" /\ HolderOf(r)' = Ledger!Free
  BY <1>4, <1>5, HolderKnown, HolderKnownNext DEF HolderSays, Ledger!HeldBy, Ledger!Free
<1>6. ASSUME NEW r \in Rooms \ rs
      PROVE  HolderOf(r)' = HolderOf(r)
  <2>1. \A b \in Overdue : booking[b].room # r
    BY <1>1, <1>6 DEF HeldAgrees
  <2>2. LiveOn(r) \subseteq LiveOn(r)' /\ ActiveOn(r) \subseteq ActiveOn(r)'
    BY <1>1, <1>2, <1>3, <2>1, RoomsStay DEF LiveOn, ActiveOn, IsLive, IsActive, OnRoom
  <2>3. QED
    BY <1>4, <1>6, <2>2, HolderKept
<1>7. UNCHANGED <<{c \in Bookings : booking[c] # NoBooking}, {c \in Bookings : contract[c].status = "ended"}>>
  BY <1>2, <1>3 DEF RowsStay
<1>8. Ledger!Release(rs)
  BY <1>5, <1>6, <1>7 DEF Ledger!Release
<1>9. QED
  BY <1>8

LEMMA LedgerStep ==
    SerialInv /\ SerialInv' /\ [SerialNext]_vars => [Ledger!Next]_(Ledger!vars)
<1> SUFFICES ASSUME SerialInv, SerialInv', [SerialNext]_vars
             PROVE  Ledger!Next \/ UNCHANGED Ledger!vars
    OBVIOUS
<1> DEFINE Goal == Ledger!Next \/ UNCHANGED Ledger!vars
<1>1. ASSUME NEW h \in Handlers, NEW t \in Tenants, NEW r \in Rooms, NEW b \in Bookings, Create(h, t, r, b)
      PROVE  Goal
  BY <1>1, CreateLedger DEF Ledger!Next
<1>2. ASSUME NEW h \in Handlers, NEW t \in Tenants \cup Owners, NEW b \in Bookings,
             CheckCancel(h, t, b) \/ OwnerStep(h, t, b)
      PROVE  Goal
  BY <1>2, QuietLedger
     DEF CheckCancel, OwnerStep, CheckProcess, CheckApprove, CheckReject, CheckEnd, Begin
<1>3. ASSUME NEW h \in Handlers, NEW b \in Bookings, CommitStep(h, b)
      PROVE  Goal
  <2>1. CASE CommitCancel(h, b) \/ CommitReject(h, b)
    BY <2>1, GiveBackLedger DEF Ledger!Next
  <2>2. CASE CommitProcess(h, b)
    BY <2>2, ProcessLedger
  <2>3. CASE \E term \in LeaseTerms : CommitApprove(h, b, term)
    BY <2>3, ApproveLedger DEF Ledger!Next
  <2>4. CASE CommitEnd(h, b)
    BY <2>4, EndLedger DEF Ledger!Next
  <2>5. QED
    BY <1>3, <2>1, <2>2, <2>3, <2>4 DEF CommitStep
<1>4. ASSUME NEW h \in Handlers, FinishStep(h)
      PROVE  Goal
  BY <1>4, QuietLedger DEF FinishStep, Notify, Abort
<1>5. CASE ExpirePendingBookings
  BY <1>5, ExpireLedger DEF Ledger!Next
<1>6. CASE Tick
  BY <1>6, TickLedger
<1>7. ASSUME NEW k \in Kosts, KostDecision(k)
      PROVE  Goal
  BY <1>7, QuietLedger DEF KostDecision
<1>8. CASE UNCHANGED vars
  BY <1>8, QuietLedger DEF vars
<1>9. QED
  BY <1>1, <1>2, <1>3, <1>4, <1>5, <1>6, <1>7, <1>8 DEF SerialNext, Next, TenantStep

\* When requests do not overlap, the engine implements the ledger: a room
\* passes from booking to booking only through being free, and no booking
\* holds a room twice or has it after its contract is over.
THEOREM LedgerKept == SerialSpec => KeepsLedger
<1>1. SerialSpec => []SerialInv
  BY SerialInit, SerialStep, PTL DEF SerialSpec
<1>2. QED
  BY <1>1, LedgerInit, LedgerStep, PTL DEF SerialSpec, KeepsLedger, Ledger!Spec

---------------------------------------------------------------------------
(***************************************************************************)
(* What the pages expect of the engine: with requests that do not overlap  *)
(* every status goes the way a move of Pages takes it.                     *)
(***************************************************************************)

LEMMA MoveIs ==
    ASSUME NEW moves, NEW m \in DOMAIN moves, NEW t, NEW S, NEW from \in S, NEW to,
           moves[m] = [of |-> t, step |-> Desk!Becomes(S, to)]
    PROVE  Desk!Foreseen(moves, t, from, to)
BY DEF Desk!Foreseen, Desk!Becomes

LEMMA StaysForeseen ==
    ASSUME NEW moves, NEW t, NEW from
    PROVE  Desk!Foreseen(moves, t, from, from)
BY DEF Desk!Foreseen

\* The moves the engine makes.
LEMMA EngineMoves ==
    /\ Desk!Foreseen(Desk!BookingMoves, "bookings", "absent", "pending")
    /\ Desk!Foreseen(Desk!BookingMoves, "bookings", "pending", "processing")
    /\ Desk!Foreseen(Desk!BookingMoves, "bookings", "pending", "rejected")
    /\ Desk!Foreseen(Desk!BookingMoves, "bookings", "pending", "cancelled")
    /\ \A s \in Live : /\ Desk!Foreseen(Desk!BookingMoves, "bookings", s, "approved")
                       /\ Desk!Foreseen(Desk!BookingMoves, "bookings", s, "expired")
    /\ Desk!Foreseen(Desk!BookingMoves, "contracts", "absent", "active")
    /\ Desk!Foreseen(Desk!BookingMoves, "contracts", "active", "ended")
    /\ Desk!Foreseen(Desk!RoomMoves, "rooms", "available", "reserved")
    /\ Desk!Foreseen(Desk!RoomMoves, "rooms", "reserved", "occupied")
    /\ \A s \in {"reserved", "occupied"} : Desk!Foreseen(Desk!RoomMoves, "rooms", s, "available")
<1> DEFINE B == Desk!BookingMoves
           R == Desk!RoomMoves
<1>1. /\ {"request", "process", "reject", "cancel", "approve", "expire", "sign", "end"} \subseteq DOMAIN B
      /\ B["request"] = [of |-> "bookings", step |-> Desk!Becomes({"absent"}, "pending")]
      /\ B["process"] = [of |-> "bookings", step |-> Desk!Becomes({"pending"}, "processing")]
      /\ B["reject"] = [of |-> "bookings", step |-> Desk!Becomes({"pending"}, "rejected")]
      /\ B["cancel"] = [of |-> "bookings", step |-> Desk!Becomes({"pending"}, "cancelled")]
      /\ B["approve"] = [of |-> "bookings", step |-> Desk!Becomes({"pending", "processing"}, "approved")]
      /\ B["expire"] = [of |-> "bookings", step |-> Desk!Becomes({"pending", "processing"}, "expired")]
      /\ B["sign"] = [of |-> "contracts", step |-> Desk!Becomes({"absent"}, "active")]
      /\ B["end"] = [of |-> "contracts", step |-> Desk!Becomes({"active"}, "ended")]
  BY DEF Desk!BookingMoves
<1>2. /\ {"book", "let", "release"} \subseteq DOMAIN R
      /\ R["book"] = [of |-> "rooms", step |-> Desk!Becomes({"available"}, "reserved")]
      /\ R["let"] = [of |-> "rooms", step |-> Desk!Becomes({"reserved"}, "occupied")]
      /\ R["release"] = [of |-> "rooms", step |-> Desk!Becomes({"reserved", "occupied"}, "available")]
  BY DEF Desk!RoomMoves
<1> HIDE DEF B, R
<1>3. /\ Desk!Foreseen(B, "bookings", "absent", "pending")
      /\ Desk!Foreseen(B, "bookings", "pending", "processing")
  BY <1>1, MoveIs
<1>4. /\ Desk!Foreseen(B, "bookings", "pending", "rejected")
      /\ Desk!Foreseen(B, "bookings", "pending", "cancelled")
  BY <1>1, MoveIs
<1>5. \A s \in Live : /\ Desk!Foreseen(B, "bookings", s, "approved")
                      /\ Desk!Foreseen(B, "bookings", s, "expired")
  BY <1>1, MoveIs DEF Live
<1>6. /\ Desk!Foreseen(B, "contracts", "absent", "active")
      /\ Desk!Foreseen(B, "contracts", "active", "ended")
  BY <1>1, MoveIs
<1>7. /\ Desk!Foreseen(R, "rooms", "available", "reserved")
      /\ Desk!Foreseen(R, "rooms", "reserved", "occupied")
      /\ \A s \in {"reserved", "occupied"} : Desk!Foreseen(R, "rooms", s, "available")
  BY <1>2, MoveIs
<1>8. QED
  BY <1>3, <1>4, <1>5, <1>6, <1>7 DEF B, R

\* What is shown of a row is its status.
LEMMA ShownIs ==
    ASSUME NEW row
    PROVE  /\ row.status = "none" => ShownStatus(row) = "absent"
           /\ row.status \in BookingStatus \cup {"active", "ended"} => ShownStatus(row) = row.status
BY DEF ShownStatus, BookingStatus, Live

LEMMA StatusStays ==
    ASSUME NEW b \in Bookings
    PROVE  /\ booking'[b].status = booking[b].status => BookingForeseen(b)
           /\ contract'[b].status = contract[b].status => ContractForeseen(b)
<1>1. booking'[b].status = booking[b].status => ShownStatus(booking'[b]) = ShownStatus(booking[b])
  BY DEF ShownStatus
<1>2. contract'[b].status = contract[b].status => ShownStatus(contract'[b]) = ShownStatus(contract[b])
  BY DEF ShownStatus
<1>3. QED
  BY <1>1, <1>2, StaysForeseen DEF BookingForeseen, ContractForeseen

LEMMA RoomStatusStays ==
    ASSUME NEW r \in Rooms, room'[r] = room[r]
    PROVE  RoomForeseen(r)
BY StaysForeseen DEF RoomForeseen

AllForeseen ==
    /\ \A b \in Bookings : BookingForeseen(b) /\ ContractForeseen(b)
    /\ \A r \in Rooms : RoomForeseen(r)

LEMMA QuietForeseen ==
    ASSUME room' = room,
           \A b \in Bookings : /\ booking'[b].status = booking[b].status
                               /\ contract'[b].status = contract[b].status
    PROVE  AllForeseen
BY StatusStays, RoomStatusStays DEF AllForeseen

LEMMA CreateForeseen ==
    ASSUME SerialInv, NEW h \in Handlers, NEW t \in Tenants, NEW r \in Rooms,
           NEW b \in Bookings, Create(h, t, r, b)
    PROVE  AllForeseen
<1>1. /\ booking'[b] = [status |-> "pending", room |-> r, tenant |-> t, left |-> BookingExpiry]
      /\ booking[b] = NoBooking
      /\ \A c \in Bookings : c # b => booking'[c] = booking[c]
      /\ contract' = contract
      /\ room[r] = "available"
      /\ room'[r] = "reserved"
      /\ \A q \in Rooms : q # r => room'[q] = room[q]
  BY DEF SerialInv, EngineInv, TypeOK, Create
<1>2. ShownStatus(booking[b]) = "absent" /\ ShownStatus(booking'[b]) = "pending"
  BY <1>1 DEF ShownStatus, NoBooking
<1>3. BookingForeseen(b) /\ RoomForeseen(r)
  BY <1>1, <1>2, EngineMoves DEF BookingForeseen, RoomForeseen
<1>4. QED
  BY <1>1, <1>3, StatusStays, RoomStatusStays DEF AllForeseen

LEMMA GiveBackForeseen ==
    ASSUME SerialInv, NEW h \in Handlers, NEW b \in Bookings,
           CommitCancel(h, b) \/ CommitReject(h, b)
    PROVE  AllForeseen
<1> USE DEF SerialInv, EngineInv
<1>1. booking[b] \in BookingRow /\ req[h] # Idle /\ req[h].booking = b /\ req[h].stage = "checked"
      /\ req[h].op \in {"cancel", "reject"}
  BY CommitRow DEF CommitCancel, CommitReject, Ops
<1> PICK r \in Rooms : r = booking[b].room
  BY <1>1 DEF BookingRow
<1>2. booking[b].status = "pending" \/ Lapsed(b)
  BY <1>1 DEF InHand
<1>3. /\ \A c \in Bookings : c # b => booking'[c] = booking[c]
      /\ contract' = contract
  BY <1>1, MovedRow DEF CommitCancel, CommitReject, BookingStatus, Live
<1>4. /\ room'[r] = IF room[r] \in {"reserved"} THEN "available" ELSE room[r]
      /\ \A q \in Rooms : q # r => room'[q] = room[q]
  BY MovedRoom DEF CommitCancel, CommitReject, RoomStatus
<1>5. RoomForeseen(r)
  BY <1>4, EngineMoves, RoomStatusStays DEF RoomForeseen
<1>6. CASE CommitCancel(h, b)
  <2>1. booking'[b].status = IF booking[b].status \in {"pending"} THEN "cancelled"
                                                                 ELSE booking[b].status
    BY <1>1, <1>6, MovedRow DEF CommitCancel, BookingStatus, Live
  <2>2. ASSUME booking[b].status = "pending"
        PROVE  BookingForeseen(b)
    <3>1. ShownStatus(booking[b]) = "pending" /\ ShownStatus(booking'[b]) = "cancelled"
      BY <2>1, <2>2 DEF ShownStatus
    <3>2. QED
      BY <3>1, EngineMoves DEF BookingForeseen
  <2>3. ASSUME Lapsed(b)
        PROVE  BookingForeseen(b)
    BY <2>1, <2>3, StatusStays DEF Lapsed
  <2>4. BookingForeseen(b)
    BY <1>2, <2>2, <2>3
  <2>5. QED
    BY <1>3, <1>4, <1>5, <2>4, StatusStays, RoomStatusStays DEF AllForeseen
<1>7. CASE CommitReject(h, b)
  <2>1. booking'[b].status = "rejected"
    BY <1>1, <1>7, MovedRow DEF CommitReject, BookingStatus, Live, BookingRow
  <2>2. ASSUME booking[b].status = "pending"
        PROVE  BookingForeseen(b)
    <3>1. ShownStatus(booking[b]) = "pending" /\ ShownStatus(booking'[b]) = "rejected"
      BY <2>1, <2>2 DEF ShownStatus
    <3>2. QED
      BY <3>1, EngineMoves DEF BookingForeseen
  <2>3. ASSUME Lapsed(b)
        PROVE  BookingForeseen(b)
    BY <1>7, <2>1, <2>3 DEF Lapsed, BookingForeseen, DecidedLate, CommitReject
  <2>4. BookingForeseen(b)
    BY <1>2, <2>2, <2>3
  <2>5. QED
    BY <1>3, <1>4, <1>5, <2>4, StatusStays, RoomStatusStays DEF AllForeseen
<1>8. QED
  BY <1>6, <1>7

LEMMA ProcessForeseen ==
    ASSUME SerialInv, NEW h \in Handlers, NEW b \in Bookings, CommitProcess(h, b)
    PROVE  AllForeseen
<1> USE DEF SerialInv, EngineInv
<1>1. booking[b] \in BookingRow
  BY CommitRow DEF CommitProcess, Ops
<1>2. /\ booking'[b].status = IF booking[b].status \in {"pending"} THEN "processing" ELSE booking[b].status
      /\ \A c \in Bookings : c # b => booking'[c] = booking[c]
  BY <1>1, MovedRow DEF CommitProcess, BookingStatus, Live
<1>3. room' = room /\ contract' = contract
  BY DEF CommitProcess
<1>4. ASSUME booking[b].status = "pending"
      PROVE  BookingForeseen(b)
  <2>1. ShownStatus(booking[b]) = "pending" /\ ShownStatus(booking'[b]) = "processing"
    BY <1>2, <1>4 DEF ShownStatus
  <2>2. QED
    BY <2>1, EngineMoves DEF BookingForeseen
<1>5. ASSUME booking[b].status # "pending"
      PROVE  BookingForeseen(b)
  BY <1>2, <1>5, StatusStays
<1>6. BookingForeseen(b)
  BY <1>4, <1>5
<1>7. QED
  BY <1>2, <1>3, <1>6, StatusStays, RoomStatusStays DEF AllForeseen

LEMMA ApproveForeseen ==
    ASSUME SerialInv, NEW h \in Handlers, NEW b \in Bookings, NEW term \in LeaseTerms,
           CommitApprove(h, b, term)
    PROVE  AllForeseen
<1> USE DEF SerialInv, EngineInv
<1>1. booking[b] \in BookingRow
      /\ req[h] # Idle /\ req[h].booking = b /\ req[h].stage = "checked" /\ req[h].op = "approve"
  BY CommitRow DEF CommitApprove, Ops
<1> PICK r \in Rooms : r = booking[b].room
  BY <1>1 DEF BookingRow
<1>2. IsLive(b) \/ Lapsed(b)
  BY <1>1 DEF InHand
<1>3. /\ \A c \in Bookings : c # b => booking'[c] = booking[c] /\ contract'[c] = contract[c]
      /\ booking'[b].status = "approved"
      /\ contract[b] = NoContract
      /\ contract'[b].status = "active"
  BY <1>1, MovedRow DEF CommitApprove, BookingStatus, Live, TypeOK, BookingRow
<1>4. /\ room'[r] = "occupied"
      /\ \A q \in Rooms : q # r => room'[q] = room[q]
  BY MovedRoom DEF CommitApprove, RoomStatus, TypeOK
<1>5. ContractForeseen(b)
  <2>1. ShownStatus(contract[b]) = "absent" /\ ShownStatus(contract'[b]) = "active"
    BY <1>3 DEF ShownStatus, NoContract
  <2>2. QED
    BY <2>1, EngineMoves DEF ContractForeseen
<1>6. CASE IsLive(b)
  <2>1. ShownStatus(booking[b]) \in Live /\ ShownStatus(booking'[b]) = "approved"
    BY <1>3, <1>6 DEF ShownStatus, IsLive, Live
  <2>2. room[r] = "reserved"
    BY <1>6 DEF HeldAgrees
  <2>3. BookingForeseen(b) /\ RoomForeseen(r)
    BY <1>4, <2>1, <2>2, EngineMoves DEF BookingForeseen, RoomForeseen
  <2>4. QED
    BY <1>3, <1>4, <1>5, <2>3, StatusStays, RoomStatusStays DEF AllForeseen
<1>7. CASE Lapsed(b)
  <2>1. DecidedLate(h, b) /\ room[r] = "available"
    BY <1>3, <1>7 DEF Lapsed, DecidedLate, CommitApprove
  <2>2. BookingForeseen(b) /\ RoomForeseen(r)
    BY <1>4, <2>1 DEF BookingForeseen, RoomForeseen
  <2>3. QED
    BY <1>3, <1>4, <1>5, <2>2, StatusStays, RoomStatusStays DEF AllForeseen
<1>8. QED
  BY <1>2, <1>6, <1>7

LEMMA EndForeseen ==
    ASSUME SerialInv, NEW h \in Handlers, NEW b \in Bookings, CommitEnd(h, b)
    PROVE  AllForeseen
<1> USE DEF SerialInv, EngineInv
<1>1. booking[b] \in BookingRow /\ contract[b] \in ContractRow
      /\ req[h] # Idle /\ req[h].booking = b /\ req[h].stage = "checked" /\ req[h].op = "end"
  BY CommitRow DEF CommitEnd, Ops
<1> PICK r \in Rooms : r = booking[b].room
  BY <1>1 DEF BookingRow
<1>2. contract[b].status = "active" /\ room[r] = "occupied"
  BY <1>1 DEF InHand, IsActive, LetAgrees
<1>3. /\ \A c \in Bookings : c # b => contract'[c] = contract[c]
      /\ contract'[b].status = "ended"
      /\ booking' = booking
      /\ room'[r] = "available"
      /\ \A q \in Rooms : q # r => room'[q] = room[q]
  BY <1>1, MovedRoom DEF CommitEnd, RoomStatus, TypeOK, ContractRow
<1>4. ShownStatus(contract[b]) = "active" /\ ShownStatus(contract'[b]) = "ended"
  BY <1>2, <1>3 DEF ShownStatus
<1>5. ContractForeseen(b) /\ RoomForeseen(r)
  BY <1>2, <1>3, <1>4, EngineMoves DEF ContractForeseen, RoomForeseen
<1>6. QED
  BY <1>3, <1>5, StatusStays, RoomStatusStays DEF AllForeseen

LEMMA ExpireForeseen ==
    ASSUME SerialInv, ExpirePendingBookings
    PROVE  AllForeseen
<1> USE DEF SerialInv, EngineInv
<1>1. /\ \A b \in Overdue : booking[b] \in BookingRow /\ IsLive(b)
      /\ Overdue \subseteq Bookings
  BY RowTypes DEF Overdue, IsLive, BookingStatus
<1>2. /\ \A b \in Overdue : booking'[b].status = "expired"
      /\ \A b \in Bookings \ Overdue : booking'[b] = booking[b]
      /\ contract' = contract
  BY <1>1 DEF TypeOK, ExpirePendingBookings, BookingRow
<1>3. ASSUME NEW b \in Overdue
      PROVE  BookingForeseen(b)
  <2>1. ShownStatus(booking[b]) \in Live /\ ShownStatus(booking'[b]) = "expired"
    BY <1>1, <1>2 DEF ShownStatus, IsLive, Live
  <2>2. QED
    BY <2>1, EngineMoves DEF BookingForeseen
<1>4. ASSUME NEW r \in Rooms
      PROVE  RoomForeseen(r)
  <2>1. room'[r] = room[r] \/ (room[r] = "reserved" /\ room'[r] = "available")
    BY DEF ExpirePendingBookings
  <2>2. QED
    BY <2>1, EngineMoves, RoomStatusStays DEF RoomForeseen
<1>5. QED
  BY <1>2, <1>3, <1>4, StatusStays DEF AllForeseen

LEMMA ForeseenStep == SerialInv /\ [SerialNext]_vars => [AllForeseen]_vars
<1> SUFFICES ASSUME SerialInv, SerialNext PROVE AllForeseen
    OBVIOUS
<1>1. ASSUME NEW h \in Handlers, NEW t \in Tenants, NEW r \in Rooms, NEW b \in Bookings, Create(h, t, r, b)
      PROVE  AllForeseen
  BY <1>1, CreateForeseen
<1>2. ASSUME NEW h \in Handlers, NEW t \in Tenants \cup Owners, NEW b \in Bookings,
             CheckCancel(h, t, b) \/ OwnerStep(h, t, b)
      PROVE  AllForeseen
  BY <1>2, QuietForeseen
     DEF CheckCancel, OwnerStep, CheckProcess, CheckApprove, CheckReject, CheckEnd, Begin
<1>3. ASSUME NEW h \in Handlers, NEW b \in Bookings, CommitStep(h, b)
      PROVE  AllForeseen
  BY <1>3, GiveBackForeseen, ProcessForeseen, ApproveForeseen, EndForeseen DEF CommitStep
<1>4. ASSUME NEW h \in Handlers, FinishStep(h)
      PROVE  AllForeseen
  BY <1>4, QuietForeseen DEF FinishStep, Notify, Abort
<1>5. CASE ExpirePendingBookings
  BY <1>5, ExpireForeseen
<1>6. CASE Tick
  <2>1. room' = room /\ TypeOK
    BY <1>6 DEF Tick, SerialInv, EngineInv
  <2>2. QED
    BY <1>6, <2>1, TickRows, QuietForeseen
<1>7. ASSUME NEW k \in Kosts, KostDecision(k)
      PROVE  AllForeseen
  BY <1>7, QuietForeseen DEF KostDecision
<1>8. QED
  BY <1>1, <1>2, <1>3, <1>4, <1>5, <1>6, <1>7 DEF SerialNext, Next, TenantStep

\* When requests do not overlap, the tables the pages work with are right of
\* the engine: no booking, contract or room changes its status but by a move
\* of Pages, or by a decision on a booking that expired while it was made.
THEOREM ForeseenCorrect == SerialSpec => MovesForeseen
<1>1. SerialSpec => []SerialInv
  BY SerialInit, SerialStep, PTL DEF SerialSpec
<1>2. SerialInv /\ [SerialNext]_vars
        => [/\ \A b \in Bookings : BookingForeseen(b) /\ ContractForeseen(b)
            /\ \A r \in Rooms : RoomForeseen(r)]_vars
  BY ForeseenStep DEF AllForeseen
<1>3. QED
  BY <1>1, <1>2, PTL DEF SerialSpec, MovesForeseen
=============================================================================
