------------------------------ MODULE Premises ------------------------------
(***************************************************************************)
(* The rows a kost is made of, and the handlers that save them: kosts and  *)
(* rooms (backend/internal/modules/kosts) and the surveys that decide on a *)
(* kost (backend/internal/modules/survey).                                 *)
(*                                                                         *)
(* A handler reads a row, changes some columns of what it has read, and    *)
(* saves all of them.  Reading and saving are steps of their own, and any  *)
(* other step may come in between.  Bookings are here what module          *)
(* BookingEngine makes of them one at a time: each of its transactions is  *)
(* one step.                                                               *)
(*                                                                         *)
(* GORM is external: Save inserts the row again if the update finds none,  *)
(* and a belongs-to row that was preloaded with it if there is none; a     *)
(* false is_active is then replaced by the default of its column.          *)
(***************************************************************************)
CONSTANTS
    Kosts, Rooms, Bookings, Surveys,  \* ids that rows may get
    Handlers,                         \* requests the server works on at a time
    KostOf,                           \* rooms.kost_id
    Duties                            \* bound: the operations in use together

Office == "office"

ASSUME PremisesAssumption ==
    /\ KostOf \in [Rooms -> Kosts]
    /\ Office \notin Surveys

VARIABLES
    kost,     \* the kosts table
    room,     \* rooms.status
    booking,  \* the bookings table and its contracts
    survey,   \* the kost_assignments table
    req,      \* what each handler is doing, with the row it has read
    word,     \* history: what was last decided on a kost, and by whom
    vouched,  \* history: kosts an admin or a technician has ever verified
    lost,     \* history: rows that were saved over somebody else's change
    duty      \* one of Duties

vars == <<kost, room, booking, survey, req, word, vouched, lost, duty>>
history == <<word, vouched, lost, duty>>
tables == <<kost, room, booking, survey>>

---------------------------------------------------------------------------
(* Rows.  "proved" is verified_at, "noted" rejection_note: set or null.    *)

KostRow == [status : {"pending", "verified", "rejected"},
            active : BOOLEAN, proved : BOOLEAN, noted : BOOLEAN]
Absent == [status |-> "absent"]
Gone == [status |-> "gone"]
Present(row) == row.status \notin {"absent", "gone"}

RoomStatus == {"available", "reserved", "occupied", "maintenance"}
RoomThere(r) == room[r] \in RoomStatus

\* "let" is an approved booking with its active contract, "over" one that was
\* cancelled, rejected, expired, or whose contract has ended.
Live == {"pending", "processing"}
BookingRow == [status : Live \cup {"let", "over"}, room : Rooms]
Held(b) == booking[b].status \in Live \cup {"let"}
HeldOn(r) == {b \in Bookings : Held(b) /\ booking[b].room = r}

\* "open" is assigned or surveying: decided_at is null.
Verdicts == {"approved", "rejected"}
SurveyRow == [status : {"open"} \cup Verdicts, kost : Kosts]

KostOps == {"edit", "verify", "reject", "show", "hide"}
KostJob == [op : KostOps \cup {"drop"}, of : Kosts, seen : KostRow]
RoomJob == [op : {"update"}, of : Rooms, seen : RoomStatus, to : RoomStatus]
DeleteJob == [op : {"delete"}, of : Rooms, seen : RoomStatus, counted : BOOLEAN]
DecideJob ==
    [op : {"decide"}, of : Surveys, seen : SurveyRow, says : Verdicts, with : KostRow]
Idle == [op |-> "none"]

Word == [status : {"absent", "pending", "verified", "rejected", "gone"},
         active : BOOLEAN, by : Surveys \cup {Office}]

TypeOK ==
    /\ kost \in [Kosts -> KostRow \cup {Absent, Gone}]
    /\ room \in [Rooms -> RoomStatus \cup {"absent", "gone"}]
    /\ booking \in [Bookings -> BookingRow \cup {Absent, Gone}]
    /\ survey \in [Surveys -> SurveyRow \cup {Absent, Gone}]
    /\ req \in [Handlers -> KostJob \cup RoomJob \cup DeleteJob \cup DecideJob \cup {Idle}]
    /\ word \in [Kosts -> Word]
    /\ vouched \subseteq Kosts
    /\ lost \subseteq Kosts \cup Rooms \cup Surveys
    /\ duty \in Duties

Init ==
    /\ kost = [k \in Kosts |-> Absent]
    /\ room = [r \in Rooms |-> "absent"]
    /\ booking = [b \in Bookings |-> Absent]
    /\ survey = [a \in Surveys |-> Absent]
    /\ req = [h \in Handlers |-> Idle]
    /\ word = [k \in Kosts |-> [status |-> "absent", active |-> TRUE, by |-> Office]]
    /\ vouched = {}
    /\ lost = {}
    /\ duty \in Duties

---------------------------------------------------------------------------
(* Requests *)

Start(h, job) ==
    /\ job.op \in duty
    /\ req[h] = Idle
    /\ req' = [req EXCEPT ![h] = job]
    /\ UNCHANGED <<tables, history>>

Done(h) == req' = [req EXCEPT ![h] = Idle]

\* A guard or a constraint refuses it, or it fails, or the server stops.
Abort(h) ==
    /\ req[h] # Idle
    /\ Done(h)
    /\ UNCHANGED <<tables, history>>

\* Row id is saved as something read before: has it changed meanwhile?
LostWith(id, now, seen) == IF now = seen THEN lost ELSE lost \cup {id}

---------------------------------------------------------------------------
(* Kosts *)

NewRow(status) ==
    [status |-> status, active |-> TRUE, proved |-> status = "verified", noted |-> FALSE]

Insert(k, status) ==
    /\ kost[k] = Absent
    /\ kost' = [kost EXCEPT ![k] = NewRow(status)]
    /\ word' = [word EXCEPT ![k] = [status |-> status, active |-> TRUE, by |-> Office]]
    /\ vouched' = IF status = "verified" THEN vouched \cup {k} ELSE vouched
    /\ UNCHANGED <<room, booking, survey, req, lost, duty>>

CreateKost(k) == Insert(k, "pending")
AdminCreateKost(k) == Insert(k, "verified")

\* VerifyKost is done at once with a kost that is verified.
ReadKost(h, op, k) ==
    /\ Present(kost[k])
    /\ op = "verify" => kost[k].status # "verified"
    /\ Start(h, [op |-> op, of |-> k, seen |-> kost[k]])

\* Slip: the active toggle publishes the kost.
ChangedPublishing(op, row) ==
    CASE op = "verify" -> [row EXCEPT !.status = "verified", !.proved = TRUE, !.noted = FALSE]
      [] op = "reject" -> [row EXCEPT !.status = "rejected", !.noted = TRUE, !.proved = FALSE]
      [] op = "show"   -> [row EXCEPT !.active = TRUE, !.status = "verified", !.proved = TRUE,
                                      !.noted = FALSE]
      [] op = "hide"   -> [row EXCEPT !.active = FALSE]
      [] OTHER         -> row

\* Slip: a rejected kost that is edited is handed in again, by its owner or
\* by an admin.
ChangedResubmitting(op, row) ==
    CASE op = "verify" -> [row EXCEPT !.status = "verified", !.proved = TRUE, !.noted = FALSE]
      [] op = "reject" -> [row EXCEPT !.status = "rejected", !.noted = TRUE, !.proved = FALSE]
      [] op = "show"   -> [row EXCEPT !.active = TRUE]
      [] op = "hide"   -> [row EXCEPT !.active = FALSE]
      [] OTHER         -> [row EXCEPT !.status = "pending"]

\* What VerifyKost, RejectKost, ToggleKostActive, and UpdateKost and
\* AdminUpdateKost ("edit") make of the row they have read.
Changed(op, row) ==
    CASE op = "verify" -> [row EXCEPT !.status = "verified", !.proved = TRUE, !.noted = FALSE]
      [] op = "reject" -> [row EXCEPT !.status = "rejected", !.noted = TRUE, !.proved = FALSE]
      [] op = "show"   -> [row EXCEPT !.active = TRUE]
      [] op = "hide"   -> [row EXCEPT !.active = FALSE]
      [] OTHER         -> row

Said(op, w) ==
    CASE op = "verify" -> [w EXCEPT !.status = "verified", !.by = Office]
      [] op = "reject" -> [w EXCEPT !.status = "rejected", !.by = Office]
      [] op = "show"   -> [w EXCEPT !.active = TRUE]
      [] op = "hide"   -> [w EXCEPT !.active = FALSE]
      [] OTHER         -> w

Stored(k, row) == IF Present(kost[k]) THEN row ELSE [row EXCEPT !.active = TRUE]

SaveKost(h) ==
    /\ req[h].op \in KostOps
    /\ LET op == req[h].op
           k == req[h].of
           seen == req[h].seen
       IN /\ kost' = [kost EXCEPT ![k] = Stored(k, Changed(op, seen))]
          /\ lost' = LostWith(k, kost[k], seen)
          /\ word' = [word EXCEPT ![k] = Said(op, @)]
          /\ vouched' = IF op = "verify" THEN vouched \cup {k} ELSE vouched
    /\ Done(h)
    /\ UNCHANGED <<room, booking, survey, duty>>

\* The kost goes with its rooms, their bookings and contracts, and its surveys.
DropKost(h) ==
    /\ req[h].op = "drop"
    /\ LET k == req[h].of
       IN /\ kost' = [kost EXCEPT ![k] = Gone]
          /\ room' = [r \in Rooms |-> IF RoomThere(r) /\ KostOf[r] = k THEN "gone" ELSE room[r]]
          /\ booking' = [b \in Bookings |->
                 IF Present(booking[b]) /\ KostOf[booking[b].room] = k THEN Gone ELSE booking[b]]
          /\ survey' = [a \in Surveys |->
                 IF Present(survey[a]) /\ survey[a].kost = k THEN Gone ELSE survey[a]]
          /\ word' = [word EXCEPT ![k].status = "gone"]
    /\ Done(h)
    /\ UNCHANGED <<vouched, lost, duty>>

---------------------------------------------------------------------------
(* Surveys *)

AssignTech(a, k) ==
    /\ "assign" \in duty
    /\ survey[a] = Absent
    /\ Present(kost[k])
    /\ survey' = [survey EXCEPT ![a] = [status |-> "open", kost |-> k]]
    /\ UNCHANGED <<kost, room, booking, req, history>>

\* Decide reads the assignment, and the kost along with it.
ReadSurvey(h, a, says) ==
    /\ survey[a].status = "open"
    /\ Present(kost[survey[a].kost])
    /\ Start(h, [op |-> "decide", of |-> a, seen |-> survey[a], says |-> says,
                 with |-> kost[survey[a].kost]])

\* Slip: a decision applies to kosts that are still pending only.
JudgedPending(says, row) ==
    IF row.status # "pending" THEN row
    ELSE IF says = "approved"
    THEN [row EXCEPT !.status = "verified", !.proved = TRUE, !.noted = FALSE]
    ELSE [row EXCEPT !.status = "rejected", !.noted = TRUE]

Judged(says, row) ==
    IF says = "approved"
    THEN [row EXCEPT !.status = "verified", !.proved = TRUE, !.noted = FALSE]
    ELSE [row EXCEPT !.status = "rejected", !.noted = TRUE]

\* The transaction of Decide.  The kost that was read comes back with its
\* assignment, should both have been deleted.
Decide(h) ==
    /\ req[h].op = "decide"
    /\ LET a == req[h].of
           seen == req[h].seen
           k == seen.kost
           says == req[h].says
           row == IF Present(kost[k]) THEN kost[k] ELSE [req[h].with EXCEPT !.active = TRUE]
       IN /\ survey' = [survey EXCEPT ![a] = [status |-> says, kost |-> k]]
          /\ kost' = [kost EXCEPT ![k] = Judged(says, row)]
          /\ lost' = LostWith(a, survey[a], seen) \cup (IF Present(kost[k]) THEN {} ELSE {k})
          /\ word' = [word EXCEPT ![k].by = a,
                                  ![k].status = IF says = "approved" THEN "verified" ELSE "rejected"]
          /\ vouched' = IF says = "approved" THEN vouched \cup {k} ELSE vouched
    /\ Done(h)
    /\ UNCHANGED <<room, booking, duty>>

---------------------------------------------------------------------------
(* Rooms *)

\* Slip: only maintenance is looked at, not what the booking flow manages.
MayBecomeManaged(old, new) ==
    /\ new = "maintenance" => old = "available"
    /\ old = "maintenance" => new = "available"

MayBecome(old, new) ==
    /\ new = "maintenance" => old = "available"
    /\ old = "maintenance" => new = "available"
    /\ old \notin {"available", "maintenance"} => new \notin {"available", "maintenance"}

\* An owner may create a room at any status.
CreateRoom(r) ==
    /\ "addRoom" \in duty
    /\ room[r] = "absent"
    /\ Present(kost[KostOf[r]])
    /\ \E status \in RoomStatus : room' = [room EXCEPT ![r] = status]
    /\ UNCHANGED <<kost, booking, survey, req, history>>

\* UpdateRoom, with a status in its body or without.
ReadRoom(h, r) ==
    /\ RoomThere(r)
    /\ \E to \in RoomStatus :
        /\ to = room[r] \/ MayBecome(room[r], to)
        /\ Start(h, [op |-> "update", of |-> r, seen |-> room[r], to |-> to])

\* A room that is gone is inserted again, if its kost is there.
SaveRoom(h) ==
    /\ req[h].op = "update"
    /\ LET r == req[h].of
       IN /\ RoomThere(r) \/ Present(kost[KostOf[r]])
          /\ room' = [room EXCEPT ![r] = req[h].to]
          /\ lost' = LostWith(r, room[r], req[h].seen)
    /\ Done(h)
    /\ UNCHANGED <<kost, booking, survey, word, vouched, duty>>

\* Slip: DeleteRoom trusts the count of contracts alone.
ReadDeletedAny(h, r) ==
    /\ RoomThere(r)
    /\ Start(h, [op |-> "delete", of |-> r, seen |-> room[r], counted |-> FALSE])

ReadDeleted(h, r) ==
    /\ room[r] = "available"
    /\ Start(h, [op |-> "delete", of |-> r, seen |-> room[r], counted |-> FALSE])

CountContracts(h) ==
    /\ req[h].op = "delete"
    /\ ~req[h].counted
    /\ \A b \in HeldOn(req[h].of) : booking[b].status # "let"
    /\ req' = [req EXCEPT ![h].counted = TRUE]
    /\ UNCHANGED <<tables, history>>

DeleteRoom(h) ==
    /\ req[h].op = "delete"
    /\ req[h].counted
    /\ LET r == req[h].of
       IN /\ room' = [room EXCEPT ![r] = "gone"]
          /\ booking' = [b \in Bookings |->
                 IF Present(booking[b]) /\ booking[b].room = r THEN Gone ELSE booking[b]]
          /\ lost' = LostWith(r, room[r], req[h].seen)
    /\ Done(h)
    /\ UNCHANGED <<kost, survey, word, vouched, duty>>

---------------------------------------------------------------------------
(* Bookings: the transactions of module BookingEngine, whole.              *)

Book(r, b) ==
    /\ booking[b] = Absent
    /\ room[r] = "available"
    /\ kost[KostOf[r]].status = "verified"
    /\ \A c \in HeldOn(r) : booking[c].status # "pending"
    /\ booking' = [booking EXCEPT ![b] = [status |-> "pending", room |-> r]]
    /\ room' = [room EXCEPT ![r] = "reserved"]
    /\ UNCHANGED <<kost, survey, req, history>>

MarkProcessing(b) ==
    /\ booking[b].status = "pending"
    /\ booking' = [booking EXCEPT ![b].status = "processing"]
    /\ UNCHANGED <<kost, room, survey, req, history>>

\* Cancelled, rejected or expired.
Lapse(b) ==
    /\ booking[b].status \in Live
    /\ booking' = [booking EXCEPT ![b].status = "over"]
    /\ room' = [room EXCEPT ![booking[b].room] = IF @ = "reserved" THEN "available" ELSE @]
    /\ UNCHANGED <<kost, survey, req, history>>

Approve(b) ==
    /\ booking[b].status \in Live
    /\ booking' = [booking EXCEPT ![b].status = "let"]
    /\ room' = [room EXCEPT ![booking[b].room] = "occupied"]
    /\ UNCHANGED <<kost, survey, req, history>>

EndContract(b) ==
    /\ booking[b].status = "let"
    /\ booking' = [booking EXCEPT ![b].status = "over"]
    /\ room' = [room EXCEPT ![booking[b].room] = "available"]
    /\ UNCHANGED <<kost, survey, req, history>>

---------------------------------------------------------------------------
KostStep(h) ==
    \/ \E k \in Kosts, op \in KostOps \cup {"drop"} : ReadKost(h, op, k)
    \/ SaveKost(h)
    \/ DropKost(h)

SurveyStep(h) ==
    \/ \E a \in Surveys, says \in Verdicts : ReadSurvey(h, a, says)
    \/ Decide(h)

RoomStep(h) ==
    \/ \E r \in Rooms : ReadRoom(h, r) \/ ReadDeleted(h, r)
    \/ SaveRoom(h)
    \/ CountContracts(h)
    \/ DeleteRoom(h)

BookingStep(b) ==
    \/ \E r \in Rooms : Book(r, b)
    \/ MarkProcessing(b)
    \/ Lapse(b)
    \/ Approve(b)
    \/ EndContract(b)

Next ==
    \/ \E k \in Kosts : CreateKost(k) \/ AdminCreateKost(k)
    \/ \E a \in Surveys, k \in Kosts : AssignTech(a, k)
    \/ \E r \in Rooms : CreateRoom(r)
    \/ \E h \in Handlers : KostStep(h) \/ SurveyStep(h) \/ RoomStep(h) \/ Abort(h)
    \/ \E b \in Bookings : BookingStep(b)

Spec == Init /\ [][Next]_vars

---------------------------------------------------------------------------
(* Properties *)

\* A kost that is shown as verified has a date of it and no note of a
\* rejection, and a rejected one has the note its owner is shown: six
\* operations write these columns, one of them without reading the row, and
\* none mixes its own with what it read of another.
StatusExplained ==
    \A k \in Kosts :
        /\ kost[k].status = "verified" => kost[k].proved /\ ~kost[k].noted
        /\ kost[k].status = "rejected" => kost[k].noted

\* No kost is ever verified that no admin and no technician has verified,
\* whatever its owner saves, however late, and though it was deleted meanwhile.
OnlyVouched == \A k \in Kosts : kost[k].status = "verified" => k \in vouched

\* What was decided last on a kost is what its row says, of its status and of
\* is_active, as long as nobody has saved it over a change he had not read.
LastWordStands ==
    \A k \in Kosts \ lost :
        /\ kost[k].status = word[k].status
        /\ Present(kost[k]) => kost[k].active = word[k].active

\* Where a survey had the last word on a kost the two do not contradict each
\* other, even if that survey was decided twice at once.
SurveyAgrees ==
    \A k \in Kosts \ lost : \A a \in Surveys :
        word[k].by = a /\ Present(kost[k]) =>
            (kost[k].status = "verified" <=> survey[a].status = "approved")

\* A room that is free to be booked, or closed for repairs, has no booking in
\* progress and no tenant, whatever its owner does to it, as long as no save
\* has gone over a booking.
HeldNotFree ==
    \A r \in Rooms \ lost : room[r] \in {"available", "maintenance"} => HeldOn(r) = {}

\* An owner cannot delete a room under a booking in progress or a tenant,
\* unless it was booked since his request looked at it.
HeldNotDeleted ==
    [][\A b \in Bookings :
        Held(b) /\ booking'[b] = Gone
            => kost'[KostOf[booking[b].room]] = Gone \/ booking[b].room \in lost']_vars

\* What the pages show of a row, in the words of Pages: a kost with is_active
\* off is inactive, an open survey assigned or surveying.
Desk == INSTANCE Pages

ShownKost(row) == IF row \in KostRow /\ ~row.active THEN "inactive" ELSE row.status
ShownSurvey(row) == IF row.status = "open" THEN {"assigned", "surveying"} ELSE {row.status}

KostForeseen(k) ==
    \/ Desk!Foreseen(Desk!KostMoves, "kosts", ShownKost(kost[k]), ShownKost(kost'[k]))
    \/ Desk!Foreseen(Desk!SurveyMoves, "kosts", ShownKost(kost[k]), ShownKost(kost'[k]))

SurveyForeseen(a) ==
    \E s \in ShownSurvey(survey[a]), n \in ShownSurvey(survey'[a]) :
        Desk!Foreseen(Desk!SurveyMoves, "assignments", s, n)

\* What Pages says the calls of the kost and survey pages do is what they do:
\* no save, however late, takes a kost or a survey from one status to another
\* that no move of Pages does, unless it goes over a change nobody had read; a
\* survey that goes with its kost aside.
KostMovesForeseen ==
    [][/\ \A k \in Kosts \ lost' : KostForeseen(k)
       /\ \A a \in Surveys \ lost' : survey'[a] # Gone => SurveyForeseen(a)]_vars

=============================================================================
