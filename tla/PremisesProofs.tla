--------------------------- MODULE PremisesProofs ----------------------------
(***************************************************************************)
(* Proofs about the rows of kosts, rooms and surveys, for any number of    *)
(* them and of requests that overlap in any way.                           *)
(***************************************************************************)
EXTENDS Premises, TLAPS

(* Each lemma is about one group of invariants, and has a step for every   *)
(* action that such a group depends on.                                    *)

AnyJob == KostJob \cup RoomJob \cup DeleteJob \cup DecideJob \cup {Idle}

\* Which request a handler is at is what its operation says.
LEMMA JobOfOp ==
    ASSUME NEW job \in AnyJob
    PROVE  /\ job.op \in KostOps \cup {"drop"} => job \in KostJob
           /\ job.op = "update" => job \in RoomJob
           /\ job.op = "delete" => job \in DeleteJob
           /\ job.op = "decide" => job \in DecideJob
  BY DEF AnyJob, KostJob, RoomJob, DeleteJob, DecideJob, Idle, KostOps

LEMMA RowsPresent ==
    /\ \A row \in KostRow : Present(row)
    /\ ~Present(Absent) /\ ~Present(Gone)
  BY DEF KostRow, Present, Absent, Gone

LEMMA PresentRow == ASSUME TypeOK, NEW k \in Kosts, Present(kost[k]) PROVE kost[k] \in KostRow
  BY RowsPresent DEF TypeOK

LEMMA ChangedRow ==
    ASSUME NEW op \in KostOps, NEW row \in KostRow
    PROVE  /\ Changed(op, row) \in KostRow
           /\ \/ op \in {"verify", "reject"}
              \/ Changed(op, row).status = row.status
<1>1. CASE op = "verify"
  BY <1>1 DEF Changed, KostRow
<1>2. CASE op = "reject"
  BY <1>2 DEF Changed, KostRow
<1>3. CASE op = "show"
  BY <1>3 DEF Changed, KostRow
<1>4. CASE op = "hide"
  BY <1>4 DEF Changed, KostRow
<1>5. CASE op = "edit"
  BY <1>5 DEF Changed, KostRow
<1> QED
  BY <1>1, <1>2, <1>3, <1>4, <1>5 DEF KostOps

LEMMA StoredRow ==
    ASSUME NEW k \in Kosts, NEW row \in KostRow
    PROVE  /\ Stored(k, row) \in KostRow
           /\ Stored(k, row).status = row.status
           /\ Stored(k, row).proved = row.proved
           /\ Stored(k, row).noted = row.noted
           /\ Present(kost[k]) => Stored(k, row) = row
  BY DEF Stored, KostRow

LEMMA JudgedRow ==
    ASSUME NEW says \in Verdicts, NEW row \in KostRow
    PROVE  /\ Judged(says, row) \in KostRow
           /\ says = "approved" => /\ Judged(says, row).status = "verified"
                                   /\ Judged(says, row).proved /\ ~Judged(says, row).noted
           /\ says # "approved" => Judged(says, row).status = "rejected" /\ Judged(says, row).noted
           /\ Judged(says, row).active = row.active
  BY DEF Judged, KostRow, Verdicts

LEMMA SaidWord ==
    ASSUME NEW op \in KostOps, NEW w \in Word
    PROVE  /\ Said(op, w) \in Word
           /\ \/ Said(op, w).by = Office
              \/ op \notin {"verify", "reject"} /\ Said(op, w).by = w.by
<1>1. CASE op = "verify"
  BY <1>1 DEF Said, Word
<1>2. CASE op = "reject"
  BY <1>2 DEF Said, Word
<1>3. CASE op = "show"
  BY <1>3 DEF Said, Word
<1>4. CASE op = "hide"
  BY <1>4 DEF Said, Word
<1>5. CASE op = "edit"
  BY <1>5 DEF Said, Word
<1> QED
  BY <1>1, <1>2, <1>3, <1>4, <1>5 DEF KostOps

\* What a handler at "decide" puts in place of its kost, before it is judged.
LEMMA JudgedOf ==
    ASSUME TypeOK, NEW k \in Kosts, NEW with \in KostRow
    PROVE  (IF Present(kost[k]) THEN kost[k] ELSE [with EXCEPT !.active = TRUE]) \in KostRow
<1>1. [with EXCEPT !.active = TRUE] \in KostRow
  BY DEF KostRow
<1> QED
  BY <1>1, PresentRow

---------------------------------------------------------------------------
(* Types *)

\* A request that has been read leaves the tables alone, and is of its kind.
LEMMA StartTypes ==
    ASSUME TypeOK, NEW h \in Handlers, NEW job \in AnyJob, Start(h, job)
    PROVE  TypeOK'
  BY DEF TypeOK, Start, AnyJob, tables, history

LEMMA DoneTypes ==
    ASSUME TypeOK, NEW h \in Handlers, Done(h)
    PROVE  req' \in [Handlers -> AnyJob]
  BY DEF TypeOK, Done, AnyJob

LEMMA InsertTypes ==
    ASSUME TypeOK, NEW k \in Kosts, NEW status \in {"pending", "verified"}, Insert(k, status)
    PROVE  TypeOK'
<1>1. NewRow(status) \in KostRow
  BY DEF NewRow, KostRow
<1>2. [status |-> status, active |-> TRUE, by |-> Office] \in Word
  BY DEF Word
<1> QED
  BY <1>1, <1>2 DEF TypeOK, Insert

LEMMA LostTypes ==
    ASSUME TypeOK, NEW id \in Kosts \cup Rooms \cup Surveys, NEW now, NEW seen
    PROVE  LostWith(id, now, seen) \subseteq Kosts \cup Rooms \cup Surveys
  BY DEF TypeOK, LostWith

LEMMA KostTypes ==
    ASSUME TypeOK, NEW h \in Handlers, KostStep(h)
    PROVE  TypeOK'
<1>1. ASSUME NEW k \in Kosts, NEW op \in KostOps \cup {"drop"}, ReadKost(h, op, k) PROVE TypeOK'
  <2>1. kost[k] \in KostRow
    BY <1>1, PresentRow DEF ReadKost
  <2>2. [op |-> op, of |-> k, seen |-> kost[k]] \in AnyJob
    BY <2>1 DEF AnyJob, KostJob
  <2> QED
    BY <1>1, <2>2, StartTypes DEF ReadKost
<1>2. CASE SaveKost(h)
  <2>1. req[h] \in KostJob
    BY <1>2, JobOfOp DEF SaveKost, TypeOK, AnyJob
  <2> DEFINE op == req[h].op
             k == req[h].of
             seen == req[h].seen
  <2>2. op \in KostOps /\ k \in Kosts /\ seen \in KostRow
    BY <1>2, <2>1 DEF SaveKost, KostJob
  <2>3. Stored(k, Changed(op, seen)) \in KostRow
    BY <2>2, ChangedRow, StoredRow
  <2>4. kost' \in [Kosts -> KostRow \cup {Absent, Gone}]
    BY <1>2, <2>2, <2>3 DEF SaveKost, TypeOK
  <2>5. word' \in [Kosts -> Word]
    <3>1. Said(op, word[k]) \in Word
      BY <2>2, SaidWord DEF TypeOK
    <3> QED
      BY <1>2, <2>2, <3>1 DEF SaveKost, TypeOK
  <2>6. lost' \subseteq Kosts \cup Rooms \cup Surveys /\ vouched' \subseteq Kosts
    <3>1. lost' = LostWith(k, kost[k], seen)
      BY <1>2 DEF SaveKost
    <3>2. vouched' = IF op = "verify" THEN vouched \cup {k} ELSE vouched
      BY <1>2 DEF SaveKost
    <3> QED
      BY <2>2, <3>1, <3>2, LostTypes DEF TypeOK
  <2> QED
    BY <1>2, <2>4, <2>5, <2>6, DoneTypes DEF SaveKost, TypeOK, AnyJob
<1>3. CASE DropKost(h)
  <2>1. req[h] \in KostJob
    BY <1>3, JobOfOp DEF DropKost, TypeOK, AnyJob
  <2> DEFINE k == req[h].of
  <2>2. k \in Kosts
    BY <2>1 DEF KostJob
  <2>3. kost' \in [Kosts -> KostRow \cup {Absent, Gone}]
    BY <1>3, <2>2 DEF DropKost, TypeOK
  <2>4. room' \in [Rooms -> RoomStatus \cup {"absent", "gone"}]
    BY <1>3 DEF DropKost, TypeOK
  <2>5. booking' \in [Bookings -> BookingRow \cup {Absent, Gone}]
    BY <1>3 DEF DropKost, TypeOK
  <2>6. survey' \in [Surveys -> SurveyRow \cup {Absent, Gone}]
    BY <1>3 DEF DropKost, TypeOK
  <2>7. word' \in [Kosts -> Word]
    BY <1>3, <2>2 DEF DropKost, TypeOK, Word
  <2> QED
    BY <1>3, <2>3, <2>4, <2>5, <2>6, <2>7, DoneTypes, SMTT(20) DEF DropKost, TypeOK, AnyJob
<1> QED
  BY <1>1, <1>2, <1>3 DEF KostStep

LEMMA SurveyTypes ==
    ASSUME TypeOK, NEW h \in Handlers, SurveyStep(h)
    PROVE  TypeOK'
<1>1. ASSUME NEW a \in Surveys, NEW says \in Verdicts, ReadSurvey(h, a, says) PROVE TypeOK'
  <2>1. survey[a] \in SurveyRow
    BY <1>1 DEF ReadSurvey, TypeOK, Absent, Gone
  <2>2. kost[survey[a].kost] \in KostRow
    BY <1>1, <2>1, PresentRow DEF ReadSurvey, SurveyRow
  <2> DEFINE job == [op |-> "decide", of |-> a, seen |-> survey[a], says |-> says,
                     with |-> kost[survey[a].kost]]
  <2>3. job \in AnyJob
    BY <2>1, <2>2 DEF AnyJob, DecideJob
  <2> QED
    BY <1>1, <2>3, StartTypes DEF ReadSurvey
<1>2. CASE Decide(h)
  <2>1. req[h] \in DecideJob
    BY <1>2, JobOfOp DEF Decide, TypeOK, AnyJob
  <2> DEFINE a == req[h].of
             k == req[h].seen.kost
             says == req[h].says
             row == IF Present(kost[k]) THEN kost[k] ELSE [req[h].with EXCEPT !.active = TRUE]
  <2>2. a \in Surveys /\ k \in Kosts /\ says \in Verdicts /\ req[h].with \in KostRow
    BY <2>1 DEF DecideJob, SurveyRow
  <2>3. Judged(says, row) \in KostRow
    BY <2>2, JudgedOf, JudgedRow
  <2>4. kost' \in [Kosts -> KostRow \cup {Absent, Gone}]
    BY <1>2, <2>2, <2>3 DEF Decide, TypeOK
  <2>5. survey' \in [Surveys -> SurveyRow \cup {Absent, Gone}]
    BY <1>2, <2>2, SMTT(20) DEF Decide, TypeOK, SurveyRow
  <2>6. word' \in [Kosts -> Word]
    BY <1>2, <2>2 DEF Decide, TypeOK, Word
  <2>7. lost' \subseteq Kosts \cup Rooms \cup Surveys /\ vouched' \subseteq Kosts
    <3>1. lost' = LostWith(a, survey[a], req[h].seen) \cup (IF Present(kost[k]) THEN {} ELSE {k})
      BY <1>2 DEF Decide
    <3>2. vouched' = IF says = "approved" THEN vouched \cup {k} ELSE vouched
      BY <1>2 DEF Decide
    <3> QED
      BY <2>2, <3>1, <3>2, LostTypes DEF TypeOK
  <2> QED
    BY <1>2, <2>4, <2>5, <2>6, <2>7, DoneTypes DEF Decide, TypeOK, AnyJob
<1> QED
  BY <1>1, <1>2 DEF SurveyStep

LEMMA RoomTypes ==
    ASSUME TypeOK, NEW h \in Handlers, RoomStep(h)
    PROVE  TypeOK'
<1>1. ASSUME NEW r \in Rooms, ReadRoom(h, r) PROVE TypeOK'
  <2>1. PICK to \in RoomStatus : Start(h, [op |-> "update", of |-> r, seen |-> room[r], to |-> to])
    BY <1>1 DEF ReadRoom
  <2>2. [op |-> "update", of |-> r, seen |-> room[r], to |-> to] \in AnyJob
    BY <1>1 DEF ReadRoom, RoomThere, AnyJob, RoomJob
  <2> QED
    BY <2>1, <2>2, StartTypes
<1>2. ASSUME NEW r \in Rooms, ReadDeleted(h, r) PROVE TypeOK'
  <2>1. [op |-> "delete", of |-> r, seen |-> room[r], counted |-> FALSE] \in AnyJob
    BY <1>2 DEF ReadDeleted, RoomStatus, AnyJob, DeleteJob
  <2> QED
    BY <1>2, <2>1, StartTypes DEF ReadDeleted
<1>3. CASE SaveRoom(h)
  <2>1. req[h] \in RoomJob
    BY <1>3, JobOfOp DEF SaveRoom, TypeOK, AnyJob
  <2>2. req[h].of \in Rooms /\ req[h].to \in RoomStatus
    BY <2>1 DEF RoomJob
  <2>3. lost' \subseteq Kosts \cup Rooms \cup Surveys
    BY <1>3, <2>2, LostTypes DEF SaveRoom
  <2> QED
    BY <1>3, <2>2, <2>3, DoneTypes DEF SaveRoom, TypeOK, AnyJob
<1>4. CASE CountContracts(h)
  <2>1. req[h] \in DeleteJob
    BY <1>4, JobOfOp DEF CountContracts, TypeOK, AnyJob
  <2>2. [req[h] EXCEPT !.counted = TRUE] \in DeleteJob
    BY <2>1 DEF DeleteJob
  <2> QED
    BY <1>4, <2>2 DEF CountContracts, TypeOK, tables, history
<1>5. CASE DeleteRoom(h)
  <2>1. req[h] \in DeleteJob
    BY <1>5, JobOfOp DEF DeleteRoom, TypeOK, AnyJob
  <2>2. req[h].of \in Rooms
    BY <2>1 DEF DeleteJob
  <2>3. lost' \subseteq Kosts \cup Rooms \cup Surveys
    BY <1>5, <2>2, LostTypes DEF DeleteRoom
  <2>4. booking' \in [Bookings -> BookingRow \cup {Absent, Gone}]
    BY <1>5 DEF DeleteRoom, TypeOK
  <2> QED
    BY <1>5, <2>2, <2>3, <2>4, DoneTypes DEF DeleteRoom, TypeOK, AnyJob
<1> QED
  BY <1>1, <1>2, <1>3, <1>4, <1>5 DEF RoomStep

LEMMA BookingTypes ==
    ASSUME TypeOK, NEW b \in Bookings, BookingStep(b)
    PROVE  TypeOK'
<1>0. booking[b].status \in Live \cup {"let"} => booking[b] \in BookingRow
  BY DEF TypeOK, Live, Absent, Gone
<1>1. ASSUME NEW r \in Rooms, Book(r, b) PROVE TypeOK'
  BY <1>1 DEF Book, TypeOK, BookingRow, Live, RoomStatus, history
<1>2. CASE MarkProcessing(b)
  BY <1>0, <1>2 DEF MarkProcessing, TypeOK, BookingRow, Live, history
<1>3. CASE Lapse(b)
  BY <1>0, <1>3 DEF Lapse, TypeOK, BookingRow, RoomStatus, history
<1>4. CASE Approve(b)
  BY <1>0, <1>4 DEF Approve, TypeOK, BookingRow, RoomStatus, history
<1>5. CASE EndContract(b)
  BY <1>0, <1>5 DEF EndContract, TypeOK, BookingRow, RoomStatus, history
<1> QED
  BY <1>1, <1>2, <1>3, <1>4, <1>5 DEF BookingStep

LEMMA TypesKept == ASSUME TypeOK, [Next]_vars PROVE TypeOK'
<1>1. ASSUME NEW k \in Kosts, CreateKost(k) \/ AdminCreateKost(k) PROVE TypeOK'
  BY <1>1, InsertTypes DEF CreateKost, AdminCreateKost
<1>2. ASSUME NEW a \in Surveys, NEW k \in Kosts, AssignTech(a, k) PROVE TypeOK'
  BY <1>2 DEF AssignTech, TypeOK, SurveyRow, history
<1>3. ASSUME NEW r \in Rooms, CreateRoom(r) PROVE TypeOK'
  BY <1>3 DEF CreateRoom, TypeOK, history
<1>4. ASSUME NEW h \in Handlers, Abort(h) PROVE TypeOK'
  BY <1>4, DoneTypes DEF Abort, TypeOK, AnyJob, tables, history
<1>5. CASE UNCHANGED vars
  BY <1>5 DEF TypeOK, vars
<1> QED
  BY <1>1, <1>2, <1>3, <1>4, <1>5, KostTypes, SurveyTypes, RoomTypes, BookingTypes DEF Next

LEMMA InitTypes == ASSUME Init PROVE TypeOK
  BY DEF Init, TypeOK, Word, Idle

\* The rows stay of their types: with what a handler has read, and with what
\* GORM inserts again of it.
THEOREM PremisesTypes == Spec => []TypeOK
<1> QED
  BY InitTypes, TypesKept, PTL DEF Spec

---------------------------------------------------------------------------
(* What a request does to the others: nothing. *)

LEMMA DoneReq ==
    ASSUME TypeOK, NEW h \in Handlers, Done(h), NEW g \in Handlers
    PROVE  req'[g] = req[g] \/ (req'[g] = Idle /\ req'[g].op = "none")
  BY DEF TypeOK, Done, Idle

LEMMA StartReq ==
    ASSUME TypeOK, NEW h \in Handlers, NEW job, Start(h, job), NEW g \in Handlers
    PROVE  req'[g] = req[g] \/ req'[g] = job
  BY DEF TypeOK, Start

LEMMA CountReq ==
    ASSUME TypeOK, NEW h \in Handlers, CountContracts(h), NEW g \in Handlers
    PROVE  /\ req'[g].op = req[g].op /\ req'[g].of = req[g].of /\ req'[g].seen = req[g].seen
           /\ req[g].op # "delete" => req'[g] = req[g]
<1>1. req[h] \in DeleteJob
  BY JobOfOp DEF CountContracts, TypeOK, AnyJob
<1>2. req' = [req EXCEPT ![h] = [req[h] EXCEPT !.counted = TRUE]] /\ req[h].op = "delete"
  BY DEF CountContracts
<1>3. CASE g = h
  <2>1. req'[g] = [req[h] EXCEPT !.counted = TRUE]
    BY <1>2, <1>3 DEF TypeOK
  <2> QED
    BY <1>1, <1>2, <1>3, <2>1 DEF DeleteJob
<1>4. CASE g # h
  BY <1>2, <1>4 DEF TypeOK
<1> QED
  BY <1>3, <1>4

\* What a save over a change that was not read leaves: a mark on the row.
LEMMA Losing ==
    ASSUME NEW id, NEW now, NEW seen
    PROVE  /\ lost \subseteq LostWith(id, now, seen)
           /\ id \notin LostWith(id, now, seen) => now = seen
  BY DEF LostWith

---------------------------------------------------------------------------
(* The columns of a kost agree, in its row and in what anybody is going to *)
(* save of it.                                                             *)

SoundRow(k, row, set) ==
    /\ row.status = "verified" => row.proved /\ ~row.noted /\ k \in set
    /\ row.status = "rejected" => row.noted

KostsSound ==
    /\ \A k \in Kosts : SoundRow(k, kost[k], vouched)
    /\ \A h \in Handlers : req[h].op \in KostOps => SoundRow(req[h].of, req[h].seen, vouched)

LEMMA SoundChange ==
    ASSUME NEW op \in KostOps, NEW k \in Kosts, NEW row \in KostRow, NEW set,
           SoundRow(k, row, set)
    PROVE  SoundRow(k, Changed(op, row), IF op = "verify" THEN set \cup {k} ELSE set)
<1>1. CASE op = "verify"
  BY <1>1 DEF Changed, KostRow, SoundRow
<1>2. CASE op = "reject"
  BY <1>2 DEF Changed, KostRow, SoundRow
<1>3. CASE op = "show"
  BY <1>3 DEF Changed, KostRow, SoundRow
<1>4. CASE op = "hide"
  BY <1>4 DEF Changed, KostRow, SoundRow
<1>5. CASE op = "edit"
  BY <1>5 DEF Changed, KostRow, SoundRow
<1> QED
  BY <1>1, <1>2, <1>3, <1>4, <1>5 DEF KostOps

LEMMA KostsElsewhere ==
    ASSUME KostsSound, UNCHANGED kost, vouched \subseteq vouched',
           \A g \in Handlers : req'[g] = req[g] \/ req'[g].op \notin KostOps
    PROVE  KostsSound'
  BY DEF KostsSound, SoundRow

LEMMA KostsWritten ==
    ASSUME TypeOK, KostsSound, NEW h \in Handlers, NEW k \in Kosts, NEW row, Done(h),
           kost' = [kost EXCEPT ![k] = row], vouched \subseteq vouched', SoundRow(k, row, vouched')
    PROVE  KostsSound'
<1>1. ASSUME NEW g \in Handlers PROVE req'[g] = req[g] \/ req'[g].op \notin KostOps
  BY DoneReq DEF KostOps
<1>2. ASSUME NEW j \in Kosts PROVE SoundRow(j, kost'[j], vouched')
  BY DEF KostsSound, SoundRow, TypeOK
<1>3. ASSUME NEW g \in Handlers, req'[g].op \in KostOps
      PROVE  SoundRow(req'[g].of, req'[g].seen, vouched')
  BY <1>1, <1>3 DEF KostsSound, SoundRow
<1> QED
  BY <1>2, <1>3 DEF KostsSound

LEMMA KostsKept == ASSUME TypeOK, KostsSound, [Next]_vars PROVE KostsSound'
<1>1. ASSUME NEW k \in Kosts, CreateKost(k) \/ AdminCreateKost(k) PROVE KostsSound'
  <2>1. PICK status \in {"pending", "verified"} : Insert(k, status)
    BY <1>1 DEF CreateKost, AdminCreateKost
  <2>2. /\ kost' = [kost EXCEPT ![k] = NewRow(status)]
        /\ vouched' = IF status = "verified" THEN vouched \cup {k} ELSE vouched
        /\ req' = req
    BY <2>1 DEF Insert
  <2>3. SoundRow(k, NewRow(status), vouched')
    BY <2>2 DEF SoundRow, NewRow
  <2>4. ASSUME NEW j \in Kosts PROVE SoundRow(j, kost'[j], vouched')
    BY <2>2, <2>3 DEF KostsSound, SoundRow, TypeOK
  <2> QED
    BY <2>2, <2>4 DEF KostsSound, SoundRow
<1>2. ASSUME NEW a \in Surveys, NEW k \in Kosts, AssignTech(a, k) PROVE KostsSound'
  BY <1>2, KostsElsewhere DEF AssignTech, history
<1>3. ASSUME NEW r \in Rooms, CreateRoom(r) PROVE KostsSound'
  BY <1>3, KostsElsewhere DEF CreateRoom, history
<1>4. ASSUME NEW h \in Handlers, Abort(h) PROVE KostsSound'
  <2>1. \A g \in Handlers : req'[g] = req[g] \/ req'[g].op \notin KostOps
    BY <1>4, DoneReq DEF Abort, KostOps
  <2> QED
    BY <1>4, <2>1, KostsElsewhere DEF Abort, tables, history
<1>5. ASSUME NEW h \in Handlers, NEW k \in Kosts, NEW op \in KostOps \cup {"drop"},
             ReadKost(h, op, k)
      PROVE  KostsSound'
  <2> DEFINE job == [op |-> op, of |-> k, seen |-> kost[k]]
  <2>1. ASSUME NEW g \in Handlers PROVE req'[g] = req[g] \/ req'[g] = job
    BY <1>5, StartReq DEF ReadKost
  <2>2. UNCHANGED <<kost, vouched>>
    BY <1>5 DEF ReadKost, Start, tables, history
  <2>3. job.of = k /\ job.seen = kost[k]
    OBVIOUS
  <2> QED
    BY <2>1, <2>2, <2>3 DEF KostsSound
<1>6. ASSUME NEW h \in Handlers, SaveKost(h) PROVE KostsSound'
  <2>1. req[h] \in KostJob
    BY <1>6, JobOfOp DEF SaveKost, TypeOK, AnyJob
  <2> DEFINE op == req[h].op
             k == req[h].of
             seen == req[h].seen
  <2>2. op \in KostOps /\ k \in Kosts /\ seen \in KostRow
    BY <1>6, <2>1 DEF SaveKost, KostJob
  <2>3. vouched' = IF op = "verify" THEN vouched \cup {k} ELSE vouched
    BY <1>6 DEF SaveKost
  <2>4. SoundRow(k, seen, vouched)
    BY <2>2 DEF KostsSound
  <2>7. Done(h) /\ kost' = [kost EXCEPT ![k] = Stored(k, Changed(op, seen))]
    BY <1>6 DEF SaveKost
  <2> HIDE DEF op, k, seen
  <2>5. SoundRow(k, Changed(op, seen), vouched')
    BY <2>2, <2>3, <2>4, SoundChange
  <2>6. SoundRow(k, Stored(k, Changed(op, seen)), vouched')
    <3> DEFINE new == Changed(op, seen)
    <3>1. new \in KostRow
      BY <2>2, ChangedRow
    <3> HIDE DEF new
    <3> QED
      BY <2>2, <2>5, <3>1, StoredRow DEF SoundRow, new
  <2> QED
    BY <2>2, <2>3, <2>6, <2>7, KostsWritten
<1>7. ASSUME NEW h \in Handlers, DropKost(h) PROVE KostsSound'
  <2>1. req[h] \in KostJob
    BY <1>7, JobOfOp DEF DropKost, TypeOK, AnyJob
  <2>2. req[h].of \in Kosts
    BY <2>1 DEF KostJob
  <2>3. SoundRow(req[h].of, Gone, vouched')
    BY DEF SoundRow, Gone
  <2> QED
    BY <1>7, <2>2, <2>3, KostsWritten DEF DropKost
<1>8. ASSUME NEW h \in Handlers, NEW a \in Surveys, NEW says \in Verdicts, ReadSurvey(h, a, says)
      PROVE  KostsSound'
  <2> DEFINE job == [op |-> "decide", of |-> a, seen |-> survey[a], says |-> says,
                     with |-> kost[survey[a].kost]]
  <2>1. ASSUME NEW g \in Handlers PROVE req'[g] = req[g] \/ req'[g] = job
    BY <1>8, StartReq DEF ReadSurvey
  <2>2. job.op \notin KostOps
    BY DEF KostOps
  <2> QED
    BY <1>8, <2>1, <2>2, KostsElsewhere DEF ReadSurvey, Start, tables, history
<1>9. ASSUME NEW h \in Handlers, Decide(h) PROVE KostsSound'
  <2>1. req[h] \in DecideJob
    BY <1>9, JobOfOp DEF Decide, TypeOK, AnyJob
  <2> DEFINE k == req[h].seen.kost
             says == req[h].says
             row == IF Present(kost[k]) THEN kost[k] ELSE [req[h].with EXCEPT !.active = TRUE]
  <2>2. k \in Kosts /\ says \in Verdicts /\ req[h].with \in KostRow
    BY <2>1 DEF DecideJob, SurveyRow
  <2>3. row \in KostRow
    BY <2>2, JudgedOf
  <2>4. /\ Done(h)
        /\ kost' = [kost EXCEPT ![k] = Judged(says, row)]
        /\ vouched' = IF says = "approved" THEN vouched \cup {k} ELSE vouched
    BY <1>9 DEF Decide
  <2> HIDE DEF k, says, row
  <2>5. SoundRow(k, Judged(says, row), vouched')
    BY <2>2, <2>3, <2>4, JudgedRow DEF SoundRow
  <2> QED
    BY <2>2, <2>4, <2>5, KostsWritten
<1>10. ASSUME NEW h \in Handlers, RoomStep(h) PROVE KostsSound'
  <2>1. UNCHANGED <<kost, vouched>>
    BY <1>10 DEF RoomStep, ReadRoom, ReadDeleted, Start, SaveRoom, CountContracts, DeleteRoom,
                 tables, history
  <2>2. ASSUME NEW g \in Handlers PROVE req'[g] = req[g] \/ req'[g].op \notin KostOps
    <3>1. CASE SaveRoom(h) \/ DeleteRoom(h)
      BY <3>1, DoneReq DEF SaveRoom, DeleteRoom, KostOps
    <3>2. CASE CountContracts(h)
      BY <3>2, CountReq DEF CountContracts, KostOps
    <3>3. ASSUME NEW r \in Rooms, ReadRoom(h, r)
          PROVE  req'[g] = req[g] \/ req'[g].op \notin KostOps
      <4>1. PICK to \in RoomStatus :
                Start(h, [op |-> "update", of |-> r, seen |-> room[r], to |-> to])
        BY <3>3 DEF ReadRoom
      <4> DEFINE job == [op |-> "update", of |-> r, seen |-> room[r], to |-> to]
      <4>2. req'[g] = req[g] \/ req'[g] = job
        BY <4>1, StartReq
      <4> QED
        BY <4>2 DEF KostOps
    <3>4. ASSUME NEW r \in Rooms, ReadDeleted(h, r)
          PROVE  req'[g] = req[g] \/ req'[g].op \notin KostOps
      <4> DEFINE job == [op |-> "delete", of |-> r, seen |-> room[r], counted |-> FALSE]
      <4>1. req'[g] = req[g] \/ req'[g] = job
        BY <3>4, StartReq DEF ReadDeleted
      <4> QED
        BY <4>1 DEF KostOps
    <3> QED
      BY <1>10, <3>1, <3>2, <3>3, <3>4 DEF RoomStep
  <2> QED
    BY <2>1, <2>2, KostsElsewhere
<1>11. ASSUME NEW b \in Bookings, BookingStep(b) PROVE KostsSound'
  BY <1>11, KostsElsewhere
  DEF BookingStep, Book, MarkProcessing, Lapse, Approve, EndContract, history
<1>12. CASE UNCHANGED vars
  BY <1>12, KostsElsewhere DEF vars
<1> QED
  BY <1>1, <1>2, <1>3, <1>4, <1>5, <1>6, <1>7, <1>8, <1>9, <1>10, <1>11, <1>12
  DEF Next, KostStep, SurveyStep

LEMMA InitKosts == ASSUME Init PROVE KostsSound
  BY DEF Init, KostsSound, SoundRow, Absent, Idle, KostOps

\* A verified kost has its date and no note, a rejected one its note: the six
\* operations that write them never mix two versions of a row.
THEOREM ExplainedCorrect == Spec => []StatusExplained
<1>1. KostsSound => StatusExplained
  BY DEF KostsSound, SoundRow, StatusExplained
<1> QED
  BY <1>1, InitTypes, TypesKept, InitKosts, KostsKept, PTL DEF Spec

\* What no admin and no technician has verified is never shown as verified,
\* however late its owner saves what he had read.
THEOREM VouchedCorrect == Spec => []OnlyVouched
<1>1. KostsSound => OnlyVouched
  BY DEF KostsSound, SoundRow, OnlyVouched
<1> QED
  BY <1>1, InitTypes, TypesKept, InitKosts, KostsKept, PTL DEF Spec

---------------------------------------------------------------------------
(* The row of a kost, and what was last decided on it. *)

Stands(row, w) == row.status = w.status /\ (Present(row) => row.active = w.active)

LEMMA StandsWhole == LastWordStands <=> \A k \in Kosts \ lost : Stands(kost[k], word[k])
  BY DEF LastWordStands, Stands

LEMMA StandsChange ==
    ASSUME NEW op \in KostOps, NEW row \in KostRow, NEW w \in Word, Stands(row, w)
    PROVE  Stands(Changed(op, row), Said(op, w))
<1>0. Present(row)
  BY RowsPresent
<1>1. CASE op = "verify"
  BY <1>0, <1>1 DEF Changed, Said, KostRow, Word, Stands
<1>2. CASE op = "reject"
  BY <1>0, <1>2 DEF Changed, Said, KostRow, Word, Stands
<1>3. CASE op = "show"
  BY <1>0, <1>3 DEF Changed, Said, KostRow, Word, Stands
<1>4. CASE op = "hide"
  BY <1>0, <1>4 DEF Changed, Said, KostRow, Word, Stands
<1>5. CASE op = "edit"
  BY <1>0, <1>5 DEF Changed, Said, KostRow, Word, Stands
<1> QED
  BY <1>1, <1>2, <1>3, <1>4, <1>5 DEF KostOps

\* One kost and its word are written, together.
LEMMA StandsWritten ==
    ASSUME TypeOK, LastWordStands, NEW k \in Kosts, NEW row, NEW w, lost \subseteq lost',
           kost' = [kost EXCEPT ![k] = row], word' = [word EXCEPT ![k] = w],
           k \notin lost' => Stands(row, w)
    PROVE  LastWordStands'
<1>1. ASSUME NEW j \in Kosts \ lost' PROVE Stands(kost'[j], word'[j])
  BY StandsWhole DEF TypeOK
<1>2. ASSUME NEW j \in Kosts \ lost'
      PROVE  kost'[j].status = word'[j].status /\ (Present(kost'[j]) => kost'[j].active = word'[j].active)
  BY <1>1 DEF Stands
<1> QED
  BY <1>2 DEF LastWordStands

LEMMA WordKept == ASSUME TypeOK, LastWordStands, [Next]_vars PROVE LastWordStands'
<1>1. ASSUME NEW k \in Kosts, NEW status, Insert(k, status) PROVE LastWordStands'
  <2>1. Stands(NewRow(status), [status |-> status, active |-> TRUE, by |-> Office])
    BY DEF Stands, NewRow
  <2> QED
    BY <1>1, <2>1, StandsWritten DEF Insert
<1>2. ASSUME NEW h \in Handlers, SaveKost(h) PROVE LastWordStands'
  <2>1. req[h] \in KostJob
    BY <1>2, JobOfOp DEF SaveKost, TypeOK, AnyJob
  <2> DEFINE op == req[h].op
             k == req[h].of
             seen == req[h].seen
  <2>2. op \in KostOps /\ k \in Kosts /\ seen \in KostRow
    BY <1>2, <2>1 DEF SaveKost, KostJob
  <2>3. /\ kost' = [kost EXCEPT ![k] = Stored(k, Changed(op, seen))]
        /\ word' = [word EXCEPT ![k] = Said(op, word[k])]
        /\ lost' = LostWith(k, kost[k], seen)
    BY <1>2, <2>2 DEF SaveKost, TypeOK
  <2>4. ASSUME k \notin lost' PROVE Stands(Stored(k, Changed(op, seen)), Said(op, word[k]))
    <3>1. kost[k] = seen /\ k \notin lost
      BY <2>3, <2>4 DEF LostWith
    <3>2. Present(kost[k])
      BY <2>2, <3>1, RowsPresent
    <3>3. Stored(k, Changed(op, seen)) = Changed(op, seen)
      BY <3>2 DEF Stored
    <3>4. word[k] \in Word
      BY <2>2 DEF TypeOK
    <3>5. Stands(seen, word[k])
      BY <2>2, <3>1, StandsWhole
    <3> HIDE DEF op, k, seen
    <3> QED
      BY <2>2, <3>3, <3>4, <3>5, StandsChange
  <2>5. lost \subseteq lost'
    BY <2>3 DEF LostWith
  <2> HIDE DEF op, k, seen
  <2> QED
    BY <2>2, <2>3, <2>4, <2>5, StandsWritten
<1>3. ASSUME NEW h \in Handlers, DropKost(h) PROVE LastWordStands'
  <2>1. req[h] \in KostJob
    BY <1>3, JobOfOp DEF DropKost, TypeOK, AnyJob
  <2> DEFINE k == req[h].of
  <2>2. k \in Kosts
    BY <2>1 DEF KostJob
  <2>3. /\ kost' = [kost EXCEPT ![k] = Gone]
        /\ word' = [word EXCEPT ![k] = [word[k] EXCEPT !.status = "gone"]]
        /\ lost' = lost
    BY <1>3, <2>2 DEF DropKost
  <2>4. Stands(Gone, [word[k] EXCEPT !.status = "gone"])
    BY <2>2 DEF Stands, Gone, Present, TypeOK, Word
  <2> QED
    BY <2>2, <2>3, <2>4, StandsWritten
<1>4. ASSUME NEW h \in Handlers, Decide(h) PROVE LastWordStands'
  <2>1. req[h] \in DecideJob
    BY <1>4, JobOfOp DEF Decide, TypeOK, AnyJob
  <2> DEFINE a == req[h].of
             k == req[h].seen.kost
             says == req[h].says
             row == IF Present(kost[k]) THEN kost[k] ELSE [req[h].with EXCEPT !.active = TRUE]
             w == [word[k] EXCEPT !.by = a,
                                  !.status = IF says = "approved" THEN "verified" ELSE "rejected"]
  <2>2. a \in Surveys /\ k \in Kosts /\ says \in Verdicts /\ req[h].with \in KostRow
    BY <2>1 DEF DecideJob, SurveyRow
  <2>3. /\ kost' = [kost EXCEPT ![k] = Judged(says, row)]
        /\ word' = [word EXCEPT ![k] = w]
    BY <1>4, <2>2 DEF Decide, TypeOK
  <2>4. lost' = LostWith(a, survey[a], req[h].seen) \cup (IF Present(kost[k]) THEN {} ELSE {k})
    BY <1>4 DEF Decide
  <2>5. ASSUME k \notin lost' PROVE Stands(Judged(says, row), w)
    <3>1. Present(kost[k]) /\ k \notin lost
      BY <2>4, <2>5 DEF LostWith
    <3>2. row = kost[k] /\ row \in KostRow
      BY <2>2, <3>1, PresentRow
    <3>3. row.active = word[k].active
      BY <2>2, <3>1, <3>2, StandsWhole DEF Stands
    <3>4. word[k] \in Word
      BY <2>2 DEF TypeOK
    <3>5. w.active = word[k].active /\ w.status = IF says = "approved" THEN "verified" ELSE "rejected"
      BY <3>4 DEF Word
    <3> HIDE DEF k, says, row, w
    <3> QED
      BY <2>2, <3>2, <3>3, <3>5, JudgedRow DEF Stands
  <2>6. lost \subseteq lost'
    BY <2>4 DEF LostWith
  <2> HIDE DEF k, says, row, w
  <2> QED
    BY <2>2, <2>3, <2>5, <2>6, StandsWritten
<1>5. ASSUME UNCHANGED <<kost, word>>, lost \subseteq lost' PROVE LastWordStands'
  BY <1>5 DEF LastWordStands
<1>6. ASSUME NEW h \in Handlers, RoomStep(h) \/ Abort(h) PROVE LastWordStands'
  <2>1. UNCHANGED <<kost, word>> /\ lost \subseteq lost'
    BY <1>6 DEF RoomStep, ReadRoom, ReadDeleted, Start, SaveRoom, CountContracts, DeleteRoom,
                Abort, LostWith, tables, history
  <2> QED
    BY <1>5, <2>1
<1>7. ASSUME NEW b \in Bookings, BookingStep(b) PROVE LastWordStands'
  BY <1>5, <1>7 DEF BookingStep, Book, MarkProcessing, Lapse, Approve, EndContract, history
<1>8. ASSUME NEW h \in Handlers, NEW k \in Kosts, NEW op \in KostOps \cup {"drop"},
             ReadKost(h, op, k)
      PROVE  LastWordStands'
  BY <1>5, <1>8 DEF ReadKost, Start, tables, history
<1>9. ASSUME NEW h \in Handlers, NEW a \in Surveys, NEW says \in Verdicts, ReadSurvey(h, a, says)
      PROVE  LastWordStands'
  BY <1>5, <1>9 DEF ReadSurvey, Start, tables, history
<1>10. ASSUME NEW a \in Surveys, NEW k \in Kosts, AssignTech(a, k) PROVE LastWordStands'
  BY <1>5, <1>10 DEF AssignTech, history
<1>11. ASSUME NEW r \in Rooms, CreateRoom(r) PROVE LastWordStands'
  BY <1>5, <1>11 DEF CreateRoom, history
<1>12. CASE UNCHANGED vars
  BY <1>5, <1>12 DEF vars
<1> QED
  BY <1>1, <1>2, <1>3, <1>4, <1>6, <1>7, <1>8, <1>9, <1>10, <1>11, <1>12
  DEF Next, KostStep, SurveyStep, CreateKost, AdminCreateKost

LEMMA InitWord == ASSUME Init PROVE LastWordStands
  BY RowsPresent DEF Init, LastWordStands, Absent

\* What was decided last on a kost is what its row says, if nobody has saved
\* it over a change he had not read: all else that comes in between is harmless.
THEOREM LastWordCorrect == Spec => []LastWordStands
<1> QED
  BY InitTypes, TypesKept, InitWord, WordKept, PTL DEF Spec

---------------------------------------------------------------------------
(* Rooms and the bookings that hold them.  A room that was not saved over  *)
(* somebody else's change is held by one booking at most, and by none if   *)
(* it is free or not there yet; no request that was read is going to free  *)
(* one that was not.                                                       *)

Free == {"available", "maintenance"}

RoomsSound ==
    /\ \A b \in Bookings :
        Held(b) /\ booking[b].room \notin lost => room[booking[b].room] \notin Free \cup {"absent"}
    /\ \A b, c \in Bookings :
        Held(b) /\ Held(c) /\ booking[b].room = booking[c].room /\ booking[b].room \notin lost
            => b = c
    /\ \A h \in Handlers :
        /\ req[h].op = "update" => (req[h].to \in Free => req[h].seen \in Free)
        /\ req[h].op = "delete" => req[h].seen = "available"

\* A step that books nothing, frees nothing, and makes no new request.
LEMMA RoomsElsewhere ==
    ASSUME RoomsSound, lost \subseteq lost',
           \A b \in Bookings : booking'[b].status \in Live \cup {"let"} =>
               Held(b) /\ booking'[b].room = booking[b].room,
           \A b \in Bookings : booking'[b].status \in Live \cup {"let"} =>
               booking[b].room \in lost' \/ room'[booking[b].room] \notin Free \cup {"absent"},
           \A g \in Handlers :
               /\ req'[g].op = "update" => (req'[g].to \in Free => req'[g].seen \in Free)
               /\ req'[g].op = "delete" => req'[g].seen = "available"
    PROVE  RoomsSound'
  BY DEF RoomsSound, Held

LEMMA HeldRow == ASSUME TypeOK, NEW b \in Bookings, Held(b) PROVE booking[b] \in BookingRow
  BY DEF TypeOK, Held, Live, Absent, Gone

LEMMA RoomRequests ==
    ASSUME TypeOK, RoomsSound, NEW h \in Handlers, Done(h) \/ CountContracts(h) \/ req' = req
    PROVE  \A g \in Handlers :
               /\ req'[g].op = "update" => (req'[g].to \in Free => req'[g].seen \in Free)
               /\ req'[g].op = "delete" => req'[g].seen = "available"
<1>1. CASE Done(h)
  BY <1>1, DoneReq DEF RoomsSound
<1>2. CASE CountContracts(h)
  BY <1>2, CountReq DEF RoomsSound
<1>3. CASE req' = req
  BY <1>3 DEF RoomsSound
<1> QED
  BY <1>1, <1>2, <1>3

\* A request is read that does not free a room.
LEMMA RoomsStarted ==
    ASSUME TypeOK, RoomsSound, NEW h \in Handlers, NEW job, Start(h, job),
           job.op = "update" => (job.to \in Free => job.seen \in Free),
           job.op = "delete" => job.seen = "available"
    PROVE  RoomsSound'
<1>1. \A g \in Handlers : req'[g] = req[g] \/ req'[g] = job
  BY StartReq
<1>2. UNCHANGED <<room, booking, lost>>
  BY DEF Start, tables, history
<1> QED
  BY <1>1, <1>2 DEF RoomsSound, Held

LEMMA RoomsKeptByOwner ==
    ASSUME TypeOK, RoomsSound, NEW h \in Handlers, RoomStep(h)
    PROVE  RoomsSound'
<1>1. ASSUME NEW r \in Rooms, ReadRoom(h, r) PROVE RoomsSound'
  <2>1. PICK to \in RoomStatus :
            /\ to = room[r] \/ MayBecome(room[r], to)
            /\ Start(h, [op |-> "update", of |-> r, seen |-> room[r], to |-> to])
    BY <1>1 DEF ReadRoom
  <2>2. room[r] \in RoomStatus
    BY <1>1 DEF ReadRoom, RoomThere
  <2>3. to \in Free => room[r] \in Free
    BY <2>1, <2>2 DEF MayBecome, Free, RoomStatus
  <2> DEFINE job == [op |-> "update", of |-> r, seen |-> room[r], to |-> to]
  <2>4. job.op = "update" /\ job.to = to /\ job.seen = room[r] /\ Start(h, job)
    BY <2>1
  <2> HIDE DEF job
  <2> QED
    BY <2>3, <2>4, RoomsStarted
<1>2. ASSUME NEW r \in Rooms, ReadDeleted(h, r) PROVE RoomsSound'
  <2> DEFINE job == [op |-> "delete", of |-> r, seen |-> room[r], counted |-> FALSE]
  <2>1. job.op = "delete" /\ job.seen = "available" /\ Start(h, job)
    BY <1>2 DEF ReadDeleted
  <2> HIDE DEF job
  <2> QED
    BY <2>1, RoomsStarted
<1>3. CASE SaveRoom(h)
  <2>1. req[h] \in RoomJob
    BY <1>3, JobOfOp DEF SaveRoom, TypeOK, AnyJob
  <2> DEFINE r == req[h].of
             to == req[h].to
             seen == req[h].seen
  <2>2. r \in Rooms /\ to \in RoomStatus /\ seen \in RoomStatus
    BY <2>1 DEF RoomJob
  <2>3. /\ room' = [room EXCEPT ![r] = to]
        /\ lost' = LostWith(r, room[r], seen)
        /\ booking' = booking /\ Done(h) /\ req[h].op = "update"
    BY <1>3 DEF SaveRoom
  <2>4. to \in Free => seen \in Free
    BY <2>3 DEF RoomsSound
  <2>5. to # "absent" /\ seen # "absent"
    BY <2>2 DEF RoomStatus
  <2>6. lost \subseteq lost' /\ (r \notin lost' => room[r] = seen)
    BY <2>3 DEF LostWith
  <2> HIDE DEF r, to, seen
  <2>7. ASSUME NEW b \in Bookings, Held(b)
        PROVE  booking[b].room \in lost' \/ room'[booking[b].room] \notin Free \cup {"absent"}
    <3>1. booking[b].room \in Rooms
      BY <2>7, HeldRow DEF BookingRow
    <3>2. CASE booking[b].room = r /\ r \notin lost'
      <4>1. seen \notin Free
        BY <2>6, <2>7, <3>2 DEF RoomsSound
      <4> QED
        BY <2>2, <2>3, <2>4, <2>5, <3>1, <3>2, <4>1 DEF TypeOK
    <3>3. CASE booking[b].room # r
      BY <2>3, <2>6, <2>7, <3>1, <3>3 DEF RoomsSound, TypeOK
    <3> QED
      BY <3>2, <3>3
  <2> QED
    BY <2>3, <2>6, <2>7, RoomRequests, RoomsElsewhere DEF Held
<1>4. CASE CountContracts(h)
  <2>1. UNCHANGED <<room, booking, lost>>
    BY <1>4 DEF CountContracts, tables, history
  <2> QED
    BY <1>4, <2>1, RoomRequests DEF RoomsSound, Held
<1>5. CASE DeleteRoom(h)
  <2>1. req[h] \in DeleteJob
    BY <1>5, JobOfOp DEF DeleteRoom, TypeOK, AnyJob
  <2> DEFINE r == req[h].of
  <2>2. r \in Rooms
    BY <2>1 DEF DeleteJob
  <2>3. /\ room' = [room EXCEPT ![r] = "gone"]
        /\ booking' = [b \in Bookings |->
               IF Present(booking[b]) /\ booking[b].room = r THEN Gone ELSE booking[b]]
        /\ lost \subseteq lost' /\ Done(h)
    BY <1>5 DEF DeleteRoom, LostWith
  <2> HIDE DEF r
  <2>4. ASSUME NEW b \in Bookings, booking'[b].status \in Live \cup {"let"}
        PROVE  Held(b) /\ booking'[b] = booking[b] /\ booking[b].room # r
    BY <2>3, <2>4 DEF Held, Gone, Live, Present
  <2>5. ASSUME NEW b \in Bookings, booking'[b].status \in Live \cup {"let"}
        PROVE  booking[b].room \in lost' \/ room'[booking[b].room] \notin Free \cup {"absent"}
    BY <2>3, <2>4, <2>5, HeldRow DEF RoomsSound, TypeOK, BookingRow
  <2> QED
    BY <2>3, <2>4, <2>5, RoomRequests, RoomsElsewhere
<1> QED
  BY <1>1, <1>2, <1>3, <1>4, <1>5 DEF RoomStep

LEMMA RoomsKeptByBookings ==
    ASSUME TypeOK, RoomsSound, NEW b \in Bookings, BookingStep(b)
    PROVE  RoomsSound'
<1>0. UNCHANGED <<req, lost>>
  BY DEF BookingStep, Book, MarkProcessing, Lapse, Approve, EndContract, history
<1>1. \A g \in Handlers :
          /\ req'[g].op = "update" => (req'[g].to \in Free => req'[g].seen \in Free)
          /\ req'[g].op = "delete" => req'[g].seen = "available"
  BY <1>0 DEF RoomsSound
<1>2. ASSUME NEW r \in Rooms, Book(r, b) PROVE RoomsSound'
  <2>1. /\ booking' = [booking EXCEPT ![b] = [status |-> "pending", room |-> r]]
        /\ room' = [room EXCEPT ![r] = "reserved"]
        /\ room[r] = "available" /\ booking[b] = Absent
    BY <1>2 DEF Book
  <2>2. booking'[b].status = "pending" /\ booking'[b].room = r /\ ~Held(b)
    BY <2>1 DEF TypeOK, Held, Absent, Live
  <2>3. ASSUME NEW c \in Bookings, c # b PROVE booking'[c] = booking[c]
    BY <2>1, <2>3 DEF TypeOK
  <2>4. ASSUME NEW c \in Bookings, Held(c), booking[c].room = r PROVE r \in lost
    BY <2>1, <2>4 DEF RoomsSound, Free
  <2>5. ASSUME NEW c \in Bookings, Held(c)', booking'[c].room \notin lost'
        PROVE  room'[booking'[c].room] \notin Free \cup {"absent"}
    <3>1. CASE booking'[c].room = r
      BY <2>1, <3>1 DEF TypeOK, Free
    <3>2. CASE booking'[c].room # r
      <4>1. c # b /\ Held(c) /\ booking'[c] = booking[c]
        BY <2>2, <2>3, <2>5, <3>2 DEF Held
      <4>2. booking[c].room \in Rooms
        BY <4>1, HeldRow DEF BookingRow
      <4> QED
        BY <1>0, <2>1, <2>5, <3>2, <4>1, <4>2 DEF RoomsSound, TypeOK
    <3> QED
      BY <3>1, <3>2
  <2>6. ASSUME NEW c \in Bookings, NEW d \in Bookings, Held(c)', Held(d)',
               booking'[c].room = booking'[d].room, booking'[c].room \notin lost'
        PROVE  c = d
    <3>1. CASE c # b /\ d # b
      BY <1>0, <2>3, <2>6, <3>1 DEF RoomsSound, Held
    <3>2. CASE c = b /\ d # b
      BY <1>0, <2>2, <2>3, <2>4, <2>6, <3>2 DEF Held
    <3>3. CASE c # b /\ d = b
      BY <1>0, <2>2, <2>3, <2>4, <2>6, <3>3 DEF Held
    <3> QED
      BY <3>1, <3>2, <3>3
  <2> QED
    BY <1>1, <2>5, <2>6 DEF RoomsSound
<1>3. ASSUME NEW status \in Live \cup {"let", "over"}, Held(b),
             booking' = [booking EXCEPT ![b].status = status],
             \/ status = "over"
             \/ room'[booking[b].room] \notin Free \cup {"absent"},
             \A r \in Rooms : r # booking[b].room => room'[r] = room[r]
      PROVE  RoomsSound'
  <2>1. booking[b] \in BookingRow
    BY <1>3, HeldRow
  <2>2. booking'[b].status = status /\ booking'[b].room = booking[b].room
    BY <1>3, <2>1 DEF TypeOK, BookingRow
  <2>3. ASSUME NEW c \in Bookings, c # b PROVE booking'[c] = booking[c]
    BY <1>3, <2>3 DEF TypeOK
  <2>4. ASSUME NEW c \in Bookings, booking'[c].status \in Live \cup {"let"}
        PROVE  Held(c) /\ booking'[c].room = booking[c].room
    BY <1>3, <2>2, <2>3, <2>4 DEF Held
  <2>5. ASSUME NEW c \in Bookings, booking'[c].status \in Live \cup {"let"}
        PROVE  booking[c].room \in lost' \/ room'[booking[c].room] \notin Free \cup {"absent"}
    <3>1. booking[c].room \in Rooms /\ Held(c)
      BY <2>4, <2>5, HeldRow DEF BookingRow
    <3>2. CASE booking[c].room # booking[b].room
      BY <1>0, <1>3, <3>1, <3>2 DEF RoomsSound
    <3>3. CASE booking[c].room = booking[b].room /\ c = b
      BY <1>3, <2>2, <2>5, <3>3 DEF Live
    <3>4. CASE booking[c].room = booking[b].room /\ c # b
      BY <1>0, <1>3, <3>1, <3>4 DEF RoomsSound
    <3> QED
      BY <3>2, <3>3, <3>4
  <2> QED
    BY <1>0, <1>1, <2>4, <2>5, RoomsElsewhere
<1>4. CASE MarkProcessing(b)
  <2>1. Held(b) /\ booking' = [booking EXCEPT ![b].status = "processing"] /\ room' = room
    BY <1>4 DEF MarkProcessing, Held, Live
  <2>2. CASE booking[b].room \in lost
    <3>1. booking[b] \in BookingRow
      BY <2>1, HeldRow
    <3>2. booking'[b].status = "processing" /\ booking'[b].room = booking[b].room
      BY <2>1, <3>1 DEF TypeOK, BookingRow
    <3>3. ASSUME NEW c \in Bookings, c # b PROVE booking'[c] = booking[c]
      BY <2>1, <3>3 DEF TypeOK
    <3>4. ASSUME NEW c \in Bookings, booking'[c].status \in Live \cup {"let"}
          PROVE  Held(c) /\ booking'[c].room = booking[c].room
      BY <2>1, <3>2, <3>3, <3>4 DEF Held
    <3> QED
      BY <1>0, <1>1, <2>1, <3>4, RoomsElsewhere DEF RoomsSound
  <2>3. CASE booking[b].room \notin lost
    <3>1. room'[booking[b].room] \notin Free \cup {"absent"}
      BY <2>1, <2>3 DEF RoomsSound
    <3> QED
      BY <1>3, <2>1, <3>1 DEF Live
  <2> QED
    BY <2>2, <2>3
<1>5. CASE Lapse(b)
  <2>1. /\ Held(b) /\ booking' = [booking EXCEPT ![b].status = "over"]
        /\ \A r \in Rooms : r # booking[b].room => room'[r] = room[r]
    BY <1>5 DEF Lapse, Held, TypeOK
  <2> QED
    BY <1>3, <2>1
<1>6. CASE Approve(b)
  <2>1. /\ Held(b) /\ booking' = [booking EXCEPT ![b].status = "let"]
        /\ \A r \in Rooms : r # booking[b].room => room'[r] = room[r]
    BY <1>6 DEF Approve, Held, TypeOK
  <2>2. booking[b].room \in Rooms
    BY <2>1, HeldRow DEF BookingRow
  <2>3. room'[booking[b].room] = "occupied"
    BY <1>6, <2>2 DEF Approve, TypeOK
  <2> QED
    BY <1>3, <2>1, <2>3 DEF Free
<1>7. CASE EndContract(b)
  <2>1. /\ Held(b) /\ booking' = [booking EXCEPT ![b].status = "over"]
        /\ \A r \in Rooms : r # booking[b].room => room'[r] = room[r]
    BY <1>7 DEF EndContract, Held, TypeOK
  <2> QED
    BY <1>3, <2>1
<1> QED
  BY <1>2, <1>4, <1>5, <1>6, <1>7 DEF BookingStep

\* A step of the other handlers: no room, no booking, and no request for one.
LEMMA RoomsAside ==
    ASSUME RoomsSound, UNCHANGED <<room, booking>>, lost \subseteq lost',
           \A g \in Handlers : req'[g] = req[g] \/ req'[g].op \notin {"update", "delete"}
    PROVE  RoomsSound'
  BY DEF RoomsSound, Held

LEMMA RoomsKept == ASSUME TypeOK, RoomsSound, [Next]_vars PROVE RoomsSound'
<1>1. ASSUME NEW k \in Kosts, CreateKost(k) \/ AdminCreateKost(k) PROVE RoomsSound'
  BY <1>1, RoomsAside DEF CreateKost, AdminCreateKost, Insert
<1>2. ASSUME NEW a \in Surveys, NEW k \in Kosts, AssignTech(a, k) PROVE RoomsSound'
  BY <1>2, RoomsAside DEF AssignTech, history
<1>3. ASSUME NEW r \in Rooms, CreateRoom(r) PROVE RoomsSound'
  <2>1. /\ room[r] = "absent" /\ \A q \in Rooms : q # r => room'[q] = room[q]
        /\ UNCHANGED <<booking, req, lost>>
    BY <1>3 DEF CreateRoom, TypeOK, history
  <2>2. ASSUME NEW b \in Bookings, Held(b)
        PROVE  booking[b].room \in lost' \/ room'[booking[b].room] \notin Free \cup {"absent"}
    <3>1. booking[b].room \in Rooms
      BY <2>2, HeldRow DEF BookingRow
    <3> QED
      BY <2>1, <2>2, <3>1 DEF RoomsSound
  <2> QED
    BY <2>1, <2>2 DEF RoomsSound, Held
<1>4. ASSUME NEW h \in Handlers, Abort(h) PROVE RoomsSound'
  <2>1. UNCHANGED <<room, booking, lost>> /\ Done(h)
    BY <1>4 DEF Abort, tables, history
  <2> QED
    BY <2>1, DoneReq, RoomsAside
<1>5. ASSUME NEW h \in Handlers, NEW k \in Kosts, NEW op \in KostOps \cup {"drop"},
             ReadKost(h, op, k)
      PROVE  RoomsSound'
  <2> DEFINE job == [op |-> op, of |-> k, seen |-> kost[k]]
  <2>1. job.op \notin {"update", "delete"} /\ Start(h, job)
    BY <1>5 DEF ReadKost, KostOps
  <2> HIDE DEF job
  <2> QED
    BY <2>1, RoomsStarted
<1>6. ASSUME NEW h \in Handlers, SaveKost(h) PROVE RoomsSound'
  <2>1. UNCHANGED <<room, booking>> /\ lost \subseteq lost' /\ Done(h)
    BY <1>6 DEF SaveKost, LostWith
  <2> QED
    BY <2>1, DoneReq, RoomsAside
<1>7. ASSUME NEW h \in Handlers, DropKost(h) PROVE RoomsSound'
  <2>1. /\ room' = [r \in Rooms |-> IF RoomThere(r) /\ KostOf[r] = req[h].of THEN "gone" ELSE room[r]]
        /\ booking' = [b \in Bookings |->
               IF Present(booking[b]) /\ KostOf[booking[b].room] = req[h].of THEN Gone
               ELSE booking[b]]
        /\ lost' = lost /\ Done(h)
    BY <1>7 DEF DropKost
  <2>2. ASSUME NEW b \in Bookings, booking'[b].status \in Live \cup {"let"}
        PROVE  Held(b) /\ booking'[b] = booking[b]
    BY <2>1, <2>2 DEF Held, Gone, Live
  <2>3. ASSUME NEW b \in Bookings, booking'[b].status \in Live \cup {"let"}
        PROVE  booking[b].room \in lost' \/ room'[booking[b].room] \notin Free \cup {"absent"}
    <3>1. booking[b].room \in Rooms
      BY <2>2, <2>3, HeldRow DEF BookingRow
    <3>2. room'[booking[b].room] \in {"gone", room[booking[b].room]}
      BY <2>1, <3>1
    <3> QED
      BY <2>1, <2>2, <2>3, <3>2 DEF RoomsSound, Free
  <2> QED
    BY <2>1, <2>2, <2>3, RoomRequests, RoomsElsewhere
<1>8. ASSUME NEW h \in Handlers, NEW a \in Surveys, NEW says \in Verdicts, ReadSurvey(h, a, says)
      PROVE  RoomsSound'
  <2> DEFINE job == [op |-> "decide", of |-> a, seen |-> survey[a], says |-> says,
                     with |-> kost[survey[a].kost]]
  <2>1. job.op \notin {"update", "delete"} /\ Start(h, job)
    BY <1>8 DEF ReadSurvey
  <2> HIDE DEF job
  <2> QED
    BY <2>1, RoomsStarted
<1>9. ASSUME NEW h \in Handlers, Decide(h) PROVE RoomsSound'
  <2>1. UNCHANGED <<room, booking>> /\ lost \subseteq lost' /\ Done(h)
    BY <1>9 DEF Decide, LostWith
  <2> QED
    BY <2>1, DoneReq, RoomsAside
<1>10. CASE UNCHANGED vars
  BY <1>10, RoomsAside DEF vars
<1> QED
  BY <1>1, <1>2, <1>3, <1>4, <1>5, <1>6, <1>7, <1>8, <1>9, <1>10,
     RoomsKeptByOwner, RoomsKeptByBookings
  DEF Next, KostStep, SurveyStep

LEMMA InitRooms == ASSUME Init PROVE RoomsSound
  BY DEF Init, RoomsSound, Held, Live, Absent, Idle

\* A room that is free, or closed for repairs, is nobody's, whatever its owner
\* has asked for while it was booked, let and given back.
THEOREM HeldNotFreeCorrect == Spec => []HeldNotFree
<1>1. RoomsSound => HeldNotFree
  BY DEF RoomsSound, HeldNotFree, HeldOn, Free
<1> QED
  BY <1>1, InitTypes, TypesKept, InitRooms, RoomsKept, PTL DEF Spec

LEMMA HeldStays ==
    ASSUME TypeOK, RoomsSound, [Next]_vars, NEW b \in Bookings, Held(b), booking'[b] = Gone
    PROVE  kost'[KostOf[booking[b].room]] = Gone \/ booking[b].room \in lost'
<1>1. booking[b] \in BookingRow /\ booking[b] # Gone
  BY HeldRow DEF BookingRow, Gone, Live
<1>2. ASSUME booking' = booking PROVE FALSE
  BY <1>1, <1>2
<1>3. ASSUME NEW c \in Bookings, BookingStep(c) PROVE FALSE
  <2>1. booking[c].status \in Live \cup {"let"} => booking[c] \in BookingRow
    BY HeldRow DEF Held
  <2>2. booking'[c] # Gone
    BY <1>3, <2>1 DEF BookingStep, Book, MarkProcessing, Lapse, Approve, EndContract, TypeOK,
                      BookingRow, Gone, Live
  <2>3. c # b => booking'[b] = booking[b]
    BY <1>3 DEF BookingStep, Book, MarkProcessing, Lapse, Approve, EndContract, TypeOK
  <2> QED
    BY <1>1, <2>2, <2>3
<1>4. ASSUME NEW h \in Handlers, DropKost(h) PROVE kost'[KostOf[booking[b].room]] = Gone
  <2>1. req[h] \in KostJob
    BY <1>4, JobOfOp DEF DropKost, TypeOK, AnyJob
  <2>2. req[h].of \in Kosts
    BY <2>1 DEF KostJob
  <2>3. KostOf[booking[b].room] = req[h].of
    BY <1>1, <1>4 DEF DropKost
  <2> QED
    BY <1>4, <2>2, <2>3 DEF DropKost, TypeOK
<1>5. ASSUME NEW h \in Handlers, DeleteRoom(h) PROVE booking[b].room \in lost'
  <2>1. booking[b].room = req[h].of
    BY <1>1, <1>5 DEF DeleteRoom
  <2>2. req[h].seen = "available"
    BY <1>5 DEF DeleteRoom, RoomsSound
  <2>3. lost' = LostWith(booking[b].room, room[booking[b].room], "available")
    BY <1>5, <2>1, <2>2 DEF DeleteRoom
  <2>4. booking[b].room \in lost \/ room[booking[b].room] # "available"
    BY DEF RoomsSound, Free
  <2> QED
    BY <2>3, <2>4 DEF LostWith
<1> QED
  BY <1>2, <1>3, <1>4, <1>5
  DEF Next, CreateKost, AdminCreateKost, Insert, AssignTech, CreateRoom, KostStep, SurveyStep,
      RoomStep, ReadKost, SaveKost, ReadSurvey, Decide, ReadRoom, ReadDeleted, SaveRoom,
      CountContracts, Abort, Start, tables, vars

\* No booking in progress and no tenant goes with a room, but with its kost, or
\* with a room that was booked after the owner's request had looked at it.
THEOREM HeldNotDeletedCorrect == Spec => HeldNotDeleted
<1> DEFINE Kept ==
        \A b \in Bookings :
            Held(b) /\ booking'[b] = Gone
                => kost'[KostOf[booking[b].room]] = Gone \/ booking[b].room \in lost'
<1>1. TypeOK /\ RoomsSound /\ [Next]_vars => [Kept]_vars
  BY HeldStays
<1> QED
  BY <1>1, InitTypes, TypesKept, InitRooms, RoomsKept, PTL DEF Spec, HeldNotDeleted

---------------------------------------------------------------------------
(* Surveys.  A survey is about one kost: the one it had the last word on,  *)
(* and the one each request to decide it has read, if two have.            *)

Deciding(job, a) == job.op = "decide" /\ job.of = a

SurveysSound ==
    /\ SurveyAgrees
    /\ \A k \in Kosts, a \in Surveys :
        word[k].by = a => survey[a] # Absent /\ (Present(survey[a]) => survey[a].kost = k)
    /\ \A h \in Handlers, a \in Surveys : Deciding(req[h], a) =>
        /\ survey[a] # Absent
        /\ Present(survey[a]) => survey[a].kost = req[h].seen.kost
        /\ \A k \in Kosts : word[k].by = a => k = req[h].seen.kost
    /\ \A h, g \in Handlers, a \in Surveys :
        Deciding(req[h], a) /\ Deciding(req[g], a) => req[h].seen.kost = req[g].seen.kost

\* A step that leaves the surveys alone, and who decided last.
LEMMA SurveysAside ==
    ASSUME SurveysSound, UNCHANGED survey,
           \A k \in Kosts, a \in Surveys : word'[k].by = a => word[k].by = a,
           SurveyAgrees',
           \A g \in Handlers : req'[g] = req[g] \/ req'[g].op # "decide"
    PROVE  SurveysSound'
  BY DEF SurveysSound, Deciding

LEMMA SurveysFramed ==
    ASSUME SurveysSound, UNCHANGED <<survey, kost, word>>, lost \subseteq lost',
           \A g \in Handlers : req'[g] = req[g] \/ req'[g].op # "decide"
    PROVE  SurveysSound'
<1>1. SurveyAgrees'
  BY DEF SurveysSound, SurveyAgrees
<1> QED
  BY <1>1, SurveysAside

\* One kost is saved, by somebody who may have the last word on it.
LEMMA SurveysSaved ==
    ASSUME TypeOK, SurveysSound, NEW k \in Kosts, NEW row, NEW w, UNCHANGED survey,
           kost' = [kost EXCEPT ![k] = row], word' = [word EXCEPT ![k] = w],
           lost \subseteq lost',
           w.by = Office \/ (w.by = word[k].by /\ (k \notin lost' =>
               Present(kost[k]) /\ (row.status = "verified" <=> kost[k].status = "verified"))),
           \A g \in Handlers : req'[g] = req[g] \/ req'[g].op # "decide"
    PROVE  SurveysSound'
<1>1. word'[k] = w /\ kost'[k] = row
  BY DEF TypeOK
<1>2. \A j \in Kosts : j # k => word'[j] = word[j] /\ kost'[j] = kost[j]
  BY DEF TypeOK
<1>3. ASSUME NEW j \in Kosts, NEW a \in Surveys, word'[j].by = a PROVE word[j].by = a
  BY <1>1, <1>2, <1>3, PremisesAssumption
<1>4. ASSUME NEW j \in Kosts \ lost', NEW a \in Surveys, word'[j].by = a, Present(kost'[j])
      PROVE  kost'[j].status = "verified" <=> survey'[a].status = "approved"
  <2>1. CASE j # k
    BY <1>2, <1>4, <2>1 DEF SurveysSound, SurveyAgrees
  <2>2. CASE j = k
    <3>1. w.by # Office /\ word[k].by = a
      BY <1>1, <1>4, <2>2, PremisesAssumption
    <3>2. Present(kost[k]) /\ (row.status = "verified" <=> kost[k].status = "verified")
      BY <1>4, <2>2, <3>1
    <3>3. kost[k].status = "verified" <=> survey[a].status = "approved"
      BY <1>4, <2>2, <3>1, <3>2 DEF SurveysSound, SurveyAgrees
    <3> QED
      BY <1>1, <2>2, <3>2, <3>3
  <2> QED
    BY <2>1, <2>2
<1>5. SurveyAgrees'
  BY <1>4 DEF SurveyAgrees
<1> QED
  BY <1>3, <1>5, SurveysAside

LEMMA SurveysKeptBySave ==
    ASSUME TypeOK, SurveysSound, NEW h \in Handlers, SaveKost(h)
    PROVE  SurveysSound'
<1>1. req[h] \in KostJob
  BY JobOfOp DEF SaveKost, TypeOK, AnyJob
<1> DEFINE op == req[h].op
           k == req[h].of
           seen == req[h].seen
           row == Stored(k, Changed(op, seen))
           w == Said(op, word[k])
<1>2. op \in KostOps /\ k \in Kosts /\ seen \in KostRow /\ word[k] \in Word
  BY <1>1 DEF SaveKost, KostJob, TypeOK
<1>3. /\ kost' = [kost EXCEPT ![k] = row]
      /\ word' = [word EXCEPT ![k] = w]
      /\ lost' = LostWith(k, kost[k], seen)
      /\ UNCHANGED survey /\ Done(h)
  BY <1>2 DEF SaveKost, TypeOK
<1>4. w.by = Office \/ (op \notin {"verify", "reject"} /\ w.by = word[k].by)
  BY <1>2, SaidWord
<1>5. ASSUME op \notin {"verify", "reject"}, k \notin lost'
      PROVE  Present(kost[k]) /\ row.status = kost[k].status
  <2>1. kost[k] = seen
    BY <1>3, <1>5 DEF LostWith
  <2>2. Changed(op, seen).status = seen.status /\ Changed(op, seen) \in KostRow
    BY <1>2, <1>5, ChangedRow
  <2>3. Present(kost[k])
    BY <1>2, <2>1, RowsPresent
  <2> QED
    BY <2>1, <2>2, <2>3 DEF Stored
<1>6. lost \subseteq lost' /\ \A g \in Handlers : req'[g] = req[g] \/ req'[g].op # "decide"
  BY <1>3, DoneReq DEF LostWith
<1> HIDE DEF op, k, seen, row, w
<1> QED
  BY <1>2, <1>3, <1>4, <1>5, <1>6, SurveysSaved

LEMMA SurveysKeptByDrop ==
    ASSUME TypeOK, SurveysSound, NEW h \in Handlers, DropKost(h)
    PROVE  SurveysSound'
<1>1. req[h] \in KostJob
  BY JobOfOp DEF DropKost, TypeOK, AnyJob
<1> DEFINE k == req[h].of
<1>2. k \in Kosts
  BY <1>1 DEF KostJob
<1>3. /\ kost' = [kost EXCEPT ![k] = Gone]
      /\ survey' = [a \in Surveys |->
             IF Present(survey[a]) /\ survey[a].kost = k THEN Gone ELSE survey[a]]
      /\ lost' = lost /\ Done(h)
  BY DEF DropKost
<1>4. ASSUME NEW j \in Kosts PROVE word'[j].by = word[j].by
  BY <1>2 DEF DropKost, TypeOK, Word
<1> HIDE DEF k
<1>5. \A a \in Surveys : /\ survey'[a] = survey[a] \/ survey'[a] = Gone
                         /\ survey[a] # Absent => survey'[a] # Absent
                         /\ Present(survey'[a]) => survey'[a] = survey[a]
  BY <1>3, RowsPresent DEF Absent, Gone
<1>6. ASSUME NEW j \in Kosts \ lost', NEW a \in Surveys, word'[j].by = a, Present(kost'[j])
      PROVE  kost'[j].status = "verified" <=> survey'[a].status = "approved"
  <2>1. j # k
    BY <1>2, <1>3, <1>6, RowsPresent DEF TypeOK
  <2>2. kost'[j] = kost[j] /\ word[j].by = a
    BY <1>3, <1>4, <1>6, <2>1 DEF TypeOK
  <2>3. survey'[a] = survey[a]
    BY <1>3, <2>1, <2>2 DEF SurveysSound
  <2> QED
    BY <1>3, <1>6, <2>2, <2>3 DEF SurveysSound, SurveyAgrees
<1>7. \A g \in Handlers : req'[g] = req[g] \/ req'[g].op # "decide"
  BY <1>3, DoneReq
<1>8. SurveyAgrees'
  BY <1>6 DEF SurveyAgrees
<1> QED
  BY <1>4, <1>5, <1>7, <1>8 DEF SurveysSound, Deciding

LEMMA SurveysKeptByRead ==
    ASSUME TypeOK, SurveysSound, NEW h \in Handlers, NEW a \in Surveys, NEW says \in Verdicts,
           ReadSurvey(h, a, says)
    PROVE  SurveysSound'
<1> DEFINE job == [op |-> "decide", of |-> a, seen |-> survey[a], says |-> says,
                   with |-> kost[survey[a].kost]]
<1>1. Start(h, job) /\ job.of = a /\ job.seen = survey[a]
  BY DEF ReadSurvey
<1>2. survey[a].status = "open"
  BY DEF ReadSurvey
<1>3. survey[a] # Absent /\ Present(survey[a])
  BY <1>2 DEF Absent, Present
<1> HIDE DEF job
<1>4. \A g \in Handlers : req'[g] = req[g] \/ req'[g] = job
  BY <1>1, StartReq
<1>5. UNCHANGED <<kost, survey, word, lost>>
  BY <1>1 DEF Start, tables, history
<1>6. SurveyAgrees'
  BY <1>5 DEF SurveysSound, SurveyAgrees
<1>7. ASSUME NEW g \in Handlers, NEW b \in Surveys, Deciding(req'[g], b)
      PROVE  /\ survey[b] # Absent
             /\ Present(survey[b]) => survey[b].kost = req'[g].seen.kost
             /\ \A k \in Kosts : word[k].by = b => k = req'[g].seen.kost
  <2>1. CASE req'[g] = req[g]
    BY <1>7, <2>1 DEF SurveysSound
  <2>2. CASE req'[g] = job
    BY <1>1, <1>3, <1>7, <2>2 DEF SurveysSound, Deciding
  <2> QED
    BY <1>4, <2>1, <2>2
<1>8. ASSUME NEW f \in Handlers, NEW g \in Handlers, NEW b \in Surveys,
             Deciding(req'[f], b), Deciding(req'[g], b)
      PROVE  req'[f].seen.kost = req'[g].seen.kost
  <2>1. CASE req'[f] = req[f] /\ req'[g] = req[g]
    BY <1>8, <2>1 DEF SurveysSound
  <2>2. CASE b = a
    BY <1>3, <1>7, <1>8, <2>2
  <2>3. CASE b # a
    BY <1>1, <1>4, <1>8, <2>1, <2>3 DEF Deciding
  <2> QED
    BY <2>2, <2>3
<1> QED
  BY <1>5, <1>6, <1>7, <1>8 DEF SurveysSound

LEMMA SurveysKeptByDecide ==
    ASSUME TypeOK, SurveysSound, NEW h \in Handlers, Decide(h)
    PROVE  SurveysSound'
<1>1. req[h] \in DecideJob
  BY JobOfOp DEF Decide, TypeOK, AnyJob
<1> DEFINE a == req[h].of
           k == req[h].seen.kost
           says == req[h].says
           row == IF Present(kost[k]) THEN kost[k] ELSE [req[h].with EXCEPT !.active = TRUE]
<1>2. a \in Surveys /\ k \in Kosts /\ says \in Verdicts /\ req[h].with \in KostRow
  BY <1>1 DEF DecideJob, SurveyRow
<1>3. row \in KostRow
  BY <1>2, JudgedOf
<1>4. /\ kost' = [kost EXCEPT ![k] = Judged(says, row)]
      /\ survey' = [survey EXCEPT ![a] = [status |-> says, kost |-> k]]
      /\ Done(h) /\ Deciding(req[h], a)
  BY DEF Decide, Deciding
<1>5. word'[k].by = a /\ \A j \in Kosts : j # k => word'[j] = word[j]
  BY <1>2 DEF Decide, TypeOK, Word
<1>6. lost \subseteq lost'
  BY DEF Decide, LostWith
<1> HIDE DEF a, k, says, row
<1>7. survey'[a].status = says /\ survey'[a].kost = k /\ survey'[a] # Absent
  BY <1>2, <1>4 DEF TypeOK, Absent, Verdicts
<1>8. \A b \in Surveys : b # a => survey'[b] = survey[b]
  BY <1>4 DEF TypeOK
<1>9. \A j \in Kosts : word[j].by = a => j = k
  BY <1>2, <1>4 DEF SurveysSound, k
<1>10. \A g \in Handlers : req'[g] = req[g] \/ req'[g].op = "none"
  BY <1>4, DoneReq
<1>11. ASSUME NEW j \in Kosts \ lost', NEW b \in Surveys, word'[j].by = b, Present(kost'[j])
       PROVE  kost'[j].status = "verified" <=> survey'[b].status = "approved"
  <2>1. CASE j = k
    <3>1. b = a /\ kost'[j] = Judged(says, row)
      BY <1>2, <1>4, <1>5, <1>11, <2>1 DEF TypeOK
    <3> QED
      BY <1>2, <1>3, <1>7, <3>1, JudgedRow
  <2>2. CASE j # k
    <3>1. kost'[j] = kost[j] /\ word[j].by = b /\ b # a
      BY <1>4, <1>5, <1>9, <1>11, <2>2 DEF TypeOK
    <3> QED
      BY <1>6, <1>8, <1>11, <3>1 DEF SurveysSound, SurveyAgrees
  <2> QED
    BY <2>1, <2>2
<1>12. ASSUME NEW j \in Kosts, NEW b \in Surveys, word'[j].by = b
       PROVE  survey'[b] # Absent /\ (Present(survey'[b]) => survey'[b].kost = j)
  <2>1. CASE b = a
    BY <1>5, <1>7, <1>9, <1>12, <2>1
  <2>2. CASE b # a
    BY <1>5, <1>8, <1>12, <2>2 DEF SurveysSound
  <2> QED
    BY <2>1, <2>2
<1>13. ASSUME NEW g \in Handlers, NEW b \in Surveys, Deciding(req'[g], b)
       PROVE  /\ survey'[b] # Absent
              /\ Present(survey'[b]) => survey'[b].kost = req'[g].seen.kost
              /\ \A j \in Kosts : word'[j].by = b => j = req'[g].seen.kost
  <2>1. req'[g] = req[g] /\ Deciding(req[g], b)
    BY <1>10, <1>13 DEF Deciding
  <2>2. CASE b = a
    <3>1. req[g].seen.kost = k
      BY <1>2, <1>4, <2>1, <2>2 DEF SurveysSound, k
    <3> QED
      BY <1>5, <1>7, <1>9, <2>1, <2>2, <3>1
  <2>3. CASE b # a
    BY <1>5, <1>8, <2>1, <2>3 DEF SurveysSound
  <2> QED
    BY <2>2, <2>3
<1>14. ASSUME NEW f \in Handlers, NEW g \in Handlers, NEW b \in Surveys,
              Deciding(req'[f], b), Deciding(req'[g], b)
       PROVE  req'[f].seen.kost = req'[g].seen.kost
  BY <1>10, <1>14 DEF SurveysSound, Deciding
<1>15. SurveyAgrees'
  BY <1>11 DEF SurveyAgrees
<1> QED
  BY <1>12, <1>13, <1>14, <1>15 DEF SurveysSound

LEMMA SurveysKept == ASSUME TypeOK, SurveysSound, [Next]_vars PROVE SurveysSound'
<1>1. ASSUME NEW k \in Kosts, NEW status, Insert(k, status) PROVE SurveysSound'
  <2> DEFINE w == [status |-> status, active |-> TRUE, by |-> Office]
  <2>1. /\ kost' = [kost EXCEPT ![k] = NewRow(status)]
        /\ word' = [word EXCEPT ![k] = w]
        /\ UNCHANGED <<survey, req, lost>>
        /\ w.by = Office
    BY <1>1 DEF Insert
  <2> HIDE DEF w
  <2> QED
    BY <2>1, SurveysSaved
<1>2. ASSUME NEW a \in Surveys, NEW k \in Kosts, AssignTech(a, k) PROVE SurveysSound'
  <2>1. /\ survey[a] = Absent /\ UNCHANGED <<kost, word, lost, req>>
        /\ \A b \in Surveys : b # a => survey'[b] = survey[b]
    BY <1>2 DEF AssignTech, TypeOK, history
  <2>2. \A k1 \in Kosts : word[k1].by # a
    BY <2>1 DEF SurveysSound
  <2>3. \A g \in Handlers : ~Deciding(req[g], a)
    BY <2>1 DEF SurveysSound
  <2>4. SurveyAgrees'
    BY <2>1, <2>2 DEF SurveysSound, SurveyAgrees
  <2> QED
    BY <2>1, <2>2, <2>3, <2>4 DEF SurveysSound
<1>3. ASSUME NEW h \in Handlers, NEW k \in Kosts, NEW op \in KostOps \cup {"drop"},
             ReadKost(h, op, k)
      PROVE  SurveysSound'
  <2> DEFINE job == [op |-> op, of |-> k, seen |-> kost[k]]
  <2>1. job.op # "decide" /\ Start(h, job)
    BY <1>3 DEF ReadKost, KostOps
  <2> HIDE DEF job
  <2>2. \A g \in Handlers : req'[g] = req[g] \/ req'[g].op # "decide"
    BY <2>1, StartReq
  <2> QED
    BY <2>1, <2>2, SurveysFramed DEF Start, tables, history
<1>4. ASSUME NEW h \in Handlers, RoomStep(h) \/ Abort(h) PROVE SurveysSound'
  <2>1. UNCHANGED <<survey, kost, word>> /\ lost \subseteq lost'
    BY <1>4 DEF RoomStep, ReadRoom, ReadDeleted, Start, SaveRoom, CountContracts, DeleteRoom,
                Abort, LostWith, tables, history
  <2>2. ASSUME NEW g \in Handlers PROVE req'[g] = req[g] \/ req'[g].op # "decide"
    <3>1. CASE SaveRoom(h) \/ DeleteRoom(h) \/ Abort(h)
      BY <3>1, DoneReq DEF SaveRoom, DeleteRoom, Abort
    <3>2. CASE CountContracts(h)
      BY <3>2, CountReq
    <3>3. ASSUME NEW r \in Rooms, ReadRoom(h, r) PROVE req'[g] = req[g] \/ req'[g].op # "decide"
      <4>1. PICK to \in RoomStatus :
                Start(h, [op |-> "update", of |-> r, seen |-> room[r], to |-> to])
        BY <3>3 DEF ReadRoom
      <4> DEFINE job == [op |-> "update", of |-> r, seen |-> room[r], to |-> to]
      <4>2. req'[g] = req[g] \/ req'[g] = job
        BY <4>1, StartReq
      <4> QED
        BY <4>2
    <3>4. ASSUME NEW r \in Rooms, ReadDeleted(h, r)
          PROVE  req'[g] = req[g] \/ req'[g].op # "decide"
      <4> DEFINE job == [op |-> "delete", of |-> r, seen |-> room[r], counted |-> FALSE]
      <4>1. req'[g] = req[g] \/ req'[g] = job
        BY <3>4, StartReq DEF ReadDeleted
      <4> QED
        BY <4>1
    <3> QED
      BY <1>4, <3>1, <3>2, <3>3, <3>4 DEF RoomStep
  <2> QED
    BY <2>1, <2>2, SurveysFramed
<1>5. ASSUME NEW b \in Bookings, BookingStep(b) PROVE SurveysSound'
  BY <1>5, SurveysFramed
  DEF BookingStep, Book, MarkProcessing, Lapse, Approve, EndContract, history
<1>6. ASSUME NEW r \in Rooms, CreateRoom(r) PROVE SurveysSound'
  BY <1>6, SurveysFramed DEF CreateRoom, history
<1>7. CASE UNCHANGED vars
  BY <1>7, SurveysFramed DEF vars
<1> QED
  BY <1>1, <1>2, <1>3, <1>4, <1>5, <1>6, <1>7,
     SurveysKeptBySave, SurveysKeptByDrop, SurveysKeptByRead, SurveysKeptByDecide
  DEF Next, KostStep, SurveyStep, CreateKost, AdminCreateKost

LEMMA InitSurveys == ASSUME Init PROVE SurveysSound
<1>1. \A k \in Kosts, a \in Surveys : word[k].by # a
  BY PremisesAssumption DEF Init
<1>2. \A h \in Handlers : req[h].op # "decide"
  BY DEF Init, Idle
<1> QED
  BY <1>1, <1>2 DEF SurveysSound, SurveyAgrees, Deciding

\* The survey that had the last word on a kost and the row of the kost agree,
\* even where two technicians, or one twice, decided it at once.
THEOREM SurveyAgreesCorrect == Spec => []SurveyAgrees
<1>1. SurveysSound => SurveyAgrees
  BY DEF SurveysSound
<1> QED
  BY <1>1, InitTypes, TypesKept, InitSurveys, SurveysKept, PTL DEF Spec

---------------------------------------------------------------------------
(* What the pages expect of kosts and surveys.  A kost that is to be       *)
(* dropped was there, and a survey that is decided was open as it was read. *)

ReadersSound ==
    \A h \in Handlers :
        /\ req[h].op = "drop" => kost[req[h].of] # Absent
        /\ req[h].op = "decide" => req[h].seen.status = "open"

\* A kost that was there is there or gone.
LEMMA KostsStay ==
    ASSUME TypeOK, [Next]_vars, NEW k \in Kosts, kost[k] # Absent
    PROVE  kost'[k] # Absent
<1>1. \A row \in KostRow : row # Absent
  BY DEF KostRow, Absent
<1>2. Gone # Absent
  BY DEF Gone, Absent
<1>3. ASSUME NEW j \in Kosts, NEW status \in {"pending", "verified"}, Insert(j, status)
      PROVE  kost'[k] = kost[k]
  BY <1>3 DEF Insert, TypeOK
<1>4. ASSUME NEW h \in Handlers, SaveKost(h) PROVE kost'[k] # Absent
  <2>1. req[h] \in KostJob /\ req[h].op \in KostOps
    BY <1>4, JobOfOp DEF SaveKost, TypeOK, AnyJob
  <2>2. PICK op \in KostOps, j \in Kosts, seen \in KostRow :
           op = req[h].op /\ j = req[h].of /\ seen = req[h].seen
    BY <2>1 DEF KostJob
  <2>3. kost' = [kost EXCEPT ![j] = Stored(j, Changed(op, seen))]
    BY <1>4, <2>2 DEF SaveKost
  <2>4. Stored(j, Changed(op, seen)) \in KostRow
    BY ChangedRow, StoredRow
  <2> QED
    BY <1>1, <2>3, <2>4 DEF TypeOK
<1>5. ASSUME NEW h \in Handlers, DropKost(h) PROVE kost'[k] # Absent
  BY <1>2, <1>5 DEF DropKost, TypeOK
<1>6. ASSUME NEW h \in Handlers, Decide(h) PROVE kost'[k] # Absent
  <2>1. req[h] \in DecideJob
    BY <1>6, JobOfOp DEF Decide, TypeOK, AnyJob
  <2>2. PICK j \in Kosts, says \in Verdicts, with \in KostRow :
           j = req[h].seen.kost /\ says = req[h].says /\ with = req[h].with
    BY <2>1 DEF DecideJob, SurveyRow
  <2>3. PICK row \in KostRow :
           row = IF Present(kost[j]) THEN kost[j] ELSE [with EXCEPT !.active = TRUE]
    BY JudgedOf
  <2>4. kost' = [kost EXCEPT ![j] = Judged(says, row)]
    BY <1>6, <2>2, <2>3 DEF Decide
  <2>5. Judged(says, row) \in KostRow
    BY JudgedRow
  <2> QED
    BY <1>1, <2>4, <2>5 DEF TypeOK
<1>7. CASE kost' = kost
  BY <1>7
<1> QED
  BY <1>3, <1>4, <1>5, <1>6, <1>7
  DEF Next, CreateKost, AdminCreateKost, AssignTech, CreateRoom, KostStep, SurveyStep, RoomStep,
      ReadKost, ReadSurvey, ReadRoom, SaveRoom, ReadDeleted, CountContracts, DeleteRoom, Abort,
      Start, BookingStep, Book, MarkProcessing, Lapse, Approve, EndContract, tables, vars

\* What a handler may have in hand next.
LEMMA ReadersKept == ASSUME TypeOK, ReadersSound, [Next]_vars PROVE ReadersSound'
<1> DEFINE Fine(g) == req'[g] = req[g] \/ req'[g].op \notin {"drop", "decide"}
                      \/ (req'[g].op = "drop" /\ req'[g].of \in Kosts /\ kost[req'[g].of] # Absent)
                      \/ (req'[g].op = "decide" /\ req'[g].seen.status = "open")
<1>1. ASSUME NEW g \in Handlers, NEW h \in Handlers, NEW k \in Kosts,
             NEW op \in KostOps \cup {"drop"}, ReadKost(h, op, k)
      PROVE  Fine(g)
  <2> DEFINE job == [op |-> op, of |-> k, seen |-> kost[k]]
  <2>1. req'[g] = req[g] \/ req'[g] = job
    BY <1>1, StartReq DEF ReadKost
  <2>2. kost[k] # Absent
    BY <1>1, RowsPresent DEF ReadKost
  <2> QED
    BY <2>1, <2>2 DEF KostOps
<1>2. ASSUME NEW g \in Handlers, NEW h \in Handlers, NEW a \in Surveys, NEW says \in Verdicts,
             ReadSurvey(h, a, says)
      PROVE  Fine(g)
  <2> DEFINE job == [op |-> "decide", of |-> a, seen |-> survey[a], says |-> says,
                     with |-> kost[survey[a].kost]]
  <2>1. req'[g] = req[g] \/ req'[g] = job
    BY <1>2, StartReq DEF ReadSurvey
  <2> QED
    BY <1>2, <2>1 DEF ReadSurvey
<1>3. ASSUME NEW g \in Handlers, NEW h \in Handlers, NEW r \in Rooms,
             ReadRoom(h, r) \/ ReadDeleted(h, r)
      PROVE  Fine(g)
  <2>1. CASE ReadRoom(h, r)
    <3>1. PICK to \in RoomStatus :
              Start(h, [op |-> "update", of |-> r, seen |-> room[r], to |-> to])
      BY <2>1 DEF ReadRoom
    <3> DEFINE job == [op |-> "update", of |-> r, seen |-> room[r], to |-> to]
    <3>2. req'[g] = req[g] \/ req'[g] = job
      BY <3>1, StartReq
    <3> QED
      BY <3>2
  <2>2. CASE ReadDeleted(h, r)
    <3> DEFINE job == [op |-> "delete", of |-> r, seen |-> room[r], counted |-> FALSE]
    <3>1. req'[g] = req[g] \/ req'[g] = job
      BY <2>2, StartReq DEF ReadDeleted
    <3> QED
      BY <3>1
  <2> QED
    BY <1>3, <2>1, <2>2
<1>4. ASSUME NEW g \in Handlers, NEW h \in Handlers, CountContracts(h) PROVE Fine(g)
  BY <1>4, CountReq
<1>5. ASSUME NEW g \in Handlers, NEW h \in Handlers,
             SaveKost(h) \/ DropKost(h) \/ Decide(h) \/ SaveRoom(h) \/ DeleteRoom(h) \/ Abort(h)
      PROVE  Fine(g)
  BY <1>5, DoneReq DEF SaveKost, DropKost, Decide, SaveRoom, DeleteRoom, Abort
<1>6. \A g \in Handlers : Fine(g)
  <2> HIDE DEF Fine
  <2>1. ASSUME NEW g \in Handlers, req' = req PROVE Fine(g)
    BY <2>1 DEF Fine
  <2> QED
    BY <1>1, <1>2, <1>3, <1>4, <1>5, <2>1
    DEF Next, CreateKost, AdminCreateKost, Insert, AssignTech, CreateRoom, KostStep, SurveyStep,
        RoomStep, BookingStep, Book, MarkProcessing, Lapse, Approve, EndContract, vars
<1>7. ASSUME NEW g \in Handlers
      PROVE  /\ req'[g].op = "drop" => kost'[req'[g].of] # Absent
             /\ req'[g].op = "decide" => req'[g].seen.status = "open"
  <2>1. req[g].op = "drop" => req[g].of \in Kosts /\ kost[req[g].of] # Absent
    BY JobOfOp DEF ReadersSound, TypeOK, AnyJob, KostJob
  <2>2. req[g].op = "decide" => req[g].seen.status = "open"
    BY DEF ReadersSound
  <2>3. \A k \in Kosts : kost[k] # Absent => kost'[k] # Absent
    BY KostsStay
  <2> QED
    BY <1>6, <2>1, <2>2, <2>3
<1> QED
  BY <1>7 DEF ReadersSound

LEMMA InitReaders == ASSUME Init PROVE ReadersSound
  BY DEF Init, ReadersSound, Idle

LEMMA MoveIs ==
    ASSUME NEW moves, NEW m \in DOMAIN moves, NEW t, NEW from, NEW to,
           moves[m].of = t, from \in DOMAIN moves[m].step, to \in moves[m].step[from]
    PROVE  Desk!Foreseen(moves, t, from, to)
  BY DEF Desk!Foreseen

LEMMA MoveStays ==
    ASSUME NEW moves, NEW t, NEW from
    PROVE  Desk!Foreseen(moves, t, from, from)
  BY DEF Desk!Foreseen

\* The moves of kosts.
LEMMA KostMovesAre ==
    /\ \A s \in {"pending", "verified"} : Desk!Foreseen(Desk!KostMoves, "kosts", "absent", s)
    /\ \A s \in {"pending", "verified", "rejected"} :
          /\ Desk!Foreseen(Desk!KostMoves, "kosts", s, "inactive")
          /\ Desk!Foreseen(Desk!KostMoves, "kosts", "inactive", s)
          /\ Desk!Foreseen(Desk!SurveyMoves, "kosts", s, "verified")
          /\ Desk!Foreseen(Desk!SurveyMoves, "kosts", s, "rejected")
    /\ \A s \in {"pending", "verified", "rejected", "inactive"} :
          Desk!Foreseen(Desk!KostMoves, "kosts", s, "gone")
<1> DEFINE K == Desk!KostMoves
           S == Desk!SurveyMoves
           Shown == {"pending", "verified", "rejected", "inactive"}
<1>1. Desk!Present("kosts") = Shown
  BY DEF Desk!Present, Desk!Statuses
<1>2. /\ {"createKost", "adminCreateKost", "activate", "deactivate", "deleteKost"} \subseteq DOMAIN K
      /\ K["createKost"] = [of |-> "kosts", step |-> Desk!Becomes({"absent"}, "pending")]
      /\ K["adminCreateKost"] = [of |-> "kosts", step |-> Desk!Becomes({"absent"}, "verified")]
      /\ K["activate"] = [of |-> "kosts", step |->
            [s \in Shown |-> IF s = "inactive" THEN {"pending", "verified", "rejected"} ELSE {s}]]
      /\ K["deactivate"] = [of |-> "kosts", step |-> Desk!Becomes(Shown, "inactive")]
      /\ K["deleteKost"] = [of |-> "kosts", step |-> Desk!Becomes(Shown, "gone")]
  BY <1>1 DEF Desk!KostMoves
<1>3. /\ "judge" \in DOMAIN S
      /\ S["judge"] = [of |-> "kosts", step |->
            [s \in Shown |-> IF s = "inactive" THEN {s} ELSE {"verified", "rejected"}]]
  BY <1>1 DEF Desk!SurveyMoves
<1> HIDE DEF K, S
<1>4. ASSUME NEW m \in DOMAIN K, NEW T, NEW s \in T, NEW to,
             K[m] = [of |-> "kosts", step |-> Desk!Becomes(T, to)]
      PROVE  Desk!Foreseen(K, "kosts", s, to)
  <2>1. K[m].of = "kosts" /\ s \in DOMAIN K[m].step /\ to \in K[m].step[s]
    BY <1>4 DEF Desk!Becomes
  <2> QED
    BY <2>1, MoveIs
<1>5. \A s \in {"pending", "verified"} : Desk!Foreseen(K, "kosts", "absent", s)
  BY <1>2, <1>4
<1>6. \A s \in Shown : Desk!Foreseen(K, "kosts", s, "gone") /\ Desk!Foreseen(K, "kosts", s, "inactive")
  BY <1>2, <1>4
<1>7. ASSUME NEW s \in {"pending", "verified", "rejected"}
      PROVE  Desk!Foreseen(K, "kosts", "inactive", s)
  <2>1. /\ K["activate"].of = "kosts" /\ "inactive" \in DOMAIN K["activate"].step
        /\ s \in K["activate"].step["inactive"]
    BY <1>2
  <2> QED
    BY <1>2, <2>1, MoveIs
<1>8. ASSUME NEW s \in {"pending", "verified", "rejected"}, NEW to \in {"verified", "rejected"}
      PROVE  Desk!Foreseen(S, "kosts", s, to)
  <2>1. /\ S["judge"].of = "kosts" /\ s \in DOMAIN S["judge"].step
        /\ to \in S["judge"].step[s]
    BY <1>3
  <2> QED
    BY <1>3, <2>1, MoveIs
<1> QED
  BY <1>5, <1>6, <1>7, <1>8 DEF K, S

\* The moves of surveys.
LEMMA SurveyMovesAre ==
    /\ Desk!Foreseen(Desk!SurveyMoves, "assignments", "absent", "assigned")
    /\ \A s \in Verdicts : Desk!Foreseen(Desk!SurveyMoves, "assignments", "assigned", s)
<1> DEFINE S == Desk!SurveyMoves
<1>1. /\ "absent" \in Desk!Statuses.assignments
      /\ {"assign", "decide"} \subseteq DOMAIN S
      /\ S["assign"] = [of |-> "assignments", step |->
            [s \in Desk!Statuses.assignments |-> {"assigned", "surveying"}]]
      /\ S["decide"] = [of |-> "assignments", step |->
            [s \in {"assigned", "surveying"} |-> {"approved", "rejected"}]]
  BY DEF Desk!SurveyMoves, Desk!Statuses
<1> HIDE DEF S
<1>2. Desk!Foreseen(S, "assignments", "absent", "assigned")
  <2>1. /\ S["assign"].of = "assignments" /\ "absent" \in DOMAIN S["assign"].step
        /\ "assigned" \in S["assign"].step["absent"]
    BY <1>1
  <2> QED
    BY <1>1, <2>1, MoveIs
<1>3. ASSUME NEW s \in Verdicts PROVE Desk!Foreseen(S, "assignments", "assigned", s)
  <2>1. /\ S["decide"].of = "assignments" /\ "assigned" \in DOMAIN S["decide"].step
        /\ s \in S["decide"].step["assigned"]
    BY <1>1 DEF Verdicts
  <2> QED
    BY <1>1, <2>1, MoveIs
<1> QED
  BY <1>2, <1>3 DEF S

LEMMA ShownIs ==
    /\ \A row \in KostRow : /\ row.active => ShownKost(row) = row.status
                            /\ ~row.active => ShownKost(row) = "inactive"
    /\ ShownKost(Absent) = "absent" /\ ShownKost(Gone) = "gone"
<1>1. Absent \notin KostRow /\ Gone \notin KostRow
  BY RowsPresent
<1> QED
  BY <1>1 DEF ShownKost, Absent, Gone

LEMMA KostStays ==
    ASSUME NEW k \in Kosts, kost'[k] = kost[k]
    PROVE  KostForeseen(k)
  BY MoveStays DEF KostForeseen

LEMMA SurveyStays ==
    ASSUME NEW a \in Surveys, survey'[a] = survey[a]
    PROVE  SurveyForeseen(a)
<1>1. PICK s : s \in ShownSurvey(survey[a])
  BY DEF ShownSurvey
<1>2. s \in ShownSurvey(survey'[a])
  BY <1>1
<1>3. Desk!Foreseen(Desk!SurveyMoves, "assignments", s, s)
  BY MoveStays
<1> QED
  BY <1>1, <1>2, <1>3 DEF SurveyForeseen

\* A row that is saved as it was read, but for what the save is to change.
LEMMA ChangedForeseen ==
    ASSUME NEW k \in Kosts, NEW op \in KostOps, kost[k] \in KostRow,
           kost'[k] = Changed(op, kost[k])
    PROVE  KostForeseen(k)
<1> DEFINE row == kost[k]
<1>1. row.status \in {"pending", "verified", "rejected"} /\ row.active \in BOOLEAN
  BY DEF KostRow
<1>2. kost'[k] \in KostRow
  BY ChangedRow
<1>3. CASE op = "verify" \/ op = "reject"
  <2>1. kost'[k].status \in {"verified", "rejected"} /\ kost'[k].active = row.active
    BY <1>3 DEF Changed, KostRow
  <2>2. CASE row.active = TRUE
    <3>1. ShownKost(row) = row.status /\ ShownKost(kost'[k]) = kost'[k].status
      BY <1>2, <2>1, <2>2, ShownIs
    <3> QED
      BY <1>1, <2>1, <3>1, KostMovesAre DEF KostForeseen
  <2>3. CASE row.active = FALSE
    <3>1. ShownKost(row) = "inactive" /\ ShownKost(kost'[k]) = "inactive"
      BY <1>2, <2>1, <2>3, ShownIs
    <3> QED
      BY <3>1, MoveStays DEF KostForeseen
  <2> QED
    BY <1>1, <2>2, <2>3
<1>4. CASE op = "show"
  <2>1. kost'[k].status = row.status /\ kost'[k].active = TRUE
    BY <1>4 DEF Changed, KostRow
  <2>2. ShownKost(kost'[k]) = row.status /\ ShownKost(row) \in {row.status, "inactive"}
    BY <1>1, <1>2, <2>1, ShownIs
  <2> QED
    BY <1>1, <2>2, KostMovesAre, MoveStays DEF KostForeseen
<1>5. CASE op = "hide"
  <2>1. kost'[k].active = FALSE
    BY <1>5 DEF Changed, KostRow
  <2>2. ShownKost(kost'[k]) = "inactive" /\ ShownKost(row) \in {row.status, "inactive"}
    BY <1>1, <1>2, <2>1, ShownIs
  <2> QED
    BY <1>1, <2>2, KostMovesAre, MoveStays DEF KostForeseen
<1>6. CASE op = "edit"
  BY <1>6, KostStays DEF Changed
<1> QED
  BY <1>3, <1>4, <1>5, <1>6 DEF KostOps

KostsForeseen ==
    /\ \A k \in Kosts \ lost' : KostForeseen(k)
    /\ \A a \in Surveys \ lost' : survey'[a] # Gone => SurveyForeseen(a)

LEMMA ForeseenStep == ASSUME TypeOK, ReadersSound, [Next]_vars PROVE [KostsForeseen]_vars
<1> SUFFICES ASSUME Next PROVE KostsForeseen
    OBVIOUS
<1>1. ASSUME NEW k \in Kosts, NEW status \in {"pending", "verified"}, Insert(k, status)
      PROVE  KostsForeseen
  <2>1. /\ kost[k] = Absent /\ kost'[k] = NewRow(status) /\ survey' = survey
        /\ \A j \in Kosts : j # k => kost'[j] = kost[j]
    BY <1>1 DEF Insert, TypeOK
  <2>2. /\ NewRow(status) \in KostRow
        /\ NewRow(status).active = TRUE /\ NewRow(status).status = status
    BY DEF NewRow, KostRow
  <2>3. ShownKost(kost[k]) = "absent" /\ ShownKost(kost'[k]) = status
    BY <2>1, <2>2, ShownIs
  <2>4. KostForeseen(k)
    BY <2>3, KostMovesAre DEF KostForeseen
  <2> QED
    BY <2>1, <2>4, KostStays, SurveyStays DEF KostsForeseen
<1>2. ASSUME NEW a \in Surveys, NEW k \in Kosts, AssignTech(a, k) PROVE KostsForeseen
  <2>1. /\ survey[a] = Absent /\ survey'[a].status = "open" /\ kost' = kost
        /\ \A b \in Surveys : b # a => survey'[b] = survey[b]
    BY <1>2 DEF AssignTech, TypeOK
  <2>2. "absent" \in ShownSurvey(survey[a]) /\ "assigned" \in ShownSurvey(survey'[a])
    BY <2>1 DEF ShownSurvey, Absent
  <2>3. SurveyForeseen(a)
    BY <2>2, SurveyMovesAre DEF SurveyForeseen
  <2> QED
    BY <2>1, <2>3, KostStays, SurveyStays DEF KostsForeseen
<1>3. ASSUME NEW h \in Handlers, SaveKost(h) PROVE KostsForeseen
  <2>1. req[h] \in KostJob /\ req[h].op \in KostOps
    BY <1>3, JobOfOp DEF SaveKost, TypeOK, AnyJob
  <2>2. PICK op \in KostOps, k \in Kosts, seen \in KostRow :
           op = req[h].op /\ k = req[h].of /\ seen = req[h].seen
    BY <2>1 DEF KostJob
  <2>3. /\ kost' = [kost EXCEPT ![k] = Stored(k, Changed(op, seen))]
        /\ lost' = LostWith(k, kost[k], seen)
        /\ survey' = survey
    BY <1>3, <2>2 DEF SaveKost
  <2>4. ASSUME k \notin lost' PROVE KostForeseen(k)
    <3>1. kost[k] = seen
      BY <2>3, <2>4, Losing
    <3>2. kost'[k] = Changed(op, kost[k])
      BY <2>3, <3>1, RowsPresent DEF Stored, TypeOK
    <3> QED
      BY <3>1, <3>2, ChangedForeseen
  <2>5. \A j \in Kosts : j # k => kost'[j] = kost[j]
    BY <2>3 DEF TypeOK
  <2> QED
    BY <2>3, <2>4, <2>5, KostStays, SurveyStays DEF KostsForeseen
<1>4. ASSUME NEW h \in Handlers, DropKost(h) PROVE KostsForeseen
  <2>1. PICK k \in Kosts : k = req[h].of
    BY <1>4, JobOfOp DEF DropKost, TypeOK, AnyJob, KostJob
  <2>2. /\ kost'[k] = Gone /\ kost[k] \in KostRow \cup {Gone}
        /\ \A j \in Kosts : j # k => kost'[j] = kost[j]
        /\ \A a \in Surveys : survey'[a] \in {survey[a], Gone}
    BY <1>4, <2>1 DEF DropKost, TypeOK, ReadersSound
  <2>3. ShownKost(kost[k]) \in {"pending", "verified", "rejected", "inactive", "gone"}
    <3>1. CASE kost[k] = Gone
      BY <3>1, ShownIs
    <3>2. CASE kost[k] \in KostRow
      <4>1. kost[k].status \in {"pending", "verified", "rejected"} /\ kost[k].active \in BOOLEAN
        BY <3>2 DEF KostRow
      <4> QED
        BY <3>2, <4>1, ShownIs
    <3> QED
      BY <2>2, <3>1, <3>2
  <2>4. ShownKost(kost'[k]) = "gone"
    BY <2>2, ShownIs
  <2>5. KostForeseen(k)
    BY <2>3, <2>4, KostMovesAre, MoveStays DEF KostForeseen
  <2> QED
    BY <2>2, <2>5, KostStays, SurveyStays DEF KostsForeseen
<1>5. ASSUME NEW h \in Handlers, Decide(h) PROVE KostsForeseen
  <2>1. req[h] \in DecideJob
    BY <1>5, JobOfOp DEF Decide, TypeOK, AnyJob
  <2>2. PICK a \in Surveys, seen \in SurveyRow, says \in Verdicts, with \in KostRow :
           a = req[h].of /\ seen = req[h].seen /\ says = req[h].says /\ with = req[h].with
    BY <2>1 DEF DecideJob
  <2>3. PICK k \in Kosts : k = seen.kost
    BY DEF SurveyRow
  <2>4. /\ survey'[a].status = says
        /\ \A b \in Surveys : b # a => survey'[b] = survey[b]
        /\ \A j \in Kosts : j # k => kost'[j] = kost[j]
        /\ lost' = LostWith(a, survey[a], seen) \cup (IF Present(kost[k]) THEN {} ELSE {k})
    BY <1>5, <2>2, <2>3 DEF Decide, TypeOK
  <2>5. ASSUME a \notin lost' PROVE SurveyForeseen(a)
    <3>1. survey[a].status = "open"
      BY <1>5, <2>2, <2>4, <2>5, Losing DEF Decide, ReadersSound
    <3>2. "assigned" \in ShownSurvey(survey[a]) /\ says \in ShownSurvey(survey'[a])
      BY <2>4, <3>1 DEF ShownSurvey, Verdicts
    <3> QED
      BY <3>2, SurveyMovesAre DEF SurveyForeseen
  <2>6. ASSUME k \notin lost' PROVE KostForeseen(k)
    <3>1. Present(kost[k]) /\ kost[k] \in KostRow
      BY <2>4, <2>6, PresentRow
    <3>2. kost'[k] = Judged(says, kost[k])
      BY <1>5, <2>2, <2>3, <3>1 DEF Decide, TypeOK
    <3>3. /\ kost'[k] \in KostRow /\ kost'[k].active = kost[k].active
          /\ kost'[k].status \in {"verified", "rejected"}
      BY <3>1, <3>2, JudgedRow
    <3>4. kost[k].status \in {"pending", "verified", "rejected"} /\ kost[k].active \in BOOLEAN
      BY <3>1 DEF KostRow
    <3>5. CASE kost[k].active = TRUE
      <4>1. ShownKost(kost[k]) = kost[k].status /\ ShownKost(kost'[k]) = kost'[k].status
        BY <3>1, <3>3, <3>5, ShownIs
      <4> QED
        BY <3>3, <3>4, <4>1, KostMovesAre DEF KostForeseen
    <3>6. CASE kost[k].active = FALSE
      <4>1. ShownKost(kost[k]) = "inactive" /\ ShownKost(kost'[k]) = "inactive"
        BY <3>1, <3>3, <3>6, ShownIs
      <4> QED
        BY <4>1, MoveStays DEF KostForeseen
    <3> QED
      BY <3>4, <3>5, <3>6
  <2> QED
    BY <2>4, <2>5, <2>6, KostStays, SurveyStays DEF KostsForeseen
<1>6. CASE kost' = kost /\ survey' = survey
  BY <1>6, KostStays, SurveyStays DEF KostsForeseen
<1> QED
  BY <1>1, <1>2, <1>3, <1>4, <1>5, <1>6
  DEF Next, CreateKost, AdminCreateKost, CreateRoom, KostStep, SurveyStep, RoomStep,
      ReadKost, ReadSurvey, ReadRoom, SaveRoom, ReadDeleted, CountContracts, DeleteRoom, Abort,
      Start, BookingStep, Book, MarkProcessing, Lapse, Approve, EndContract, tables

\* The tables the pages work with are right of kosts and surveys: with any
\* number of requests that overlap in any way, a kost or a survey changes its
\* status only by a move of Pages, or by a save over a change nobody had read.
THEOREM KostMovesCorrect == Spec => KostMovesForeseen
<1>1. TypeOK /\ ReadersSound /\ [Next]_vars => [KostsForeseen]_vars
  BY ForeseenStep
<1>2. [KostsForeseen]_vars
        => [/\ \A k \in Kosts \ lost' : KostForeseen(k)
            /\ \A a \in Surveys \ lost' : survey'[a] # Gone => SurveyForeseen(a)]_vars
  BY DEF KostsForeseen
<1> QED
  BY <1>1, <1>2, InitTypes, TypesKept, InitReaders, ReadersKept, PTL DEF Spec, KostMovesForeseen

=============================================================================
