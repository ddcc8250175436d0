----------------------------- MODULE DeskProofs ------------------------------
(***************************************************************************)
(* Proofs about a page before a user, for all pages of the frontend, and   *)
(* any filters and numbers of requests: whoever has nothing pending sees   *)
(* what he did, what is offered is accepted, a decision is carried out     *)
(* only on a row it is offered for, and the state keeps its types.         *)
(***************************************************************************)
EXTENDS PageDesk, FiniteSetTheorems, TLAPS

\* What the tables of module Pages have to give: each mutation a page offers
\* invalidates each query the page has on the table that is written.
DropsOwn ==
    \A v \in Visits : \A o \in v.page.offers : \A q \in WatchedBy(v.page) :
        v.viewer \in q.asked /\ q.of = Touches(o) => q.key \in o.by.drops

RequestRecord ==
    [at : {"sent", "done", "refused"}, by : {o.by : o \in page.offers}, offer : page.offers,
     seen : BOOLEAN, mark : Nat]

\* The shape of the state.
Shape ==
    /\ visit \in Visits
    /\ chosen = [k \in Keys |-> chosen[k]]
    /\ own \in [TablesUsed -> Nat]
    /\ acked \in [TablesUsed -> Nat]
    /\ cache = [e \in Entries |-> cache[e]]
    /\ fetch = [e \in Entries |-> fetch[e]]
    /\ dialog \in page.offers \cup {NoDialog}
    /\ request \in [Slots -> RequestRecord \cup {NoRequest}]
    /\ \A e \in Entries : cache[e].own \in Nat /\ fetch[e].at \in {"idle", "sent", "back"}
    /\ \A e \in Entries : fetch[e].at = "back" => fetch[e].got.own \in Nat
    /\ \A e \in Entries : fetch[e].at = "idle" => fetch[e] = Idle

\* An answer is about what has happened.
AnswersSound ==
    /\ \A t \in TablesUsed : acked[t] <= own[t]
    /\ \A s \in Slots : request[s].at = "done" =>
            request[s].mark <= own[Touches(request[s].offer)]

\* What is shown, and what is on its way back, has the own changes that were
\* answered.
FreshEnough ==
    \A e \in Entries : Visible(e) /\ e \notin excused =>
        /\ fetch[e].at = "idle" => cache[e].own >= acked[QueryOf(e).of]
        /\ fetch[e].at = "back" => fetch[e].got.own >= acked[QueryOf(e).of]

DeskInv == Shape /\ AnswersSound /\ FreshEnough

---------------------------------------------------------------------------
(* What the tables of module Pages say: whatever a page offers is a request *)
(* about the row it is offered on, or leaves that row as it is, and the     *)
(* mutation behind it drops all that the page reads of the table it writes. *)

\* One offer.  Its request changes the row only from where it is offered
\* (not so assign), and is accepted where it is offered (not so the known
\* exceptions).
OfferSound(o) ==
    /\ \/ o.by.does = "assign"
       \/ /\ Touches(o) = o.of
          /\ \A s \in DOMAIN Moves[o.by.does].step :
                s \in o.at \/ Moves[o.by.does].step[s] = {s}
    /\ \/ o.by.does \in KnownRefused
       \/ Touches(o) = o.of /\ o.at \subseteq DOMAIN Moves[o.by.does].step
       \/ DOMAIN Moves[o.by.does].step = Statuses[Touches(o)]

PageSound(p) ==
    /\ \A o \in p.offers : OfferSound(o)
    /\ \A o \in p.offers : \A q \in p.reads : q.of = Touches(o) => q.key \in o.by.drops

\* A move leads from statuses of its table to statuses of its table.
MoveTyped(m) ==
    /\ m.of \in Tables
    /\ \A s \in DOMAIN m.step : s \in Statuses[m.of] /\ m.step[s] \subseteq Statuses[m.of]

\* Records with no field in common, put together.
LEMMA MergedIs ==
    ASSUME NEW f, NEW g, DOMAIN f \cap DOMAIN g = {}
    PROVE  /\ \A x \in DOMAIN f : Merged(f, g)[x] = f[x]
           /\ \A x \in DOMAIN g : Merged(f, g)[x] = g[x]
           /\ DOMAIN Merged(f, g) = DOMAIN f \cup DOMAIN g
  BY DEF Merged

\* The moves of each table.
LEMMA Domains ==
    /\ DOMAIN BookingMoves =
         {"process", "approve", "reject", "cancel", "expire", "request", "sign", "end"}
    /\ DOMAIN RoomMoves =
         {"book", "release", "let", "addRoom", "maintain", "reopen", "deleteRoom"}
    /\ DOMAIN KostMoves =
         {"createKost", "adminCreateKost", "updateKost", "activate", "deactivate", "deleteKost"}
    /\ DOMAIN SurveyMoves = {"assign", "decide", "judge", "schedule", "removeEvent"}
    /\ DOMAIN UserMoves =
         {"createUser", "setRole", "enable", "disable", "deleteUser", "notify", "updateMe",
          "markRead"}
  BY DEF BookingMoves, RoomMoves, KostMoves, SurveyMoves, UserMoves

\* No move of one table is taken for one of another.
LEMMA MovesAre ==
    /\ DOMAIN Moves = DOMAIN BookingMoves \cup DOMAIN RoomMoves \cup DOMAIN KostMoves
                        \cup DOMAIN SurveyMoves \cup DOMAIN UserMoves
    /\ \A x \in DOMAIN BookingMoves : Moves[x] = BookingMoves[x]
    /\ \A x \in DOMAIN RoomMoves : Moves[x] = RoomMoves[x]
    /\ \A x \in DOMAIN KostMoves : Moves[x] = KostMoves[x]
    /\ \A x \in DOMAIN SurveyMoves : Moves[x] = SurveyMoves[x]
    /\ \A x \in DOMAIN UserMoves : Moves[x] = UserMoves[x]
<1> DEFINE a == Merged(SurveyMoves, UserMoves)
           b == Merged(KostMoves, a)
           c == Merged(RoomMoves, b)
<1>1. /\ DOMAIN a = DOMAIN SurveyMoves \cup DOMAIN UserMoves
      /\ \A x \in DOMAIN SurveyMoves : a[x] = SurveyMoves[x]
      /\ \A x \in DOMAIN UserMoves : a[x] = UserMoves[x]
  <2>1. DOMAIN SurveyMoves \cap DOMAIN UserMoves = {}
    BY Domains
  <2> QED
    BY <2>1, MergedIs
<1>2. /\ DOMAIN b = DOMAIN KostMoves \cup DOMAIN a
      /\ \A x \in DOMAIN KostMoves : b[x] = KostMoves[x]
      /\ \A x \in DOMAIN a : b[x] = a[x]
  <2> HIDE DEF a
  <2>1. DOMAIN KostMoves \cap DOMAIN a = {}
    BY <1>1, Domains
  <2> QED
    BY <2>1, MergedIs
<1>3. /\ DOMAIN c = DOMAIN RoomMoves \cup DOMAIN b
      /\ \A x \in DOMAIN RoomMoves : c[x] = RoomMoves[x]
      /\ \A x \in DOMAIN b : c[x] = b[x]
  <2> HIDE DEF a, b
  <2>1. DOMAIN RoomMoves \cap DOMAIN b = {}
    BY <1>1, <1>2, Domains
  <2> QED
    BY <2>1, MergedIs
<1>4. /\ DOMAIN Moves = DOMAIN BookingMoves \cup DOMAIN c
      /\ \A x \in DOMAIN BookingMoves : Moves[x] = BookingMoves[x]
      /\ \A x \in DOMAIN c : Moves[x] = c[x]
  <2>1. Moves = Merged(BookingMoves, c)
    BY DEF Moves
  <2> HIDE DEF a, b, c
  <2>2. DOMAIN BookingMoves \cap DOMAIN c = {}
    <3>1. /\ DOMAIN BookingMoves \cap DOMAIN RoomMoves = {}
          /\ DOMAIN BookingMoves \cap DOMAIN KostMoves = {}
          /\ DOMAIN BookingMoves \cap DOMAIN SurveyMoves = {}
          /\ DOMAIN BookingMoves \cap DOMAIN UserMoves = {}
      BY Domains
    <3> QED
      BY <1>1, <1>2, <1>3, <3>1
  <2> DEFINE d == Merged(BookingMoves, c)
  <2>3. /\ DOMAIN d = DOMAIN BookingMoves \cup DOMAIN c
        /\ \A x \in DOMAIN BookingMoves : d[x] = BookingMoves[x]
        /\ \A x \in DOMAIN c : d[x] = c[x]
    BY <2>2, MergedIs
  <2>4. Moves = d
    BY <2>1
  <2> HIDE DEF d
  <2> QED
    BY <2>3, <2>4
<1> HIDE DEF a, b, c
<1> QED
  BY <1>1, <1>2, <1>3, <1>4

\* Moves to one status, and moves that leave the status.
LEMMA BecomesIs ==
    ASSUME NEW S, NEW s
    PROVE  DOMAIN Becomes(S, s) = S /\ \A r \in S : Becomes(S, s)[r] = {s}
  BY DEF Becomes

LEMMA KeepsIs ==
    ASSUME NEW t
    PROVE  DOMAIN Keeps(t) = Present(t) /\ \A r \in Present(t) : Keeps(t)[r] = {r}
  BY DEF Keeps

LEMMA Presents ==
    /\ Present("rooms") = {"available", "reserved", "occupied", "maintenance"}
    /\ Present("kosts") = {"pending", "verified", "rejected", "inactive"}
    /\ Present("assignments") = {"assigned", "surveying", "approved", "rejected"}
    /\ Present("users") = {"active", "disabled"}
    /\ Present("notifications") = {"unread", "read"}
  BY DEF Present, Statuses

\* The moves that pages offer, table by table.
LEMMA BookingMovesAre ==
    /\ Moves["process"] = [of |-> "bookings", step |-> Becomes({"pending"}, "processing")]
    /\ Moves["approve"] =
         [of |-> "bookings", step |-> Becomes({"pending", "processing"}, "approved")]
    /\ Moves["reject"] = [of |-> "bookings", step |-> Becomes({"pending"}, "rejected")]
    /\ Moves["cancel"] = [of |-> "bookings", step |-> Becomes({"pending"}, "cancelled")]
    /\ Moves["end"] = [of |-> "contracts", step |-> Becomes({"active"}, "ended")]
  BY MovesAre, Domains DEF BookingMoves

LEMMA RoomMovesAre ==
    /\ Moves["book"] = [of |-> "rooms", step |-> Becomes({"available"}, "reserved")]
    /\ Moves["addRoom"] = [of |-> "rooms", step |-> Becomes({"absent"}, "available")]
    /\ Moves["deleteRoom"] = [of |-> "rooms", step |-> Becomes({"available"}, "gone")]
  BY MovesAre, Domains DEF RoomMoves

LEMMA KostMovesAre ==
    /\ Moves["createKost"] = [of |-> "kosts", step |-> Becomes({"absent"}, "pending")]
    /\ Moves["adminCreateKost"] = [of |-> "kosts", step |-> Becomes({"absent"}, "verified")]
    /\ Moves["updateKost"] = [of |-> "kosts", step |-> Keeps("kosts")]
    /\ Moves["activate"] = [of |-> "kosts", step |->
         [s \in Present("kosts") |->
             IF s = "inactive" THEN {"pending", "verified", "rejected"} ELSE {s}]]
    /\ Moves["deactivate"] = [of |-> "kosts", step |-> Becomes(Present("kosts"), "inactive")]
    /\ Moves["deleteKost"] = [of |-> "kosts", step |-> Becomes(Present("kosts"), "gone")]
  BY MovesAre, Domains DEF KostMoves

LEMMA SurveyMovesAre ==
    /\ Moves["assign"] = [of |-> "assignments", step |->
         [s \in Statuses.assignments |-> {"assigned", "surveying"}]]
    /\ Moves["decide"] = [of |-> "assignments", step |->
         [s \in {"assigned", "surveying"} |-> {"approved", "rejected"}]]
    /\ Moves["schedule"] = [of |-> "events", step |-> Becomes({"absent"}, "scheduled")]
    /\ Moves["removeEvent"] = [of |-> "events", step |-> Becomes({"scheduled"}, "gone")]
  BY MovesAre, Domains DEF SurveyMoves

LEMMA UserMovesAre ==
    /\ Moves["createUser"] = [of |-> "users", step |-> Becomes({"absent"}, "active")]
    /\ Moves["setRole"] = [of |-> "users", step |-> Keeps("users")]
    /\ Moves["enable"] = [of |-> "users", step |-> Becomes(Present("users"), "active")]
    /\ Moves["disable"] = [of |-> "users", step |-> Becomes(Present("users"), "disabled")]
    /\ Moves["deleteUser"] = [of |-> "users", step |-> Becomes(Present("users"), "gone")]
    /\ Moves["updateMe"] = [of |-> "users", step |-> Keeps("users")]
    /\ Moves["markRead"] =
         [of |-> "notifications", step |-> Becomes(Present("notifications"), "read")]
  BY MovesAre, Domains DEF UserMoves

\* Page by page.
LEMMA BookingsSound == PageSound(BookingsPage)
  BY BookingMovesAre, BecomesIs DEF PageSound, OfferSound, Touches, KnownRefused,
     BookingsPage, Page, Offer, Mutation, processMut, approveMut, rejectMut,
     OwnerBookings, Keyed, Query

LEMMA ContractsSound == PageSound(ContractsPage)
  BY BookingMovesAre, BecomesIs DEF PageSound, OfferSound, Touches, KnownRefused,
     ContractsPage, Page, Offer, Mutation, endMut, OwnerContracts, Keyed, Query

LEMMA MyBookingsSound == PageSound(MyBookingsPage)
  BY BookingMovesAre, BecomesIs DEF PageSound, OfferSound, Touches, KnownRefused,
     MyBookingsPage, Page, Offer, Mutation, cancelMut, MyBookings, Keyed, Query

LEMMA KostSound == PageSound(KostPage) /\ PageSound(RoomPage)
<1>1. PageSound(KostPage)
  BY RoomMovesAre, BecomesIs DEF PageSound, OfferSound, Touches, KnownRefused,
     KostPage, Page, Offer, Mutation, bookMut, KostDetail, BookOffer, OnlyFor, Keyed, Query
<1>2. PageSound(RoomPage)
  BY RoomMovesAre, BecomesIs DEF PageSound, OfferSound, Touches, KnownRefused,
     RoomPage, Page, Offer, Mutation, bookMut, KostDetail, BookOffer, OnlyFor, Keyed, Query
<1>3. QED
  BY <1>1, <1>2

LEMMA KostEditSound == PageSound(KostEditPage)
  BY Presents, RoomMovesAre, KostMovesAre, KeepsIs, BecomesIs DEF PageSound, OfferSound,
     Touches, KnownRefused, KostEditPage, Page, Offer, Mutation, updateMut, createRoomMut,
     deleteRoomMut, OwnerKost, OwnerRooms, Keyed, Query

LEMMA MasterKostSound == PageSound(MasterKostPage)
  BY Presents, KostMovesAre, KeepsIs, BecomesIs DEF PageSound, OfferSound, Touches,
     KnownRefused, MasterKostPage, Page, Offer, Mutation, MasterMutation, MasterKosts,
     Keyed, Query

LEMMA KostNewSound == PageSound(KostNewPage)
  BY KostMovesAre, BecomesIs DEF PageSound, OfferSound, Touches, KnownRefused,
     KostNewPage, Page, Offer, Mutation, createKostMut

LEMMA VerificationSound == PageSound(VerificationPage)
  BY SurveyMovesAre DEF PageSound, OfferSound, Touches, KnownRefused, VerificationPage,
     Page, Offer, Mutation, assignMut, AdminKosts, AdminAssignments, TeknisiList, Query

LEMMA TeknisiSound == PageSound(TeknisiPage)
  BY SurveyMovesAre DEF PageSound, OfferSound, Touches, KnownRefused, TeknisiPage, Page,
     Offer, Mutation, decideMut, TeknisiAssignments, Query

LEMMA EventsSound == PageSound(EventsPage)
  BY SurveyMovesAre, BecomesIs DEF PageSound, OfferSound, Touches, KnownRefused, EventsPage,
     Page, Offer, OnlyFor, Mutation, createEventMut, deleteEventMut, Events, EventKosts,
     TeknisiList, Query, Polled

LEMMA UsersSound == PageSound(UsersPage)
  BY Presents, UserMovesAre, KeepsIs, BecomesIs DEF PageSound, OfferSound, Touches,
     KnownRefused, UsersPage, Page, Offer, Mutation, UserMutation, AdminUsers, Keyed, Query

LEMMA OwnSound == PageSound(ProfilePage) /\ PageSound(Bell)
<1>1. PageSound(ProfilePage)
  BY UserMovesAre, KeepsIs DEF PageSound, OfferSound, Touches, KnownRefused, ProfilePage,
     Page, Offer, Mutation, saveMe, Me, Query
<1>2. PageSound(Bell)
  BY UserMovesAre, Presents, BecomesIs DEF PageSound, OfferSound, Touches, KnownRefused,
     Bell, Page, Offer, Mutation, markRead, Notifications, Query, Polled
<1>3. QED
  BY <1>1, <1>2

LEMMA NoOffers ==
    \A p \in {KostListPage, LandingPage, OwnerKostsPage, DashboardPage, LoginPage,
              RegisterPage, VerifyEmailPage, ForbiddenPage, ChatPage} : p.offers = {}
  BY DEF KostListPage, LandingPage, OwnerKostsPage, DashboardPage, LoginPage,
     RegisterPage, VerifyEmailPage, ForbiddenPage, ChatPage, Page

\* All of them.
LEMMA PagesSound == \A p \in RoutePages \cup {Bell} : PageSound(p)
<1>1. \A p : p.offers = {} => PageSound(p)
  BY DEF PageSound
<1> QED
  BY <1>1, BookingsSound, ContractsSound, MyBookingsSound, KostSound, KostEditSound,
     MasterKostSound, UsersSound, VerificationSound, TeknisiSound, EventsSound, OwnSound,
     KostNewSound, NoOffers DEF RoutePages

\* Table by table, every move stays among the statuses of its table.
LEMMA BookingMovesTyped == \A x \in DOMAIN BookingMoves : MoveTyped(BookingMoves[x])
  BY Domains, BecomesIs DEF BookingMoves, MoveTyped, Tables, Statuses

LEMMA RoomMovesTyped == \A x \in DOMAIN RoomMoves : MoveTyped(RoomMoves[x])
  BY Domains, BecomesIs DEF RoomMoves, MoveTyped, Tables, Statuses

LEMMA KostMovesTyped == \A x \in DOMAIN KostMoves : MoveTyped(KostMoves[x])
<1>1. /\ Present("kosts") \subseteq Statuses["kosts"] /\ "kosts" \in Tables
      /\ {"absent", "pending", "verified", "rejected", "inactive", "gone"} = Statuses["kosts"]
  BY DEF Present, Statuses, Tables
<1>2. MoveTyped(KostMoves["createKost"]) /\ MoveTyped(KostMoves["adminCreateKost"])
  BY <1>1, BecomesIs DEF KostMoves, MoveTyped
<1>3. MoveTyped(KostMoves["updateKost"])
  BY <1>1, KeepsIs DEF KostMoves, MoveTyped
<1>4. MoveTyped(KostMoves["activate"])
  BY <1>1 DEF KostMoves, MoveTyped
<1>5. MoveTyped(KostMoves["deactivate"]) /\ MoveTyped(KostMoves["deleteKost"])
  BY <1>1, BecomesIs DEF KostMoves, MoveTyped
<1> QED
  BY <1>2, <1>3, <1>4, <1>5, Domains

LEMMA SurveyMovesTyped == \A x \in DOMAIN SurveyMoves : MoveTyped(SurveyMoves[x])
<1>1. /\ Present("kosts") \subseteq Statuses["kosts"]
      /\ {"absent", "pending", "verified", "rejected", "inactive", "gone"} = Statuses["kosts"]
      /\ {"absent", "assigned", "surveying", "approved", "rejected"} = Statuses["assignments"]
      /\ {"absent", "scheduled", "gone"} = Statuses["events"]
      /\ {"kosts", "assignments", "events"} \subseteq Tables
  BY DEF Present, Statuses, Tables
<1>2. MoveTyped(SurveyMoves["assign"]) /\ MoveTyped(SurveyMoves["decide"])
  BY <1>1 DEF SurveyMoves, MoveTyped
<1>3. MoveTyped(SurveyMoves["judge"])
  BY <1>1 DEF SurveyMoves, MoveTyped
<1>4. MoveTyped(SurveyMoves["schedule"]) /\ MoveTyped(SurveyMoves["removeEvent"])
  BY <1>1, BecomesIs DEF SurveyMoves, MoveTyped
<1> QED
  BY <1>2, <1>3, <1>4, Domains

LEMMA UserMovesTyped == \A x \in DOMAIN UserMoves : MoveTyped(UserMoves[x])
<1>1. /\ Present("users") \subseteq Statuses["users"]
      /\ {"absent", "active", "disabled", "gone"} = Statuses["users"]
      /\ Present("notifications") \subseteq Statuses["notifications"]
      /\ {"absent", "unread", "read"} = Statuses["notifications"]
      /\ {"users", "notifications"} \subseteq Tables
  BY DEF Present, Statuses, Tables
<1>2. MoveTyped(UserMoves["setRole"]) /\ MoveTyped(UserMoves["updateMe"])
  BY <1>1, KeepsIs DEF UserMoves, MoveTyped
<1>3. /\ MoveTyped(UserMoves["createUser"]) /\ MoveTyped(UserMoves["enable"])
      /\ MoveTyped(UserMoves["disable"]) /\ MoveTyped(UserMoves["deleteUser"])
  BY <1>1, BecomesIs DEF UserMoves, MoveTyped
<1>4. MoveTyped(UserMoves["notify"]) /\ MoveTyped(UserMoves["markRead"])
  BY <1>1, BecomesIs DEF UserMoves, MoveTyped
<1> QED
  BY <1>2, <1>3, <1>4, Domains

LEMMA MovesTyped == \A x \in DOMAIN Moves : MoveTyped(Moves[x])
  BY MovesAre, BookingMovesTyped, RoomMovesTyped, KostMovesTyped, SurveyMovesTyped,
     UserMovesTyped

\* So DropsOwn holds of every visit to a page of the frontend.
LEMMA DropsOwnHolds == DropsOwn
<1> SUFFICES ASSUME NEW v \in Visits, NEW o \in v.page.offers, NEW q \in WatchedBy(v.page),
                    q.of = Touches(o)
             PROVE  q.key \in o.by.drops
  BY DEF DropsOwn
<1>1. q \in v.page.reads
  BY DEF WatchedBy
<1>2. PageSound(v.page)
  BY VisitsAssumption, PagesSound
<1> QED
  BY <1>1, <1>2 DEF PageSound

\* What a visited page offers.
LEMMA OfferIsSound ==
    ASSUME visit \in Visits, NEW o \in page.offers
    PROVE  OfferSound(o) /\ o.by.does \in DOMAIN Moves /\ MoveTyped(Moves[o.by.does])
  BY VisitsAssumption, PagesSound, MovesTyped DEF PageSound, page

---------------------------------------------------------------------------
LEMMA Stages ==
    /\ Idle.at = "idle"
    /\ Sent.at = "sent"
    /\ NoRequest.at = "none"
    /\ NoRequest \notin RequestRecord
    /\ NoData.own = 0
  BY DEF Idle, Sent, NoRequest, NoData, RequestRecord

\* The query of an entry is one of the page, and its table one that is kept.
LEMMA QueryKnown ==
    ASSUME NEW e \in Entries
    PROVE  /\ QueryOf(e) \in WatchedBy(page)
           /\ QueryOf(e).key = e[1]
           /\ QueryOf(e).of \in TablesUsed
<1>1. \E q \in WatchedBy(page) : q.key = e[1]
  BY DEF Entries, EntriesOf, page
<1>2. QueryOf(e) \in WatchedBy(page) /\ QueryOf(e).key = e[1]
  BY <1>1 DEF QueryOf
<1> QED
  BY <1>2 DEF TablesUsed

\* What an offer writes is a table that is kept.
LEMMA OfferKnown ==
    ASSUME NEW o \in page.offers
    PROVE  Touches(o) \in TablesUsed
  BY DEF TablesUsed, Touches

\* As long as the visit is the same, so is what hangs on it alone.
LEMMA SameVisit ==
    ASSUME UNCHANGED visit
    PROVE  /\ Entries' = Entries /\ Keys' = Keys /\ TablesUsed' = TablesUsed
           /\ Slots' = Slots /\ page' = page /\ viewer' = viewer
           /\ RequestRecord' = RequestRecord
           /\ \A e : QueryOf(e)' = QueryOf(e)
  BY DEF Entries, EntriesOf, Keys, TablesUsed, Slots, page, viewer, RequestRecord, QueryOf

\* A page that is not mounted shows nothing.
LEMMA DeskInit == Init => DeskInv
<1> SUFFICES ASSUME Init PROVE DeskInv
  OBVIOUS
<1>1. Shape
  BY Stages DEF Init, Shape
<1>2. AnswersSound
  BY <1>1, Stages DEF Init, Shape, AnswersSound
<1>3. FreshEnough
  BY DEF Init, FreshEnough, Visible
<1> QED
  BY <1>1, <1>2, <1>3 DEF DeskInv

---------------------------------------------------------------------------
(* Steps that leave queries alone *)

\* Nothing but the row, a dialog, a request or the page itself changes, and
\* no answer gets ahead of what has happened.
LEMMA StillFresh ==
    ASSUME FreshEnough, UNCHANGED <<visit, chosen, cache, fetch, excused, acked>>,
           on' => on
    PROVE  FreshEnough'
<1>1. \A e \in Entries : Visible(e)' => Visible(e)
  BY SameVisit DEF Visible
<1> QED
  BY <1>1, SameVisit DEF FreshEnough

\* The same for the shape.
LEMMA StillShaped ==
    ASSUME Shape, UNCHANGED <<visit, chosen, cache, fetch, acked>>,
           own' \in [TablesUsed -> Nat],
           dialog' \in page.offers \cup {NoDialog},
           request' \in [Slots -> RequestRecord \cup {NoRequest}]
    PROVE  Shape'
  BY SameVisit DEF Shape

\* Requests are sent, refused, forgotten, or no longer seen.
LEMMA RequestsKept ==
    ASSUME Shape, AnswersSound, UNCHANGED <<visit, own, acked>>,
           request' \in [Slots -> RequestRecord \cup {NoRequest}],
           \A s \in Slots : request'[s].at = "done" =>
               /\ request[s].at = "done"
               /\ request'[s].mark = request[s].mark
               /\ request'[s].offer = request[s].offer
    PROVE  AnswersSound'
  BY SameVisit DEF Shape, AnswersSound, Touches

\* What a click or a confirmation sends.
LEMMA SendKept ==
    ASSUME Shape, NEW o \in page.offers, Send(o)
    PROVE  /\ request' \in [Slots -> RequestRecord \cup {NoRequest}]
           /\ \A s \in Slots : request'[s].at = "done" => request'[s] = request[s]
<1> DEFINE r == [at |-> "sent", by |-> o.by, offer |-> o, seen |-> TRUE, mark |-> 0]
<1>1. r \in RequestRecord /\ r.at = "sent"
  BY DEF RequestRecord
<1>2. PICK s \in Slots : request' = [request EXCEPT ![s] = r]
  BY DEF Send
<1> HIDE DEF r
<1> QED
  BY <1>1, <1>2 DEF Shape

\* What the server or the network does to a request.
LEMMA AtKept ==
    ASSUME NEW r \in RequestRecord, NEW at \in {"sent", "done", "refused"}, NEW m \in Nat
    PROVE  /\ [r EXCEPT !.at = at] \in RequestRecord
           /\ [r EXCEPT !.at = at].at = at
           /\ [r EXCEPT !.at = at, !.mark = m] \in RequestRecord
           /\ [r EXCEPT !.at = at, !.mark = m].at = at
           /\ [r EXCEPT !.at = at, !.mark = m].mark = m
           /\ [r EXCEPT !.at = at, !.mark = m].offer = r.offer
           /\ [r EXCEPT !.seen = FALSE] \in RequestRecord
           /\ [r EXCEPT !.seen = FALSE].at = r.at
           /\ [r EXCEPT !.seen = FALSE].mark = r.mark
           /\ [r EXCEPT !.seen = FALSE].offer = r.offer
  BY DEF RequestRecord

\* A request that is under way has its record.
LEMMA RequestUnderWay ==
    ASSUME Shape, NEW s \in Slots, request[s] # NoRequest
    PROVE  request[s] \in RequestRecord /\ request[s].offer \in page.offers
  BY DEF Shape, RequestRecord

\* The user at his buttons, the refusals, and the others.
LEMMA QuietStep ==
    ASSUME DeskInv,
           \/ Leave
           \/ \E o \in page.offers : Click(o) \/ OpenDialog(o)
           \/ CloseDialog
           \/ Confirm
           \/ \E s \in Slots : Refuse(s) \/ Fail(s)
           \/ \E does \in visit.others : OthersMove(does)
    PROVE  DeskInv'
<1>1. Shape /\ AnswersSound /\ FreshEnough
  BY DEF DeskInv
<1>2. UNCHANGED <<visit, chosen, own, cache, fetch, excused, acked>> /\ (on' => on)
  BY DEF Leave, Click, OpenDialog, CloseDialog, Confirm, Refuse, Fail, OthersMove, server,
     client
<1>3. own' \in [TablesUsed -> Nat]
  BY <1>1, <1>2 DEF Shape
<1>4. /\ dialog' \in page.offers \cup {NoDialog}
      /\ request' \in [Slots -> RequestRecord \cup {NoRequest}]
      /\ \A s \in Slots : request'[s].at = "done" =>
            /\ request[s].at = "done"
            /\ request'[s].mark = request[s].mark
            /\ request'[s].offer = request[s].offer
  <2>1. CASE Leave
    <3>1. \A s \in Slots : request[s] # NoRequest =>
            /\ [request[s] EXCEPT !.seen = FALSE] \in RequestRecord
            /\ [request[s] EXCEPT !.seen = FALSE].at = request[s].at
            /\ [request[s] EXCEPT !.seen = FALSE].mark = request[s].mark
            /\ [request[s] EXCEPT !.seen = FALSE].offer = request[s].offer
      <4>1. \A s \in Slots : request[s] # NoRequest => request[s] \in RequestRecord
        BY <1>1 DEF Shape
      <4>2. \A r \in RequestRecord :
              /\ [r EXCEPT !.seen = FALSE] \in RequestRecord
              /\ [r EXCEPT !.seen = FALSE].at = r.at
              /\ [r EXCEPT !.seen = FALSE].mark = r.mark
              /\ [r EXCEPT !.seen = FALSE].offer = r.offer
        BY DEF RequestRecord
      <4> QED
        BY <4>1, <4>2
    <3> QED
      BY <2>1, <3>1 DEF Leave
  <2>2. ASSUME NEW o \in page.offers, Click(o) \/ OpenDialog(o)
        PROVE  <1>4!:
    BY <1>1, <2>2, SendKept DEF Click, OpenDialog, Shape
  <2>3. CASE CloseDialog
    BY <1>1, <2>3 DEF CloseDialog, Shape
  <2>4. CASE Confirm
    <3>1. dialog \in page.offers
      BY <1>1, <2>4 DEF Confirm, Shape
    <3> QED
      BY <1>1, <2>4, <3>1, SendKept DEF Confirm, Shape
  <2>5. ASSUME NEW s \in Slots, Refuse(s) \/ Fail(s)
        PROVE  <1>4!:
    <3>1. CASE Refuse(s)
      <4>1. request[s] \in RequestRecord
        BY <1>1, <3>1, Stages, RequestUnderWay DEF Refuse
      <4>2. /\ [request[s] EXCEPT !.at = "refused"] \in RequestRecord
            /\ [request[s] EXCEPT !.at = "refused"].at = "refused"
        BY <4>1 DEF RequestRecord
      <4>3. request' = [request EXCEPT ![s] = [request[s] EXCEPT !.at = "refused"]]
        BY <3>1 DEF Refuse
      <4> QED
        BY <1>1, <3>1, <4>2, <4>3 DEF Refuse, Shape
    <3>2. CASE Fail(s)
      BY <1>1, <3>2, Stages DEF Fail, Shape
    <3> QED
      BY <2>5, <3>1, <3>2
  <2>6. ASSUME NEW does \in visit.others, OthersMove(does)
        PROVE  <1>4!:
    BY <1>1, <2>6 DEF OthersMove, Shape
  <2> QED
    BY <2>1, <2>2, <2>3, <2>4, <2>5, <2>6
<1>5. Shape' /\ FreshEnough'
  BY <1>1, <1>2, <1>3, <1>4, StillFresh, StillShaped
<1>6. AnswersSound'
  BY <1>1, <1>2, <1>4, RequestsKept
<1> QED
  BY <1>5, <1>6 DEF DeskInv

\* The server carries a request out: its mark is the number of the change.
LEMMA ApplyStep ==
    ASSUME DeskInv, NEW s \in Slots, Apply(s)
    PROVE  DeskInv'
<1> DEFINE o == request[s].offer
           t == Touches(o)
           r == [request[s] EXCEPT !.at = "done", !.mark = own[t] + 1]
<1>1. Shape /\ AnswersSound /\ FreshEnough
  BY DEF DeskInv
<1>2. request[s] \in RequestRecord /\ o \in page.offers /\ t \in TablesUsed
  BY <1>1, Stages, RequestUnderWay, OfferKnown DEF Apply
<1>3. own[t] \in Nat /\ own[t] + 1 \in Nat
  BY <1>1, <1>2 DEF Shape
<1>4. /\ UNCHANGED <<visit, on, chosen, cache, fetch, excused, acked, dialog>>
      /\ own' = [own EXCEPT ![t] = own[t] + 1]
      /\ request' = [request EXCEPT ![s] = r]
  BY DEF Apply, client
<1>5. r \in RequestRecord /\ r.at = "done" /\ r.mark = own[t] + 1 /\ r.offer = o
  BY <1>2, <1>3 DEF RequestRecord
<1> HIDE DEF r, t, o
<1>6. own' \in [TablesUsed -> Nat] /\ \A u \in TablesUsed : own'[u] >= own[u]
  BY <1>1, <1>2, <1>3, <1>4 DEF Shape
<1>7. request' \in [Slots -> RequestRecord \cup {NoRequest}]
  BY <1>1, <1>4, <1>5 DEF Shape
<1>8. Shape' /\ FreshEnough'
  BY <1>1, <1>4, <1>6, <1>7, StillFresh, StillShaped DEF Shape
<1>9. AnswersSound'
  <2>1. \A u \in TablesUsed : acked[u] <= own'[u]
    BY <1>1, <1>6 DEF Shape, AnswersSound
  <2>2. ASSUME NEW x \in Slots, request'[x].at = "done"
        PROVE  request'[x].mark <= own'[Touches(request'[x].offer)]
    <3>1. CASE x = s
      BY <1>1, <1>2, <1>3, <1>4, <1>5, <3>1 DEF Shape, t
    <3>2. CASE x # s
      <4>1. request'[x] = request[x] /\ request[x] # NoRequest
        BY <1>1, <1>4, <2>2, <3>2, Stages DEF Shape
      <4>2. Touches(request[x].offer) \in TablesUsed /\ request[x].mark \in Nat
        BY <1>1, <4>1, RequestUnderWay, OfferKnown DEF RequestRecord
      <4> QED
        BY <1>1, <1>6, <2>2, <4>1, <4>2 DEF AnswersSound, Shape
    <3> QED
      BY <3>1, <3>2
  <2> QED
    BY <1>4, <2>1, <2>2, SameVisit DEF AnswersSound, Touches
<1> QED
  BY <1>8, <1>9 DEF DeskInv

---------------------------------------------------------------------------
(* Steps of the queries *)

\* Whichever way fetches, data and excuses of the entries change: what is
\* visible then, and not excused, is either as it was or fresh.
LEMMA StillSound ==
    ASSUME Shape, AnswersSound, UNCHANGED <<visit, own, acked, dialog, request>>,
           chosen' = [k \in Keys |-> chosen'[k]],
           cache' = [e \in Entries |-> cache'[e]],
           fetch' = [e \in Entries |-> fetch'[e]],
           \A e \in Entries :
               \/ cache'[e] = cache[e] /\ fetch'[e] = fetch[e]
               \/ cache'[e] = cache[e] /\ fetch'[e] \in {Idle, Sent}
               \/ cache'[e] = cache[e] /\ fetch'[e].at = "back" /\ fetch'[e].got.own \in Nat
               \/ cache'[e].own \in Nat /\ fetch'[e] = Idle
    PROVE  Shape' /\ AnswersSound'
<1>1. Shape'
  BY SameVisit, Stages DEF Shape
<1>2. AnswersSound'
  BY SameVisit DEF AnswersSound, Touches
<1> QED
  BY <1>1, <1>2

\* Entries are mounted: what is asked is neither idle nor back, what is joined
\* is excused.
LEMMA MountFresh ==
    ASSUME DeskInv, NEW E \in SUBSET Entries, Mount(E),
           UNCHANGED <<visit, own, acked, dialog, request>>,
           chosen' = [k \in Keys |-> chosen'[k]],
           \A e \in Entries \ E : Visible(e)' => Visible(e)
    PROVE  DeskInv'
<1>1. Shape /\ AnswersSound /\ FreshEnough
  BY DEF DeskInv
<1>2. /\ cache' = cache
      /\ fetch' = [e \in Entries |-> IF e \in E /\ ~UnderWay(e) THEN Sent ELSE fetch[e]]
      /\ excused' = (excused \ E) \cup {e \in E : UnderWay(e)}
  BY DEF Mount
<1>3. fetch' = [e \in Entries |-> fetch'[e]] /\ cache' = [e \in Entries |-> cache'[e]]
  BY <1>1, <1>2 DEF Shape
<1>4. \A e \in Entries : fetch'[e] = fetch[e] \/ fetch'[e] = Sent
  BY <1>2
<1>5. Shape' /\ AnswersSound'
  BY <1>1, <1>2, <1>3, <1>4, StillSound
<1>6. ASSUME NEW e \in Entries, Visible(e)', e \notin excused'
      PROVE  /\ fetch'[e].at = "idle" => cache'[e].own >= acked[QueryOf(e).of]
             /\ fetch'[e].at = "back" => fetch'[e].got.own >= acked[QueryOf(e).of]
  <2>1. CASE e \in E
    BY <1>2, <1>6, <2>1, Stages
  <2>2. CASE e \notin E
    BY <1>1, <1>2, <1>6, <2>2 DEF FreshEnough
  <2> QED
    BY <2>1, <2>2
<1>7. FreshEnough'
  BY <1>6, SameVisit DEF FreshEnough
<1> QED
  BY <1>5, <1>7 DEF DeskInv

\* A page is entered: its entries are mounted.
LEMMA EnterStep == DeskInv /\ Enter => DeskInv'
<1> SUFFICES ASSUME DeskInv, Enter PROVE DeskInv'
  OBVIOUS
<1> DEFINE E == {e \in Entries : chosen[e[1]] = e[2] /\ viewer \in QueryOf(e).asked}
<1>1. /\ Mount(E) /\ E \in SUBSET Entries
      /\ UNCHANGED <<visit, chosen, own, acked, dialog, request>>
  BY DEF Enter, server
<1>2. chosen' = [k \in Keys |-> chosen'[k]]
  BY <1>1 DEF DeskInv, Shape
<1>3. \A e \in Entries \ E : ~Visible(e)'
  BY <1>1, SameVisit DEF Visible
<1> HIDE DEF E
<1> QED
  BY <1>1, <1>2, <1>3, MountFresh

\* A filter that may be chosen makes an entry of its key.
LEMMA FilterIsEntry ==
    ASSUME NEW k \in Keys, k \in visit.filtered, NEW f \in Filters
    PROVE  <<k, f>> \in Entries
<1>1. PICK q \in WatchedBy(visit.page) : q.key = k
  BY DEF Keys, page
<1>2. <<k, f>> \in {q.key} \X (IF q.key \in visit.filtered THEN Filters ELSE {"this"})
  BY <1>1
<1> QED
  BY <1>1, <1>2 DEF Entries, EntriesOf

\* Another filter: its entry is mounted.
LEMMA ChooseStep == \A k \in Keys : DeskInv /\ Choose(k) => DeskInv'
<1> SUFFICES ASSUME NEW k \in Keys, DeskInv, Choose(k) PROVE DeskInv'
  OBVIOUS
<1>1. PICK f \in Filters : chosen' = [chosen EXCEPT ![k] = f] /\ Mount({<<k, f>>})
  BY DEF Choose
<1>2. UNCHANGED <<visit, on, own, acked, dialog, request>>
  BY DEF Choose, server
<1>3. chosen' = [j \in Keys |-> chosen'[j]] /\ chosen'[k] = f
      /\ \A j \in Keys \ {k} : chosen'[j] = chosen[j]
  BY <1>1 DEF DeskInv, Shape
<1>4. <<k, f>> \in Entries
  BY FilterIsEntry DEF Choose
<1>5. \A e \in Entries : e[1] \in Keys /\ e = <<e[1], e[2]>>
  BY DEF Entries, EntriesOf, Keys, page
<1>6. \A e \in Entries \ {<<k, f>>} : Visible(e)' => Visible(e)
  BY <1>2, <1>3, <1>5, SameVisit DEF Visible
<1> QED
  BY <1>1, <1>2, <1>3, <1>4, <1>6, MountFresh

\* A fetch is begun, answered, given up or taken over.
LEMMA FetchStep ==
    ASSUME DeskInv, NEW x \in Entries,
           Refetch(x) \/ ServeFetch(x) \/ FailFetch(x) \/ Complete(x)
    PROVE  DeskInv'
<1> DEFINE t == QueryOf(x).of
<1>1. Shape /\ AnswersSound /\ FreshEnough
  BY DEF DeskInv
<1>2. UNCHANGED <<visit, on, chosen, own, acked, dialog, request>>
  BY DEF Refetch, ServeFetch, FailFetch, Complete, server
<1>3. t \in TablesUsed /\ own[t] \in Nat /\ acked[t] <= own[t]
  BY <1>1, QueryKnown DEF Shape, AnswersSound
<1>4. \A e \in Entries \ {x} : /\ fetch'[e] = fetch[e] /\ cache'[e] = cache[e]
                               /\ e \in excused' <=> e \in excused
  BY <1>1 DEF Refetch, ServeFetch, FailFetch, Complete, Shape
<1>5. fetch' = [e \in Entries |-> fetch'[e]] /\ cache' = [e \in Entries |-> cache'[e]]
  BY <1>1 DEF Refetch, ServeFetch, FailFetch, Complete, Shape
<1>6. /\ \/ cache'[x] = cache[x] /\ fetch'[x] \in {Idle, Sent}
         \/ cache'[x] = cache[x] /\ fetch'[x].at = "back" /\ fetch'[x].got.own \in Nat
         \/ cache'[x].own \in Nat /\ fetch'[x] = Idle
      /\ Visible(x) /\ x \notin excused' =>
            /\ fetch'[x].at = "idle" => cache'[x].own >= acked[t]
            /\ fetch'[x].at = "back" => fetch'[x].got.own >= acked[t]
  <2>1. CASE Refetch(x)
    BY <1>1, <2>1, Stages DEF Refetch, Shape
  <2>2. CASE ServeFetch(x)
    <3>1. /\ cache' = cache
          /\ fetch'[x] = [at |-> "back", got |-> Snapshot(t)]
      BY <1>1, <2>2 DEF ServeFetch, Shape
    <3>2. fetch'[x].at = "back" /\ fetch'[x].got.own = own[t]
      BY <3>1 DEF Snapshot
    <3> HIDE DEF t
    <3> QED
      BY <1>1, <1>3, <3>1, <3>2 DEF Shape
  <2>3. CASE FailFetch(x)
    BY <1>1, <2>3, Stages DEF FailFetch, Shape
  <2>4. CASE Complete(x)
    <3>1. cache'[x] = fetch[x].got /\ fetch'[x] = Idle /\ fetch[x].at = "back"
          /\ excused' = excused
      BY <1>1, <2>4 DEF Complete, Shape
    <3> QED
      BY <1>1, <3>1, Stages DEF Shape, FreshEnough
  <2> QED
    BY <2>1, <2>2, <2>3, <2>4
<1> HIDE DEF t
<1>7. Shape' /\ AnswersSound'
  <2>1. chosen' = [k \in Keys |-> chosen'[k]]
    BY <1>1, <1>2 DEF Shape
  <2> QED
    BY <1>1, <1>2, <1>4, <1>5, <1>6, <2>1, StillSound
<1>8. \A e \in Entries : Visible(e)' <=> Visible(e)
  BY <1>2, SameVisit DEF Visible
<1>9. FreshEnough'
  BY <1>1, <1>2, <1>4, <1>6, <1>8, SameVisit DEF FreshEnough, t
<1> QED
  BY <1>7, <1>9 DEF DeskInv

---------------------------------------------------------------------------
(* The end of a request *)

\* What an own change makes out of date is asked for again, or excused.
LEMMA SucceedStep ==
    ASSUME DropsOwn, DeskInv, NEW s \in Slots, Succeed(s)
    PROVE  DeskInv'
<1> DEFINE o == request[s].offer
           t == Touches(o)
           E == {e \in Entries : Visible(e) /\ e[1] \in o.by.drops}
<1>1. Shape /\ AnswersSound /\ FreshEnough
  BY DEF DeskInv
<1>2. request[s] \in RequestRecord /\ o \in page.offers /\ t \in TablesUsed
  BY <1>1, Stages, RequestUnderWay, OfferKnown DEF Succeed
<1>3. /\ acked' = [acked EXCEPT ![t] = IF acked[t] < request[s].mark
                                       THEN request[s].mark ELSE acked[t]]
      /\ Invalidate(E)
      /\ request' = [request EXCEPT ![s] = NoRequest]
      /\ dialog' \in {dialog, NoDialog}
      /\ UNCHANGED <<visit, on, chosen, own>>
  BY DEF Succeed, server
<1>4. request[s].mark \in Nat /\ request[s].mark <= own[t]
  BY <1>1, <1>2 DEF Succeed, AnswersSound, RequestRecord
<1>5. \A e \in Entries : Visible(e) /\ QueryOf(e).of = t => e \in E
  <2> SUFFICES ASSUME NEW e \in Entries, Visible(e), QueryOf(e).of = t
               PROVE  e[1] \in o.by.drops
    OBVIOUS
  <2>1. QueryOf(e) \in WatchedBy(page) /\ QueryOf(e).key = e[1] /\ viewer \in QueryOf(e).asked
    BY QueryKnown DEF Visible
  <2>2. visit \in Visits
    BY <1>1 DEF Shape
  <2> QED
    BY <1>2, <2>1, <2>2 DEF DropsOwn, page, viewer
<1>6. E \in SUBSET Entries
  OBVIOUS
<1> HIDE DEF o, t, E
<1> DEFINE first == {e \in E : UnderWay(e) /\ cache[e] = NoData}
<1>7. /\ fetch' = [e \in Entries |-> IF e \in E \ first THEN Sent ELSE fetch[e]]
      /\ excused' = (excused \ E) \cup first
      /\ cache' = cache
  BY <1>3 DEF Invalidate
<1> HIDE DEF first
<1>8. /\ acked' \in [TablesUsed -> Nat]
      /\ \A u \in TablesUsed : acked'[u] <= own[u]
      /\ \A u \in TablesUsed \ {t} : acked'[u] = acked[u]
  BY <1>1, <1>2, <1>3, <1>4 DEF Shape, AnswersSound
<1>9. Shape'
  <2>1. /\ request' \in [Slots -> RequestRecord \cup {NoRequest}]
        /\ dialog' \in page.offers \cup {NoDialog}
        /\ fetch' = [e \in Entries |-> fetch'[e]]
        /\ \A e \in Entries : fetch'[e] = fetch[e] \/ fetch'[e] = Sent
    BY <1>1, <1>3, <1>7 DEF Shape
  <2> QED
    BY <1>1, <1>3, <1>7, <1>8, <2>1, SameVisit, Stages DEF Shape
<1>10. AnswersSound'
  <2>1. \A x \in Slots : request'[x].at = "done" => request'[x] = request[x]
    BY <1>1, <1>3, Stages DEF Shape
  <2> QED
    BY <1>1, <1>3, <1>8, <2>1, SameVisit DEF AnswersSound, Touches
<1>11. ASSUME NEW e \in Entries, Visible(e), e \notin excused'
       PROVE  /\ fetch'[e].at = "idle" => cache'[e].own >= acked'[QueryOf(e).of]
              /\ fetch'[e].at = "back" => fetch'[e].got.own >= acked'[QueryOf(e).of]
  <2>1. CASE e \in E
    <3>1. e \notin first
      BY <1>7, <1>11
    <3> QED
      BY <1>7, <2>1, <3>1, Stages
  <2>2. CASE e \notin E
    <3>1. QueryOf(e).of \in TablesUsed \ {t}
      BY <1>5, <1>11, <2>2, QueryKnown
    <3> QED
      BY <1>1, <1>7, <1>8, <1>11, <2>2, <3>1 DEF FreshEnough
  <2> QED
    BY <2>1, <2>2
<1>12. FreshEnough'
  <2>1. \A e \in Entries : Visible(e)' <=> Visible(e)
    BY <1>3, SameVisit DEF Visible
  <2> QED
    BY <1>3, <1>11, <2>1, SameVisit DEF FreshEnough
<1> QED
  BY <1>9, <1>10, <1>12 DEF DeskInv

---------------------------------------------------------------------------
LEMMA DeskStep == DropsOwn /\ DeskInv /\ [Next]_vars => DeskInv'
<1> SUFFICES ASSUME DropsOwn, DeskInv, [Next]_vars PROVE DeskInv'
  OBVIOUS
<1>1. CASE UNCHANGED vars
  <2>1. UNCHANGED <<visit, on, chosen, own, cache, fetch, excused, acked, dialog, request>>
    BY <1>1 DEF vars
  <2> QED
    BY <2>1, SameVisit, SMTT(20)
       DEF DeskInv, Shape, AnswersSound, FreshEnough, Visible, Touches
<1>2. CASE Next
  BY <1>2, EnterStep, ChooseStep, FetchStep, QuietStep, ApplyStep, SucceedStep DEF Next
<1> QED
  BY <1>1, <1>2

\* No list on the screen is older than the last own change that was answered,
\* on any page, with any filters, any number of requests, and whatever others
\* do meanwhile.
THEOREM WritesShown == Safety => []OwnWriteShown
<1>1. Init => DeskInv
  BY DeskInit
<1>2. DeskInv /\ [Next]_vars => DeskInv'
  BY DeskStep, DropsOwnHolds
<1>3. DeskInv => OwnWriteShown
  <2> SUFFICES ASSUME DeskInv, NEW e \in Entries,
                      Visible(e), fetch[e] = Idle, e \notin excused
               PROVE  cache[e].own >= acked[QueryOf(e).of]
    BY DEF OwnWriteShown
  <2> QED
    BY Stages DEF DeskInv, FreshEnough
<1> QED
  BY <1>1, <1>2, <1>3, PTL DEF Safety

---------------------------------------------------------------------------
(* Types.  What the server and the cache hold are statuses of their tables,  *)
(* and a table is changed at most as often as the visit may: requests that   *)
(* are on their way count, for the server may carry them out.                *)

RowsTyped ==
    /\ row = [t \in TablesUsed |-> row[t]]
    /\ \A t \in TablesUsed : row[t] \in Statuses[t]

AnswersTyped ==
    \A e \in Entries :
        /\ cache[e] = NoData \/ cache[e].status \in Statuses[QueryOf(e).of]
        /\ fetch[e].at = "back" => fetch[e].got.status \in Statuses[QueryOf(e).of]

ScreenTyped ==
    /\ on \in BOOLEAN
    /\ chosen \in [Keys -> Filters]
    /\ excused \subseteq Entries
    /\ dialog # NoDialog => on

CallsOwn == \A s \in Slots : request[s] # NoRequest => request[s].by = request[s].offer.by

SentTo(t) == {s \in Slots : request[s].at = "sent" /\ Touches(request[s].offer) = t}
WritesBounded == \A t \in TablesUsed : own[t] + Cardinality(SentTo(t)) <= visit.writes

DeskTyped == RowsTyped /\ AnswersTyped /\ ScreenTyped /\ CallsOwn /\ WritesBounded

\* A number of slots is a number, and what is no slot does not count.
LEMMA SlotsFinite ==
    ASSUME visit \in Visits
    PROVE  /\ visit.writes \in Nat
           /\ IsFiniteSet(Slots)
           /\ \A S \in SUBSET Slots : IsFiniteSet(S) /\ Cardinality(S) \in Nat
           /\ \A t : SentTo(t) \in SUBSET Slots
<1>1. visit.writes \in Nat
  BY VisitsAssumption
<1>2. IsFiniteSet(Slots)
  BY <1>1, FS_Interval DEF Slots
<1>3. \A S \in SUBSET Slots : IsFiniteSet(S) /\ Cardinality(S) \in Nat
  BY <1>2, FS_Subset, FS_CardinalityType
<1> QED
  BY <1>1, <1>2, <1>3 DEF SentTo

\* At first nothing is known and nothing sent.
LEMMA TypedInit == Init => DeskTyped
<1> SUFFICES ASSUME Init PROVE DeskTyped
  OBVIOUS
<1>1. RowsTyped
  BY DEF Init, RowsTyped
<1>2. AnswersTyped
  BY Stages DEF Init, AnswersTyped
<1>3. ScreenTyped
  BY DEF Init, ScreenTyped, Filters
<1>4. CallsOwn
  BY DEF Init, CallsOwn
<1>5. WritesBounded
  <2>1. visit.writes \in Nat
    BY SlotsFinite DEF Init
  <2>2. \A t : SentTo(t) = {}
    BY Stages DEF Init, SentTo
  <2>3. \A t \in TablesUsed : own[t] = 0
    BY DEF Init
  <2> QED
    BY <2>1, <2>2, <2>3, FS_EmptySet DEF WritesBounded
<1> QED
  BY <1>1, <1>2, <1>3, <1>4, <1>5 DEF DeskTyped

\* A row that a move changes has a status of its table again.
LEMMA RowMoved ==
    ASSUME RowsTyped, UNCHANGED visit, NEW does \in DOMAIN Moves, NEW t \in TablesUsed,
           t = Moves[does].of, Accepts(does, row[t]),
           NEW to \in Moves[does].step[row[t]], row' = [row EXCEPT ![t] = to]
    PROVE  RowsTyped'
<1>1. MoveTyped(Moves[does])
  BY MovesTyped
<1>2. to \in Statuses[t]
  BY <1>1 DEF MoveTyped, Accepts
<1> QED
  BY <1>2, SameVisit DEF RowsTyped

\* Only what the server carries out and what others do moves a row.
LEMMA RowsStep == DeskInv /\ RowsTyped /\ Next => RowsTyped'
<1> SUFFICES ASSUME DeskInv, RowsTyped, Next PROVE RowsTyped'
  OBVIOUS
<1>1. UNCHANGED visit
  BY DEF Next, Enter, Leave, Choose, Refetch, ServeFetch, FailFetch, Complete, Click,
     OpenDialog, CloseDialog, Confirm, Apply, Refuse, Succeed, Fail, OthersMove
<1>2. ASSUME NEW s \in Slots, Apply(s) PROVE RowsTyped'
  <2> DEFINE o == request[s].offer
  <2>1. visit \in Visits /\ o \in page.offers
    BY <1>2, Stages, RequestUnderWay DEF DeskInv, Shape, Apply
  <2>2. o.by.does \in DOMAIN Moves /\ Touches(o) \in TablesUsed
    BY <2>1, OfferIsSound, OfferKnown
  <2>3. PICK to \in Moves[o.by.does].step[row[Touches(o)]] :
            row' = [row EXCEPT ![Touches(o)] = to]
    BY <1>2 DEF Apply
  <2>4. Accepts(o.by.does, row[Touches(o)])
    BY <1>2 DEF Apply
  <2>5. PICK does \in DOMAIN Moves : does = o.by.does
    BY <2>2
  <2>6. PICK t \in TablesUsed : t = Touches(o) /\ t = Moves[does].of
    BY <2>2, <2>5 DEF Touches
  <2> HIDE DEF o
  <2>7. /\ row' = [row EXCEPT ![t] = to] /\ Accepts(does, row[t])
        /\ to \in Moves[does].step[row[t]]
    BY <2>3, <2>4, <2>5, <2>6
  <2> QED
    BY <1>1, <2>6, <2>7, RowMoved
<1>3. ASSUME NEW does \in visit.others, OthersMove(does) PROVE RowsTyped'
  <2>1. does \in DOMAIN Moves
    BY VisitsAssumption DEF DeskInv, Shape
  <2>2. PICK t \in TablesUsed : t = Moves[does].of
    BY <1>3 DEF OthersMove
  <2>3. PICK to \in Moves[does].step[row[t]] : row' = [row EXCEPT ![t] = to]
    BY <1>3, <2>2 DEF OthersMove
  <2> QED
    BY <1>1, <1>3, <2>1, <2>2, <2>3, RowMoved DEF OthersMove
<1>4. CASE UNCHANGED row
  BY <1>1, <1>4, SameVisit DEF RowsTyped
<1>5. \/ \E s \in Slots : Apply(s)
      \/ \E does \in visit.others : OthersMove(does)
      \/ UNCHANGED row
  BY DEF Next, Enter, Leave, Choose, Refetch, ServeFetch, FailFetch, Complete, Click,
     OpenDialog, CloseDialog, Confirm, Refuse, Succeed, Fail, server
<1> QED
  BY <1>2, <1>3, <1>4, <1>5

\* An answer is a status of the table it was asked of, and so is what is kept
\* of it.
LEMMA AnswersKept ==
    ASSUME AnswersTyped, UNCHANGED visit,
           \A e \in Entries :
               /\ cache'[e] = cache[e]
               /\ fetch'[e].at # "back" \/ fetch'[e] = fetch[e]
    PROVE  AnswersTyped'
  BY SameVisit DEF AnswersTyped

\* What is mounted is asked.
LEMMA MountTyped ==
    ASSUME Shape, AnswersTyped, UNCHANGED visit, NEW E \in SUBSET Entries, Mount(E)
    PROVE  AnswersTyped'
<1>1. \A e \in Entries : cache'[e] = cache[e] /\ (fetch'[e] = fetch[e] \/ fetch'[e] = Sent)
  BY DEF Mount
<1> QED
  BY <1>1, Stages, AnswersKept

\* An answer is taken from a row, and the data from an answer.
LEMMA AnswersStep == DeskInv /\ RowsTyped /\ AnswersTyped /\ Next => AnswersTyped'
<1> SUFFICES ASSUME DeskInv, RowsTyped, AnswersTyped, Next PROVE AnswersTyped'
  OBVIOUS
<1>1. UNCHANGED visit /\ Shape
  BY DEF Next, Enter, Leave, Choose, Refetch, ServeFetch, FailFetch, Complete, Click,
     OpenDialog, CloseDialog, Confirm, Apply, Refuse, Succeed, Fail, OthersMove, DeskInv
<1>2. CASE Enter
  <2>1. PICK E \in SUBSET Entries : Mount(E)
    BY <1>2 DEF Enter
  <2> QED
    BY <1>1, <2>1, MountTyped
<1>3. ASSUME NEW k \in Keys, Choose(k) PROVE AnswersTyped'
  <2>1. PICK E : Mount(E)
    BY <1>3 DEF Choose
  <2>2. \A e \in Entries : cache'[e] = cache[e] /\ (fetch'[e] = fetch[e] \/ fetch'[e] = Sent)
    BY <2>1 DEF Mount
  <2> QED
    BY <1>1, <2>2, Stages, AnswersKept
<1>4. ASSUME NEW x \in Entries, Refetch(x) \/ FailFetch(x) PROVE AnswersTyped'
  <2>1. \A e \in Entries : /\ cache'[e] = cache[e]
                           /\ fetch'[e] = fetch[e] \/ fetch'[e] \in {Idle, Sent}
    BY <1>1, <1>4 DEF Refetch, FailFetch, Shape
  <2> QED
    BY <1>1, <2>1, Stages, AnswersKept
<1>5. ASSUME NEW x \in Entries, ServeFetch(x) PROVE AnswersTyped'
  <2>1. PICK t : t = QueryOf(x).of
    OBVIOUS
  <2>2. t \in TablesUsed /\ row[t] \in Statuses[t]
    BY <2>1, QueryKnown DEF RowsTyped
  <2>3. /\ cache' = cache
        /\ fetch'[x] = [at |-> "back", got |-> Snapshot(t)]
        /\ \A e \in Entries \ {x} : fetch'[e] = fetch[e]
    BY <1>1, <1>5, <2>1 DEF ServeFetch, Shape
  <2>4. fetch'[x].got.status = row[t]
    BY <2>3 DEF Snapshot
  <2> QED
    BY <1>1, <2>1, <2>2, <2>3, <2>4, SameVisit DEF AnswersTyped
<1>6. ASSUME NEW x \in Entries, Complete(x) PROVE AnswersTyped'
  <2>1. /\ fetch[x].at = "back"
        /\ cache'[x] = fetch[x].got /\ fetch'[x] = Idle
        /\ \A e \in Entries \ {x} : cache'[e] = cache[e] /\ fetch'[e] = fetch[e]
    BY <1>1, <1>6 DEF Complete, Shape
  <2> QED
    BY <1>1, <2>1, Stages, SameVisit DEF AnswersTyped
<1>7. ASSUME NEW s \in Slots, Succeed(s) PROVE AnswersTyped'
  <2>1. PICK E : Invalidate(E)
    BY <1>7 DEF Succeed
  <2>2. \A e \in Entries : cache'[e] = cache[e] /\ (fetch'[e] = fetch[e] \/ fetch'[e] = Sent)
    BY <2>1 DEF Invalidate
  <2> QED
    BY <1>1, <2>2, Stages, AnswersKept
<1>8. CASE UNCHANGED <<cache, fetch>>
  BY <1>1, <1>8, AnswersKept
<1>9. \/ Enter
      \/ \E k \in Keys : Choose(k)
      \/ \E e \in Entries : Refetch(e) \/ FailFetch(e) \/ ServeFetch(e) \/ Complete(e)
      \/ \E s \in Slots : Succeed(s)
      \/ UNCHANGED <<cache, fetch>>
  BY DEF Next, Leave, Click, OpenDialog, CloseDialog, Confirm, Apply, Refuse, Fail,
     OthersMove, client
<1> QED
  BY <1>2, <1>3, <1>4, <1>5, <1>6, <1>7, <1>8, <1>9

\* What is on the screen: no dialog outlives its page.
LEMMA ScreenStep == DeskInv /\ ScreenTyped /\ Next => ScreenTyped'
<1> SUFFICES ASSUME DeskInv, ScreenTyped, Next PROVE ScreenTyped'
  OBVIOUS
<1>1. UNCHANGED visit /\ Shape
  BY DEF Next, Enter, Leave, Choose, Refetch, ServeFetch, FailFetch, Complete, Click,
     OpenDialog, CloseDialog, Confirm, Apply, Refuse, Succeed, Fail, OthersMove, DeskInv
<1>2. CASE Enter
  <2>1. PICK E \in SUBSET Entries : Mount(E)
    BY <1>2 DEF Enter
  <2>2. excused' \subseteq Entries
    BY <2>1 DEF Mount, ScreenTyped
  <2> QED
    BY <1>1, <1>2, <2>2, SameVisit DEF Enter, ScreenTyped
<1>3. CASE Leave
  BY <1>1, <1>3, SameVisit DEF Leave, ScreenTyped, client
<1>4. ASSUME NEW k \in Keys, Choose(k) PROVE ScreenTyped'
  <2>1. PICK f \in Filters : chosen' = [chosen EXCEPT ![k] = f] /\ Mount({<<k, f>>})
    BY <1>4 DEF Choose
  <2>2. <<k, f>> \in Entries
    BY <1>4, FilterIsEntry DEF Choose
  <2>3. excused' \subseteq Entries
    BY <2>1, <2>2 DEF Mount, ScreenTyped
  <2>4. chosen' \in [Keys -> Filters]
    BY <2>1 DEF ScreenTyped
  <2> QED
    BY <1>1, <1>4, <2>3, <2>4, SameVisit DEF Choose, ScreenTyped
<1>5. ASSUME NEW e \in Entries, Refetch(e) \/ ServeFetch(e) \/ FailFetch(e) \/ Complete(e)
      PROVE  ScreenTyped'
  BY <1>1, <1>5, SameVisit DEF Refetch, ServeFetch, FailFetch, Complete, ScreenTyped
<1>6. ASSUME NEW o \in page.offers, Click(o) \/ OpenDialog(o) PROVE ScreenTyped'
  BY <1>1, <1>6, SameVisit DEF Click, OpenDialog, Shows, Visible, ScreenTyped, client
<1>7. CASE CloseDialog \/ Confirm
  BY <1>1, <1>7, SameVisit DEF CloseDialog, Confirm, ScreenTyped, client
<1>8. ASSUME NEW s \in Slots, Apply(s) \/ Refuse(s) \/ Fail(s) PROVE ScreenTyped'
  BY <1>1, <1>8, SameVisit DEF Apply, Refuse, Fail, ScreenTyped, client
<1>9. ASSUME NEW s \in Slots, Succeed(s) PROVE ScreenTyped'
  <2>1. PICK E \in SUBSET Entries : Invalidate(E)
    BY <1>9 DEF Succeed
  <2>2. excused' \subseteq Entries
    BY <2>1 DEF Invalidate, ScreenTyped
  <2>3. dialog' \in {dialog, NoDialog} /\ UNCHANGED <<on, chosen>>
    BY <1>9 DEF Succeed
  <2> QED
    BY <1>1, <2>2, <2>3, SameVisit DEF ScreenTyped
<1>10. ASSUME NEW does \in visit.others, OthersMove(does) PROVE ScreenTyped'
  BY <1>1, <1>10, SameVisit DEF OthersMove, ScreenTyped, client
<1> QED
  BY <1>2, <1>3, <1>4, <1>5, <1>6, <1>7, <1>8, <1>9, <1>10 DEF Next

\* What a step does to the requests under way: one is sent, the page is left,
\* the server carries one out, or requests are refused and forgotten.
LEMMA RequestSteps ==
    ASSUME DeskInv, Next
    PROVE  /\ UNCHANGED visit
           /\ \/ \E o \in page.offers : Send(o) /\ UNCHANGED own
              \/ Leave
              \/ \E s \in Slots : Apply(s)
              \/ \E s \in Slots : Refuse(s)
              \/ \E s \in Slots : request' = [request EXCEPT ![s] = NoRequest] /\ UNCHANGED own
              \/ UNCHANGED <<own, request>>
<1>1. CASE Confirm
  <2>1. dialog \in page.offers
    BY <1>1 DEF Confirm, DeskInv, Shape
  <2> QED
    BY <1>1, <2>1 DEF Confirm, server
<1>2. CASE ~Confirm
  BY <1>2 DEF Next, Enter, Leave, Choose, Refetch, ServeFetch, FailFetch, Complete, Click,
     OpenDialog, CloseDialog, Apply, Refuse, Succeed, Fail, OthersMove, server
<1> QED
  BY <1>1, <1>2

\* A request is the one of its offer.
LEMMA CallsStep == DeskInv /\ CallsOwn /\ Next => CallsOwn'
<1> SUFFICES ASSUME DeskInv, CallsOwn, Next PROVE CallsOwn'
  OBVIOUS
<1>1. request \in [Slots -> RequestRecord \cup {NoRequest}]
  BY DEF DeskInv, Shape
<1>2. UNCHANGED visit
  BY RequestSteps
<1>3. ASSUME NEW o \in page.offers, Send(o) PROVE CallsOwn'
  <2>1. PICK r : /\ r = [at |-> "sent", by |-> o.by, offer |-> o, seen |-> TRUE, mark |-> 0]
    OBVIOUS
  <2>2. r.by = r.offer.by
    BY <2>1
  <2>3. \E s \in Slots : request' = [request EXCEPT ![s] = r]
    BY <1>3, <2>1 DEF Send
  <2> QED
    BY <1>1, <1>2, <2>2, <2>3, SameVisit DEF CallsOwn
<1>4. CASE Leave
  <2>1. \A s \in Slots : request'[s] = IF request[s] = NoRequest THEN NoRequest
                                       ELSE [request[s] EXCEPT !.seen = FALSE]
    BY <1>4 DEF Leave
  <2>2. \A r \in RequestRecord : /\ [r EXCEPT !.seen = FALSE].by = r.by
                                 /\ [r EXCEPT !.seen = FALSE].offer = r.offer
    BY DEF RequestRecord
  <2>3. ASSUME NEW s \in Slots, request'[s] # NoRequest
        PROVE  request'[s].by = request'[s].offer.by
    <3>1. request[s] # NoRequest /\ request'[s] = [request[s] EXCEPT !.seen = FALSE]
      BY <2>1, <2>3
    <3>2. request[s] \in RequestRecord
      BY <1>1, <3>1
    <3> QED
      BY <2>2, <3>1, <3>2 DEF CallsOwn
  <2> QED
    BY <1>2, <2>3, SameVisit DEF CallsOwn
<1>5. ASSUME NEW s \in Slots, Apply(s) \/ Refuse(s) PROVE CallsOwn'
  <2>1. request[s] \in RequestRecord /\ request[s] # NoRequest
    BY <1>5, Stages, RequestUnderWay DEF Apply, Refuse, DeskInv
  <2>2. PICK r : /\ r \in {[request[s] EXCEPT !.at = "refused"],
                           [request[s] EXCEPT !.at = "done",
                                              !.mark = own[Touches(request[s].offer)] + 1]}
                 /\ request' = [request EXCEPT ![s] = r]
    BY <1>5 DEF Apply, Refuse
  <2>3. r.by = request[s].by /\ r.offer = request[s].offer
    BY <2>1, <2>2 DEF RequestRecord
  <2> QED
    BY <1>1, <1>2, <2>1, <2>2, <2>3, SameVisit DEF CallsOwn
<1>6. ASSUME NEW s \in Slots, request' = [request EXCEPT ![s] = NoRequest] PROVE CallsOwn'
  BY <1>1, <1>2, <1>6, SameVisit DEF CallsOwn
<1>7. CASE UNCHANGED request
  BY <1>2, <1>7, SameVisit DEF CallsOwn
<1> QED
  BY <1>3, <1>4, <1>5, <1>6, <1>7, RequestSteps

\* Fewer requests on their way, and no more changes.
LEMMA WritesKept ==
    ASSUME visit \in Visits, WritesBounded, own \in [TablesUsed -> Nat],
           UNCHANGED <<visit, own>>,
           \A s \in Slots : request'[s].at = "sent" =>
               request[s].at = "sent" /\ request'[s].offer = request[s].offer
    PROVE  WritesBounded'
<1> SUFFICES ASSUME NEW t \in TablesUsed
             PROVE  own[t] + Cardinality(SentTo(t)') <= visit.writes
  BY SameVisit DEF WritesBounded
<1>1. SentTo(t)' \subseteq SentTo(t)
  BY SameVisit DEF SentTo, Touches
<1>2. Cardinality(SentTo(t)') <= Cardinality(SentTo(t))
  BY <1>1, SlotsFinite, FS_Subset
<1>3. /\ Cardinality(SentTo(t)) \in Nat /\ Cardinality(SentTo(t)') \in Nat
      /\ visit.writes \in Nat /\ own[t] \in Nat
  BY <1>1, SlotsFinite
<1>4. own[t] + Cardinality(SentTo(t)) <= visit.writes
  BY DEF WritesBounded
<1> QED
  BY <1>2, <1>3, <1>4

\* A request is sent while there is room for one more.
LEMMA SendBounded ==
    ASSUME DeskInv, WritesBounded, NEW o \in page.offers, Send(o), UNCHANGED <<visit, own>>
    PROVE  WritesBounded'
<1>1. /\ request \in [Slots -> RequestRecord \cup {NoRequest}]
      /\ visit \in Visits /\ own \in [TablesUsed -> Nat]
  BY DEF DeskInv, Shape
<1>2. PICK r : r = [at |-> "sent", by |-> o.by, offer |-> o, seen |-> TRUE, mark |-> 0]
  OBVIOUS
<1>3. r.at = "sent" /\ r.offer = o
  BY <1>2
<1>4. PICK s \in Slots : request[s] = NoRequest /\ request' = [request EXCEPT ![s] = r]
  BY <1>2 DEF Send
<1>5. request'[s] = r /\ \A x \in Slots \ {s} : request'[x] = request[x]
  BY <1>1, <1>4
<1> SUFFICES ASSUME NEW t \in TablesUsed
             PROVE  own[t] + Cardinality(SentTo(t)') <= visit.writes
  BY <1>1, SameVisit DEF WritesBounded
<1>6. CASE t = Touches(o)
  <2> DEFINE S == {x \in Slots : request[x].at = "sent"}
  <2>1. SentTo(t)' \subseteq S \cup {s}
    BY <1>5, SameVisit DEF SentTo
  <2>2. S \subseteq Slots /\ s \notin S
    BY <1>4, Stages
  <2>3. IsFiniteSet(S) /\ Cardinality(S) \in Nat
    BY <1>1, <2>2, SlotsFinite
  <2>4. own[t] + Cardinality(S) < visit.writes
    BY <1>6 DEF Send
  <2> HIDE DEF S
  <2>5. IsFiniteSet(S \cup {s}) /\ Cardinality(S \cup {s}) = Cardinality(S) + 1
    BY <2>2, <2>3, FS_AddElement
  <2>6. /\ Cardinality(SentTo(t)') <= Cardinality(S \cup {s})
        /\ Cardinality(SentTo(t)') \in Nat
    BY <2>1, <2>5, FS_Subset, FS_CardinalityType
  <2>7. own[t] \in Nat /\ visit.writes \in Nat
    BY <1>1, SlotsFinite
  <2> QED
    BY <2>3, <2>4, <2>5, <2>6, <2>7
<1>7. CASE t # Touches(o)
  <2>1. SentTo(t)' = SentTo(t)
    BY <1>3, <1>4, <1>5, <1>7, Stages, SameVisit DEF SentTo, Touches
  <2> QED
    BY <2>1 DEF WritesBounded
<1> QED
  BY <1>6, <1>7

\* What is carried out was counted when it was sent.
LEMMA ApplyBounded ==
    ASSUME DeskInv, WritesBounded, NEW s \in Slots, Apply(s)
    PROVE  WritesBounded'
<1>1. /\ request \in [Slots -> RequestRecord \cup {NoRequest}]
      /\ visit \in Visits /\ own \in [TablesUsed -> Nat] /\ UNCHANGED visit
  BY DEF DeskInv, Shape, Apply
<1>2. request[s] \in RequestRecord /\ request[s].at = "sent"
  BY Stages, RequestUnderWay DEF Apply, DeskInv
<1>3. PICK u \in TablesUsed : u = Touches(request[s].offer)
  BY <1>2, OfferKnown DEF RequestRecord
<1>4. PICK r : r = [request[s] EXCEPT !.at = "done", !.mark = own[u] + 1]
  OBVIOUS
<1>5. r.at = "done"
  BY <1>2, <1>4 DEF RequestRecord
<1>6. request' = [request EXCEPT ![s] = r] /\ own' = [own EXCEPT ![u] = own[u] + 1]
  BY <1>3, <1>4 DEF Apply
<1>7. request'[s] = r /\ \A x \in Slots \ {s} : request'[x] = request[x]
  BY <1>1, <1>6
<1> SUFFICES ASSUME NEW t \in TablesUsed
             PROVE  own'[t] + Cardinality(SentTo(t)') <= visit.writes
  BY <1>1, SameVisit DEF WritesBounded
<1>8. /\ IsFiniteSet(SentTo(t)) /\ Cardinality(SentTo(t)) \in Nat
      /\ visit.writes \in Nat /\ own[t] \in Nat
  BY <1>1, SlotsFinite
<1>9. own[t] + Cardinality(SentTo(t)) <= visit.writes
  BY DEF WritesBounded
<1>10. CASE t = u
  <2>1. s \in SentTo(t)
    BY <1>2, <1>3, <1>10 DEF SentTo
  <2>2. SentTo(t)' = SentTo(t) \ {s}
    BY <1>1, <1>5, <1>7, SameVisit DEF SentTo, Touches
  <2>3. Cardinality(SentTo(t)') = Cardinality(SentTo(t)) - 1
    BY <1>8, <2>1, <2>2, FS_RemoveElement
  <2>4. own'[t] = own[t] + 1
    BY <1>1, <1>6, <1>10
  <2> QED
    BY <1>8, <1>9, <2>3, <2>4
<1>11. CASE t # u
  <2>1. SentTo(t)' = SentTo(t)
    BY <1>1, <1>3, <1>5, <1>7, <1>11, SameVisit DEF SentTo, Touches
  <2>2. own'[t] = own[t]
    BY <1>1, <1>6, <1>11
  <2> QED
    BY <1>9, <2>1, <2>2
<1> QED
  BY <1>10, <1>11

\* No step makes room for more writes than the visit allows.
LEMMA WritesStep == DeskInv /\ WritesBounded /\ Next => WritesBounded'
<1> SUFFICES ASSUME DeskInv, WritesBounded, Next PROVE WritesBounded'
  OBVIOUS
<1>1. /\ request \in [Slots -> RequestRecord \cup {NoRequest}]
      /\ visit \in Visits /\ own \in [TablesUsed -> Nat] /\ UNCHANGED visit
  BY RequestSteps DEF DeskInv, Shape
<1>2. CASE Leave
  <2>1. UNCHANGED own
    BY <1>2 DEF Leave, server
  <2>2. \A x \in Slots : request'[x] = IF request[x] = NoRequest THEN NoRequest
                                       ELSE [request[x] EXCEPT !.seen = FALSE]
    BY <1>2 DEF Leave
  <2>3. \A r \in RequestRecord : /\ [r EXCEPT !.seen = FALSE].at = r.at
                                 /\ [r EXCEPT !.seen = FALSE].offer = r.offer
    BY DEF RequestRecord
  <2>4. \A x \in Slots : request'[x].at = "sent" =>
            request[x].at = "sent" /\ request'[x].offer = request[x].offer
    BY <1>1, <2>2, <2>3, Stages
  <2> QED
    BY <1>1, <2>1, <2>4, WritesKept
<1>3. ASSUME NEW s \in Slots, Refuse(s) PROVE WritesBounded'
  <2>1. request[s] \in RequestRecord
    BY <1>3, Stages, RequestUnderWay DEF Refuse, DeskInv
  <2>2. PICK r : r = [request[s] EXCEPT !.at = "refused"]
    OBVIOUS
  <2>3. r.at = "refused" /\ request' = [request EXCEPT ![s] = r] /\ UNCHANGED own
    BY <1>3, <2>1, <2>2 DEF Refuse, RequestRecord, server
  <2>4. \A x \in Slots : request'[x].at = "sent" => request'[x] = request[x]
    BY <1>1, <2>3
  <2> QED
    BY <1>1, <2>3, <2>4, WritesKept
<1>4. ASSUME NEW s \in Slots, request' = [request EXCEPT ![s] = NoRequest], UNCHANGED own
      PROVE  WritesBounded'
  <2>1. \A x \in Slots : request'[x].at = "sent" => request'[x] = request[x]
    BY <1>1, <1>4, Stages
  <2> QED
    BY <1>1, <1>4, <2>1, WritesKept
<1>5. CASE UNCHANGED <<own, request>>
  BY <1>1, <1>5, WritesKept
<1> QED
  BY <1>1, <1>2, <1>3, <1>4, <1>5, RequestSteps, SendBounded, ApplyBounded

\* All five, step by step.
LEMMA TypedStep == DeskInv /\ DeskTyped /\ [Next]_vars => DeskTyped'
<1> SUFFICES ASSUME DeskInv, DeskTyped, [Next]_vars PROVE DeskTyped'
  OBVIOUS
<1>1. CASE Next
  BY <1>1, RowsStep, AnswersStep, ScreenStep, CallsStep, WritesStep DEF DeskTyped
<1>2. CASE UNCHANGED vars
  <2>1. UNCHANGED <<visit, on, chosen, row, own, cache, fetch, excused, dialog, request>>
    BY <1>2 DEF vars
  <2>2. RowsTyped' /\ AnswersTyped' /\ ScreenTyped' /\ CallsOwn'
    BY <2>1, SameVisit DEF DeskTyped, RowsTyped, AnswersTyped, ScreenTyped, CallsOwn
  <2>3. WritesBounded'
    BY <2>1, SameVisit DEF DeskTyped, WritesBounded, SentTo, Touches
  <2> QED
    BY <2>2, <2>3 DEF DeskTyped
<1> QED
  BY <1>1, <1>2

\* Both invariants, of every behaviour of a page before a user.
THEOREM DeskCorrect == Safety => [](DeskInv /\ DeskTyped)
<1>1. Init => DeskInv /\ DeskTyped
  BY DeskInit, TypedInit
<1>2. DeskInv /\ DeskTyped /\ [Next]_vars => (DeskInv /\ DeskTyped)'
  BY DeskStep, DropsOwnHolds, TypedStep
<1> QED
  BY <1>1, <1>2, PTL DEF Safety

\* Every variable keeps its type: rows, and what the cache says of them, are
\* statuses of their tables, the server carries out no more requests than the
\* visit allows, and no dialog is open on a page that was left.
THEOREM DeskTypes == Safety => []TypeOK
<1>1. DeskInv /\ DeskTyped => TypeOK
  <2> SUFFICES ASSUME DeskInv, DeskTyped PROVE TypeOK
    OBVIOUS
  <2>1. Shape /\ AnswersSound
    BY DEF DeskInv
  <2>2. \A t \in TablesUsed : row[t] \in Statuses[t] /\ own[t] \in 0..visit.writes
    <3> SUFFICES ASSUME NEW t \in TablesUsed PROVE own[t] \in 0..visit.writes
      BY DEF DeskTyped, RowsTyped
    <3>1. own[t] + Cardinality(SentTo(t)) <= visit.writes
      BY DEF DeskTyped, WritesBounded
    <3>2. own[t] \in Nat /\ visit.writes \in Nat /\ Cardinality(SentTo(t)) \in Nat
      BY <2>1, SlotsFinite DEF Shape
    <3> QED
      BY <3>1, <3>2
  <2>3. \A e \in Entries :
          /\ cache[e] = NoData \/ cache[e].status \in Statuses[QueryOf(e).of]
          /\ fetch[e].at \in {"idle", "sent", "back"}
    BY <2>1 DEF DeskTyped, AnswersTyped, Shape
  <2>4. \A s \in Slots : request[s].at \in {"none", "sent", "done", "refused"}
    BY <2>1, Stages DEF Shape, RequestRecord
  <2> QED
    BY <2>1, <2>2, <2>3, <2>4 DEF TypeOK, Shape, AnswersSound, DeskTyped, ScreenTyped
<1> QED
  BY <1>1, DeskCorrect, PTL

\* What a page offers on an up-to-date row the server takes, but for the known
\* exceptions, on every page and for every viewer it admits.
THEOREM OfferedCorrect == Safety => []OfferedAccepted
<1>1. DeskInv /\ DeskTyped => OfferedAccepted
  <2> SUFFICES ASSUME DeskInv, DeskTyped, NEW o \in page.offers,
                      row[o.of] \in o.at, o.by.does \notin KnownRefused
               PROVE  Accepts(o.by.does, row[Touches(o)])
    BY DEF OfferedAccepted
  <2>1. OfferSound(o)
    BY OfferIsSound DEF DeskInv, Shape
  <2>2. row[Touches(o)] \in Statuses[Touches(o)]
    BY OfferKnown DEF DeskTyped, RowsTyped
  <2> QED
    BY <2>1, <2>2 DEF OfferSound, Accepts
<1> QED
  BY <1>1, DeskCorrect, PTL

\* However old the page a decision was taken on, the server carries it out
\* only on a row it would still be offered for, or changes nothing.
THEOREM MeantCorrect == Safety => DecisionMeant
<1> DEFINE Meant ==
      \A s \in Slots :
        request[s].at = "sent" /\ request'[s].at = "done"
            => \/ row' = row
               \/ row[request[s].offer.of] \in request[s].offer.at
               \/ request[s].by.does = "assign"
<1>1. DeskInv /\ DeskTyped /\ [Next]_vars => [Meant]_vars
  <2> SUFFICES ASSUME DeskInv, DeskTyped, Next, NEW s \in Slots,
                      request[s].at = "sent", request'[s].at = "done"
               PROVE  \/ row' = row
                      \/ row[request[s].offer.of] \in request[s].offer.at
                      \/ request[s].by.does = "assign"
    OBVIOUS
  <2>1. request \in [Slots -> RequestRecord \cup {NoRequest}] /\ visit \in Visits
    BY DEF DeskInv, Shape
  <2>2. Apply(s)
    <3>1. ASSUME NEW o \in page.offers, Send(o) PROVE FALSE
      BY <3>1, SendKept DEF DeskInv
    <3>2. CASE Leave
      <4>1. request[s] \in RequestRecord
        BY Stages, RequestUnderWay DEF DeskInv
      <4>2. request'[s] = [request[s] EXCEPT !.seen = FALSE]
        BY <3>2, Stages DEF Leave
      <4> QED
        BY <4>1, <4>2 DEF RequestRecord
    <3>3. ASSUME NEW x \in Slots, Apply(x) PROVE x = s
      BY <2>1, <3>3 DEF Apply
    <3>4. ASSUME NEW x \in Slots, Refuse(x) PROVE FALSE
      <4>1. request[x] \in RequestRecord
        BY <3>4, Stages, RequestUnderWay DEF Refuse, DeskInv
      <4>2. PICK r : r = [request[x] EXCEPT !.at = "refused"]
        OBVIOUS
      <4>3. r.at = "refused" /\ request' = [request EXCEPT ![x] = r]
        BY <3>4, <4>1, <4>2 DEF Refuse, RequestRecord
      <4> QED
        BY <2>1, <4>3
    <3>5. ASSUME NEW x \in Slots, request' = [request EXCEPT ![x] = NoRequest] PROVE FALSE
      BY <2>1, <3>5, Stages
    <3> QED
      BY <3>1, <3>2, <3>3, <3>4, <3>5, RequestSteps
  <2>3. PICK o \in page.offers : o = request[s].offer
    BY <2>2, Stages, RequestUnderWay DEF Apply, DeskInv
  <2>4. OfferSound(o) /\ request[s].by = o.by
    BY <2>1, <2>3, Stages, OfferIsSound DEF DeskTyped, CallsOwn
  <2>5. CASE o.by.does = "assign"
    BY <2>4, <2>5
  <2>6. CASE o.by.does # "assign"
    <3>1. PICK t : t = o.of /\ t = Touches(o)
      BY <2>4, <2>6 DEF OfferSound
    <3>2. PICK to \in Moves[o.by.does].step[row[t]] : row' = [row EXCEPT ![t] = to]
      BY <2>2, <2>3, <3>1 DEF Apply
    <3>3. row[t] \in DOMAIN Moves[o.by.does].step
      BY <2>2, <2>3, <3>1 DEF Apply, Accepts
    <3>4. row[t] \in o.at \/ to = row[t]
      BY <2>4, <2>6, <3>2, <3>3 DEF OfferSound
    <3>5. row = [x \in TablesUsed |-> row[x]]
      BY DEF DeskTyped, RowsTyped
    <3>6. to = row[t] => row' = row
      BY <3>2, <3>5
    <3> QED
      BY <2>3, <3>1, <3>4, <3>6
  <2> QED
    BY <2>5, <2>6
<1> QED
  BY <1>1, DeskCorrect, PTL DEF Safety, DecisionMeant

=============================================================================
