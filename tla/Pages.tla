------------------------------- MODULE Pages --------------------------------
(***************************************************************************)
(* What the pages of the frontend say, as tables: the tables of the server *)
(* and the statuses their rows have, the routes and who they serve, what   *)
(* each call of the API objects does to a row, and, for every page with a  *)
(* state of its own, whom it shows itself to, the queries it reads and the *)
(* mutations it offers at which status of a row.                           *)
(*                                                                         *)
(* Module PageDesk is the behaviour of one such page in a browser.         *)
(***************************************************************************)
EXTENDS Naturals, Sequences

Roles == {"tenant", "owner", "teknisi", "super_admin"}
Viewers == Roles \cup {"guest"}

\* A row that is not there yet is "absent", one that is deleted "gone".  A
\* kost with is_active off is "inactive", and so is hidden from the public.
Statuses ==
    [bookings |-> {"absent", "pending", "processing", "approved", "rejected",
                   "expired", "cancelled"},
     contracts |-> {"absent", "active", "ended"},
     rooms |-> {"absent", "available", "reserved", "occupied", "maintenance", "gone"},
     kosts |-> {"absent", "pending", "verified", "rejected", "inactive", "gone"},
     assignments |-> {"absent", "assigned", "surveying", "approved", "rejected"},
     events |-> {"absent", "scheduled", "gone"},
     users |-> {"absent", "active", "disabled", "gone"},
     conversations |-> {"absent", "open"},
     notifications |-> {"absent", "unread", "read"}]

Tables == DOMAIN Statuses
Present(t) == Statuses[t] \ {"absent", "gone"}

---------------------------------------------------------------------------
(* The API objects: the route each call takes *)

authApi ==
    [register |-> "POST /auth/register", verifyEmail |-> "GET /auth/verify-email",
     resendVerification |-> "POST /auth/resend-verification",
     login |-> "POST /auth/login", logout |-> "POST /auth/logout",
     me |-> "GET /auth/me", refresh |-> "POST /auth/refresh", csrf |-> "GET /auth/csrf"]

kostsApi == [listPublic |-> "GET /kosts", getPublic |-> "GET /kosts/:id"]

bookingsApi ==
    [create |-> "POST /bookings", listMe |-> "GET /bookings/me",
     cancel |-> "PATCH /bookings/:id/cancel"]

dashboardApi ==
    [stats |-> "GET /owner/stats",
     listOwnerKosts |-> "GET /owner/kosts", getOwnerKost |-> "GET /owner/kosts/:id",
     createKost |-> "POST /owner/kosts", updateKost |-> "PATCH /owner/kosts/:id",
     listRooms |-> "GET /owner/kosts/:id/rooms", createRoom |-> "POST /owner/kosts/:id/rooms",
     updateRoom |-> "PATCH /owner/rooms/:id", deleteRoom |-> "DELETE /owner/rooms/:id",
     listOwnerBookings |-> "GET /owner/bookings",
     processBooking |-> "PATCH /owner/bookings/:id/process",
     approveBooking |-> "PATCH /owner/bookings/:id/approve",
     rejectBooking |-> "PATCH /owner/bookings/:id/reject",
     listOwnerContracts |-> "GET /owner/contracts",
     endContract |-> "PATCH /owner/contracts/:id/end",
     listAdminKosts |-> "GET /admin/kosts", createAdminKost |-> "POST /admin/kosts",
     verifyKost |-> "PATCH /admin/kosts/:id/verify",
     rejectKost |-> "PATCH /admin/kosts/:id/reject",
     updateAdminKost |-> "PATCH /admin/kosts/:id",
     deleteAdminKost |-> "DELETE /admin/kosts/:id",
     toggleKostActive |-> "PATCH /admin/kosts/:id/active",
     listUsers |-> "GET /admin/users", createUser |-> "POST /admin/users",
     updateUser |-> "PATCH /admin/users/:id", deleteUser |-> "DELETE /admin/users/:id",
     uploadImage |-> "POST /uploads/images", updateProfile |-> "PATCH /users/me",
     listNotifications |-> "GET /notifications",
     markNotificationRead |-> "PATCH /notifications/:id/read"]

chatApi ==
    [start |-> "POST /chat/start", list |-> "GET /chat/conversations",
     unread |-> "GET /chat/unread", messages |-> "GET /chat/conversations/:id/messages",
     send |-> "POST /chat/conversations/:id/messages"]

surveyApi ==
    [assign |-> "POST /admin/kosts/:id/assign", listAssignments |-> "GET /teknisi/assignments",
     listAssignmentsAdmin |-> "GET /admin/assignments",
     decide |-> "PATCH /teknisi/assignments/:id/decide", listTeknisi |-> "GET /admin/users"]

eventsApi ==
    [list |-> "GET /events", create |-> "POST /admin/events",
     remove |-> "DELETE /admin/events/:id"]

RoutesOf(api) == {api[f] : f \in DOMAIN api}

---------------------------------------------------------------------------
(* The router: who a route serves.  The others get 401 or 403. *)

PublicRoutes ==
    RoutesOf(kostsApi) \cup (RoutesOf(authApi) \ {authApi.me})

SessionRoutes ==
    {authApi.me, dashboardApi.updateProfile, dashboardApi.listNotifications,
     dashboardApi.markNotificationRead, eventsApi.list} \cup RoutesOf(chatApi)

TenantRoutes == RoutesOf(bookingsApi)

OwnerRoutes ==
    {dashboardApi[f] : f \in
        {"stats", "listOwnerKosts", "getOwnerKost", "createKost", "updateKost", "listRooms",
         "createRoom", "updateRoom", "deleteRoom", "listOwnerBookings", "processBooking",
         "approveBooking", "rejectBooking", "listOwnerContracts", "endContract"}}

TeknisiRoutes == {surveyApi.listAssignments, surveyApi.decide}

AdminRoutes ==
    {dashboardApi[f] : f \in
        {"listAdminKosts", "createAdminKost", "verifyKost", "rejectKost", "updateAdminKost",
         "deleteAdminKost", "toggleKostActive", "listUsers", "createUser", "updateUser",
         "deleteUser"}}
    \cup {surveyApi.assign, surveyApi.listAssignmentsAdmin, eventsApi.create, eventsApi.remove}

Serves(route, v) ==
    \/ route \in PublicRoutes
    \/ route \in SessionRoutes /\ v \in Roles
    \/ route \in TenantRoutes /\ v = "tenant"
    \/ route \in OwnerRoutes /\ v = "owner"
    \/ route \in TeknisiRoutes /\ v = "teknisi"
    \/ route \in AdminRoutes /\ v = "super_admin"
    \/ route = dashboardApi.uploadImage /\ v \in {"owner", "super_admin"}

---------------------------------------------------------------------------
(* What a call does to the row it names: the statuses the server takes it  *)
(* at, each with those the row may have afterwards.  At any other status   *)
(* it answers an error and changes nothing.  Of the rows that go with a    *)
(* deleted one (ON DELETE CASCADE) nothing is said.                        *)

\* An operation that needs the row, and leaves its status alone.
Keeps(t) == [s \in Present(t) |-> {s}]
Becomes(S, s) == [r \in S |-> {s}]

BookingMoves ==
    [process |-> [of |-> "bookings", step |-> Becomes({"pending"}, "processing")],
     approve |-> [of |-> "bookings", step |-> Becomes({"pending", "processing"}, "approved")],
     reject |-> [of |-> "bookings", step |-> Becomes({"pending"}, "rejected")],
     cancel |-> [of |-> "bookings", step |-> Becomes({"pending"}, "cancelled")],
     expire |-> [of |-> "bookings", step |-> Becomes({"pending", "processing"}, "expired")],
     request |-> [of |-> "bookings", step |-> Becomes({"absent"}, "pending")],
     sign |-> [of |-> "contracts", step |-> Becomes({"absent"}, "active")],
     end |-> [of |-> "contracts", step |-> Becomes({"active"}, "ended")]]

RoomMoves ==
    [book |-> [of |-> "rooms", step |-> Becomes({"available"}, "reserved")],
     release |-> [of |-> "rooms", step |-> Becomes({"reserved", "occupied"}, "available")],
     let |-> [of |-> "rooms", step |-> Becomes({"reserved"}, "occupied")],
     addRoom |-> [of |-> "rooms", step |-> Becomes({"absent"}, "available")],
     maintain |-> [of |-> "rooms", step |-> Becomes({"available"}, "maintenance")],
     reopen |-> [of |-> "rooms", step |-> Becomes({"maintenance"}, "available")],
     deleteRoom |-> [of |-> "rooms", step |-> Becomes({"available"}, "gone")]]

KostMoves ==
    [createKost |-> [of |-> "kosts", step |-> Becomes({"absent"}, "pending")],
     adminCreateKost |-> [of |-> "kosts", step |-> Becomes({"absent"}, "verified")],
     updateKost |-> [of |-> "kosts", step |-> Keeps("kosts")],
     activate |-> [of |-> "kosts", step |->
         [s \in Present("kosts") |->
             IF s = "inactive" THEN {"pending", "verified", "rejected"} ELSE {s}]],
     deactivate |-> [of |-> "kosts", step |-> Becomes(Present("kosts"), "inactive")],
     deleteKost |-> [of |-> "kosts", step |-> Becomes(Present("kosts"), "gone")]]

\* Slip: Decide does not look at decided_at.
SurveyMovesAgain ==
    [assign |-> [of |-> "assignments", step |->
         [s \in Statuses.assignments |-> {"assigned", "surveying"}]],
     decide |-> [of |-> "assignments", step |->
         [s \in Present("assignments") |-> {"approved", "rejected"}]],
     judge |-> [of |-> "kosts", step |-> Becomes(Present("kosts"), "verified")],
     schedule |-> [of |-> "events", step |-> Becomes({"absent"}, "scheduled")],
     removeEvent |-> [of |-> "events", step |-> Becomes({"scheduled"}, "gone")]]

\* Decide writes the kost of the assignment too, whatever its status: a kost
\* whose is_active is off stays hidden.
SurveyMoves ==
    [assign |-> [of |-> "assignments", step |->
         [s \in Statuses.assignments |-> {"assigned", "surveying"}]],
     decide |-> [of |-> "assignments", step |->
         [s \in {"assigned", "surveying"} |-> {"approved", "rejected"}]],
     judge |-> [of |-> "kosts", step |->
         [s \in Present("kosts") |->
             IF s = "inactive" THEN {s} ELSE {"verified", "rejected"}]],
     schedule |-> [of |-> "events", step |-> Becomes({"absent"}, "scheduled")],
     removeEvent |-> [of |-> "events", step |-> Becomes({"scheduled"}, "gone")]]

UserMoves ==
    [createUser |-> [of |-> "users", step |-> Becomes({"absent"}, "active")],
     setRole |-> [of |-> "users", step |-> Keeps("users")],
     enable |-> [of |-> "users", step |-> Becomes(Present("users"), "active")],
     disable |-> [of |-> "users", step |-> Becomes(Present("users"), "disabled")],
     deleteUser |-> [of |-> "users", step |-> Becomes(Present("users"), "gone")],
     notify |-> [of |-> "notifications", step |-> Becomes({"absent"}, "unread")],
     updateMe |-> [of |-> "users", step |-> Keeps("users")],
     markRead |-> [of |-> "notifications", step |-> Becomes(Present("notifications"), "read")]]

Merged(f, g) ==
    [x \in DOMAIN f \cup DOMAIN g |-> IF x \in DOMAIN f THEN f[x] ELSE g[x]]

Moves ==
    Merged(BookingMoves, Merged(RoomMoves, Merged(KostMoves, Merged(SurveyMoves, UserMoves))))

Accepts(does, s) == s \in DOMAIN Moves[does].step

\* A status of a row of table t stays, or one of the moves takes it to the next.
Foreseen(moves, t, from, to) ==
    \/ from = to
    \/ \E m \in DOMAIN moves :
          moves[m].of = t /\ from \in DOMAIN moves[m].step /\ to \in moves[m].step[from]

---------------------------------------------------------------------------
(* Queries, mutations and offers *)

\* What useQuery is given: the first parts of its key, the table its answer
\* shows, the call, for whom it is enabled, whether it is asked again at an
\* interval, and whether filters or the search text are part of the key.
Query(key, of, call, asked) ==
    [key |-> key, of |-> of, call |-> call, asked |-> asked, polled |-> FALSE, keyed |-> FALSE]
Polled(q) == [q EXCEPT !.polled = TRUE]
Keyed(q) == [q EXCEPT !.keyed = TRUE]

\* What useMutation is given: the move, the call, and the keys its onSuccess
\* invalidates.
Mutation(does, call, drops) == [does |-> does, call |-> call, drops |-> drops]

\* A button for a mutation: the statuses of a row of the table at which the
\* page shows it, and what stands between the click and the request.
\*   dialog: "none"; "fires", a ConfirmDialog or form that is closed when the
\*           request is sent; "holds", one that stays until it succeeds
\* The form of a mutation that makes a row is a button at "absent".
\*   locked: the button is disabled while a request of the mutation is pending
Offer(mutation, of, at, dialog, locked) ==
    [by |-> mutation, of |-> of, at |-> at, dialog |-> dialog, locked |-> locked,
     to |-> Viewers]
\* To the others it is not shown, or does something else.
OnlyFor(v, o) == [o EXCEPT !.to = {v}]

\* A page: the segments of its path, whom it shows its body to, and both lists.
Page(path, admits, reads, offers) ==
    [path |-> path, admits |-> admits, reads |-> reads, offers |-> offers]

---------------------------------------------------------------------------
(* dashboard/bookings and dashboard/contracts: no guard, not even on the   *)
(* queries; the routes serve owners only.                                  *)

OwnerBookings ==
    Keyed(Query("owner-bookings", "bookings", dashboardApi.listOwnerBookings, Viewers))
approveMut == Mutation("approve", dashboardApi.approveBooking, {"owner-bookings"})
processMut == Mutation("process", dashboardApi.processBooking, {"owner-bookings"})
rejectMut == Mutation("reject", dashboardApi.rejectBooking, {"owner-bookings"})

BookingsPage ==
    Page(<<"dashboard", "bookings">>, Viewers, {OwnerBookings},
        {Offer(processMut, "bookings", {"pending"}, "none", FALSE),
         Offer(approveMut, "bookings", {"pending", "processing"}, "holds", TRUE),
         Offer(rejectMut, "bookings", {"pending", "processing"}, "fires", FALSE)})

OwnerContracts ==
    Query("owner-contracts", "contracts", dashboardApi.listOwnerContracts, Viewers)
endMut == Mutation("end", dashboardApi.endContract, {"owner-contracts"})

ContractsPage ==
    Page(<<"dashboard", "contracts">>, Viewers, {OwnerContracts},
        {Offer(endMut, "contracts", {"active"}, "fires", TRUE)})

(* my-bookings: the query is asked for every role, the body shown to tenants. *)

MyBookings == Keyed(Query("bookings/me", "bookings", bookingsApi.listMe, Roles))
cancelMut == Mutation("cancel", bookingsApi.cancel, {"bookings/me"})

\* Slip: the button of pending bookings is shown for those in processing too.
MyBookingsPageWide ==
    Page(<<"my-bookings">>, {"tenant"}, {MyBookings},
        {Offer(cancelMut, "bookings", {"pending", "processing"}, "fires", TRUE)})

MyBookingsPage ==
    Page(<<"my-bookings">>, {"tenant"}, {MyBookings},
        {Offer(cancelMut, "bookings", {"pending"}, "fires", TRUE)})

---------------------------------------------------------------------------
(* The pages of a kost and of a room: everyone sees them, the button of    *)
(* anyone but a tenant leads to the login page or to a toast.              *)

KostDetail == Query("kost", "rooms", kostsApi.getPublic, Viewers)
bookMut == Mutation("book", bookingsApi.create, {"kost"})
BookOffer == OnlyFor("tenant", Offer(bookMut, "rooms", {"available"}, "fires", TRUE))

KostPage == Page(<<"kosts", "id">>, Viewers, {KostDetail}, {BookOffer})
RoomPage == Page(<<"kosts", "id", "kamar", "roomId">>, Viewers, {KostDetail}, {BookOffer})

KostSearch == Keyed(Query("kosts", "kosts", kostsApi.listPublic, Viewers))
KostListPage == Page(<<"kosts">>, Viewers, {KostSearch}, {})

LandingPage ==
    Page(<< >>, Viewers, {Query("kosts/featured", "kosts", kostsApi.listPublic, Viewers)}, {})

---------------------------------------------------------------------------
(* The owner's kosts and rooms *)

OwnerKosts == Keyed(Query("owner-kosts", "kosts", dashboardApi.listOwnerKosts, Roles))
OwnerKostsPage ==
    Page(<<"dashboard", "kosts">>, {"owner", "super_admin"}, {OwnerKosts}, {})

OwnerKost == Query("owner-kost", "kosts", dashboardApi.getOwnerKost, Viewers)
OwnerRooms == Query("rooms", "rooms", dashboardApi.listRooms, Viewers)
updateMut == Mutation("updateKost", dashboardApi.updateKost, {"owner-kost"})
createRoomMut == Mutation("addRoom", dashboardApi.createRoom, {"rooms"})
deleteRoomMut == Mutation("deleteRoom", dashboardApi.deleteRoom, {"rooms"})

KostEditPage ==
    Page(<<"dashboard", "kosts", "id">>, Viewers, {OwnerKost, OwnerRooms},
        {Offer(updateMut, "kosts", Present("kosts"), "fires", TRUE),
         Offer(createRoomMut, "rooms", {"absent"}, "fires", TRUE),
         Offer(deleteRoomMut, "rooms", Present("rooms"), "fires", TRUE)})

\* On success it leads to the list, which asks again as it mounts.
createKostMut == Mutation("createKost", dashboardApi.createKost, {})
KostNewPage ==
    Page(<<"dashboard", "kosts", "new">>, Viewers, {},
        {Offer(createKostMut, "kosts", {"absent"}, "fires", TRUE)})

---------------------------------------------------------------------------
(* The pages of super admins.  A guard lets the role in, and whoever is    *)
(* not known yet, for whom nothing is asked.                               *)

AdminsAndUnknown == {"super_admin", "guest"}

AdminKosts == Query("admin-kosts", "kosts", dashboardApi.listAdminKosts, {"super_admin"})
AdminAssignments ==
    Query("admin-assignments", "assignments", surveyApi.listAssignmentsAdmin, {"super_admin"})
TeknisiList == Query("teknisi-list", "users", surveyApi.listTeknisi, {"super_admin"})
\* Slip: only what the helper invalidate() names.
assignMutShort == Mutation("assign", surveyApi.assign, {"admin-kosts", "master-kosts"})

assignMut ==
    Mutation("assign", surveyApi.assign, {"admin-kosts", "master-kosts", "admin-assignments"})

\* The button of a kost is there whether or not it has an assignment.
VerificationPage ==
    Page(<<"dashboard", "verification">>, AdminsAndUnknown,
        {AdminKosts, AdminAssignments, TeknisiList},
        {Offer(assignMut, "kosts", {"pending"}, "holds", TRUE)})

MasterKosts == Keyed(Query("master-kosts", "kosts", dashboardApi.listAdminKosts, {"super_admin"}))
MasterMutation(does, call) == Mutation(does, call, {"master-kosts"})

MasterKostPage ==
    Page(<<"dashboard", "master-kost">>, AdminsAndUnknown, {MasterKosts},
        {Offer(MasterMutation("adminCreateKost", dashboardApi.createAdminKost),
               "kosts", {"absent"}, "holds", TRUE),
         Offer(MasterMutation("updateKost", dashboardApi.updateAdminKost),
               "kosts", Present("kosts"), "holds", TRUE),
         Offer(MasterMutation("activate", dashboardApi.toggleKostActive),
               "kosts", {"inactive"}, "fires", FALSE),
         Offer(MasterMutation("deactivate", dashboardApi.toggleKostActive),
               "kosts", Present("kosts") \ {"inactive"}, "fires", FALSE),
         Offer(MasterMutation("deleteKost", dashboardApi.deleteAdminKost),
               "kosts", Present("kosts"), "fires", FALSE)})

AdminUsers == Keyed(Query("admin-users", "users", dashboardApi.listUsers, {"super_admin"}))
UserMutation(does, call) == Mutation(does, call, {"admin-users"})

UsersPage ==
    Page(<<"dashboard", "users">>, AdminsAndUnknown, {AdminUsers},
        {Offer(UserMutation("createUser", dashboardApi.createUser),
               "users", {"absent"}, "fires", TRUE),
         Offer(UserMutation("setRole", dashboardApi.updateUser),
               "users", Present("users"), "fires", FALSE),
         Offer(UserMutation("enable", dashboardApi.updateUser),
               "users", {"disabled"}, "fires", FALSE),
         Offer(UserMutation("disable", dashboardApi.updateUser),
               "users", {"active"}, "fires", FALSE),
         Offer(UserMutation("deleteUser", dashboardApi.deleteUser),
               "users", Present("users"), "fires", FALSE)})

---------------------------------------------------------------------------
(* Surveys *)

TeknisiAssignments ==
    Query("teknisi-assignments", "assignments", surveyApi.listAssignments, {"teknisi"})
decideMut == Mutation("decide", surveyApi.decide, {"teknisi-assignments"})

TeknisiPage ==
    Page(<<"dashboard", "teknisi">>, {"teknisi", "guest"}, {TeknisiAssignments},
        {Offer(decideMut, "assignments", {"assigned", "surveying"}, "holds", TRUE)})

\* Slip: no refetchInterval.
EventsOnce == Query("events", "events", eventsApi.list, Roles)

Events == Polled(Query("events", "events", eventsApi.list, Roles))
EventKosts == Query("master-kosts-events", "kosts", dashboardApi.listAdminKosts, {"super_admin"})
createEventMut == Mutation("schedule", eventsApi.create, {"events"})
deleteEventMut == Mutation("removeEvent", eventsApi.remove, {"events"})

EventsPage ==
    Page(<<"dashboard", "events">>, Roles, {Events, EventKosts, TeknisiList},
        {OnlyFor("super_admin", Offer(createEventMut, "events", {"absent"}, "holds", TRUE)),
         OnlyFor("super_admin", Offer(deleteEventMut, "events", {"scheduled"}, "holds", FALSE))})

---------------------------------------------------------------------------
(* The dashboard, the profile, and the bell in the header of the dashboard *)

DashboardStats == Query("dashboard-stats", "bookings", dashboardApi.stats, {"owner"})
AdminPendingCount ==
    Query("admin-pending-count", "kosts", dashboardApi.listAdminKosts, {"super_admin"})
RecentBookings ==
    Query("recent-bookings", "bookings", dashboardApi.listOwnerBookings, {"owner"})

DashboardPage ==
    Page(<<"dashboard">>, {"owner", "super_admin"},
        {DashboardStats, AdminPendingCount, RecentBookings}, {})

Me == Query("me", "users", authApi.me, Viewers)
saveMe == Mutation("updateMe", dashboardApi.updateProfile, {"me"})

\* saveMe is a plain function: the button it calls isPending on never locks.
ProfilePage ==
    Page(<<"dashboard", "profile">>, Roles, {Me},
        {Offer(saveMe, "users", Present("users"), "none", FALSE)})

Notifications ==
    Polled(Query("notifications", "notifications", dashboardApi.listNotifications, Roles))
markRead == Mutation("markRead", dashboardApi.markNotificationRead, {"notifications"})

Bell ==
    Page(<<"dashboard">>, Viewers, {Notifications},
        {Offer(markRead, "notifications", {"unread"}, "none", FALSE)})

---------------------------------------------------------------------------
(* The pages of a guest, and those whose state is modelled elsewhere *)

LoginPage == Page(<<"login">>, {"guest"}, {Me}, {})
RegisterPage == Page(<<"register">>, Viewers, {}, {})
VerifyEmailPage == Page(<<"verify-email">>, Viewers, {}, {})
ForbiddenPage == Page(<<"403">>, Viewers, {}, {})

\* Module ChatDesk: a guest is led to the login page.
Conversations == Query("chat-conversations", "conversations", chatApi.list, Roles)
ChatPage == Page(<<"chat">>, Roles, {Conversations}, {})

RoutePages ==
    {BookingsPage, ContractsPage, MyBookingsPage, KostPage, RoomPage, KostListPage, LandingPage,
     OwnerKostsPage, KostEditPage, KostNewPage, VerificationPage, MasterKostPage, UsersPage,
     TeknisiPage, EventsPage, DashboardPage, ProfilePage, LoginPage, RegisterPage,
     VerifyEmailPage, ForbiddenPage, ChatPage}

=============================================================================
