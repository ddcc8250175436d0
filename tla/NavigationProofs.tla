-------------------------- MODULE NavigationProofs ---------------------------
(***************************************************************************)
(* Proofs about the browser that several people use, for any users, roles, *)
(* expiries and bookmarks: who logs in finds nothing of the one before him,*)
(* every variable keeps its type, and from a page that is good for its     *)
(* viewer every link leads to one that is.                                 *)
(***************************************************************************)
EXTENDS Navigation, TLAPS

\* Cookies are somebody's, and me is only ever known as somebody.
CookiesOwned ==
    /\ who \in Users \cup {Nobody}
    /\ access \/ live => who # Nobody
    /\ asking.at \in {"idle", "asked", "back"}
    /\ asking.at = "back" => asking.got # Unknown

\* While nobody is known and nobody has cookies, nothing private is held; and
\* nobody is known once me has been asked for in vain.
NothingHeld ==
    me = Unknown /\ ~blind =>
        /\ who = Nobody => held = {}
        /\ asking = Idle /\ signing # "served" => who = Nobody

NavInv == CookiesOwned /\ NothingHeld /\ OnlyOwnData

LEMMA NobodyNoUser == Nobody \notin Users
  BY NavigationAssumption

LEMMA Stages == Idle.at = "idle" /\ Asked.at = "asked"
  BY DEF Idle, Asked

LEMMA NavInit == Init => NavInv
  BY NobodyNoUser, Stages DEF Init, NavInv, CookiesOwned, NothingHeld, OnlyOwnData, Asked, Idle

\* A document that is loaded anew holds nothing.
LEMMA ReloadStep ==
    ASSUME NavInv, NEW r, Reload(r), who' = who,
           access' \/ live' => access \/ live
    PROVE  NavInv'
<1>1. asking' = Asked /\ held' = {}
  BY DEF Reload
<1> QED
  BY <1>1, Stages DEF NavInv, CookiesOwned, NothingHeld, OnlyOwnData, Reload

\* The next page is shown; me may be asked for.
LEMMA MoveStep ==
    ASSUME NavInv, AskMe,
           UNCHANGED <<who, access, live, me, held, blind>>,
           signing' = signing \/ (signing = "waiting" /\ signing' = "no")
    PROVE  NavInv'
<1>1. asking' = asking \/ asking' = Asked
  BY DEF AskMe
<1>2. asking' = Idle => asking = Idle
  BY <1>1, Stages
<1>3. signing' # "served" => signing # "served"
  OBVIOUS
<1>4. CookiesOwned'
  <2>1. CASE asking' = asking
    BY <2>1 DEF NavInv, CookiesOwned
  <2>2. CASE asking' = Asked
    BY <2>2, Stages DEF NavInv, CookiesOwned
  <2> QED
    BY <1>1, <2>1, <2>2
<1>5. NothingHeld'
  BY <1>2, <1>3 DEF NavInv, NothingHeld
<1>6. OnlyOwnData'
  BY DEF NavInv, OnlyOwnData
<1> QED
  BY <1>4, <1>5, <1>6 DEF NavInv

LEMMA AskStep ==
    ASSUME NavInv, ServeMe \/ RefuseMe \/ KnowMe \/ Focus \/ AwaitMe
    PROVE  NavInv'
<1>1. CASE ServeMe
  <2>1. who # Nobody
    BY <1>1 DEF ServeMe, NavInv, CookiesOwned
  <2>2. asking' = [at |-> "back", got |-> [user |-> who, role |-> role[who]]]
    BY <1>1 DEF ServeMe
  <2>3. asking'.at = "back" /\ asking'.got # Unknown /\ asking' # Idle
    BY <2>1, <2>2 DEF Unknown, Idle
  <2> QED
    BY <1>1, <2>3 DEF ServeMe, cookies, NavInv, CookiesOwned, NothingHeld, OnlyOwnData
<1>2. CASE RefuseMe
  BY <1>2, Stages DEF RefuseMe, cookies, NavInv, CookiesOwned, NothingHeld, OnlyOwnData
<1>3. CASE KnowMe
  BY <1>3, Stages DEF KnowMe, cookies, NavInv, CookiesOwned, NothingHeld, OnlyOwnData
<1>4. CASE Focus
  BY <1>4, Stages DEF Focus, cookies, NavInv, CookiesOwned, NothingHeld, OnlyOwnData
<1>5. CASE AwaitMe
  <2>1. asking' # Idle /\ (asking' = asking \/ asking' = Asked)
    BY <1>5, Stages DEF AwaitMe
  <2> QED
    BY <1>5, <2>1, Stages DEF AwaitMe, cookies, NavInv, CookiesOwned, NothingHeld, OnlyOwnData
<1> QED
  BY <1>1, <1>2, <1>3, <1>4, <1>5

\* A private query is answered to the owner of the cookies, or loads the login
\* page.
LEMMA LoadStep ==
    ASSUME NavInv, NEW q, Load(q)
    PROVE  NavInv'
<1>1. CASE access \/ live
  <2>1. who # Nobody /\ held' \in {held, held \cup {who}}
    BY <1>1 DEF Load, NavInv, CookiesOwned
  <2> QED
    BY <1>1, <2>1 DEF Load, NavInv, CookiesOwned, NothingHeld, OnlyOwnData
<1>2. CASE ~(access \/ live)
  BY <1>2, ReloadStep DEF Load
<1> QED
  BY <1>1, <1>2

LEMMA AccountStep ==
    ASSUME NavInv,
           \/ \E u \in Users : Login(u) \/ Register(u) \/ ChangeRole(u)
           \/ Logout \/ LogoutDone \/ Expire \/ SessionEnds
    PROVE  NavInv'
<1>1. ASSUME NEW u \in Users, Login(u) PROVE NavInv'
  BY <1>1, NobodyNoUser DEF Login, NavInv, CookiesOwned, NothingHeld, OnlyOwnData
<1>2. ASSUME NEW u \in Users, Register(u) \/ ChangeRole(u) PROVE NavInv'
  BY <1>2 DEF Register, ChangeRole, cookies, cache, NavInv, CookiesOwned, NothingHeld, OnlyOwnData
<1>3. CASE Logout
  BY <1>3 DEF Logout, cache, NavInv, CookiesOwned, NothingHeld, OnlyOwnData
<1>4. CASE LogoutDone
  BY <1>4, Stages DEF LogoutDone, cookies, NavInv, CookiesOwned, NothingHeld, OnlyOwnData
<1>5. CASE Expire \/ SessionEnds
  BY <1>5 DEF Expire, SessionEnds, cache, NavInv, CookiesOwned, NothingHeld, OnlyOwnData
<1> QED
  BY <1>1, <1>2, <1>3, <1>4, <1>5

LEMMA NavStep == NavInv /\ [Next]_vars => NavInv'
<1> SUFFICES ASSUME NavInv, [Next]_vars PROVE NavInv'
  OBVIOUS
<1>1. ASSUME NEW r, TypeUrl(r) PROVE NavInv'
  BY <1>1, ReloadStep DEF TypeUrl, cookies
<1>2. ASSUME NEW u \in Users, VerifyEmail(u) PROVE NavInv'
  BY <1>2, ReloadStep DEF VerifyEmail, cookies
<1>3. ASSUME NEW r, FollowLink(r) PROVE NavInv'
  BY <1>3, MoveStep DEF FollowLink, cookies
<1>4. CASE Redirect
  BY <1>4, MoveStep DEF Redirect, cookies
<1>5. CASE LoginDone
  BY <1>5, MoveStep DEF LoginDone, cookies
<1>6. CASE UNCHANGED vars
  BY <1>6 DEF vars, NavInv, CookiesOwned, NothingHeld, OnlyOwnData
<1> QED
  BY <1>1, <1>2, <1>3, <1>4, <1>5, <1>6, AskStep, LoadStep, AccountStep DEF Next

\* Whoever logs in in a tab finds nothing of the one before him in its cache,
\* unless the login page opened over his data because me was refused there, or
\* was not answered yet.
THEOREM OnlyOwnCorrect == Spec => []OnlyOwnData
<1>1. NavInv => OnlyOwnData
  BY DEF NavInv
<1> QED
  BY <1>1, NavInit, NavStep, PTL DEF Spec

---------------------------------------------------------------------------
(* Types: whatever leads somewhere leads to a route, and an answer to me is *)
(* about a user with a role.                                               *)

AnswerTyped ==
    asking.at = "back" => asking.got.user \in Users /\ asking.got.role \in Roles

NavTyped == TypeOK /\ AnswerTyped

\* Where the pages are.
LEMMA PathsAre ==
    /\ LandingPage.path = Home
    /\ KostListPage.path = <<"kosts">>
    /\ KostPage.path = <<"kosts", "id">>
    /\ RoomPage.path = <<"kosts", "id", "kamar", "roomId">>
    /\ MyBookingsPage.path = <<"my-bookings">>
    /\ ChatPage.path = <<"chat">>
    /\ LoginPage.path = <<"login">>
    /\ RegisterPage.path = <<"register">>
    /\ VerifyEmailPage.path = <<"verify-email">>
    /\ ForbiddenPage.path = <<"403">>
    /\ DashboardPage.path = <<"dashboard">>
    /\ ProfilePage.path = <<"dashboard", "profile">>
    /\ OwnerKostsPage.path = <<"dashboard", "kosts">>
    /\ KostNewPage.path = <<"dashboard", "kosts", "new">>
    /\ KostEditPage.path = <<"dashboard", "kosts", "id">>
    /\ BookingsPage.path = <<"dashboard", "bookings">>
    /\ ContractsPage.path = <<"dashboard", "contracts">>
    /\ TeknisiPage.path = <<"dashboard", "teknisi">>
    /\ EventsPage.path = <<"dashboard", "events">>
    /\ VerificationPage.path = <<"dashboard", "verification">>
    /\ MasterKostPage.path = <<"dashboard", "master-kost">>
    /\ UsersPage.path = <<"dashboard", "users">>
  BY DEF LandingPage, KostListPage, KostPage, RoomPage, MyBookingsPage, ChatPage, LoginPage,
     RegisterPage, VerifyEmailPage, ForbiddenPage, DashboardPage, ProfilePage, OwnerKostsPage,
     KostNewPage, KostEditPage, BookingsPage, ContractsPage, TeknisiPage, EventsPage,
     VerificationPage, MasterKostPage, UsersPage, Page, Home

\* Each of them is a route.
LEMMA RoutesAre ==
    \A r \in {Home, <<"kosts">>, <<"kosts", "id">>, <<"kosts", "id", "kamar", "roomId">>,
              <<"my-bookings">>, <<"chat">>, <<"login">>, <<"register">>, <<"verify-email">>,
              <<"403">>, <<"dashboard">>, <<"dashboard", "profile">>, <<"dashboard", "kosts">>,
              <<"dashboard", "kosts", "new">>, <<"dashboard", "kosts", "id">>,
              <<"dashboard", "bookings">>, <<"dashboard", "contracts">>,
              <<"dashboard", "teknisi">>, <<"dashboard", "events">>,
              <<"dashboard", "verification">>, <<"dashboard", "master-kost">>,
              <<"dashboard", "users">>} : r \in Routes
  BY PathsAre DEF Routes, RoutePages

\* No link and no redirection leads out of the routes.
LEMMA LinksAreRoutes ==
    ASSUME NEW r, NEW v
    PROVE  Links(r, v) \subseteq Routes
<1>1. filteredNav(v) \subseteq Routes /\ itemsBySection \subseteq Routes
  <2>1. \A i \in getNavData : i.url \in Routes
    BY RoutesAre DEF getNavData, NavItem
  <2> QED
    BY <2>1 DEF filteredNav, itemsBySection
<1>2. PublicHeader(v) \subseteq Routes /\ PublicFooter \subseteq Routes
  BY PathsAre, RoutesAre DEF PublicHeader, PublicFooter
<1>3. NoticeLinks(v) \subseteq Routes /\ UserProfileButton \subseteq Routes
  BY RoutesAre DEF NoticeLinks, UserProfileButton
<1>4. LayoutLinks(r, v) \subseteq Routes
  BY <1>1, <1>2, <1>3, RoutesAre DEF LayoutLinks
<1>5. /\ LandingLinks \subseteq Routes /\ KostCard \subseteq Routes
      /\ KostLinks(v) \subseteq Routes /\ RoomLinks(v) \subseteq Routes
      /\ MyBookingsLinks(v) \subseteq Routes /\ DashboardLinks(v) \subseteq Routes
      /\ OwnerKostsLinks(v) \subseteq Routes
  BY PathsAre, RoutesAre DEF LandingLinks, KostCard, KostLinks, RoomLinks, ToLoginOr,
     MyBookingsLinks, DashboardLinks, OwnerKostsLinks
<1>6. BodyLinks(r, v) \subseteq Routes
  BY <1>5, PathsAre, RoutesAre DEF BodyLinks
<1> QED
  BY <1>1, <1>4, <1>6 DEF Links

\* A guard leads from a route to a route.
LEMMA SentToRoutes ==
    ASSUME NEW r \in Routes, NEW v
    PROVE  SentTo(r, v) \in Routes
  BY PathsAre, RoutesAre DEF SentTo

\* The first document is the home page, for nobody.
LEMMA TypedInit == Init => NavTyped
<1> SUFFICES ASSUME Init PROVE NavTyped
  OBVIOUS
<1>1. role \in [Users -> Roles \cup {"none"}]
  BY NavigationAssumption DEF Init
<1>2. expiries \in 0..MaxExpiries
  BY NavigationAssumption DEF Init
<1>3. at \in Routes
  BY RoutesAre DEF Init
<1>4. me.user = Nobody /\ me.role = "guest" /\ asking.at = "asked"
  BY Stages DEF Init, Unknown
<1> QED
  BY <1>1, <1>2, <1>3, <1>4, NobodyNoUser DEF Init, NavTyped, TypeOK, AnswerTyped

\* What is known of the user stays, or is gone.
LEMMA ReloadTyped ==
    ASSUME NavTyped, NEW r \in Routes, Reload(r),
           UNCHANGED <<role, who, access, live, expiries>>,
           verified' \subseteq {u \in Users : role[u] # "none"}, verified \subseteq verified'
    PROVE  NavTyped'
<1>1. me'.user = Nobody /\ me'.role = "guest" /\ asking'.at = "asked"
  BY Stages DEF Reload, Unknown
<1> QED
  BY <1>1 DEF Reload, NavTyped, TypeOK, AnswerTyped

\* The tab goes to another page, or stays.
LEMMA MoveTyped ==
    ASSUME NavTyped, at' \in Routes, asking' \in {asking, Asked, Idle},
           UNCHANGED <<accounts, cookies, me, held>>,
           blind' \in BOOLEAN, signing' \in {"no", "served", "waiting"}, leaving' \in BOOLEAN
    PROVE  NavTyped'
<1>1. asking'.at \in {"idle", "asked", "back"} /\ AnswerTyped'
  BY Stages DEF NavTyped, TypeOK, AnswerTyped
<1> QED
  BY <1>1 DEF accounts, cookies, NavTyped, TypeOK

\* Cookies, roles and proofs of an address change while the page stays.
LEMMA ServerTyped ==
    ASSUME NavTyped, UNCHANGED <<at, me, asking, held>>, blind' \in BOOLEAN,
           signing' \in {"no", "served", "waiting"}, leaving' \in BOOLEAN,
           role' \in [Users -> Roles \cup {"none"}],
           verified' \subseteq {u \in Users : role'[u] # "none"},
           who' \in Users \cup {Nobody}, who' # Nobody => who' \in verified',
           access' \/ live' => who' # Nobody,
           expiries' \in 0..MaxExpiries
    PROVE  NavTyped'
  BY DEF NavTyped, TypeOK, AnswerTyped

\* What is asked of me and of the private data is answered by the server for
\* the owner of the cookies, who has a role.
LEMMA AskTyped ==
    ASSUME NavTyped, ServeMe \/ RefuseMe \/ KnowMe \/ \E q \in PrivateHere : Load(q)
    PROVE  NavTyped'
<1>1. TypeOK /\ AnswerTyped /\ at \in Routes
  BY DEF NavTyped, TypeOK
<1>2. access \/ live => who \in Users /\ role[who] \in Roles
  BY <1>1 DEF TypeOK
<1>3. CASE ServeMe
  <2>1. PICK ask : ask = [at |-> "back", got |-> [user |-> who, role |-> role[who]]]
    OBVIOUS
  <2>2. ask.at = "back" /\ ask.got.user = who /\ ask.got.role = role[who]
    BY <2>1
  <2>3. asking' = ask /\ access
    BY <1>3, <2>1 DEF ServeMe
  <2>4. AnswerTyped' /\ asking'.at \in {"idle", "asked", "back"}
    BY <1>2, <2>2, <2>3 DEF AnswerTyped
  <2> QED
    BY <1>1, <1>3, <2>4 DEF ServeMe, accounts, cookies, NavTyped, TypeOK
<1>4. CASE RefuseMe
  BY <1>1, <1>4, MoveTyped DEF RefuseMe, NavTyped, TypeOK
<1>5. CASE KnowMe
  <2>1. me'.user \in Users /\ me'.role \in Roles
    BY <1>1, <1>5 DEF KnowMe, AnswerTyped
  <2>2. asking'.at = "idle"
    BY <1>5, Stages DEF KnowMe
  <2> QED
    BY <1>1, <1>5, <2>1, <2>2, NobodyNoUser DEF KnowMe, accounts, cookies, NavTyped, TypeOK,
       AnswerTyped
<1>6. ASSUME NEW q, Load(q) PROVE NavTyped'
  <2>1. CASE access \/ live
    <3>1. held' \subseteq Users
      BY <1>1, <1>2, <1>6, <2>1 DEF Load, TypeOK
    <3>2. UNCHANGED <<at, me, asking, blind, signing, leaving, accounts, who, live, expiries>>
      BY <1>6, <2>1 DEF Load
    <3>3. who # Nobody
      BY <1>2, <2>1, NobodyNoUser
    <3> QED
      BY <1>1, <3>1, <3>2, <3>3 DEF accounts, NavTyped, TypeOK, AnswerTyped
  <2>2. CASE ~(access \/ live)
    <3>1. Reload(LoginPage.path) /\ LoginPage.path \in Routes
      BY <1>6, <2>2, PathsAre, RoutesAre DEF Load
    <3>2. UNCHANGED <<role, verified, who, access, live, expiries>>
      BY <1>6, <2>2 DEF Load, accounts
    <3>3. verified' \subseteq {u \in Users : role[u] # "none"}
      BY <1>1, <3>2 DEF TypeOK
    <3> QED
      BY <3>1, <3>2, <3>3, ReloadTyped
  <2> QED
    BY <2>1, <2>2
<1> QED
  BY <1>3, <1>4, <1>5, <1>6

\* Users come, are promoted, log in and out, and tokens expire.
LEMMA AccountTyped ==
    ASSUME NavTyped,
           \/ \E u \in Users : Login(u) \/ Register(u) \/ ChangeRole(u)
           \/ Logout \/ LogoutDone \/ Expire \/ SessionEnds
    PROVE  NavTyped'
<1>1. TypeOK
  BY DEF NavTyped
<1>2. ASSUME NEW u \in Users, Login(u) PROVE NavTyped'
  BY <1>1, <1>2, NobodyNoUser, ServerTyped DEF Login, CanLogin, accounts, TypeOK
<1>3. ASSUME NEW u \in Users, Register(u) \/ ChangeRole(u) PROVE NavTyped'
  <2>1. PICK r \in Roles : role' = [role EXCEPT ![u] = r]
    BY <1>3 DEF Register, ChangeRole, Roles
  <2>2. role' \in [Users -> Roles \cup {"none"}] /\ role'[u] # "none"
        /\ \A x \in Users \ {u} : role'[x] = role[x]
    BY <1>1, <2>1 DEF TypeOK, Roles
  <2>3. UNCHANGED <<at, verified, who, access, live, expiries, me, asking, held, blind, signing,
                    leaving>>
    BY <1>3 DEF Register, ChangeRole, cookies, cache
  <2>4. verified' \subseteq {x \in Users : role'[x] # "none"}
    BY <1>1, <2>2, <2>3 DEF TypeOK
  <2> QED
    BY <1>1, <2>2, <2>3, <2>4, ServerTyped DEF TypeOK
<1>4. CASE Logout
  BY <1>1, <1>4, ServerTyped DEF Logout, accounts, cache, TypeOK
<1>5. CASE LogoutDone
  <2>1. me'.user = Nobody /\ me'.role = "guest" /\ asking'.at = "asked"
    BY <1>5, Stages DEF LogoutDone, Unknown
  <2>2. at' \in Routes
    BY <1>5, PathsAre, RoutesAre DEF LogoutDone
  <2> QED
    BY <1>1, <1>5, <2>1, <2>2 DEF LogoutDone, accounts, cookies, NavTyped, TypeOK, AnswerTyped
<1>6. CASE Expire
  <2>1. expiries' \in 0..MaxExpiries
    BY <1>1, <1>6, NavigationAssumption DEF Expire, TypeOK
  <2> QED
    BY <1>1, <1>6, <2>1, ServerTyped DEF Expire, accounts, cache, TypeOK
<1>7. CASE SessionEnds
  BY <1>1, <1>7, ServerTyped DEF SessionEnds, accounts, cache, TypeOK
<1> QED
  BY <1>2, <1>3, <1>4, <1>5, <1>6, <1>7

\* All of them together.
LEMMA TypedStep == NavTyped /\ [Next]_vars => NavTyped'
<1> SUFFICES ASSUME NavTyped, [Next]_vars PROVE NavTyped'
  OBVIOUS
<1>1. TypeOK /\ at \in Routes
  BY DEF NavTyped, TypeOK
<1>2. ASSUME NEW r \in Typed, TypeUrl(r) PROVE NavTyped'
  <2>1. r \in Routes
    BY NavigationAssumption DEF Routes
  <2> QED
    BY <1>1, <1>2, <2>1, ReloadTyped DEF TypeUrl, accounts, cookies, TypeOK
<1>3. ASSUME NEW u \in Users, VerifyEmail(u) PROVE NavTyped'
  <2>1. VerifyEmailPage.path \in Routes
    BY PathsAre, RoutesAre
  <2> QED
    BY <1>1, <1>3, <2>1, ReloadTyped DEF VerifyEmail, cookies, TypeOK
<1>4. AskMe => asking' \in {asking, Asked, Idle}
  BY DEF AskMe
<1>5. ASSUME NEW r \in Links(at, me.role), FollowLink(r) PROVE NavTyped'
  <2>1. at' \in Routes
    BY <1>5, LinksAreRoutes DEF FollowLink
  <2> QED
    BY <1>1, <1>4, <1>5, <2>1, MoveTyped DEF FollowLink, TypeOK
<1>6. CASE Redirect
  <2>1. at' \in Routes
    BY <1>1, <1>6, SentToRoutes DEF Redirect
  <2> QED
    BY <1>1, <1>4, <1>6, <2>1, MoveTyped DEF Redirect, TypeOK
<1>7. CASE LoginDone
  BY <1>1, <1>4, <1>7, RoutesAre, MoveTyped DEF LoginDone, TypeOK
<1>8. CASE Focus \/ AwaitMe
  BY <1>1, <1>8, MoveTyped DEF Focus, AwaitMe, TypeOK
<1>9. CASE UNCHANGED vars
  BY <1>9 DEF vars, NavTyped, TypeOK, AnswerTyped
<1> QED
  BY <1>2, <1>3, <1>5, <1>6, <1>7, <1>8, <1>9, AskTyped, AccountTyped DEF Next

\* Every variable keeps its type: the tab is at a route whatever leads it
\* there, cookies belong to a user whose address is proved, and what the page
\* knows of him has a role.
THEOREM NavTypes == Spec => []TypeOK
<1>1. NavTyped => TypeOK
  BY DEF NavTyped
<1> QED
  BY <1>1, TypedInit, TypedStep, PTL DEF Spec

---------------------------------------------------------------------------
(* Where the links lead: the tables of module Pages, page by page.          *)

\* No two pages have one path.
LEMMA PagesAt ==
    /\ PageAt(Home) = LandingPage
    /\ PageAt(<<"kosts">>) = KostListPage
    /\ PageAt(<<"kosts", "id">>) = KostPage
    /\ PageAt(<<"kosts", "id", "kamar", "roomId">>) = RoomPage
    /\ PageAt(<<"chat">>) = ChatPage
    /\ PageAt(<<"login">>) = LoginPage
    /\ PageAt(<<"register">>) = RegisterPage
    /\ PageAt(<<"verify-email">>) = VerifyEmailPage
    /\ PageAt(<<"403">>) = ForbiddenPage
    /\ PageAt(<<"dashboard">>) = DashboardPage
    /\ PageAt(<<"dashboard", "profile">>) = ProfilePage
    /\ PageAt(<<"dashboard", "kosts">>) = OwnerKostsPage
    /\ PageAt(<<"dashboard", "kosts", "new">>) = KostNewPage
    /\ PageAt(<<"dashboard", "kosts", "id">>) = KostEditPage
    /\ PageAt(<<"dashboard", "bookings">>) = BookingsPage
    /\ PageAt(<<"dashboard", "contracts">>) = ContractsPage
    /\ PageAt(<<"dashboard", "teknisi">>) = TeknisiPage
    /\ PageAt(<<"dashboard", "events">>) = EventsPage
    /\ PageAt(<<"dashboard", "verification">>) = VerificationPage
    /\ PageAt(<<"dashboard", "master-kost">>) = MasterKostPage
    /\ PageAt(<<"dashboard", "users">>) = UsersPage
  BY PathsAre DEF PageAt, RoutePages, Home

\* The guards let everyone pass but at five pages and the login.
LEMMA GuardedAre ==
    Guarded = {<<"dashboard", "kosts">>, <<"dashboard", "verification">>,
               <<"dashboard", "master-kost">>, <<"dashboard", "users">>,
               <<"dashboard", "teknisi">>}
  BY PathsAre DEF Guarded

\* Elsewhere a viewer stays where he is.
LEMMA Unguarded ==
    \A v, r : r \notin Guarded /\ (r # <<"login">> \/ v = "guest") => SentTo(r, v) = r
  BY PathsAre DEF SentTo

\* Who is served which of the calls the pages make.
LEMMA CallsServed ==
    /\ {kostsApi.listPublic, kostsApi.getPublic} \subseteq PublicRoutes
    /\ \A v \in Roles :
        /\ Serves(chatApi.list, v)
        /\ Serves(eventsApi.list, v)
        /\ Serves(dashboardApi.updateProfile, v)
    /\ Serves(bookingsApi.create, "tenant")
    /\ \A f \in {"stats", "listOwnerKosts", "getOwnerKost", "createKost", "updateKost",
                 "listRooms", "createRoom", "deleteRoom", "listOwnerBookings", "processBooking",
                 "approveBooking", "rejectBooking", "listOwnerContracts", "endContract"} :
        Serves(dashboardApi[f], "owner")
    /\ Serves(surveyApi.listAssignments, "teknisi") /\ Serves(surveyApi.decide, "teknisi")
    /\ \A f \in {"listAdminKosts", "createAdminKost", "updateAdminKost", "deleteAdminKost",
                 "toggleKostActive", "listUsers", "createUser", "updateUser", "deleteUser"} :
        Serves(dashboardApi[f], "super_admin")
    /\ Serves(surveyApi.assign, "super_admin")
    /\ Serves(surveyApi.listAssignmentsAdmin, "super_admin")
    /\ Serves(surveyApi.listTeknisi, "super_admin")
    /\ Serves(eventsApi.create, "super_admin") /\ Serves(eventsApi.remove, "super_admin")
<1>1. {kostsApi.listPublic, kostsApi.getPublic} \subseteq PublicRoutes
  BY DEF PublicRoutes, RoutesOf, kostsApi
<1>2. \A v \in Roles : /\ Serves(chatApi.list, v)
                       /\ Serves(eventsApi.list, v)
                       /\ Serves(dashboardApi.updateProfile, v)
  <2>1. chatApi.list \in RoutesOf(chatApi)
    BY DEF RoutesOf, chatApi
  <2> QED
    BY <2>1 DEF Serves, SessionRoutes
<1>3. Serves(bookingsApi.create, "tenant")
  BY DEF Serves, TenantRoutes, RoutesOf, bookingsApi
<1>4. \A f \in {"stats", "listOwnerKosts", "getOwnerKost", "createKost", "updateKost",
                 "listRooms", "createRoom", "deleteRoom", "listOwnerBookings", "processBooking",
                 "approveBooking", "rejectBooking", "listOwnerContracts", "endContract"} :
        Serves(dashboardApi[f], "owner")
  BY DEF Serves, OwnerRoutes
<1>5. Serves(surveyApi.listAssignments, "teknisi") /\ Serves(surveyApi.decide, "teknisi")
  BY DEF Serves, TeknisiRoutes
<1>6. \A f \in {"listAdminKosts", "createAdminKost", "updateAdminKost", "deleteAdminKost",
                 "toggleKostActive", "listUsers", "createUser", "updateUser", "deleteUser"} :
        Serves(dashboardApi[f], "super_admin")
  BY DEF Serves, AdminRoutes
<1>7. /\ Serves(surveyApi.assign, "super_admin")
      /\ Serves(surveyApi.listAssignmentsAdmin, "super_admin")
      /\ Serves(eventsApi.create, "super_admin") /\ Serves(eventsApi.remove, "super_admin")
  BY DEF Serves, AdminRoutes
<1>8. Serves(surveyApi.listTeknisi, "super_admin")
  BY <1>6 DEF surveyApi, dashboardApi
<1> QED
  BY <1>1, <1>2, <1>3, <1>4, <1>5, <1>6, <1>7, <1>8

\* A page that shows itself to its viewer and asks for nothing he is refused.
Fits(p, v) ==
    /\ v \in p.admits
    /\ \A q \in p.reads : v \in q.asked => q.call \in PublicRoutes \/ q = Me \/ Serves(q.call, v)
    /\ \A o \in p.offers : v \in o.to => Serves(o.by.call, v)

\* A route that leads to such a page is good for its viewer.
LEMMA FitsIsGood ==
    ASSUME NEW r, NEW v, NEW p, p = PageAt(SentTo(r, v)), p = PageAt(p.path),
           p.path \in {r, Home}, Fits(p, v)
    PROVE  Good(r, v)
  BY DEF Good, Fits, Private

\* For everyone.
LEMMA PublicFit ==
    ASSUME NEW v \in Viewers
    PROVE  \A p \in {LandingPage, KostListPage, KostPage, RoomPage, RegisterPage,
                     VerifyEmailPage, ForbiddenPage} : Fits(p, v)
<1>1. v \in BookOffer.to => Serves(BookOffer.by.call, v)
  BY CallsServed DEF BookOffer, OnlyFor, Offer, bookMut, Mutation
<1>2. Fits(LandingPage, v) /\ Fits(KostListPage, v)
  BY CallsServed DEF Fits, LandingPage, KostListPage, Page, KostSearch, Keyed, Query
<1>3. Fits(KostPage, v) /\ Fits(RoomPage, v)
  BY <1>1, CallsServed DEF Fits, KostPage, RoomPage, Page, KostDetail, Query
<1>4. Fits(RegisterPage, v) /\ Fits(VerifyEmailPage, v) /\ Fits(ForbiddenPage, v)
  BY DEF Fits, RegisterPage, VerifyEmailPage, ForbiddenPage, Page
<1> QED
  BY <1>2, <1>3, <1>4

\* For whoever is logged in.
LEMMA UserFit ==
    ASSUME NEW v \in Roles
    PROVE  \A p \in {ChatPage, ProfilePage, EventsPage} : Fits(p, v)
<1>1. Fits(ChatPage, v)
  BY CallsServed DEF Fits, ChatPage, Page, Conversations, Query
<1>2. Fits(ProfilePage, v)
  BY CallsServed DEF Fits, ProfilePage, Page, Offer, saveMe, Mutation
<1>3. Fits(EventsPage, v)
  <2>1. Serves(Events.call, v) /\ Events.asked = Roles
    BY CallsServed DEF Events, Polled, Query
  <2>2. \A q \in {EventKosts, TeknisiList} : v \in q.asked => Serves(q.call, v)
    BY CallsServed DEF EventKosts, TeknisiList, Query
  <2>3. \A o \in EventsPage.offers : v \in o.to => Serves(o.by.call, v)
    BY CallsServed DEF EventsPage, Page, OnlyFor, Offer, createEventMut, deleteEventMut, Mutation
  <2>4. EventsPage.admits = Roles /\ EventsPage.reads = {Events, EventKosts, TeknisiList}
    BY DEF EventsPage, Page
  <2> QED
    BY <2>1, <2>2, <2>3, <2>4 DEF Fits
<1> QED
  BY <1>1, <1>2, <1>3

\* For the owner.
LEMMA OwnerFit ==
    \A p \in {DashboardPage, OwnerKostsPage, KostNewPage, KostEditPage, BookingsPage,
              ContractsPage} : Fits(p, "owner")
<1>1. Fits(DashboardPage, "owner")
  BY CallsServed DEF Fits, DashboardPage, Page, DashboardStats, AdminPendingCount,
     RecentBookings, Query
<1>2. Fits(OwnerKostsPage, "owner")
  BY CallsServed DEF Fits, OwnerKostsPage, Page, OwnerKosts, Keyed, Query
<1>3. Fits(KostNewPage, "owner")
  BY CallsServed DEF Fits, KostNewPage, Page, Offer, createKostMut, Mutation, Viewers,
     Roles
<1>4. Fits(KostEditPage, "owner")
  BY CallsServed DEF Fits, KostEditPage, Page, Offer, updateMut, createRoomMut, deleteRoomMut,
     Mutation, OwnerKost, OwnerRooms, Query, Viewers, Roles
<1>5. Fits(BookingsPage, "owner")
  BY CallsServed DEF Fits, BookingsPage, Page, Offer, processMut, approveMut, rejectMut,
     Mutation, OwnerBookings, Keyed, Query, Viewers, Roles
<1>6. Fits(ContractsPage, "owner")
  BY CallsServed DEF Fits, ContractsPage, Page, Offer, endMut, Mutation, OwnerContracts, Query,
     Viewers, Roles
<1> QED
  BY <1>1, <1>2, <1>3, <1>4, <1>5, <1>6

\* For the teknisi and for the super admin.
LEMMA StaffFit ==
    /\ Fits(TeknisiPage, "teknisi")
    /\ \A p \in {DashboardPage, VerificationPage, MasterKostPage, UsersPage} :
            Fits(p, "super_admin")
<1>1. Fits(TeknisiPage, "teknisi")
  BY CallsServed DEF Fits, TeknisiPage, Page, Offer, decideMut, Mutation, TeknisiAssignments,
     Query
<1>2. Fits(DashboardPage, "super_admin")
  BY CallsServed DEF Fits, DashboardPage, Page, DashboardStats, AdminPendingCount,
     RecentBookings, Query
<1>3. Fits(VerificationPage, "super_admin")
  BY CallsServed DEF Fits, VerificationPage, AdminsAndUnknown, Page, Offer, assignMut, Mutation,
     AdminKosts, AdminAssignments, TeknisiList, Query
<1>4. Fits(MasterKostPage, "super_admin")
  <2>1. MasterKostPage.admits = AdminsAndUnknown /\ MasterKostPage.reads = {MasterKosts}
    BY DEF MasterKostPage, Page
  <2>2. Serves(MasterKosts.call, "super_admin")
    BY CallsServed DEF MasterKosts, Keyed, Query
  <2>3. \A o \in MasterKostPage.offers : Serves(o.by.call, "super_admin")
    BY CallsServed DEF MasterKostPage, Page, Offer, MasterMutation, Mutation
  <2> QED
    BY <2>1, <2>2, <2>3 DEF Fits, AdminsAndUnknown
<1>5. Fits(UsersPage, "super_admin")
  <2>1. UsersPage.admits = AdminsAndUnknown /\ UsersPage.reads = {AdminUsers}
    BY DEF UsersPage, Page
  <2>2. Serves(AdminUsers.call, "super_admin")
    BY CallsServed DEF AdminUsers, Keyed, Query
  <2>3. \A o \in UsersPage.offers : Serves(o.by.call, "super_admin")
    BY CallsServed DEF UsersPage, Page, Offer, UserMutation, Mutation
  <2> QED
    BY <2>1, <2>2, <2>3 DEF Fits, AdminsAndUnknown
<1> QED
  BY <1>1, <1>2, <1>3, <1>4, <1>5

\* The routes that are good for everyone, and those that are good for a role.
LEMMA GoodForAll ==
    ASSUME NEW v \in Viewers,
           NEW r \in {Home, <<"kosts">>, <<"kosts", "id">>, <<"kosts", "id", "kamar", "roomId">>,
                      <<"login">>, <<"register">>, <<"verify-email">>, <<"403">>}
    PROVE  Good(r, v)
<1>1. r \notin Guarded
  BY GuardedAre DEF Home
<1>2. CASE r = <<"login">>
  <2>1. CASE v = "guest"
    <3>1. SentTo(r, v) = r
      BY <1>1, <2>1, Unguarded
    <3>2. Fits(LoginPage, "guest")
      BY DEF Fits, LoginPage, Page
    <3>3. PageAt(r) = LoginPage /\ LoginPage.path = r
      BY <1>2, PagesAt, PathsAre
    <3> QED
      BY <2>1, <3>1, <3>2, <3>3, FitsIsGood
  <2>2. CASE v # "guest"
    <3>1. SentTo(r, v) = Home
      BY <1>2, <2>2, PathsAre DEF SentTo
    <3>2. PageAt(Home) = LandingPage /\ LandingPage.path = Home
      BY PagesAt, PathsAre
    <3> QED
      BY <3>1, <3>2, PublicFit, FitsIsGood
  <2> QED
    BY <2>1, <2>2
<1>3. CASE r # <<"login">>
  <2>1. SentTo(r, v) = r
    BY <1>1, <1>3, Unguarded
  <2>2. /\ PageAt(r) \in {LandingPage, KostListPage, KostPage, RoomPage, RegisterPage,
                          VerifyEmailPage, ForbiddenPage}
        /\ PageAt(r).path = r
    BY <1>3, PagesAt, PathsAre
  <2> QED
    BY <2>1, <2>2, PublicFit, FitsIsGood
<1> QED
  BY <1>2, <1>3

\* Whoever is logged in.
LEMMA GoodForUser ==
    ASSUME NEW v \in Roles,
           NEW r \in {<<"chat">>, <<"dashboard", "profile">>, <<"dashboard", "events">>}
    PROVE  Good(r, v)
<1>1. r \notin Guarded /\ r # <<"login">>
  BY GuardedAre
<1>2. SentTo(r, v) = r
  BY <1>1, Unguarded
<1>3. PageAt(r) \in {ChatPage, ProfilePage, EventsPage} /\ PageAt(r).path = r
  BY PagesAt, PathsAre
<1> QED
  BY <1>2, <1>3, UserFit, FitsIsGood

\* A guard lets those pass who see the page.
LEMMA Admitted ==
    ASSUME NEW r, NEW v, r # <<"login">>, v \in PageAt(r).admits, PageAt(r).path = r,
           Fits(PageAt(r), v)
    PROVE  Good(r, v)
<1>1. SentTo(r, v) = r
  BY PathsAre DEF SentTo
<1> QED
  BY <1>1, FitsIsGood

\* The owner.
LEMMA GoodForOwner ==
    ASSUME NEW r \in {<<"dashboard">>, <<"dashboard", "kosts">>, <<"dashboard", "kosts", "new">>,
                      <<"dashboard", "kosts", "id">>, <<"dashboard", "bookings">>,
                      <<"dashboard", "contracts">>}
    PROVE  Good(r, "owner")
<1>1. r # <<"login">>
  OBVIOUS
<1>2. /\ PageAt(r) \in {DashboardPage, OwnerKostsPage, KostNewPage, KostEditPage, BookingsPage,
                        ContractsPage}
      /\ PageAt(r).path = r
  BY PagesAt, PathsAre
<1>3. Fits(PageAt(r), "owner")
  BY <1>2, OwnerFit
<1> QED
  BY <1>1, <1>2, <1>3, Admitted DEF Fits

\* The teknisi and the super admin.
LEMMA GoodForStaff ==
    /\ Good(<<"dashboard", "teknisi">>, "teknisi")
    /\ \A r \in {<<"dashboard">>, <<"dashboard", "verification">>, <<"dashboard", "master-kost">>,
                 <<"dashboard", "users">>} : Good(r, "super_admin")
<1>1. Good(<<"dashboard", "teknisi">>, "teknisi")
  <2>1. /\ PageAt(<<"dashboard", "teknisi">>) = TeknisiPage
        /\ TeknisiPage.path = <<"dashboard", "teknisi">> /\ <<"dashboard", "teknisi">> # <<"login">>
    BY PagesAt, PathsAre
  <2> QED
    BY <2>1, StaffFit, Admitted DEF Fits
<1>2. ASSUME NEW r \in {<<"dashboard">>, <<"dashboard", "verification">>,
                        <<"dashboard", "master-kost">>, <<"dashboard", "users">>}
      PROVE  Good(r, "super_admin")
  <2>1. /\ PageAt(r) \in {DashboardPage, VerificationPage, MasterKostPage, UsersPage}
        /\ PageAt(r).path = r
    BY PagesAt, PathsAre
  <2>2. r # <<"login">>
    OBVIOUS
  <2>3. Fits(PageAt(r), "super_admin")
    BY <2>1, StaffFit
  <2> QED
    BY <2>1, <2>2, <2>3, Admitted DEF Fits
<1> QED
  BY <1>1, <1>2

\* The routes of the API objects that are not the owner's.
LEMMA RoutesAreKnown ==
    /\ RoutesOf(kostsApi) \subseteq {"GET /kosts", "GET /kosts/:id"}
    /\ RoutesOf(authApi) \subseteq
         {"POST /auth/register", "GET /auth/verify-email", "POST /auth/resend-verification",
          "POST /auth/login", "POST /auth/logout", "GET /auth/me", "POST /auth/refresh",
          "GET /auth/csrf"}
    /\ RoutesOf(chatApi) \subseteq
         {"POST /chat/start", "GET /chat/conversations", "GET /chat/unread",
          "GET /chat/conversations/:id/messages", "POST /chat/conversations/:id/messages"}
    /\ RoutesOf(bookingsApi) \subseteq
         {"POST /bookings", "GET /bookings/me", "PATCH /bookings/:id/cancel"}
    /\ {dashboardApi[f] : f \in
          {"listAdminKosts", "createAdminKost", "verifyKost", "rejectKost", "updateAdminKost",
           "deleteAdminKost", "toggleKostActive", "listUsers", "createUser", "updateUser",
           "deleteUser"}} \subseteq
         {"GET /admin/kosts", "POST /admin/kosts", "PATCH /admin/kosts/:id/verify",
          "PATCH /admin/kosts/:id/reject", "PATCH /admin/kosts/:id", "DELETE /admin/kosts/:id",
          "PATCH /admin/kosts/:id/active", "GET /admin/users", "POST /admin/users",
          "PATCH /admin/users/:id", "DELETE /admin/users/:id"}
<1>1. RoutesOf(kostsApi) \subseteq
         {"GET /kosts", "GET /kosts/:id"}
  <2>1. DOMAIN kostsApi =
         {"listPublic", "getPublic"}
    BY DEF kostsApi
  <2>2. /\ kostsApi.listPublic = "GET /kosts"
        /\ kostsApi.getPublic = "GET /kosts/:id"
    BY DEF kostsApi
  <2> QED
    BY <2>1, <2>2 DEF RoutesOf
<1>2. RoutesOf(authApi) \subseteq
         {"POST /auth/register", "GET /auth/verify-email", "POST /auth/resend-verification",
          "POST /auth/login", "POST /auth/logout", "GET /auth/me", "POST /auth/refresh",
          "GET /auth/csrf"}
  <2>1. DOMAIN authApi =
         {"register", "verifyEmail", "resendVerification", "login", "logout", "me",
          "refresh", "csrf"}
    BY DEF authApi
  <2>2. /\ authApi.register = "POST /auth/register"
        /\ authApi.verifyEmail = "GET /auth/verify-email"
        /\ authApi.resendVerification = "POST /auth/resend-verification"
        /\ authApi.login = "POST /auth/login"
        /\ authApi.logout = "POST /auth/logout"
        /\ authApi.me = "GET /auth/me"
        /\ authApi.refresh = "POST /auth/refresh"
        /\ authApi.csrf = "GET /auth/csrf"
    BY DEF authApi
  <2> QED
    BY <2>1, <2>2 DEF RoutesOf
<1>3. RoutesOf(chatApi) \subseteq
         {"POST /chat/start", "GET /chat/conversations", "GET /chat/unread",
          "GET /chat/conversations/:id/messages", "POST /chat/conversations/:id/messages"}
  <2>1. DOMAIN chatApi =
         {"start", "list", "unread", "messages", "send"}
    BY DEF chatApi
  <2>2. /\ chatApi.start = "POST /chat/start"
        /\ chatApi.list = "GET /chat/conversations"
        /\ chatApi.unread = "GET /chat/unread"
        /\ chatApi.messages = "GET /chat/conversations/:id/messages"
        /\ chatApi.send = "POST /chat/conversations/:id/messages"
    BY DEF chatApi
  <2> QED
    BY <2>1, <2>2 DEF RoutesOf
<1>4. RoutesOf(bookingsApi) \subseteq
         {"POST /bookings", "GET /bookings/me", "PATCH /bookings/:id/cancel"}
  <2>1. DOMAIN bookingsApi =
         {"create", "listMe", "cancel"}
    BY DEF bookingsApi
  <2>2. /\ bookingsApi.create = "POST /bookings"
        /\ bookingsApi.listMe = "GET /bookings/me"
        /\ bookingsApi.cancel = "PATCH /bookings/:id/cancel"
    BY DEF bookingsApi
  <2> QED
    BY <2>1, <2>2 DEF RoutesOf
<1>5. \A f \in
         {"listAdminKosts", "createAdminKost", "verifyKost", "rejectKost",
          "updateAdminKost", "deleteAdminKost", "toggleKostActive", "listUsers",
          "createUser", "updateUser", "deleteUser"} : dashboardApi[f] \in
         {"GET /admin/kosts", "POST /admin/kosts", "PATCH /admin/kosts/:id/verify",
          "PATCH /admin/kosts/:id/reject", "PATCH /admin/kosts/:id",
          "DELETE /admin/kosts/:id", "PATCH /admin/kosts/:id/active", "GET /admin/users",
          "POST /admin/users", "PATCH /admin/users/:id", "DELETE /admin/users/:id"}
  <2>1. /\ dashboardApi.listAdminKosts = "GET /admin/kosts"
        /\ dashboardApi.createAdminKost = "POST /admin/kosts"
        /\ dashboardApi.verifyKost = "PATCH /admin/kosts/:id/verify"
        /\ dashboardApi.rejectKost = "PATCH /admin/kosts/:id/reject"
        /\ dashboardApi.updateAdminKost = "PATCH /admin/kosts/:id"
        /\ dashboardApi.deleteAdminKost = "DELETE /admin/kosts/:id"
        /\ dashboardApi.toggleKostActive = "PATCH /admin/kosts/:id/active"
        /\ dashboardApi.listUsers = "GET /admin/users"
        /\ dashboardApi.createUser = "POST /admin/users"
        /\ dashboardApi.updateUser = "PATCH /admin/users/:id"
        /\ dashboardApi.deleteUser = "DELETE /admin/users/:id"
    BY DEF dashboardApi
  <2> QED
    BY <2>1
<1>6. {dashboardApi[f] : f \in
         {"listAdminKosts", "createAdminKost", "verifyKost", "rejectKost",
          "updateAdminKost", "deleteAdminKost", "toggleKostActive", "listUsers",
          "createUser", "updateUser", "deleteUser"}} \subseteq
         {"GET /admin/kosts", "POST /admin/kosts", "PATCH /admin/kosts/:id/verify",
          "PATCH /admin/kosts/:id/reject", "PATCH /admin/kosts/:id",
          "DELETE /admin/kosts/:id", "PATCH /admin/kosts/:id/active", "GET /admin/users",
          "POST /admin/users", "PATCH /admin/users/:id", "DELETE /admin/users/:id"}
  BY <1>5
<1> QED
  BY <1>1, <1>2, <1>3, <1>4, <1>6

\* Of those who have a role, only the owner is well off at his kosts.
LEMMA OnlyTheOwner ==
    ASSUME NEW v \in Roles,
           NEW r \in {<<"dashboard", "kosts">>, <<"dashboard", "kosts", "new">>,
                      <<"dashboard", "kosts", "id">>},
           Good(r, v)
    PROVE  v = "owner"
<1>1. \A f \in {"listOwnerKosts", "getOwnerKost", "createKost", "updateKost"} :
        Serves(dashboardApi[f], v) => v = "owner"
  <2>1. \A f \in {"listOwnerKosts", "getOwnerKost", "createKost", "updateKost"} :
          /\ dashboardApi[f] \notin PublicRoutes
          /\ dashboardApi[f] \notin SessionRoutes
          /\ dashboardApi[f] \notin TenantRoutes
          /\ dashboardApi[f] \notin TeknisiRoutes
          /\ dashboardApi[f] \notin AdminRoutes
          /\ dashboardApi[f] # dashboardApi.uploadImage
    <3>1. dashboardApi.listOwnerKosts = "GET /owner/kosts"
          /\ dashboardApi.getOwnerKost = "GET /owner/kosts/:id"
          /\ dashboardApi.createKost = "POST /owner/kosts"
          /\ dashboardApi.updateKost = "PATCH /owner/kosts/:id"
          /\ dashboardApi.uploadImage = "POST /uploads/images"
      BY DEF dashboardApi
    <3>2. ASSUME NEW c \in {"GET /owner/kosts", "GET /owner/kosts/:id", "POST /owner/kosts",
                            "PATCH /owner/kosts/:id"}
          PROVE  /\ c \notin PublicRoutes /\ c \notin SessionRoutes /\ c \notin TenantRoutes
                 /\ c \notin TeknisiRoutes /\ c \notin AdminRoutes
      <4>1. c \notin PublicRoutes
        BY RoutesAreKnown DEF PublicRoutes
      <4>2. c \notin RoutesOf(chatApi)
        BY RoutesAreKnown
      <4>3. c \notin SessionRoutes
        BY <4>2 DEF SessionRoutes, authApi, dashboardApi, eventsApi
      <4>4. c \notin TenantRoutes
        BY RoutesAreKnown DEF TenantRoutes
      <4>5. c \notin TeknisiRoutes
        BY DEF TeknisiRoutes, surveyApi
      <4>6. c \notin AdminRoutes
        BY RoutesAreKnown DEF AdminRoutes, surveyApi, eventsApi
      <4> QED
        BY <4>1, <4>3, <4>4, <4>5, <4>6
    <3> QED
      BY <3>1, <3>2
  <2> QED
    BY <2>1 DEF Serves
<1>2. CASE r = <<"dashboard", "kosts">>
  <2>1. SentTo(r, v) = r
    <3>1. SentTo(r, v) \in {r, <<"403">>}
      BY <1>2, PathsAre DEF SentTo
    <3>2. PageAt(<<"403">>).path = <<"403">> /\ <<"403">> # r /\ <<"403">> # Home
      BY <1>2, PagesAt, PathsAre DEF Home
    <3> QED
      BY <3>1, <3>2 DEF Good
  <2>2. OwnerKosts \in Private(r, v)
    <3>1. OwnerKosts \in PageAt(r).reads /\ v \in OwnerKosts.asked
      <4>1. PageAt(r) = OwnerKostsPage
        BY <1>2, PagesAt
      <4>2. OwnerKostsPage.reads = {OwnerKosts}
        BY DEF OwnerKostsPage, Page
      <4>3. OwnerKosts.asked = Roles
        BY DEF OwnerKosts, Keyed, Query
      <4> QED
        BY <4>1, <4>2, <4>3
    <3>2. OwnerKosts.call \notin PublicRoutes /\ OwnerKosts # Me
      <4>1. OwnerKosts.call = "GET /owner/kosts" /\ Me.call = "GET /auth/me"
        BY DEF OwnerKosts, Keyed, Query, Me, dashboardApi, authApi
      <4> QED
        BY <4>1, RoutesAreKnown DEF PublicRoutes
    <3> QED
      BY <3>1, <3>2 DEF Private
  <2>3. PageAt(r).path = r
    BY <1>2, PagesAt, PathsAre
  <2>4. Serves(OwnerKosts.call, v)
    BY <2>1, <2>2, <2>3 DEF Good
  <2> QED
    BY <1>1, <2>4 DEF OwnerKosts, Keyed, Query
<1>3. CASE r # <<"dashboard", "kosts">>
  <2>1. SentTo(r, v) = r
    BY <1>3, GuardedAre, Unguarded
  <2>2. \A o \in PageAt(r).offers : v \in o.to => Serves(o.by.call, v)
    BY <2>1 DEF Good
  <2>3. CASE r = <<"dashboard", "kosts", "new">>
    <3>1. PageAt(r) = KostNewPage
      BY <2>3, PagesAt
    <3> DEFINE o == Offer(createKostMut, "kosts", {"absent"}, "fires", TRUE)
    <3>2. o \in KostNewPage.offers
      BY DEF KostNewPage, Page
    <3>3. o.to = Viewers /\ o.by.call = dashboardApi.createKost
      BY DEF Offer, createKostMut, Mutation
    <3> HIDE DEF o
    <3>4. Serves(dashboardApi.createKost, v)
      BY <2>2, <3>1, <3>2, <3>3 DEF Viewers
    <3> QED
      BY <1>1, <3>4
  <2>4. CASE r = <<"dashboard", "kosts", "id">>
    <3>1. PageAt(r) = KostEditPage
      BY <2>4, PagesAt
    <3> DEFINE o == Offer(updateMut, "kosts", Present("kosts"), "fires", TRUE)
    <3>2. o \in KostEditPage.offers
      BY DEF KostEditPage, Page
    <3>3. o.to = Viewers /\ o.by.call = dashboardApi.updateKost
      BY DEF Offer, updateMut, Mutation
    <3> HIDE DEF o
    <3>4. Serves(dashboardApi.updateKost, v)
      BY <2>2, <3>1, <3>2, <3>3 DEF Viewers
    <3> QED
      BY <1>1, <3>4
  <2> QED
    BY <1>3, <2>3, <2>4
<1> QED
  BY <1>2, <1>3

\* A link a viewer may follow: it is good for him, or the known exception.
Leads(r, v) == r = <<"my-bookings">> \/ Good(r, v)

\* The header, the sidebar and the footer.
LEMMA LayoutLeads ==
    ASSUME NEW r, NEW v \in Viewers, v = "guest" => ~InDashboard(r),
           NEW x \in LayoutLinks(r, v)
    PROVE  Leads(x, v)
<1>1. CASE InDashboard(r)
  <2>1. v \in Roles
    BY <1>1 DEF Viewers
  <2>2. \/ x \in {Home, <<"dashboard", "profile">>}
        \/ x \in filteredNav(v)
        \/ x \in NoticeLinks(v)
    BY <1>1 DEF LayoutLinks, UserProfileButton
  <2>3. CASE x \in {Home, <<"dashboard", "profile">>}
    BY <2>1, <2>3, GoodForAll, GoodForUser DEF Leads
  <2>4. CASE x \in filteredNav(v)
    <3>1. PICK i \in getNavData : i.url = x /\ v \in i.roles
      BY <2>4 DEF filteredNav
    <3>2. \/ v = "owner" /\ x \in {<<"dashboard">>, <<"dashboard", "kosts">>,
                                   <<"dashboard", "bookings">>, <<"dashboard", "contracts">>}
          \/ x = <<"dashboard", "events">>
          \/ v = "teknisi" /\ x = <<"dashboard", "teknisi">>
          \/ v = "super_admin" /\ x \in {<<"dashboard">>, <<"dashboard", "verification">>,
                                         <<"dashboard", "master-kost">>, <<"dashboard", "users">>}
      BY <3>1 DEF getNavData, NavItem
    <3> QED
      BY <2>1, <3>2, GoodForUser, GoodForOwner, GoodForStaff DEF Leads
  <2>5. CASE x \in NoticeLinks(v)
    <3>1. \/ x = <<"my-bookings">>
          \/ v = "owner" /\ x \in {<<"dashboard", "bookings">>, <<"dashboard", "kosts">>}
          \/ x = <<"dashboard", "events">>
          \/ v = "teknisi" /\ x = <<"dashboard", "teknisi">>
      BY <2>5 DEF NoticeLinks
    <3> QED
      BY <2>1, <3>1, GoodForUser, GoodForOwner, GoodForStaff DEF Leads
  <2> QED
    BY <2>2, <2>3, <2>4, <2>5
<1>2. CASE ~InDashboard(r)
  <2>1. \/ x \in {Home, <<"kosts">>, <<"login">>, <<"register">>, <<"my-bookings">>}
        \/ v # "guest" /\ x \in {<<"chat">>, <<"dashboard", "profile">>}
        \/ v = "teknisi" /\ x = <<"dashboard", "teknisi">>
        \/ v \in {"owner", "super_admin"} /\ x = <<"dashboard">>
    BY <1>2, PathsAre DEF LayoutLinks, PublicHeader, PublicFooter
  <2>2. CASE x \in {Home, <<"kosts">>, <<"login">>, <<"register">>, <<"my-bookings">>}
    BY <2>2, GoodForAll DEF Leads
  <2>3. CASE v # "guest" /\ x \in {<<"chat">>, <<"dashboard", "profile">>}
    <3>1. v \in Roles
      BY <2>3 DEF Viewers
    <3> QED
      BY <2>3, <3>1, GoodForUser DEF Leads
  <2>4. CASE v = "teknisi" /\ x = <<"dashboard", "teknisi">>
    BY <2>4, GoodForStaff DEF Leads
  <2>5. CASE v \in {"owner", "super_admin"} /\ x = <<"dashboard">>
    BY <2>5, GoodForOwner, GoodForStaff DEF Leads
  <2> QED
    BY <2>1, <2>2, <2>3, <2>4, <2>5
<1> QED
  BY <1>1, <1>2

\* The links and pushes of the bodies, which at the kosts of an owner are only
\* good because the page itself is.
LEMMA BodyLeads ==
    ASSUME NEW r, NEW v \in Viewers, v = "guest" => ~InDashboard(r), Good(r, v),
           NEW x \in BodyLinks(r, v)
    PROVE  Leads(x, v)
<1>1. \/ x \in {Home, <<"kosts">>, <<"kosts", "id">>, <<"kosts", "id", "kamar", "roomId">>,
                <<"login">>, <<"register">>}
      \/ v # "guest" /\ x = <<"chat">>
      \/ r = <<"dashboard">> /\ x \in DashboardLinks(v)
      \/ r = <<"dashboard", "kosts">> /\ x \in OwnerKostsLinks(v)
      \/ r \in {<<"dashboard", "kosts", "new">>, <<"dashboard", "kosts", "id">>}
           /\ x = <<"dashboard", "kosts">>
      \/ v = "super_admin" /\ x = <<"dashboard", "master-kost">>
  BY PathsAre DEF BodyLinks, LandingLinks, KostCard, KostLinks, RoomLinks, ToLoginOr,
     MyBookingsLinks
<1>2. CASE x \in {Home, <<"kosts">>, <<"kosts", "id">>, <<"kosts", "id", "kamar", "roomId">>,
                  <<"login">>, <<"register">>}
  BY <1>2, GoodForAll DEF Leads
<1>3. CASE v # "guest" /\ x = <<"chat">>
  <2>1. v \in Roles
    BY <1>3 DEF Viewers
  <2> QED
    BY <1>3, <2>1, GoodForUser DEF Leads
<1>4. CASE r = <<"dashboard">> /\ x \in DashboardLinks(v)
  <2>1. \/ v = "super_admin" /\ x \in {<<"dashboard", "verification">>, <<"dashboard", "users">>}
        \/ v = "owner" /\ x \in {<<"dashboard", "kosts", "new">>, <<"dashboard", "bookings">>}
    BY <1>4 DEF DashboardLinks
  <2> QED
    BY <2>1, GoodForOwner, GoodForStaff DEF Leads
<1>5. ASSUME r \in {<<"dashboard", "kosts">>, <<"dashboard", "kosts", "new">>,
                    <<"dashboard", "kosts", "id">>}
      PROVE  v = "owner"
  <2>1. InDashboard(r)
    <3>1. CASE r = <<"dashboard", "kosts">>
      BY <3>1 DEF InDashboard, Home
    <3>2. CASE r = <<"dashboard", "kosts", "new">>
      BY <3>2 DEF InDashboard, Home
    <3>3. CASE r = <<"dashboard", "kosts", "id">>
      BY <3>3 DEF InDashboard, Home
    <3> QED
      BY <1>5, <3>1, <3>2, <3>3
  <2>2. v \in Roles
    BY <2>1 DEF Viewers
  <2> QED
    BY <1>5, <2>2, OnlyTheOwner
<1>6. CASE r = <<"dashboard", "kosts">> /\ x \in OwnerKostsLinks(v)
  <2>1. x \in {<<"dashboard", "kosts", "new">>, <<"dashboard", "kosts", "id">>}
    BY <1>6 DEF OwnerKostsLinks
  <2> QED
    BY <1>5, <1>6, <2>1, GoodForOwner DEF Leads
<1>7. CASE r \in {<<"dashboard", "kosts", "new">>, <<"dashboard", "kosts", "id">>}
             /\ x = <<"dashboard", "kosts">>
  BY <1>5, <1>7, GoodForOwner DEF Leads
<1>8. CASE v = "super_admin" /\ x = <<"dashboard", "master-kost">>
  BY <1>8, GoodForStaff DEF Leads
<1> QED
  BY <1>1, <1>2, <1>3, <1>4, <1>6, <1>7, <1>8

\* From a page that is good for a viewer every link leads to one that is, for
\* every user, role and way to get there.
THEOREM LinksServed == Spec => []NavServed
<1>1. NavTyped => NavServed
  <2> SUFFICES ASSUME NavTyped, Good(at, me.role),
                      me = Unknown => ~InDashboard(at),
                      me # Unknown => who # Nobody /\ me = [user |-> who, role |-> role[who]],
                      NEW r \in LayoutLinks(at, me.role) \cup BodyLinks(at, me.role)
               PROVE  r = <<"my-bookings">> \/ Good(r, me.role)
    BY DEF NavServed
  <2>1. PICK v : v = me.role
    OBVIOUS
  <2>2. CASE me = Unknown
    <3>1. v = "guest" /\ v \in Viewers /\ ~InDashboard(at)
      BY <2>1, <2>2 DEF Unknown, Viewers
    <3> QED
      BY <2>1, <3>1, LayoutLeads, BodyLeads DEF Leads
  <2>3. CASE me # Unknown
    <3>1. who \in Users /\ role[who] \in Roles
      BY <2>3 DEF NavTyped, TypeOK
    <3>2. v = role[who]
      BY <2>1, <2>3
    <3>3. v \in Viewers /\ v # "guest"
      BY <3>1, <3>2 DEF Viewers, Roles
    <3> QED
      BY <2>1, <3>3, LayoutLeads, BodyLeads DEF Leads
  <2> QED
    BY <2>2, <2>3
<1>2. Spec => []NavTyped
  BY TypedInit, TypedStep, PTL DEF Spec
<1> QED
  BY <1>1, <1>2, PTL

=============================================================================
