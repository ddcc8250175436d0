----------------------------- MODULE Navigation -----------------------------
(***************************************************************************)
(* Where a browser goes: the links of the header, the sidebar, the search  *)
(* box and the pages, the guards that send a viewer elsewhere, the login,  *)
(* the logout and the registration, and what the page knows of its user    *)
(* meanwhile (useMe).                                                      *)
(*                                                                         *)
(* A session is two tokens (module Accounts): the access token, which      *)
(* expires, and the refresh token, which the interceptor (module           *)
(* RefreshClient) exchanges when a query is refused, but not when GET    *)
(* /auth/me is.  A query of a page is one step here.                       *)
(***************************************************************************)
EXTENDS Pages

CONSTANTS
    Users,
    FirstRoles,  \* who has which role at first; "none" is not registered
    Typed,       \* bound: routes that are typed or kept as bookmarks
    MaxExpiries, \* bound: how often access tokens expire
    Promotions   \* bound: the roles that are changed, and into which

Nobody == "nobody"

ASSUME NavigationAssumption ==
    /\ FirstRoles \subseteq [Users -> Roles \cup {"none"}]
    /\ Nobody \notin Users
    /\ Typed \subseteq {p.path : p \in RoutePages}
    /\ MaxExpiries \in Nat
    /\ Promotions \subseteq Roles \X Roles

VARIABLES
    at,         \* the route the tab is at
    role,       \* server: the role of each user
    verified,   \* server: the users whose mail address is proved
    who,        \* whose cookies the browser has
    access,     \* the access token is good
    live,       \* the refresh token is good
    expiries,   \* history: access tokens that expired
    me,         \* cache: the user the page knows, with the role he had
    asking,     \* the request for me under way
    held,       \* cache: whose private data is in it
    blind,      \* history: me was refused though there were cookies, or a login
                \* was sent before it was answered
    signing,    \* a login under way
    leaving     \* a logout under way

vars == <<at, role, verified, who, access, live, expiries, me, asking, held, blind, signing,
          leaving>>
accounts == <<role, verified>>
cookies == <<who, access, live, expiries>>
cache == <<me, asking, held, blind>>

Home == << >>
Routes == {p.path : p \in RoutePages}
PageAt(r) == CHOOSE p \in RoutePages : p.path = r
InDashboard(r) == r # Home /\ r[1] = "dashboard"

Unknown == [user |-> Nobody, role |-> "guest"]
Idle == [at |-> "idle"]
Asked == [at |-> "asked"]

TypeOK ==
    /\ at \in Routes
    /\ role \in [Users -> Roles \cup {"none"}]
    /\ verified \subseteq {u \in Users : role[u] # "none"}
    /\ who \in Users \cup {Nobody}
    /\ who # Nobody => who \in verified
    /\ access \/ live => who # Nobody
    /\ expiries \in 0..MaxExpiries
    /\ me.user \in Users \cup {Nobody}
    /\ me.role \in IF me.user = Nobody THEN {"guest"} ELSE Roles
    /\ asking.at \in {"idle", "asked", "back"}
    /\ held \subseteq Users
    /\ blind \in BOOLEAN
    /\ signing \in {"no", "served", "waiting"}
    /\ leaving \in BOOLEAN

Init ==
    /\ at = Home
    /\ role \in FirstRoles
    /\ verified = {u \in Users : role[u] # "none"}
    /\ who = Nobody
    /\ access = FALSE
    /\ live = FALSE
    /\ expiries = 0
    /\ me = Unknown
    /\ asking = Asked
    /\ held = {}
    /\ blind = FALSE
    /\ signing = "no"
    /\ leaving = FALSE

---------------------------------------------------------------------------
(* Guards and links *)

\* The pages that call redirect("/403") for a role they do not admit.
Guarded ==
    {p.path : p \in {OwnerKostsPage, VerificationPage, MasterKostPage, UsersPage, TeknisiPage}}

\* Where a page sends its viewer, or the page itself.
SentTo(r, v) ==
    IF r = LoginPage.path /\ v # "guest" THEN Home
    ELSE IF r \in Guarded /\ v # "guest" /\ v \notin PageAt(r).admits THEN ForbiddenPage.path
    ELSE r

NavItem(r, roles) == [url |-> r, roles |-> roles]

\* Slip: the kosts of an owner are shown to super admins too.
getNavDataWide ==
    {NavItem(<<"dashboard">>, {"owner", "super_admin"}),
     NavItem(<<"dashboard", "kosts">>, {"owner", "super_admin"})}

getNavData ==
    {NavItem(<<"dashboard">>, {"owner", "super_admin"}),
     NavItem(<<"dashboard", "kosts">>, {"owner"}),
     NavItem(<<"dashboard", "bookings">>, {"owner"}),
     NavItem(<<"dashboard", "contracts">>, {"owner"}),
     NavItem(<<"dashboard", "teknisi">>, {"teknisi"}),
     NavItem(<<"dashboard", "events">>, {"owner", "teknisi", "super_admin"}),
     NavItem(<<"dashboard", "verification">>, {"super_admin"}),
     NavItem(<<"dashboard", "master-kost">>, {"super_admin"}),
     NavItem(<<"dashboard", "users">>, {"super_admin"})}

filteredNav(v) == {i.url : i \in {j \in getNavData : v \in j.roles}}

\* The search box filters nothing by role.
itemsBySection == {i.url : i \in getNavData}

PublicHeader(v) ==
    {Home, <<"kosts">>}
    \cup (IF v = "guest" THEN {LoginPage.path, RegisterPage.path}
          ELSE {<<"my-bookings">>, <<"chat">>, <<"dashboard", "profile">>})
    \cup (IF v = "teknisi" THEN {<<"dashboard", "teknisi">>} ELSE {})
    \cup (IF v \in {"owner", "super_admin"} THEN {<<"dashboard">>} ELSE {})

PublicFooter == {Home, <<"kosts">>, <<"my-bookings">>, RegisterPage.path}

UserProfileButton == {<<"dashboard", "profile">>}

\* The links that notices of the bell carry, to whom they are sent.
NoticeLinks(v) ==
    CASE v = "tenant" -> {<<"my-bookings">>}
      [] v = "owner" ->
            {<<"dashboard", "bookings">>, <<"dashboard", "kosts">>, <<"dashboard", "events">>}
      [] v = "teknisi" -> {<<"dashboard", "teknisi">>, <<"dashboard", "events">>}
      [] OTHER -> {}

---------------------------------------------------------------------------
(* The links and the pushes in the bodies of the pages, in the same tab.   *)
(* A button that only a known user may use leads others to the login page. *)

ToLoginOr(r, v) == IF v = "guest" THEN {LoginPage.path} ELSE {r}

LandingLinks == {<<"kosts">>, RegisterPage.path}
KostCard == {<<"kosts", "id">>}
KostLinks(v) ==
    {<<"kosts">>, <<"kosts", "id", "kamar", "roomId">>} \cup ToLoginOr(<<"chat">>, v)
RoomLinks(v) == {<<"kosts">>, <<"kosts", "id">>} \cup ToLoginOr(<<"chat">>, v)

MyBookingsLinks(v) ==
    CASE v = "guest" -> {LoginPage.path}
      [] v = "tenant" -> {<<"kosts">>}
      [] OTHER -> {}

DashboardLinks(v) ==
    CASE v = "super_admin" -> {<<"dashboard", "verification">>, <<"dashboard", "users">>}
      [] v = "owner" -> {<<"dashboard", "kosts", "new">>, <<"dashboard", "bookings">>}
      [] OTHER -> {}

OwnerKostsLinks(v) ==
    IF v \in {"owner", "super_admin"}
    THEN {<<"dashboard", "kosts", "new">>, <<"dashboard", "kosts", "id">>} ELSE {}

BodyLinks(r, v) ==
    CASE r = Home -> LandingLinks \cup KostCard
      [] r = <<"kosts">> -> KostCard
      [] r = <<"kosts", "id">> -> KostLinks(v)
      [] r = <<"kosts", "id", "kamar", "roomId">> -> RoomLinks(v)
      [] r = <<"chat">> /\ v = "guest" -> {LoginPage.path}
      [] r = <<"my-bookings">> -> MyBookingsLinks(v)
      [] r = <<"403">> -> {Home}
      [] r = LoginPage.path -> {RegisterPage.path}
      [] r \in {RegisterPage.path, VerifyEmailPage.path} -> {LoginPage.path}
      [] r = <<"dashboard">> -> DashboardLinks(v)
      [] r = <<"dashboard", "kosts">> -> OwnerKostsLinks(v)
      [] r \in {<<"dashboard", "kosts", "new">>, <<"dashboard", "kosts", "id">>} ->
            {<<"dashboard", "kosts">>}
      [] r = <<"dashboard", "verification">> /\ v = "super_admin" ->
            {<<"dashboard", "master-kost">>}
      [] OTHER -> {}

\* What the layouts put around a page.
LayoutLinks(r, v) ==
    IF InDashboard(r)
    THEN {Home} \cup filteredNav(v) \cup UserProfileButton \cup NoticeLinks(v)
    ELSE PublicHeader(v) \cup PublicFooter

Links(r, v) ==
    LayoutLinks(r, v) \cup BodyLinks(r, v) \cup (IF InDashboard(r) THEN itemsBySection ELSE {})

---------------------------------------------------------------------------
(* Moving *)

\* The document is loaded anew, with an empty cache; what was under way is
\* forgotten.  A page of the dashboard, and the public header, ask for me.
Reload(r) ==
    /\ at' = r
    /\ me' = Unknown
    /\ asking' = Asked
    /\ held' = {}
    /\ blind' = FALSE
    /\ signing' = "no"
    /\ leaving' = FALSE

TypeUrl(r) ==
    /\ Reload(r)
    /\ UNCHANGED <<accounts, cookies>>

\* The next page mounts useMe: what it knows is fresh for a while.
AskMe == IF asking = Idle THEN asking' \in {Idle, Asked} /\ (me = Unknown => asking' = Asked)
         ELSE UNCHANGED asking

FollowLink(r) ==
    /\ SentTo(at, me.role) = at
    /\ r \in Links(at, me.role)
    /\ at' = r
    /\ AskMe
    /\ UNCHANGED <<accounts, cookies, me, held, blind, signing, leaving>>

Redirect ==
    /\ SentTo(at, me.role) # at
    /\ at' = SentTo(at, me.role)
    /\ AskMe
    /\ UNCHANGED <<accounts, cookies, me, held, blind, signing, leaving>>

---------------------------------------------------------------------------
(* What the page asks for *)

\* The window gets the focus.
Focus ==
    /\ asking = Idle
    /\ asking' = Asked
    /\ UNCHANGED <<at, accounts, cookies, me, held, blind, signing, leaving>>

ServeMe ==
    /\ asking = Asked
    /\ access
    /\ asking' = [at |-> "back", got |-> [user |-> who, role |-> role[who]]]
    /\ UNCHANGED <<at, accounts, cookies, me, held, blind, signing, leaving>>

\* Refused, or not answered: it is not retried, no token is refreshed for it,
\* and what was known stays.
RefuseMe ==
    /\ asking = Asked
    /\ asking' = Idle
    /\ blind' = (blind \/ who # Nobody)
    /\ UNCHANGED <<at, accounts, cookies, me, held, signing, leaving>>

KnowMe ==
    /\ asking.at = "back"
    /\ me' = asking.got
    /\ asking' = Idle
    /\ UNCHANGED <<at, accounts, cookies, held, blind, signing, leaving>>

\* The private queries the page has for what it knows of its viewer.
Private(r, v) == {q \in PageAt(r).reads : v \in q.asked /\ q.call \notin PublicRoutes /\ q # Me}
PrivateHere ==
    Private(at, me.role)
        \cup IF InDashboard(at) /\ me # Unknown THEN {Notifications} ELSE {}

\* Slip: while the session lives a refused query is sent again at once, with
\* the token that was refused.
LoadUnrefreshed(q) ==
    /\ q \in PrivateHere
    /\ IF access \/ live
       THEN /\ held' = IF access /\ Serves(q.call, role[who]) THEN held \cup {who} ELSE held
            /\ UNCHANGED <<at, access, me, asking, blind, signing, leaving>>
       ELSE /\ Reload(LoginPage.path)
            /\ UNCHANGED access
    /\ UNCHANGED <<accounts, who, live, expiries>>

\* A refused query is sent again once the token is refreshed; with no session
\* left the interceptor loads the login page.
Load(q) ==
    /\ q \in PrivateHere
    /\ IF access \/ live
       THEN /\ access' = TRUE
            /\ held' = IF Serves(q.call, role[who]) THEN held \cup {who} ELSE held
            /\ UNCHANGED <<at, me, asking, blind, signing, leaving>>
       ELSE /\ Reload(LoginPage.path)
            /\ UNCHANGED access
    /\ UNCHANGED <<accounts, who, live, expiries>>

---------------------------------------------------------------------------
(* Login, logout, registration *)

CanLogin(u) == u \in verified

Login(u) ==
    /\ at = LoginPage.path
    /\ me = Unknown
    /\ signing = "no"
    /\ CanLogin(u)
    /\ who' = u
    /\ access' = TRUE
    /\ live' = TRUE
    /\ signing' = "served"
    /\ blind' = (blind \/ asking # Idle)
    /\ UNCHANGED <<at, accounts, expiries, me, asking, held, leaving>>

\* useLogin, onSuccess: me is invalidated.  A first request for it that is
\* under way is waited for, though it may be older than the login.
AwaitMe ==
    /\ signing = "served"
    /\ signing' = "waiting"
    /\ asking' = IF asking # Idle /\ me = Unknown THEN asking ELSE Asked
    /\ UNCHANGED <<at, accounts, cookies, me, held, blind, leaving>>

LoginDone ==
    /\ signing = "waiting"
    /\ asking = Idle
    /\ signing' = "no"
    /\ at' = Home
    /\ AskMe
    /\ UNCHANGED <<accounts, cookies, me, held, blind, leaving>>

Logout ==
    /\ me # Unknown
    /\ ~leaving
    /\ who' = Nobody
    /\ access' = FALSE
    /\ live' = FALSE
    /\ leaving' = TRUE
    /\ UNCHANGED <<at, accounts, expiries, cache, signing>>

\* Slip: the cache is not cleared.
LogoutDoneKeeping ==
    /\ leaving
    /\ leaving' = FALSE
    /\ at' = LoginPage.path
    /\ me' = Unknown
    /\ asking' = Asked
    /\ blind' = FALSE
    /\ UNCHANGED <<accounts, cookies, held, signing>>

\* useLogout, onSuccess: the cache is cleared before the login page mounts.
LogoutDone ==
    /\ leaving
    /\ leaving' = FALSE
    /\ at' = LoginPage.path
    /\ me' = Unknown
    /\ asking' = Asked
    /\ held' = {}
    /\ blind' = FALSE
    /\ UNCHANGED <<accounts, cookies, signing>>

\* The page stays, and tells him to look for the mail.
Register(u) ==
    /\ at = RegisterPage.path
    /\ role[u] = "none"
    /\ \E r \in {"tenant", "owner"} : role' = [role EXCEPT ![u] = r]
    /\ UNCHANGED <<at, verified, cookies, cache, signing, leaving>>

\* The link of the mail is opened in this tab.
VerifyEmail(u) ==
    /\ role[u] # "none"
    /\ verified' = verified \cup {u}
    /\ Reload(VerifyEmailPage.path)
    /\ UNCHANGED <<role, cookies>>

---------------------------------------------------------------------------
(* The server meanwhile *)

Expire ==
    /\ access
    /\ expiries < MaxExpiries
    /\ access' = FALSE
    /\ expiries' = expiries + 1
    /\ UNCHANGED <<at, accounts, who, live, cache, signing, leaving>>

SessionEnds ==
    /\ live
    /\ live' = FALSE
    /\ UNCHANGED <<at, accounts, who, access, expiries, cache, signing, leaving>>

ChangeRole(u) ==
    /\ u \in verified
    /\ \E r \in Roles :
        /\ <<role[u], r>> \in Promotions
        /\ role' = [role EXCEPT ![u] = r]
    /\ UNCHANGED <<at, verified, cookies, cache, signing, leaving>>

---------------------------------------------------------------------------
Next ==
    \/ \E r \in Typed : TypeUrl(r)
    \/ \E r \in Links(at, me.role) : FollowLink(r)
    \/ Redirect
    \/ Focus
    \/ ServeMe
    \/ RefuseMe
    \/ KnowMe
    \/ \E q \in PrivateHere : Load(q)
    \/ \E u \in Users : Login(u) \/ Register(u) \/ VerifyEmail(u) \/ ChangeRole(u)
    \/ AwaitMe
    \/ LoginDone
    \/ Logout
    \/ LogoutDone
    \/ Expire
    \/ SessionEnds

\* Whoever stays at a page comes back to its window, and requests are not
\* refused, nor forgotten in a reload, for ever while there is a token.
Fairness ==
    /\ WF_vars(Focus)
    /\ SF_vars(ServeMe)
    /\ SF_vars(KnowMe)
    /\ SF_vars(~access /\ live /\ \E q \in PrivateHere : Load(q))

Spec == Init /\ [][Next]_vars /\ Fairness

---------------------------------------------------------------------------
(* Properties *)

\* From a page that is good for a viewer every link of its layout and its body
\* leads to one that is, at once or redirected home: it shows itself to him,
\* and the server refuses him none of its queries and buttons.  Known not to:
\* my-bookings, for whoever is not a tenant, what a guest is shown in the
\* dashboard, and all of it when his role has changed meanwhile.
Good(r, v) ==
    LET p == PageAt(SentTo(r, v))
    IN /\ p.path \in {r, Home}
       /\ v \in p.admits
       /\ \A q \in Private(p.path, v) : Serves(q.call, v)
       /\ \A o \in p.offers : v \in o.to => Serves(o.by.call, v)
NavServed ==
    /\ Good(at, me.role)
    /\ me = Unknown => ~InDashboard(at)
    /\ me # Unknown => who # Nobody /\ me = [user |-> who, role |-> role[who]]
    => \A r \in LayoutLinks(at, me.role) \cup BodyLinks(at, me.role) :
        r = <<"my-bookings">> \/ Good(r, me.role)

\* Whoever logs in in a tab finds nothing of the one before him in its cache:
\* a logout clears it, a session that ends loads the login page anew.  Unless
\* me was refused there while the one before still had cookies, or was not
\* answered yet: the login page is then open to anyone, over his data.
OnlyOwnData == who # Nobody /\ ~blind => held \subseteq {who}

\* A session that lives is recognised, as long as its access token is good or
\* the page has a query that gets it refreshed.  A page that waits for me
\* before it asks for anything shows a guest, however long he looks at it.
CanBeKnown(u) == who = u /\ live /\ (access \/ PrivateHere # {})
SessionRecognised == \A u \in Users : CanBeKnown(u) ~> me.user = u \/ ~CanBeKnown(u)

=============================================================================
