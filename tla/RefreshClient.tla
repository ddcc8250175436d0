---------------------------- MODULE RefreshClient ----------------------------
(***************************************************************************)
(* The browser's API client (frontend/src/services/api/client.ts): what    *)
(* its response interceptor does with a 401.  The first refused call of a  *)
(* tab leads a refresh, the ones refused meanwhile are parked, and all are *)
(* sent again or rejected with its answer.                                 *)
(*                                                                         *)
(* isRefreshing and failedQueue belong to the loaded page, so every tab    *)
(* has its own; the cookies belong to the browser, so the tabs share them. *)
(* The server rotates refresh tokens and takes a replaced one for a theft  *)
(* (module Accounts has the statements this is made of; here a refresh is  *)
(* one step of the server).                                                *)
(*                                                                         *)
(* A pair of tokens is its number, in the order the server gave them out:  *)
(* pass n is the access token that came with refresh token n.              *)
(***************************************************************************)
EXTENDS Naturals

CONSTANTS
    Tabs,     \* tabs of one browser
    Calls,    \* calls they may have under way
    TabOf,    \* the tab that makes a call
    MaxToken  \* bound: pairs of tokens the server gives out

ASSUME MaxTokenAssumption == MaxToken \in Nat
ASSUME TabOfAssumption == TabOf \in [Calls -> Tabs]

Tokens == 1..MaxToken
NoToken == 0

VARIABLES
    call,     \* the calls, but for those of the auth endpoints and /auth/me,
              \* which are settled by whatever answer they get
    refresh,  \* its call of /auth/refresh: isRefreshing is that there is one
    where,    \* the page it shows
    jar,      \* the pair of tokens in the cookies
    live,     \* refresh tokens whose session is neither revoked nor expired
    issued,   \* the last pair given out
    stale,    \* access tokens up to this one have expired
    shown,    \* history: who presented a refresh token, or that its answer was lost
    theft     \* history: the refresh token that first set off reuse detection

server == <<live, issued, stale, theft>>
vars == <<call, refresh, where, jar, live, issued, stale, shown, theft>>

---------------------------------------------------------------------------
(* Records.  retry is the mark original._retry; pass is the access token a *)
(* call was sent with, until it is answered.                               *)

Idle == [at |-> "idle"]
Stages == {"sent", "refused", "parked", "leading"}
CallRecord == [at : Stages, pass : 0..MaxToken, retry : BOOLEAN]

NoRefresh == [at |-> "none"]
RefreshRecord ==
    [at : {"sent"}, token : 0..MaxToken]
    \cup [at : {"back"}, token : 0..MaxToken, answer : {"rotated"}, new : Tokens]
    \cup [at : {"back"}, token : 0..MaxToken, answer : {"cleared", "unauthorized"}]

\* A token is shown by a refresh or by a logout of a tab.  Mishap: by two of
\* them, or to a server whose answer did not arrive.
Nobody == [by |-> "nobody"]
Mishap == [by |-> "mishap"]
Shower == [by : {"refresh", "logout"}, tab : Tabs]

TypeOK ==
    /\ call \in [Calls -> CallRecord \cup {Idle}]
    /\ refresh \in [Tabs -> RefreshRecord \cup {NoRefresh}]
    /\ where \in [Tabs -> {"app", "login"}]
    /\ jar \in 0..MaxToken
    /\ live \subseteq Tokens
    /\ issued \in 0..MaxToken
    /\ stale \in 0..MaxToken
    /\ shown \in [Tokens -> {Nobody, Mishap} \cup Shower]
    /\ theft \in 0..MaxToken

isRefreshing(t) == refresh[t] # NoRefresh
CallsOf(t) == {c \in Calls : TabOf[c] = t}
failedQueue(t) == {c \in CallsOf(t) : call[c].at = "parked"}
Leading(t) == {c \in CallsOf(t) : call[c].at = "leading"}

Init ==
    /\ call = [c \in Calls |-> Idle]
    /\ refresh = [t \in Tabs |-> NoRefresh]
    /\ where = [t \in Tabs |-> "login"]
    /\ jar = NoToken
    /\ live = {}
    /\ issued = 0
    /\ stale = 0
    /\ shown = [k \in Tokens |-> Nobody]
    /\ theft = NoToken

---------------------------------------------------------------------------
(* A call and its answer *)

Becomes(c, r) == call' = [call EXCEPT ![c] = r]

\* The cookies go with the call.
Issue(c) ==
    /\ call[c] = Idle
    /\ Becomes(c, [at |-> "sent", pass |-> jar, retry |-> FALSE])
    /\ UNCHANGED <<refresh, where, jar, server, shown>>

\* The server answers: 401 to a missing or expired access token.  Access
\* tokens are not looked up, so those of a revoked session pass.  Any answer
\* but 401 settles the call, the errors after their toast.
Serve(c) ==
    /\ call[c].at = "sent"
    /\ Becomes(c, IF call[c].pass > stale THEN Idle
                  ELSE [call[c] EXCEPT !.at = "refused", !.pass = NoToken])
    /\ UNCHANGED <<refresh, where, jar, server, shown>>

\* A 401 to a call that was sent again by the refresh it led.
Reject(c) ==
    /\ call[c].at = "refused"
    /\ call[c].retry
    /\ Becomes(c, Idle)
    /\ UNCHANGED <<refresh, where, jar, server, shown>>

\* A refresh is under way: the call waits in failedQueue, without the mark.
Park(c) ==
    /\ call[c].at = "refused"
    /\ ~call[c].retry
    /\ isRefreshing(TabOf[c])
    /\ Becomes(c, [call[c] EXCEPT !.at = "parked"])
    /\ UNCHANGED <<refresh, where, jar, server, shown>>

\* The refresh token of the cookie is shown to the server.
Show(who) ==
    shown' = [k \in Tokens |-> IF k # jar THEN shown[k]
                               ELSE IF shown[k] \in {Nobody, who} THEN who ELSE Mishap]

StartRefresh(t) ==
    /\ refresh' = [refresh EXCEPT ![t] = [at |-> "sent", token |-> jar]]
    /\ Show([by |-> "refresh", tab |-> t])

\* Slip: the call that finds isRefreshing set leads all the same.
LeadAlways(c) ==
    /\ call[c].at = "refused"
    /\ ~call[c].retry
    /\ Becomes(c, [call[c] EXCEPT !.at = "leading", !.retry = TRUE])
    /\ StartRefresh(TabOf[c])
    /\ UNCHANGED <<where, jar, server>>

\* Otherwise it gets the mark and leads a refresh with the cookie of now.
Lead(c) ==
    /\ call[c].at = "refused"
    /\ ~call[c].retry
    /\ ~isRefreshing(TabOf[c])
    /\ Becomes(c, [call[c] EXCEPT !.at = "leading", !.retry = TRUE])
    /\ StartRefresh(TabOf[c])
    /\ UNCHANGED <<where, jar, server>>

---------------------------------------------------------------------------
(* The server's side of a refresh *)

Answered(t, r) == refresh' = [refresh EXCEPT ![t] = r]

ServeRotate(t) ==
    /\ refresh[t].at = "sent"
    /\ refresh[t].token \in live
    /\ issued < MaxToken
    /\ issued' = issued + 1
    /\ live' = (live \ {refresh[t].token}) \cup {issued + 1}
    /\ Answered(t, [at |-> "back", token |-> refresh[t].token,
                    answer |-> "rotated", new |-> issued + 1])
    /\ UNCHANGED <<call, where, jar, stale, shown, theft>>

\* The session is past its date: it is closed and the cookies cleared.
ServeLate(t) ==
    /\ refresh[t].at = "sent"
    /\ refresh[t].token \in live
    /\ live' = live \ {refresh[t].token}
    /\ Answered(t, [at |-> "back", token |-> refresh[t].token, answer |-> "cleared"])
    /\ UNCHANGED <<call, where, jar, issued, stale, shown, theft>>

\* A token that was replaced: every session of the user is revoked.
ServeReuse(t) ==
    /\ refresh[t].at = "sent"
    /\ refresh[t].token \in Tokens \ live
    /\ live' = {}
    /\ theft' = IF theft = NoToken THEN refresh[t].token ELSE theft
    /\ Answered(t, [at |-> "back", token |-> refresh[t].token, answer |-> "cleared"])
    /\ UNCHANGED <<call, where, jar, issued, stale, shown>>

\* No cookie: refused before the cookies are touched.
ServeNoCookie(t) ==
    /\ refresh[t].at = "sent"
    /\ refresh[t].token = NoToken
    /\ Answered(t, [at |-> "back", token |-> NoToken, answer |-> "unauthorized"])
    /\ UNCHANGED <<call, where, jar, server, shown>>

---------------------------------------------------------------------------
(* The end of a refresh.  processQueue, the leader's own retry and the     *)
(* reset of isRefreshing run without a break, the parked calls right after *)
(* them.                                                                   *)

Waiting(c, t) == TabOf[c] = t /\ call[c].at \in {"parked", "leading"}

\* Slip: the calls refused during the refresh are forgotten in the queue.
ResentLeaderOnly(t, k) ==
    [c \in Calls |-> IF Waiting(c, t) /\ call[c].at = "leading"
                     THEN [call[c] EXCEPT !.at = "sent", !.pass = k] ELSE call[c]]

\* Calls that waited for the refresh of tab t are sent with cookie pair k.
Resent(t, k) ==
    [c \in Calls |-> IF Waiting(c, t) THEN [call[c] EXCEPT !.at = "sent", !.pass = k]
                                      ELSE call[c]]

Rejected(t) == [c \in Calls |-> IF Waiting(c, t) THEN Idle ELSE call[c]]

processQueue(t) ==
    /\ refresh[t].at = "back"
    /\ refresh[t].answer = "rotated"
    /\ jar' = refresh[t].new
    /\ call' = Resent(t, refresh[t].new)
    /\ refresh' = [refresh EXCEPT ![t] = NoRefresh]
    /\ UNCHANGED <<where, server, shown>>

\* Nobody will hear of the refresh of tab t.
LoseAnswer(t) ==
    shown' = [k \in Tokens |-> IF isRefreshing(t) /\ refresh[t].token = k
                               THEN Mishap ELSE shown[k]]

\* A new document: the calls of the old one and its refresh are gone.
Unload(t) ==
    /\ call' = [c \in Calls |-> IF TabOf[c] = t THEN Idle ELSE call[c]]
    /\ refresh' = [refresh EXCEPT ![t] = NoRefresh]

\* The refresh failed.  The page leaves for /login, unless it is there: then
\* everybody is rejected.
Abandon(t) ==
    IF where[t] = "login"
    THEN /\ call' = Rejected(t)
         /\ refresh' = [refresh EXCEPT ![t] = NoRefresh]
         /\ UNCHANGED where
    ELSE /\ Unload(t)
         /\ where' = [where EXCEPT ![t] = "login"]

\* Slip: the answer that refuses a session leaves its cookie.
RefreshRefusedKeeping(t) ==
    /\ refresh[t].at = "back"
    /\ refresh[t].answer # "rotated"
    /\ Abandon(t)
    /\ UNCHANGED <<jar, server, shown>>

RefreshRefused(t) ==
    /\ refresh[t].at = "back"
    /\ refresh[t].answer # "rotated"
    /\ Abandon(t)
    /\ jar' = IF refresh[t].answer = "cleared" THEN NoToken ELSE jar
    /\ UNCHANGED <<server, shown>>

---------------------------------------------------------------------------
(* What the user does, and what goes wrong on the way *)

Reload(t) ==
    /\ Unload(t)
    /\ LoseAnswer(t)
    /\ UNCHANGED <<where, jar, server>>

\* The 15 s of axios are over, or the connection is: no response.
LoseCall(c) ==
    /\ call[c].at \in {"sent", "refused"}
    /\ Becomes(c, Idle)
    /\ UNCHANGED <<refresh, where, jar, server, shown>>

\* Slip: a refresh without an answer leaves its queue behind.
LoseRefreshStuck(t) ==
    /\ isRefreshing(t)
    /\ refresh' = [refresh EXCEPT ![t] = NoRefresh]
    /\ LoseAnswer(t)
    /\ UNCHANGED <<call, where, jar, server>>

LoseRefresh(t) ==
    /\ isRefreshing(t)
    /\ Abandon(t)
    /\ LoseAnswer(t)
    /\ UNCHANGED <<jar, server>>

useLogin(t) ==
    /\ where[t] = "login"
    /\ issued < MaxToken
    /\ issued' = issued + 1
    /\ live' = live \cup {issued + 1}
    /\ jar' = issued + 1
    /\ where' = [where EXCEPT ![t] = "app"]
    /\ UNCHANGED <<call, refresh, stale, shown, theft>>

\* The session of the cookie is revoked, the cookies cleared, /login shown.
useLogout(t) ==
    /\ where[t] = "app"
    /\ live' = live \ {jar}
    /\ jar' = NoToken
    /\ where' = [where EXCEPT ![t] = "login"]
    /\ Show([by |-> "logout", tab |-> t])
    /\ UNCHANGED <<call, refresh, issued, stale, theft>>

AccessExpires ==
    /\ stale < issued
    /\ stale' = stale + 1
    /\ UNCHANGED <<call, refresh, where, jar, live, issued, shown, theft>>

---------------------------------------------------------------------------
CallStep(c) == Serve(c) \/ Reject(c) \/ Park(c) \/ Lead(c)

ServeRefresh(t) ==
    ServeRotate(t) \/ ServeLate(t) \/ ServeReuse(t) \/ ServeNoCookie(t)

EndRefresh(t) == processQueue(t) \/ RefreshRefused(t)

UserStep(t) == Reload(t) \/ useLogin(t) \/ useLogout(t)

Next ==
    \/ \E c \in Calls : Issue(c) \/ CallStep(c) \/ LoseCall(c)
    \/ \E t \in Tabs : \/ ServeRefresh(t) \/ EndRefresh(t)
                       \/ UserStep(t) \/ LoseRefresh(t)
    \/ AccessExpires

Spec == Init /\ [][Next]_vars

\* The network and the server answer in the end, and a tab runs its callbacks.
\* Nothing makes the user act, an answer get lost or a date pass.
FairSpec ==
    /\ Spec
    /\ \A c \in Calls : WF_vars(CallStep(c))
    /\ \A t \in Tabs : WF_vars(ServeRefresh(t)) /\ WF_vars(EndRefresh(t))

---------------------------------------------------------------------------
(* Properties *)

\* Single flight (client.ts:29 and README.md:207): a tab is refreshing exactly
\* when one of its calls leads, and only one does, so that every refresh has
\* the one caller whose finally ends it.
SingleFlight ==
    \A t \in Tabs :
        /\ isRefreshing(t) <=> Leading(t) # {}
        /\ \A c, d \in Leading(t) : c = d

\* No call waits in failedQueue when nobody will process it: neither an
\* answer, nor a lost one, nor a new document leaves one behind.
QueueHasRefresh == \A t \in Tabs : failedQueue(t) # {} => isRefreshing(t)

\* Reuse detection (docs/product-foundation.md:408) is a sign of theft, or of
\* a mishap the client does not prevent: two tabs presented the same cookie, a
\* logout overtook a refresh, or the answer that replaced it did not arrive.
\* One tab on a line that loses nothing never sets it off, whatever its calls
\* do: every token it was sent is presented once.  (It revokes every session,
\* so a first false alarm may be followed by others.)
ReuseNeedsMishap == theft # NoToken => shown[theft] = Mishap

\* README.md:207, "avoid infinite retry": whatever is refused, parked, sent
\* again or lost, every call is settled in the end.
CallsSettle ==
    \A c \in Calls : call[c].at = "sent" ~> call[c] = Idle

=============================================================================
