---------------------------- MODULE RefreshProofs ----------------------------
(***************************************************************************)
(* Proofs about the API client, for any number of tabs, calls and tokens:  *)
(* its types, the single refresh of a tab, the queue that always has a     *)
(* refresh to wait for, and that reuse detection needs a mishap.           *)
(***************************************************************************)
EXTENDS RefreshClient, TLAPS

ClientInv == TypeOK /\ SingleFlight /\ QueueHasRefresh

USE MaxTokenAssumption, TabOfAssumption

---------------------------------------------------------------------------
(* Types *)

\* A call that is under way has all its fields, and stays so as they change.
LEMMA CallChanges ==
    ASSUME NEW r \in CallRecord, NEW s \in Stages, NEW k \in 0..MaxToken
    PROVE  /\ [r EXCEPT !.at = s] \in CallRecord
           /\ [r EXCEPT !.at = s].at = s
           /\ [r EXCEPT !.at = s, !.pass = k] \in CallRecord
           /\ [r EXCEPT !.at = s, !.pass = k].at = s
           /\ [r EXCEPT !.at = s, !.retry = TRUE] \in CallRecord
           /\ [r EXCEPT !.at = s, !.retry = TRUE].at = s
  BY DEF CallRecord

LEMMA CallUnderWay ==
    ASSUME TypeOK, NEW c \in Calls
    PROVE  /\ call[c].at # "idle" => call[c] \in CallRecord
           /\ call[c].at \in Stages => call[c] \in CallRecord
           /\ Idle.at = "idle"
<1>1. call[c] \in CallRecord \cup {Idle}
  BY DEF TypeOK
<1>2. Idle.at = "idle"
  BY DEF Idle
<1> QED
  BY <1>1, <1>2 DEF Stages

\* What an answer or a document may do to the calls of a tab keeps their type.
LEMMA CallsTyped ==
    ASSUME TypeOK, NEW t \in Tabs, NEW k \in 0..MaxToken
    PROVE  /\ Resent(t, k) \in [Calls -> CallRecord \cup {Idle}]
           /\ Rejected(t) \in [Calls -> CallRecord \cup {Idle}]
           /\ [c \in Calls |-> IF TabOf[c] = t THEN Idle ELSE call[c]]
                  \in [Calls -> CallRecord \cup {Idle}]
<1>1. ASSUME NEW c \in Calls, Waiting(c, t)
      PROVE  [call[c] EXCEPT !.at = "sent", !.pass = k] \in CallRecord
  BY <1>1, CallUnderWay, CallChanges DEF Stages, Waiting
<1> QED
  BY <1>1 DEF TypeOK, Resent, Rejected

\* Showing a token and losing an answer keep the type of the history.
LEMMA ShownTyped ==
    ASSUME TypeOK, NEW t \in Tabs,
           \/ Show([by |-> "refresh", tab |-> t])
           \/ Show([by |-> "logout", tab |-> t])
           \/ LoseAnswer(t)
    PROVE  shown' \in [Tokens -> {Nobody, Mishap} \cup Shower]
<1>1. [by |-> "refresh", tab |-> t] \in Shower /\ [by |-> "logout", tab |-> t] \in Shower
  BY DEF Shower
<1>2. \A k \in Tokens : shown[k] \in {Nobody, Mishap} \cup Shower
  BY DEF TypeOK
<1> QED
  BY <1>1, <1>2 DEF Show, LoseAnswer

\* A step of a call leaves everything typed.
LEMMA CallTypes ==
    ASSUME TypeOK, NEW c \in Calls, Issue(c) \/ CallStep(c) \/ LoseCall(c)
    PROVE  TypeOK'
<1>1. TabOf[c] \in Tabs
  OBVIOUS
<1>2. CASE Issue(c)
  BY <1>2 DEF TypeOK, Issue, Becomes, server, CallRecord, Stages, Idle
<1>3. CASE Serve(c)
  <2>1. NoToken \in 0..MaxToken /\ "refused" \in Stages
    BY DEF NoToken, Stages
  <2>2. [call[c] EXCEPT !.at = "refused", !.pass = NoToken] \in CallRecord
    BY <1>3, <2>1, CallUnderWay, CallChanges DEF Serve, Stages
  <2> QED
    BY <1>3, <2>2 DEF TypeOK, Serve, Becomes, server
<1>4. CASE Reject(c)
  BY <1>4 DEF TypeOK, Reject, Becomes, server, CallRecord, Stages, Idle
<1>5. CASE Park(c)
  BY <1>5 DEF TypeOK, Park, Becomes, server, CallRecord, Stages, Idle
<1>6. CASE Lead(c)
  <2>1. shown' \in [Tokens -> {Nobody, Mishap} \cup Shower]
    BY <1>1, <1>6, ShownTyped DEF Lead, StartRefresh
  <2>2. call' \in [Calls -> CallRecord \cup {Idle}]
    <3>1. [call[c] EXCEPT !.at = "leading", !.retry = TRUE] \in CallRecord
      <4>1. call[c] \in CallRecord /\ "leading" \in Stages /\ 0 \in 0..MaxToken
        BY <1>6, CallUnderWay DEF Lead, Stages
      <4> QED
        BY <4>1, CallChanges
    <3> QED
      BY <1>6, <3>1 DEF TypeOK, Lead, Becomes
  <2>3. refresh' \in [Tabs -> RefreshRecord \cup {NoRefresh}]
    BY <1>1, <1>6 DEF TypeOK, Lead, StartRefresh, RefreshRecord
  <2> QED
    BY <1>6, <2>1, <2>2, <2>3 DEF TypeOK, Lead, server
<1>7. CASE LoseCall(c)
  BY <1>7 DEF TypeOK, LoseCall, Becomes, server, CallRecord, Stages, Idle
<1> QED
  BY <1>2, <1>3, <1>4, <1>5, <1>6, <1>7 DEF CallStep

\* So does a step of a refresh.
LEMMA RefreshTypes ==
    ASSUME TypeOK, NEW t \in Tabs, ServeRefresh(t) \/ EndRefresh(t) \/ LoseRefresh(t)
    PROVE  TypeOK'
<1>1. CASE ServeRotate(t)
  <2>1. issued + 1 \in Tokens /\ issued + 1 \in 0..MaxToken
    BY <1>1 DEF TypeOK, ServeRotate, Tokens
  <2>2. refresh[t].token \in 0..MaxToken
    <3>1. refresh[t].token \in Tokens
      BY <1>1 DEF TypeOK, ServeRotate
    <3> QED
      BY <3>1 DEF Tokens
  <2>3. [at |-> "back", token |-> refresh[t].token, answer |-> "rotated", new |-> issued + 1]
            \in RefreshRecord
    BY <2>1, <2>2 DEF RefreshRecord
  <2> QED
    BY <1>1, <2>1, <2>3 DEF TypeOK, ServeRotate, Answered
<1>2. CASE ServeLate(t)
  <2>1. refresh[t].token \in 0..MaxToken
    <3>1. refresh[t].token \in Tokens
      BY <1>2 DEF TypeOK, ServeLate
    <3> QED
      BY <3>1 DEF Tokens
  <2>2. [at |-> "back", token |-> refresh[t].token, answer |-> "cleared"] \in RefreshRecord
    BY <2>1 DEF RefreshRecord
  <2> QED
    BY <1>2, <2>2 DEF TypeOK, ServeLate, Answered
<1>3. CASE ServeReuse(t)
  BY <1>3 DEF TypeOK, ServeReuse, Answered, RefreshRecord, Tokens, NoRefresh, NoToken
<1>4. CASE ServeNoCookie(t)
  BY <1>4 DEF TypeOK, ServeNoCookie, Answered, RefreshRecord, Tokens, NoRefresh, NoToken, server
<1>5. CASE processQueue(t)
  <2>1. refresh[t].new \in Tokens
    BY <1>5 DEF TypeOK, processQueue, RefreshRecord, NoRefresh
  <2>2. refresh[t].new \in 0..MaxToken
    BY <2>1 DEF Tokens
  <2> QED
    BY <1>5, <2>2, CallsTyped DEF TypeOK, processQueue, server
<1>6. ASSUME Abandon(t)
      PROVE  /\ call' \in [Calls -> CallRecord \cup {Idle}]
             /\ refresh' \in [Tabs -> RefreshRecord \cup {NoRefresh}]
             /\ where' \in [Tabs -> {"app", "login"}]
  <2>1. 0 \in 0..MaxToken
    OBVIOUS
  <2> QED
    BY <1>6, <2>1, CallsTyped DEF TypeOK, Abandon, Unload
<1>7. CASE RefreshRefused(t)
  BY <1>6, <1>7 DEF TypeOK, RefreshRefused, server, NoToken
<1>8. CASE LoseRefresh(t)
  BY <1>6, <1>8, ShownTyped DEF TypeOK, LoseRefresh, server
<1> QED
  BY <1>1, <1>2, <1>3, <1>4, <1>5, <1>7, <1>8 DEF ServeRefresh, EndRefresh

\* And the user's.
LEMMA UserTypes ==
    ASSUME TypeOK, NEW t \in Tabs, UserStep(t)
    PROVE  TypeOK'
<1>1. CASE Reload(t)
  <2>1. 0 \in 0..MaxToken
    OBVIOUS
  <2> QED
    BY <1>1, <2>1, CallsTyped, ShownTyped DEF TypeOK, Reload, Unload, server
<1>2. CASE useLogin(t)
  BY <1>2 DEF TypeOK, useLogin, Tokens
<1>3. CASE useLogout(t)
  <2>1. shown' \in [Tokens -> {Nobody, Mishap} \cup Shower]
    BY <1>3, ShownTyped DEF useLogout
  <2>2. NoToken \in 0..MaxToken
    BY DEF NoToken
  <2> QED
    BY <1>3, <2>1, <2>2 DEF TypeOK, useLogout
<1> QED
  BY <1>1, <1>2, <1>3 DEF UserStep

LEMMA TypeStep == TypeOK /\ [Next]_vars => TypeOK'
<1> SUFFICES ASSUME TypeOK, [Next]_vars PROVE TypeOK'
  OBVIOUS
<1>1. CASE AccessExpires
  BY <1>1 DEF TypeOK, AccessExpires
<1>2. CASE UNCHANGED vars
  BY <1>2 DEF TypeOK, vars
<1> QED
  BY <1>1, <1>2, CallTypes, RefreshTypes, UserTypes DEF Next

---------------------------------------------------------------------------
(* Single flight and the queue *)

\* A step that touches one call and no refresh.
LEMMA OneCallFlies ==
    ASSUME ClientInv, NEW c \in Calls, NEW r,
           call' = [call EXCEPT ![c] = r], r.at # "leading", call[c].at # "leading",
           r.at = "parked" => isRefreshing(TabOf[c]),
           UNCHANGED refresh
    PROVE  SingleFlight' /\ QueueHasRefresh'
<1>1. \A t \in Tabs : Leading(t)' = Leading(t) /\ (isRefreshing(t)' <=> isRefreshing(t))
  BY DEF ClientInv, TypeOK, Leading, CallsOf, isRefreshing
<1>2. SingleFlight'
  BY <1>1 DEF ClientInv, SingleFlight
<1>3. ASSUME NEW t \in Tabs, failedQueue(t)' # {} PROVE isRefreshing(t)'
  <2>1. PICK d \in Calls : TabOf[d] = t /\ call'[d].at = "parked"
    BY <1>3 DEF failedQueue, CallsOf
  <2>2. CASE d = c
    BY <2>1, <2>2 DEF ClientInv, TypeOK, isRefreshing
  <2>3. CASE d # c
    BY <2>1, <2>3 DEF ClientInv, QueueHasRefresh, TypeOK, isRefreshing, failedQueue, CallsOf
  <2> QED
    BY <2>2, <2>3
<1> QED
  BY <1>2, <1>3 DEF QueueHasRefresh

\* A step that ends the refresh of a tab together with all that waits for it.
LEMMA EndedFlies ==
    ASSUME ClientInv, NEW t \in Tabs,
           refresh' = [refresh EXCEPT ![t] = NoRefresh],
           \A c \in Calls : IF TabOf[c] = t THEN call'[c].at \notin {"parked", "leading"}
                                            ELSE call'[c] = call[c]
    PROVE  SingleFlight' /\ QueueHasRefresh'
<1>1. Leading(t)' = {} /\ failedQueue(t)' = {} /\ ~isRefreshing(t)'
  BY DEF ClientInv, TypeOK, Leading, failedQueue, CallsOf, isRefreshing
<1>2. \A u \in Tabs \ {t} : /\ Leading(u)' = Leading(u)
                            /\ failedQueue(u)' = failedQueue(u)
                            /\ isRefreshing(u)' <=> isRefreshing(u)
  BY DEF ClientInv, TypeOK, Leading, failedQueue, CallsOf, isRefreshing
<1> QED
  BY <1>1, <1>2 DEF ClientInv, SingleFlight, QueueHasRefresh

\* A step that changes no call, and lets who refreshes go on.
LEMMA SameFlies ==
    ASSUME ClientInv, UNCHANGED call,
           \A t \in Tabs : isRefreshing(t)' <=> isRefreshing(t)
    PROVE  SingleFlight' /\ QueueHasRefresh'
  BY DEF ClientInv, SingleFlight, QueueHasRefresh, Leading, failedQueue, CallsOf

LEMMA LeadFlies ==
    ASSUME ClientInv, NEW c \in Calls, Lead(c)
    PROVE  SingleFlight' /\ QueueHasRefresh'
<1> DEFINE t == TabOf[c]
<1>1. t \in Tabs
  OBVIOUS
<1>2. Leading(t) = {}
  BY <1>1 DEF ClientInv, SingleFlight, Lead
<1>3. call'[c].at = "leading" /\ \A d \in Calls \ {c} : call'[d] = call[d]
  BY DEF ClientInv, TypeOK, Lead, Becomes, CallRecord, Idle
<1>4. isRefreshing(t)' /\ \A u \in Tabs \ {t} : refresh'[u] = refresh[u]
  BY <1>1 DEF ClientInv, TypeOK, Lead, StartRefresh, isRefreshing, NoRefresh
<1>5. Leading(t)' = {c}
  BY <1>2, <1>3 DEF Leading, CallsOf
<1>6. \A u \in Tabs \ {t} : Leading(u)' = Leading(u) /\ failedQueue(u)' = failedQueue(u)
  BY <1>3 DEF Leading, failedQueue, CallsOf
<1>7. SingleFlight'
  BY <1>4, <1>5, <1>6 DEF ClientInv, SingleFlight, isRefreshing
<1>8. QueueHasRefresh'
  BY <1>4, <1>6 DEF ClientInv, QueueHasRefresh, isRefreshing
<1> QED
  BY <1>7, <1>8

LEMMA CallFlies ==
    ASSUME ClientInv, NEW c \in Calls, Issue(c) \/ CallStep(c) \/ LoseCall(c)
    PROVE  SingleFlight' /\ QueueHasRefresh'
<1>1. CASE Issue(c)
  <2>1. jar \in 0..MaxToken
    BY DEF ClientInv, TypeOK
  <2>2. [at |-> "sent", pass |-> jar, retry |-> FALSE].at = "sent" /\ call[c].at = "idle"
    BY <1>1 DEF Issue, Idle
  <2> QED
    BY <1>1, <2>2, OneCallFlies DEF Issue, Becomes
<1>2. CASE Serve(c)
  <2>1. call[c] \in CallRecord
    BY <1>2 DEF ClientInv, TypeOK, Serve, Idle
  <2> DEFINE r == IF call[c].pass > stale THEN Idle
                  ELSE [call[c] EXCEPT !.at = "refused", !.pass = NoToken]
  <2>2. r.at \in {"idle", "refused"}
    BY <2>1 DEF CallRecord, Idle
  <2>3. call' = [call EXCEPT ![c] = r] /\ call[c].at = "sent" /\ UNCHANGED refresh
    BY <1>2 DEF Serve, Becomes
  <2> HIDE DEF r
  <2> QED
    BY <2>2, <2>3, OneCallFlies
<1>3. CASE Reject(c)
  <2>1. Idle.at = "idle"
    BY DEF Idle
  <2> QED
    BY <1>3, <2>1, OneCallFlies DEF Reject, Becomes
<1>4. CASE Park(c)
  <2>1. [call[c] EXCEPT !.at = "parked"].at = "parked"
    BY <1>4 DEF ClientInv, TypeOK, Park, CallRecord, Idle
  <2> QED
    BY <1>4, <2>1, OneCallFlies DEF Park, Becomes
<1>5. CASE Lead(c)
  BY <1>5, LeadFlies
<1>6. CASE LoseCall(c)
  <2>1. Idle.at = "idle"
    BY DEF Idle
  <2> QED
    BY <1>6, <2>1, OneCallFlies DEF LoseCall, Becomes
<1> QED
  BY <1>1, <1>2, <1>3, <1>4, <1>5, <1>6 DEF CallStep

\* The page leaves or everybody is rejected: in either case nothing waits.
LEMMA AbandonFlies ==
    ASSUME ClientInv, NEW t \in Tabs, Abandon(t) \/ Unload(t)
    PROVE  SingleFlight' /\ QueueHasRefresh'
<1>1. refresh' = [refresh EXCEPT ![t] = NoRefresh]
  BY DEF Abandon, Unload
<1>2. \A c \in Calls : IF TabOf[c] = t THEN call'[c].at \notin {"parked", "leading"}
                                       ELSE call'[c] = call[c]
  BY DEF ClientInv, TypeOK, Abandon, Unload, Rejected, Waiting, Idle
<1> QED
  BY <1>1, <1>2, EndedFlies

LEMMA RefreshFlies ==
    ASSUME ClientInv, NEW t \in Tabs, ServeRefresh(t) \/ EndRefresh(t) \/ LoseRefresh(t)
    PROVE  SingleFlight' /\ QueueHasRefresh'
<1>1. CASE ServeRefresh(t)
  <2>1. UNCHANGED call
    BY <1>1 DEF ServeRefresh, ServeRotate, ServeLate, ServeReuse, ServeNoCookie
  <2>2. \A u \in Tabs : isRefreshing(u)' <=> isRefreshing(u)
    BY <1>1 DEF ClientInv, TypeOK, ServeRefresh, ServeRotate, ServeLate, ServeReuse,
                ServeNoCookie, Answered, isRefreshing, NoRefresh
  <2> QED
    BY <2>1, <2>2, SameFlies
<1>2. CASE processQueue(t)
  <2>1. \A c \in Calls : IF TabOf[c] = t THEN call'[c].at \notin {"parked", "leading"}
                                         ELSE call'[c] = call[c]
    <3> SUFFICES ASSUME NEW c \in Calls
                 PROVE  IF TabOf[c] = t THEN call'[c].at \notin {"parked", "leading"}
                                        ELSE call'[c] = call[c]
      OBVIOUS
    <3>1. CASE Waiting(c, t)
      <4>1. [call[c] EXCEPT !.at = "sent", !.pass = refresh[t].new].at = "sent"
        <5>1. call[c] \in CallRecord
          BY <3>1, CallUnderWay DEF ClientInv, Waiting, Stages
        <5>2. \A r \in CallRecord : \A k : [r EXCEPT !.at = "sent", !.pass = k].at = "sent"
          BY DEF CallRecord
        <5> QED
          BY <5>1, <5>2
      <4> QED
        BY <1>2, <3>1, <4>1 DEF processQueue, Resent, Waiting
    <3>2. CASE ~Waiting(c, t)
      BY <1>2, <3>2 DEF processQueue, Resent, Waiting
    <3> QED
      BY <3>1, <3>2
  <2> QED
    BY <1>2, <2>1, EndedFlies DEF processQueue
<1>3. CASE RefreshRefused(t) \/ LoseRefresh(t)
  BY <1>3, AbandonFlies DEF RefreshRefused, LoseRefresh
<1> QED
  BY <1>1, <1>2, <1>3 DEF EndRefresh

LEMMA ClientStep == ClientInv /\ [Next]_vars => ClientInv'
<1> SUFFICES ASSUME ClientInv, [Next]_vars PROVE SingleFlight' /\ QueueHasRefresh'
  BY TypeStep DEF ClientInv
<1>1. ASSUME NEW t \in Tabs, UserStep(t) PROVE SingleFlight' /\ QueueHasRefresh'
  <2>1. CASE Reload(t)
    BY <2>1, AbandonFlies DEF Reload
  <2>2. CASE useLogin(t) \/ useLogout(t)
    BY <2>2, SameFlies DEF useLogin, useLogout, isRefreshing
  <2> QED
    BY <1>1, <2>1, <2>2 DEF UserStep
<1>2. CASE AccessExpires \/ UNCHANGED vars
  BY <1>2, SameFlies DEF AccessExpires, vars, isRefreshing
<1> QED
  BY <1>1, <1>2, CallFlies, RefreshFlies DEF Next

LEMMA ClientInit == Init => ClientInv
  BY DEF Init, ClientInv, TypeOK, SingleFlight, QueueHasRefresh, isRefreshing, Leading,
         failedQueue, CallsOf, Idle, NoToken, Tokens

\* However calls of any number of tabs are refused, parked, lost and sent
\* again, the client keeps its types, one refresh with one leader per tab, and
\* no call waiting for a refresh that is not under way.
THEOREM ClientCorrect == Spec => []ClientInv
  BY ClientInit, ClientStep, PTL DEF Spec

\* The state of the client and of the server's sessions keeps its types.
THEOREM ClientTypes == Spec => []TypeOK
<1>1. ClientInv => TypeOK
  BY DEF ClientInv
<1> QED
  BY <1>1, ClientCorrect, PTL

\* A tab is refreshing exactly while one, and only one, of its calls leads.
THEOREM SingleFlightCorrect == Spec => []SingleFlight
<1>1. ClientInv => SingleFlight
  BY DEF ClientInv
<1> QED
  BY <1>1, ClientCorrect, PTL

\* No call is left in failedQueue when nobody will process it.
THEOREM QueueCorrect == Spec => []QueueHasRefresh
<1>1. ClientInv => QueueHasRefresh
  BY DEF ClientInv
<1> QED
  BY <1>1, ClientCorrect, PTL

---------------------------------------------------------------------------
(* Tokens.  Until reuse detection has been set off, a token the client     *)
(* holds is good, or a mishap has befallen it.                             *)

ByRefresh(t) == [by |-> "refresh", tab |-> t]
Holds(t) == refresh[t].at = "back" /\ refresh[t].answer = "rotated"

\* The refresh under way has shown its token.
RefreshShown ==
    \A t \in Tabs : isRefreshing(t) /\ refresh[t].token # NoToken
                       => shown[refresh[t].token] \in {ByRefresh(t), Mishap}

\* What is on its way to the server is good.
SentLive ==
    theft = NoToken => \A t \in Tabs :
        refresh[t].at = "sent" /\ refresh[t].token # NoToken
            => refresh[t].token \in live \/ shown[refresh[t].token] = Mishap

\* So is the cookie, unless its successor is on its way back.
JarLive ==
    theft = NoToken /\ jar # NoToken =>
        \/ jar \in live
        \/ shown[jar] = Mishap
        \/ \E t \in Tabs : refresh[t].at = "back" /\ refresh[t].token = jar

\* A successor on its way back is known to nobody else.
NewUnseen ==
    \A t \in Tabs : Holds(t) =>
        /\ refresh[t].new <= issued
        /\ refresh[t].new # jar
        /\ shown[refresh[t].new] = Nobody
        /\ theft = NoToken => refresh[t].new \in live
        /\ \A u \in Tabs \ {t} : Holds(u) => refresh[u].new # refresh[t].new

\* Nor is a token that was not given out.
UngivenUnseen ==
    /\ jar <= issued
    /\ \A k \in Tokens : k > issued => shown[k] = Nobody

\* Only a request without a token is refused before the cookies are touched.
UnauthorizedEmpty ==
    \A t \in Tabs : refresh[t].at = "back" /\ refresh[t].answer = "unauthorized"
                       => refresh[t].token = NoToken

TokensSound ==
    /\ RefreshShown
    /\ SentLive
    /\ JarLive
    /\ NewUnseen
    /\ UngivenUnseen
    /\ UnauthorizedEmpty
    /\ ReuseNeedsMishap

\* The fields of a refresh, and who has shown a token.
LEMMA RefreshFields ==
    ASSUME TypeOK, NEW t \in Tabs
    PROVE  /\ isRefreshing(t) <=> refresh[t].at \in {"sent", "back"}
           /\ isRefreshing(t) /\ refresh[t].token # NoToken => refresh[t].token \in Tokens
           /\ Holds(t) => refresh[t].new \in Tokens
           /\ refresh[t].at = "back" =>
                refresh[t].answer \in {"rotated", "cleared", "unauthorized"}
<1>1. refresh[t] \in RefreshRecord \cup {NoRefresh}
  BY DEF TypeOK
<1> QED
  BY <1>1 DEF RefreshRecord, NoRefresh, isRefreshing, Holds, NoToken, Tokens

LEMMA Showers ==
    /\ Nobody # Mishap
    /\ \A t \in Tabs : ByRefresh(t) # Nobody /\ ByRefresh(t) # Mishap
    /\ \A t, u \in Tabs : /\ ByRefresh(t) = ByRefresh(u) => t = u
                          /\ ByRefresh(t) # [by |-> "logout", tab |-> u]
  BY DEF Nobody, Mishap, ByRefresh

\* Whoever shows the cookie, a mishap stays one, a token of another tab
\* becomes one, and nothing else changes.
LEMMA Shows ==
    ASSUME TypeOK, NEW t \in Tabs, NEW who,
           who = ByRefresh(t) \/ who = [by |-> "logout", tab |-> t], Show(who)
    PROVE  /\ \A k \in Tokens : k # jar => shown'[k] = shown[k]
           /\ \A k \in Tokens : shown[k] = Mishap => shown'[k] = Mishap
           /\ \A k \in Tokens : k = jar => shown'[k] \in {who, Mishap}
           /\ \A u \in Tabs : \A k \in Tokens :
                k = jar /\ shown[k] = ByRefresh(u) /\ ByRefresh(u) # who => shown'[k] = Mishap
<1>1. \A k \in Tokens :
        shown'[k] = IF k # jar THEN shown[k]
                    ELSE IF shown[k] \in {Nobody, who} THEN who ELSE Mishap
  BY DEF Show
<1>2. who # Mishap
  BY Showers DEF Mishap
<1> QED
  BY <1>1, <1>2, Showers

LEMMA SameSound ==
    TokensSound /\ UNCHANGED <<refresh, jar, live, issued, theft, shown>> => TokensSound'
  BY DEF TokensSound, RefreshShown, SentLive, JarLive, NewUnseen, UngivenUnseen,
         UnauthorizedEmpty, ReuseNeedsMishap, Holds, isRefreshing

\* The cookie is given to another owner: a refresh that leads finds it good,
\* or finds that another tab has shown it already.
LEMMA LeadSound ==
    ASSUME ClientInv, TokensSound, NEW c \in Calls, Lead(c)
    PROVE  TokensSound'
<1> DEFINE t == TabOf[c]
<1>1. t \in Tabs /\ TypeOK
  BY DEF ClientInv
<1>2. /\ Show(ByRefresh(t))
      /\ ~isRefreshing(t)
      /\ UNCHANGED <<jar, live, issued, theft>>
  BY DEF Lead, StartRefresh, ByRefresh, server
<1>3. /\ refresh'[t] = [at |-> "sent", token |-> jar]
      /\ \A u \in Tabs \ {t} : refresh'[u] = refresh[u]
  BY <1>1 DEF TypeOK, Lead, StartRefresh
<1>4. /\ refresh'[t].at = "sent" /\ refresh'[t].token = jar
      /\ refresh'[t] # NoRefresh
  BY <1>3 DEF NoRefresh
<1>5. jar # NoToken => jar \in Tokens
  BY <1>1 DEF TypeOK, NoToken, Tokens
<1> HIDE DEF t
<1>6. /\ \A k \in Tokens : k # jar => shown'[k] = shown[k]
      /\ \A k \in Tokens : shown[k] = Mishap => shown'[k] = Mishap
      /\ \A k \in Tokens : k = jar => shown'[k] \in {ByRefresh(t), Mishap}
      /\ \A u \in Tabs : \A k \in Tokens :
            k = jar /\ shown[k] = ByRefresh(u) /\ u # t => shown'[k] = Mishap
  BY <1>1, <1>2, Shows, Showers
<1>7. \A u \in Tabs \ {t} : isRefreshing(u) /\ refresh[u].token # NoToken =>
          /\ refresh[u].token \in Tokens
          /\ shown[refresh[u].token] \in {ByRefresh(u), Mishap}
          /\ refresh[u].token = jar => shown'[jar] = Mishap
  <2>1. \A u \in Tabs \ {t} : isRefreshing(u) /\ refresh[u].token # NoToken =>
          /\ refresh[u].token \in Tokens
          /\ shown[refresh[u].token] \in {ByRefresh(u), Mishap}
    BY <1>1, RefreshFields DEF TokensSound, RefreshShown
  <2> QED
    BY <1>6, <2>1
<1>8. RefreshShown'
  BY <1>3, <1>4, <1>5, <1>6, <1>7, <1>2 DEF RefreshShown, isRefreshing
<1>9. JarLive'
  <2>1. SUFFICES ASSUME theft = NoToken, jar # NoToken,
                        jar \notin live, shown'[jar] # Mishap
                 PROVE  \E u \in Tabs : refresh'[u].at = "back" /\ refresh'[u].token = jar
    BY <1>2 DEF JarLive
  <2>2. PICK u \in Tabs : refresh[u].at = "back" /\ refresh[u].token = jar
    BY <1>5, <1>6, <2>1 DEF TokensSound, JarLive
  <2>3. isRefreshing(u)
    BY <1>1, <2>2, RefreshFields
  <2> QED
    BY <1>2, <1>3, <2>2, <2>3
<1>10. SentLive'
  <2> SUFFICES ASSUME theft = NoToken, NEW u \in Tabs,
                      refresh'[u].at = "sent", refresh'[u].token # NoToken
               PROVE  refresh'[u].token \in live \/ shown'[refresh'[u].token] = Mishap
    BY <1>2 DEF SentLive
  <2>1. CASE u # t
    <3>1. refresh'[u] = refresh[u] /\ isRefreshing(u)
      BY <1>1, <1>3, <2>1, RefreshFields
    <3> QED
      BY <1>6, <1>7, <2>1, <3>1 DEF TokensSound, SentLive
  <2>2. CASE u = t
    <3>1. \A v \in Tabs \ {t} : refresh[v].at = "back" /\ refresh[v].token = jar
                                  => shown'[jar] = Mishap
      BY <1>1, <1>4, <1>7, <2>2, RefreshFields
    <3>2. refresh[t].at # "back"
      BY <1>1, <1>2, RefreshFields
    <3> QED
      BY <1>4, <1>5, <1>6, <2>2, <3>1, <3>2 DEF TokensSound, JarLive
  <2> QED
    BY <2>1, <2>2
<1>11. NewUnseen'
  <2>1. \A u \in Tabs : Holds(u)' => u # t /\ Holds(u) /\ refresh'[u] = refresh[u]
    BY <1>3, <1>4 DEF Holds
  <2>2. \A u \in Tabs : Holds(u) => refresh[u].new \in Tokens
    BY <1>1, RefreshFields
  <2> QED
    BY <1>2, <1>6, <2>1, <2>2 DEF TokensSound, NewUnseen
<1>12. UngivenUnseen'
  <2>1. jar <= issued /\ \A k \in Tokens : k > issued => shown[k] = Nobody /\ k # jar
    BY <1>1 DEF TypeOK, TokensSound, UngivenUnseen, Tokens
  <2> QED
    BY <1>2, <1>6, <2>1 DEF UngivenUnseen
<1>13. UnauthorizedEmpty'
  BY <1>3, <1>4 DEF TokensSound, UnauthorizedEmpty
<1>14. ReuseNeedsMishap'
  <2>1. theft # NoToken => theft \in Tokens
    BY <1>1 DEF TypeOK, NoToken, Tokens
  <2> QED
    BY <1>2, <1>6, <2>1 DEF TokensSound, ReuseNeedsMishap
<1> QED
  BY <1>8, <1>9, <1>10, <1>11, <1>12, <1>13, <1>14 DEF TokensSound

\* The server answers with a new pair, which nobody has seen.  Another refresh
\* of the same token has shared it, and so has a mishap to its name.
LEMMA RotateSound ==
    ASSUME ClientInv, TokensSound, NEW t \in Tabs, ServeRotate(t)
    PROVE  TokensSound'
<1> DEFINE k == refresh[t].token
<1>1. /\ TypeOK /\ jar <= issued /\ issued + 1 \in Tokens /\ issued \in Nat
      /\ k \in live /\ k \in Tokens /\ k # NoToken /\ refresh[t].at = "sent"
      /\ shown[issued + 1] = Nobody
  <2>1. issued \in Nat /\ issued + 1 \in Tokens
    BY DEF ClientInv, TypeOK, ServeRotate, Tokens
  <2>2. k \in live /\ k \in Tokens
    BY DEF ClientInv, TypeOK, ServeRotate
  <2>3. k # NoToken
    BY <2>2 DEF Tokens, NoToken
  <2>4. jar <= issued /\ shown[issued + 1] = Nobody
    BY <2>1 DEF TokensSound, UngivenUnseen
  <2> QED
    BY <2>1, <2>2, <2>3, <2>4 DEF ClientInv, ServeRotate
<1>2. /\ refresh'[t] = [at |-> "back", token |-> k, answer |-> "rotated", new |-> issued + 1]
      /\ \A u \in Tabs \ {t} : refresh'[u] = refresh[u]
  BY <1>1 DEF TypeOK, ServeRotate, Answered
<1>3. /\ refresh'[t].at = "back" /\ refresh'[t].token = k
      /\ refresh'[t].answer = "rotated" /\ refresh'[t].new = issued + 1
  BY <1>2
<1>4. /\ issued' = issued + 1 /\ live' = (live \ {k}) \cup {issued + 1}
      /\ UNCHANGED <<jar, shown, theft>>
  BY DEF ServeRotate
<1> HIDE DEF k
<1>5. isRefreshing(t) /\ shown[k] \in {ByRefresh(t), Mishap}
  BY <1>1, RefreshFields DEF TokensSound, RefreshShown, k
<1>6. \A u \in Tabs \ {t} : isRefreshing(u) /\ refresh[u].token = k => shown[k] = Mishap
  BY <1>1, <1>5, Showers DEF TokensSound, RefreshShown
<1>7. \A u \in Tabs : Holds(u)' /\ u # t => Holds(u) /\ refresh'[u] = refresh[u]
  BY <1>2 DEF Holds
<1>8. \A u \in Tabs : Holds(u) => refresh[u].new \in Tokens /\ refresh[u].new # k
  BY <1>1, <1>5, Showers, RefreshFields DEF TokensSound, NewUnseen
<1>9. RefreshShown'
  BY <1>2, <1>3, <1>4, <1>5 DEF TokensSound, RefreshShown, isRefreshing
<1>10. SentLive'
  <2>1. \A u \in Tabs : refresh'[u].at = "sent" =>
            u # t /\ refresh'[u] = refresh[u] /\ isRefreshing(u)
    BY <1>1, <1>2, <1>3, RefreshFields
  <2> QED
    BY <1>4, <1>6, <2>1 DEF TokensSound, SentLive
<1>11. JarLive'
  BY <1>1, <1>2, <1>3, <1>4 DEF TokensSound, JarLive
<1>12. NewUnseen'
  BY <1>1, <1>3, <1>4, <1>7, <1>8 DEF TokensSound, NewUnseen, Tokens
<1>13. UngivenUnseen'
  BY <1>1, <1>4 DEF TokensSound, UngivenUnseen, TypeOK, Tokens
<1>14. UnauthorizedEmpty' /\ ReuseNeedsMishap'
  BY <1>2, <1>3, <1>4 DEF TokensSound, UnauthorizedEmpty, ReuseNeedsMishap
<1> QED
  BY <1>9, <1>10, <1>11, <1>12, <1>13, <1>14 DEF TokensSound

\* Any other answer takes a token out of use, or sets reuse detection off, or
\* is to a request that had none.
LEMMA RefusedSound ==
    ASSUME ClientInv, TokensSound, NEW t \in Tabs,
           ServeLate(t) \/ ServeReuse(t) \/ ServeNoCookie(t)
    PROVE  TokensSound'
<1> DEFINE k == refresh[t].token
<1>1. /\ TypeOK /\ refresh[t].at = "sent" /\ refresh[t].at # "back" /\ isRefreshing(t)
      /\ UNCHANGED <<jar, shown, issued>>
  BY RefreshFields DEF ClientInv, ServeLate, ServeReuse, ServeNoCookie, server
<1>2. /\ refresh'[t].at = "back" /\ refresh'[t].token = k
      /\ refresh'[t].answer \in {"cleared", "unauthorized"}
      /\ refresh'[t].answer = "unauthorized" => k = NoToken
      /\ refresh'[t] # NoRefresh
      /\ \A u \in Tabs \ {t} : refresh'[u] = refresh[u]
  BY <1>1 DEF TypeOK, ServeLate, ServeReuse, ServeNoCookie, Answered, NoRefresh
<1> HIDE DEF k
<1>3. k # NoToken => k \in Tokens /\ shown[k] \in {ByRefresh(t), Mishap}
  BY <1>1, RefreshFields DEF TokensSound, RefreshShown, k
<1>4. \A u \in Tabs \ {t} : isRefreshing(u) /\ refresh[u].token = k /\ k # NoToken
                               => shown[k] = Mishap
  BY <1>3, Showers DEF TokensSound, RefreshShown
<1>5. \/ live' = live \ {k} /\ k # NoToken /\ theft' = theft
      \/ theft' # NoToken /\ theft' = theft
      \/ theft' # NoToken /\ theft = NoToken /\ theft' = k /\ k \notin live
      \/ live' = live /\ theft' = theft /\ k = NoToken
  BY DEF ServeLate, ServeReuse, ServeNoCookie, server, k, TypeOK, ClientInv, Tokens, NoToken
<1>6. \A u \in Tabs : Holds(u)' => u # t /\ Holds(u) /\ refresh'[u] = refresh[u]
  BY <1>2 DEF Holds
<1>7. \A u \in Tabs : Holds(u) => refresh[u].new \in Tokens /\ refresh[u].new # k
  BY <1>1, <1>3, Showers, RefreshFields DEF TokensSound, NewUnseen, NoToken, Tokens
<1>8. RefreshShown'
  BY <1>1, <1>2, <1>3 DEF TokensSound, RefreshShown, isRefreshing
<1>9. SentLive'
  <2>1. \A u \in Tabs : refresh'[u].at = "sent" =>
            u # t /\ refresh'[u] = refresh[u] /\ isRefreshing(u)
    BY <1>1, <1>2, RefreshFields
  <2> QED
    BY <1>1, <1>4, <1>5, <2>1 DEF TokensSound, SentLive
<1>10. JarLive'
  BY <1>1, <1>2, <1>5 DEF TokensSound, JarLive
<1>11. NewUnseen'
  BY <1>1, <1>5, <1>6, <1>7 DEF TokensSound, NewUnseen
<1>12. UngivenUnseen' /\ UnauthorizedEmpty'
  BY <1>1, <1>2 DEF TokensSound, UngivenUnseen, UnauthorizedEmpty
<1>13. ReuseNeedsMishap'
  BY <1>1, <1>5 DEF TokensSound, ReuseNeedsMishap, SentLive, k
<1> QED
  BY <1>8, <1>9, <1>10, <1>11, <1>12, <1>13 DEF TokensSound

\* The new pair becomes the cookie.
LEMMA QueueSound ==
    ASSUME ClientInv, TokensSound, NEW t \in Tabs, processQueue(t)
    PROVE  TokensSound'
<1> DEFINE n == refresh[t].new
<1>1. /\ TypeOK /\ Holds(t) /\ jar' = n
      /\ UNCHANGED <<live, issued, theft, shown>>
  BY DEF ClientInv, processQueue, Holds, server
<1>2. /\ refresh'[t] = NoRefresh
      /\ \A u \in Tabs \ {t} : refresh'[u] = refresh[u]
  BY <1>1 DEF TypeOK, processQueue
<1>3. NoRefresh.at = "none"
  BY DEF NoRefresh
<1> HIDE DEF n
<1>4. /\ n <= issued
      /\ theft = NoToken => n \in live
      /\ \A u \in Tabs \ {t} : Holds(u) => refresh[u].new # n
  BY <1>1 DEF TokensSound, NewUnseen, n
<1>5. \A u \in Tabs : Holds(u)' => u # t /\ Holds(u) /\ refresh'[u] = refresh[u]
  BY <1>2, <1>3 DEF Holds
<1>6. RefreshShown' /\ SentLive' /\ UnauthorizedEmpty'
  BY <1>1, <1>2, <1>3 DEF TokensSound, RefreshShown, SentLive, UnauthorizedEmpty, isRefreshing
<1>7. JarLive' /\ NewUnseen'
  BY <1>1, <1>4, <1>5 DEF TokensSound, JarLive, NewUnseen
<1>8. UngivenUnseen' /\ ReuseNeedsMishap'
  BY <1>1, <1>4 DEF TokensSound, UngivenUnseen, ReuseNeedsMishap
<1> QED
  BY <1>6, <1>7, <1>8 DEF TokensSound

\* A refresh that ends without a new pair has lost its cookie, or had none; or
\* its answer is lost, which is a mishap.
LEMMA EndedSound ==
    ASSUME ClientInv, TokensSound, NEW t \in Tabs,
           RefreshRefused(t) \/ LoseRefresh(t) \/ Reload(t)
    PROVE  TokensSound'
<1>1. TypeOK /\ UNCHANGED <<live, issued, theft>>
  BY DEF ClientInv, RefreshRefused, LoseRefresh, Reload, server
<1>2. /\ refresh'[t] = NoRefresh
      /\ \A u \in Tabs \ {t} : refresh'[u] = refresh[u]
  BY <1>1 DEF TypeOK, RefreshRefused, LoseRefresh, Reload, Abandon, Unload
<1>3. NoRefresh.at = "none"
  BY DEF NoRefresh
<1>4. /\ jar' \in {jar, NoToken}
      /\ \A k \in Tokens : \/ shown'[k] = shown[k]
                           \/ shown'[k] = Mishap /\ isRefreshing(t) /\ refresh[t].token = k
      /\ jar' = jar /\ jar # NoToken /\ isRefreshing(t) /\ refresh[t].token = jar
            => shown'[jar] = Mishap
  <2>1. CASE RefreshRefused(t)
    <3>1. refresh[t].at = "back" /\ refresh[t].answer \in {"cleared", "unauthorized"}
      BY <1>1, <2>1, RefreshFields DEF RefreshRefused
    <3> QED
      BY <2>1, <3>1 DEF RefreshRefused, TokensSound, UnauthorizedEmpty
  <2>2. CASE LoseRefresh(t) \/ Reload(t)
    <3>1. jar' = jar /\ LoseAnswer(t) /\ (jar # NoToken => jar \in Tokens)
      BY <1>1, <2>2 DEF LoseRefresh, Reload, TypeOK, NoToken, Tokens
    <3> QED
      BY <3>1 DEF LoseAnswer
  <2> QED
    BY <2>1, <2>2
<1>5. /\ \A k \in Tokens : shown[k] = Mishap => shown'[k] = Mishap
      /\ \A k \in Tokens : shown[k] = Nobody => shown'[k] = Nobody
  BY <1>1, <1>4, Showers, RefreshFields DEF TokensSound, RefreshShown, Tokens, NoToken
<1>6. \A u \in Tabs : Holds(u)' => /\ u # t /\ Holds(u) /\ refresh'[u] = refresh[u]
                                   /\ refresh[u].new \in Tokens
  BY <1>1, <1>2, <1>3, RefreshFields DEF Holds
<1>7. RefreshShown' /\ SentLive'
  <2>1. \A u \in Tabs : refresh'[u].at = "sent" \/ isRefreshing(u)' =>
            /\ refresh'[u] = refresh[u] /\ isRefreshing(u)
            /\ refresh[u].token # NoToken => refresh[u].token \in Tokens
    BY <1>1, <1>2, <1>3, RefreshFields DEF isRefreshing
  <2> QED
    BY <1>1, <1>4, <1>5, <2>1 DEF TokensSound, RefreshShown, SentLive
<1>8. JarLive'
  <2>1. jar # NoToken => jar \in Tokens
    BY <1>1 DEF TypeOK, NoToken, Tokens
  <2>2. refresh[t].at = "back" => isRefreshing(t)
    BY <1>1, RefreshFields
  <2> QED
    BY <1>1, <1>2, <1>4, <1>5, <2>1, <2>2 DEF TokensSound, JarLive
<1>9. NewUnseen'
  BY <1>1, <1>4, <1>5, <1>6 DEF TokensSound, NewUnseen, NoToken, Tokens
<1>10. UngivenUnseen'
  BY <1>1, <1>4, <1>5 DEF TokensSound, UngivenUnseen, TypeOK, NoToken
<1>11. UnauthorizedEmpty'
  BY <1>2, <1>3 DEF TokensSound, UnauthorizedEmpty
<1>12. ReuseNeedsMishap'
  BY <1>1, <1>5 DEF TokensSound, ReuseNeedsMishap, TypeOK, Tokens, NoToken
<1> QED
  BY <1>7, <1>8, <1>9, <1>10, <1>11, <1>12 DEF TokensSound

\* A login brings a pair nobody has seen.
LEMMA LoginSound ==
    ASSUME ClientInv, TokensSound, NEW t \in Tabs, useLogin(t)
    PROVE  TokensSound'
<1>1. /\ TypeOK /\ issued \in Nat /\ issued + 1 \in Tokens
      /\ issued' = issued + 1 /\ jar' = issued + 1 /\ live' = live \cup {issued + 1}
      /\ UNCHANGED <<refresh, shown, theft>>
  BY DEF ClientInv, TypeOK, useLogin, Tokens
<1>2. \A u \in Tabs : Holds(u) => refresh[u].new \in Tokens
  BY <1>1, RefreshFields
<1>3. RefreshShown' /\ SentLive' /\ UnauthorizedEmpty' /\ ReuseNeedsMishap'
  BY <1>1 DEF TokensSound, RefreshShown, SentLive, UnauthorizedEmpty, ReuseNeedsMishap,
              isRefreshing
<1>4. JarLive'
  BY <1>1 DEF JarLive
<1>5. NewUnseen'
  BY <1>1, <1>2 DEF TokensSound, NewUnseen, Holds, Tokens
<1>6. UngivenUnseen'
  BY <1>1 DEF TokensSound, UngivenUnseen, Tokens
<1> QED
  BY <1>3, <1>4, <1>5, <1>6 DEF TokensSound

\* A logout shows the cookie and puts it out of use: whoever is refreshing
\* with it has shared it.
LEMMA LogoutSound ==
    ASSUME ClientInv, TokensSound, NEW t \in Tabs, useLogout(t)
    PROVE  TokensSound'
<1>1. /\ TypeOK /\ Show([by |-> "logout", tab |-> t])
      /\ jar' = NoToken /\ live' = live \ {jar}
      /\ UNCHANGED <<refresh, issued, theft>>
  BY DEF ClientInv, useLogout
<1>2. /\ \A k \in Tokens : k # jar => shown'[k] = shown[k]
      /\ \A k \in Tokens : shown[k] = Mishap => shown'[k] = Mishap
      /\ \A u \in Tabs : \A k \in Tokens :
            k = jar /\ shown[k] = ByRefresh(u) => shown'[k] = Mishap
  BY <1>1, Shows, Showers
<1>3. \A u \in Tabs : isRefreshing(u) /\ refresh[u].token # NoToken =>
          /\ refresh[u].token \in Tokens
          /\ refresh[u].token = jar => shown'[jar] = Mishap
  BY <1>1, <1>2, RefreshFields DEF TokensSound, RefreshShown
<1>4. RefreshShown'
  BY <1>1, <1>2, <1>3 DEF TokensSound, RefreshShown, isRefreshing
<1>5. SentLive'
  BY <1>1, <1>2, <1>3, RefreshFields DEF TokensSound, SentLive
<1>6. JarLive'
  BY <1>1 DEF JarLive
<1>7. NewUnseen'
  <2>1. \A u \in Tabs : Holds(u) => refresh[u].new \in Tokens
    BY <1>1, RefreshFields
  <2> QED
    BY <1>1, <1>2, <2>1 DEF TokensSound, NewUnseen, Holds, NoToken, Tokens
<1>8. UngivenUnseen'
  <2>1. jar <= issued /\ jar \in Nat /\ issued \in Nat
    BY <1>1 DEF TypeOK, TokensSound, UngivenUnseen
  <2>2. \A k \in Tokens : k > issued => k # jar
    BY <2>1 DEF Tokens
  <2> QED
    BY <1>1, <1>2, <2>1, <2>2 DEF TokensSound, UngivenUnseen, NoToken
<1>9. UnauthorizedEmpty'
  BY <1>1 DEF TokensSound, UnauthorizedEmpty
<1>10. ReuseNeedsMishap'
  BY <1>1, <1>2 DEF TokensSound, ReuseNeedsMishap, TypeOK, Tokens, NoToken
<1> QED
  BY <1>4, <1>5, <1>6, <1>7, <1>8, <1>9, <1>10 DEF TokensSound

LEMMA TokensStep == ClientInv /\ TokensSound /\ [Next]_vars => TokensSound'
<1> SUFFICES ASSUME ClientInv, TokensSound, [Next]_vars PROVE TokensSound'
  OBVIOUS
<1>1. ASSUME NEW c \in Calls, Issue(c) \/ CallStep(c) \/ LoseCall(c) PROVE TokensSound'
  <2>1. CASE Lead(c)
    BY <2>1, LeadSound
  <2>2. CASE Issue(c) \/ Serve(c) \/ Reject(c) \/ Park(c) \/ LoseCall(c)
    BY <2>2, SameSound DEF Issue, Serve, Reject, Park, LoseCall, server
  <2> QED
    BY <1>1, <2>1, <2>2 DEF CallStep
<1>2. ASSUME NEW t \in Tabs,
             ServeRefresh(t) \/ EndRefresh(t) \/ UserStep(t) \/ LoseRefresh(t)
      PROVE  TokensSound'
  BY <1>2, RotateSound, RefusedSound, QueueSound, EndedSound, LoginSound, LogoutSound
     DEF ServeRefresh, EndRefresh, UserStep
<1>3. CASE AccessExpires \/ UNCHANGED vars
  BY <1>3, SameSound DEF AccessExpires, vars
<1> QED
  BY <1>1, <1>2, <1>3 DEF Next

LEMMA TokensInit == Init => TokensSound
  BY DEF Init, TokensSound, RefreshShown, SentLive, JarLive, NewUnseen, UngivenUnseen,
         UnauthorizedEmpty, ReuseNeedsMishap, Holds, isRefreshing, NoRefresh, NoToken, Tokens

\* One tab on a line that loses nothing never sets reuse detection off: what
\* sets it off has been shown by two, or its answer was lost.
THEOREM ReuseCorrect == Spec => []ReuseNeedsMishap
<1>1. TokensSound => ReuseNeedsMishap
  BY DEF TokensSound
<1> QED
  BY <1>1, ClientCorrect, TokensInit, TokensStep, PTL DEF Spec

=============================================================================
