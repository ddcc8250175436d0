------------------------------ MODULE PageDesk ------------------------------
(***************************************************************************)
(* One page of the frontend (module Pages) before a user: its queries in   *)
(* the cache of react-query, its buttons, dialogs and locks, the requests  *)
(* they send, and the rows of the server, which others change meanwhile.   *)
(*                                                                         *)
(* The page works on one row of each of its tables.  react-query is the    *)
(* library as app/providers.tsx configures it, with its defaults: what is  *)
(* mounted asks again, as does a window that gets the focus; a failed      *)
(* refetch leaves the data; an invalidation cancels and repeats the fetch  *)
(* of a mounted query that has data, and joins that of one that has none.  *)
(***************************************************************************)
EXTENDS Pages, FiniteSets

CONSTANTS
    Visits   \* who looks at which page, which of its keys get another filter,
             \* what others do meanwhile, and a bound: the requests of the page
             \* that may be under way and that the server carries out

ASSUME VisitsAssumption ==
    \A v \in Visits :
        /\ v.page \in RoutePages \cup {Bell}
        /\ v.viewer \in v.page.admits
        /\ v.filtered \subseteq {q.key : q \in {r \in v.page.reads : r.keyed}}
        /\ v.others \subseteq DOMAIN Moves
        /\ v.writes \in Nat
        /\ \A q \in v.page.reads : q.of \in Tables
        /\ \A o \in v.page.offers : o.of \in Tables /\ o.by.does \in DOMAIN Moves

VARIABLES
    visit,         \* one of Visits
    on,            \* the page is mounted
    chosen,        \* of each query, which of two filters is chosen
    row,           \* server: the status of the row of each table
    own,           \* history: how many requests of this browser changed the table
    cache, fetch,  \* of each entry of the cache: its data, and the fetch under way
    excused,       \* history: entries whose fetch failed, or was not repeated when due
    acked,         \* history: the last of the own changes that was answered
    dialog,        \* the offer whose dialog is open
    request        \* requests under way

page == visit.page
viewer == visit.viewer
Slots == 1..visit.writes

vars == <<visit, on, chosen, row, own, cache, fetch, excused, acked, dialog, request>>
server == <<row, own>>
client == <<cache, fetch, excused>>

---------------------------------------------------------------------------
Filters == {"this", "that"}

\* The queries that buttons depend on, or that are polled: the others of a
\* page fill a list of choices, and nothing else hangs on them.
WatchedBy(p) ==
    {q \in p.reads : q.polled \/ \E o \in p.offers : q.of \in {o.of, Moves[o.by.does].of}}

EntriesOf(v) ==
    UNION {{q.key} \X (IF q.key \in v.filtered THEN Filters ELSE {"this"}) :
               q \in WatchedBy(v.page)}
QueryOf(e) == CHOOSE q \in WatchedBy(page) : q.key = e[1]

Keys == {q.key : q \in WatchedBy(page)}
Entries == EntriesOf(visit)
TablesUsed ==
    {q.of : q \in WatchedBy(page)} \cup {o.of : o \in page.offers}
        \cup {Moves[o.by.does].of : o \in page.offers}

Visible(e) == on /\ chosen[e[1]] = e[2] /\ viewer \in QueryOf(e).asked

\* What an answer shows: the row, and how many own changes are in it.
NoData == [status |-> "none", own |-> 0]
Snapshot(t) == [status |-> row[t], own |-> own[t]]

Idle == [at |-> "idle"]
Sent == [at |-> "sent"]
UnderWay(e) == fetch[e].at \in {"sent", "back"}

NoDialog == [by |-> "nothing"]
NoRequest == [at |-> "none"]
Touches(o) == Moves[o.by.does].of

TypeOK ==
    /\ visit \in Visits
    /\ on \in BOOLEAN
    /\ chosen \in [Keys -> Filters]
    /\ \A t \in TablesUsed : row[t] \in Statuses[t] /\ own[t] \in 0..visit.writes
    /\ \A e \in Entries :
        /\ cache[e] = NoData \/ cache[e].status \in Statuses[QueryOf(e).of]
        /\ fetch[e].at \in {"idle", "sent", "back"}
    /\ excused \subseteq Entries
    /\ \A t \in TablesUsed : acked[t] <= own[t]
    /\ dialog \in page.offers \cup {NoDialog}
    /\ dialog # NoDialog => on
    /\ \A s \in Slots : request[s].at \in {"none", "sent", "done", "refused"}

Init ==
    /\ visit \in Visits
    /\ on = FALSE
    /\ chosen = [k \in Keys |-> "this"]
    /\ row \in {r \in [TablesUsed -> UNION {Statuses[t] : t \in TablesUsed}] :
                    \A t \in TablesUsed : r[t] \in Statuses[t]}
    /\ own = [t \in TablesUsed |-> 0]
    /\ cache = [e \in Entries |-> NoData]
    /\ fetch = [e \in Entries |-> Idle]
    /\ excused = {}
    /\ acked = [t \in TablesUsed |-> 0]
    /\ dialog = NoDialog
    /\ request = [s \in Slots |-> NoRequest]

---------------------------------------------------------------------------
(* Queries *)

\* A set of entries is mounted: each is asked, or joins the fetch under way.
Mount(E) ==
    /\ fetch' = [e \in Entries |-> IF e \in E /\ ~UnderWay(e) THEN Sent ELSE fetch[e]]
    /\ excused' = (excused \ E) \cup {e \in E : UnderWay(e)}
    /\ UNCHANGED cache

\* Mounted entries are invalidated: each is asked again, unless its first
\* fetch is under way.
Invalidate(E) ==
    LET first == {e \in E : UnderWay(e) /\ cache[e] = NoData}
    IN /\ fetch' = [e \in Entries |-> IF e \in E \ first THEN Sent ELSE fetch[e]]
       /\ excused' = (excused \ E) \cup first
       /\ UNCHANGED cache

Enter ==
    /\ ~on
    /\ on' = TRUE
    /\ Mount({e \in Entries : chosen[e[1]] = e[2] /\ viewer \in QueryOf(e).asked})
    /\ UNCHANGED <<visit, chosen, server, acked, dialog, request>>

\* Slip: the dialog outlives the page.
LeaveOpen ==
    /\ on
    /\ on' = FALSE
    /\ request' = [s \in Slots |-> IF request[s] = NoRequest THEN NoRequest
                                   ELSE [request[s] EXCEPT !.seen = FALSE]]
    /\ UNCHANGED <<visit, chosen, server, client, acked, dialog>>

\* What was sent is not called back, but the buttons of the next visit do
\* not know of it.
Leave ==
    /\ on
    /\ on' = FALSE
    /\ dialog' = NoDialog
    /\ request' = [s \in Slots |-> IF request[s] = NoRequest THEN NoRequest
                                   ELSE [request[s] EXCEPT !.seen = FALSE]]
    /\ UNCHANGED <<visit, chosen, server, client, acked>>

\* Another filter or search text is another entry.
Choose(k) ==
    /\ on
    /\ k \in visit.filtered
    /\ \E q \in WatchedBy(page) : q.key = k /\ viewer \in q.asked
    /\ \E f \in Filters \ {chosen[k]} :
        /\ chosen' = [chosen EXCEPT ![k] = f]
        /\ Mount({<<k, f>>})
    /\ UNCHANGED <<visit, on, server, acked, dialog, request>>

\* The window gets the focus, or the interval of a polled query has passed.
Refetch(e) ==
    /\ Visible(e)
    /\ ~UnderWay(e)
    /\ fetch' = [fetch EXCEPT ![e] = Sent]
    /\ excused' = excused \ {e}
    /\ UNCHANGED <<visit, on, chosen, server, cache, acked, dialog, request>>

Poll(e) == QueryOf(e).polled /\ Refetch(e)

ServeFetch(e) ==
    LET q == QueryOf(e)
    IN /\ fetch[e] = Sent
       /\ Serves(q.call, viewer)
       /\ fetch' = [fetch EXCEPT ![e] = [at |-> "back", got |-> Snapshot(q.of)]]
       /\ UNCHANGED <<visit, on, chosen, server, cache, excused, acked, dialog, request>>

\* Refused, or not answered, with all its retries: the data stays.
FailFetch(e) ==
    /\ fetch[e] = Sent
    /\ fetch' = [fetch EXCEPT ![e] = Idle]
    /\ excused' = excused \cup {e}
    /\ UNCHANGED <<visit, on, chosen, server, cache, acked, dialog, request>>

Complete(e) ==
    /\ fetch[e].at = "back"
    /\ cache' = [cache EXCEPT ![e] = fetch[e].got]
    /\ fetch' = [fetch EXCEPT ![e] = Idle]
    /\ UNCHANGED <<visit, on, chosen, server, excused, acked, dialog, request>>

---------------------------------------------------------------------------
(* Buttons, dialogs and requests *)

\* The row the page shows has the button.
Shows(o) ==
    /\ viewer \in o.to
    /\ \E e \in Entries : QueryOf(e).of = o.of /\ Visible(e) /\ cache[e].status \in o.at
Pending(o) == \E s \in Slots : /\ request[s].at # "none"
                               /\ request[s].seen
                               /\ request[s].by = o.by
Unlocked(o) == o.locked => ~Pending(o)

Send(o) ==
    /\ own[Touches(o)] + Cardinality({s \in Slots : request[s].at = "sent"}) < visit.writes
    /\ \E s \in Slots :
        /\ request[s] = NoRequest
        /\ request' = [request EXCEPT ![s] =
               [at |-> "sent", by |-> o.by, offer |-> o, seen |-> TRUE, mark |-> 0]]

Click(o) ==
    /\ Shows(o)
    /\ o.dialog = "none"
    /\ Unlocked(o)
    /\ Send(o)
    /\ UNCHANGED <<visit, on, chosen, server, client, acked, dialog>>

\* A dialog takes the row it was opened with, whatever the list shows later.
OpenDialog(o) ==
    /\ Shows(o)
    /\ o.dialog # "none"
    /\ dialog = NoDialog
    /\ o.dialog = "fires" => Unlocked(o)
    /\ dialog' = o
    /\ UNCHANGED <<visit, on, chosen, server, client, acked, request>>

CloseDialog ==
    /\ dialog # NoDialog
    /\ dialog' = NoDialog
    /\ UNCHANGED <<visit, on, chosen, server, client, acked, request>>

Confirm ==
    /\ dialog # NoDialog
    /\ Unlocked(dialog)
    /\ Send(dialog)
    /\ dialog' = IF dialog.dialog = "fires" THEN NoDialog ELSE dialog
    /\ UNCHANGED <<visit, on, chosen, server, client, acked>>

\* The server carries a request out.
Apply(s) ==
    /\ request[s].at = "sent"
    /\ LET o == request[s].offer
           t == Touches(o)
       IN /\ Serves(o.by.call, viewer)
          /\ Accepts(o.by.does, row[t])
          /\ \E to \in Moves[o.by.does].step[row[t]] : row' = [row EXCEPT ![t] = to]
          /\ own' = [own EXCEPT ![t] = @ + 1]
          /\ request' = [request EXCEPT ![s].at = "done", ![s].mark = own[t] + 1]
    /\ UNCHANGED <<visit, on, chosen, client, acked, dialog>>

\* It refuses it, for the status of the row, the caller, the input, or a
\* failure of its own.
Refuse(s) ==
    /\ request[s].at = "sent"
    /\ request' = [request EXCEPT ![s].at = "refused"]
    /\ UNCHANGED <<visit, on, chosen, server, client, acked, dialog>>

\* onSuccess: the dialog of the mutation closes, whatever it was opened for,
\* and the keys are invalidated.  It runs even if the page was left.
Succeed(s) ==
    /\ request[s].at = "done"
    /\ LET o == request[s].offer
           t == Touches(o)
       IN /\ acked' = [acked EXCEPT ![t] = IF @ < request[s].mark THEN request[s].mark ELSE @]
          /\ Invalidate({e \in Entries : Visible(e) /\ e[1] \in o.by.drops})
          /\ dialog' = IF o.dialog = "holds" /\ dialog # NoDialog /\ dialog.by = o.by
                       THEN NoDialog ELSE dialog
    /\ request' = [request EXCEPT ![s] = NoRequest]
    /\ UNCHANGED <<visit, on, chosen, server>>

\* A refusal, or an answer that is lost, is a toast and no more.
Fail(s) ==
    /\ request[s].at \in {"done", "refused"}
    /\ request' = [request EXCEPT ![s] = NoRequest]
    /\ UNCHANGED <<visit, on, chosen, server, client, acked, dialog>>

\* Anyone else's request, or a job of the server.
OthersMove(does) ==
    LET t == Moves[does].of
    IN /\ t \in TablesUsed
       /\ Accepts(does, row[t])
       /\ \E to \in Moves[does].step[row[t]] \ {row[t]} : row' = [row EXCEPT ![t] = to]
       /\ UNCHANGED <<visit, on, chosen, own, client, acked, dialog, request>>

---------------------------------------------------------------------------
Next ==
    \/ Enter
    \/ Leave
    \/ \E k \in Keys : Choose(k)
    \/ \E e \in Entries : \/ Refetch(e)
                          \/ ServeFetch(e)
                          \/ FailFetch(e)
                          \/ Complete(e)
    \/ \E o \in page.offers : Click(o) \/ OpenDialog(o)
    \/ CloseDialog
    \/ Confirm
    \/ \E s \in Slots : Apply(s) \/ Refuse(s) \/ Succeed(s) \/ Fail(s)
    \/ \E does \in visit.others : OthersMove(does)

\* The entries of the two lists that are to stay up to date; a page has at most
\* one of them.
LiveKeys == {"events", "notifications"}
LiveHere == {<<k, "this">> : k \in Keys \cap LiveKeys}

\* The interval timers run, and the network and the server are not down for
\* good.  A user need not do anything.
Fairness ==
    /\ WF_vars(\E e \in LiveHere : Poll(e))
    /\ WF_vars(\E e \in LiveHere : Complete(e))
    /\ SF_vars(\E e \in LiveHere : ServeFetch(e))

Safety == Init /\ [][Next]_vars
Spec == Safety /\ Fairness

---------------------------------------------------------------------------
(* Properties *)

\* When the user has nothing pending and nothing is loading, no list on the
\* screen is older than the last change of his own that was answered: every
\* mutation invalidates every key of the table it writes that its page has
\* mounted, also when the answer finds the page left and entered again.  Not
\* promised: what a fetch that was joined shows, or one that failed.
OwnWriteShown ==
    \A e \in Entries :
        /\ Visible(e)
        /\ fetch[e] = Idle
        /\ e \notin excused
        => cache[e].own >= acked[QueryOf(e).of]

\* What a page offers on an up-to-date row the server takes, for some viewer
\* the page admits.  Two offers are known to be refused: the reject of a
\* booking in processing, and the deletion of a room that is not available.
KnownRefused == {"reject", "deleteRoom"}
OfferedAccepted ==
    \A o \in page.offers :
        Shows(o) /\ row[o.of] \in o.at /\ o.by.does \notin KnownRefused
            => Accepts(o.by.does, row[Touches(o)])

\* However old the page a decision was taken on, the server carries it out
\* only on a row it would still be offered for, or changes nothing.  Not so
\* assign, which AssignTech does whatever has become of the kost.
DecisionMeant ==
    [][\A s \in Slots :
        request[s].at = "sent" /\ request'[s].at = "done"
            => \/ row' = row
               \/ row[request[s].offer.of] \in request[s].offer.at
               \/ request[s].by.does = "assign"]_vars

\* The list of surveys and the bell catch up with the server while someone
\* watches them, though fetches may fail: they show its row again and again,
\* unless that changes under his eyes again and again.
UpToDate(e) == Visible(e) => cache[e].status = row[QueryOf(e).of]
ChangesInView(e) == Visible(e) /\ row'[QueryOf(e).of] # row[QueryOf(e).of]
PolledConverges ==
    \/ []<>(\A e \in LiveHere : UpToDate(e))
    \/ []<><<\E e \in LiveHere : ChangesInView(e)>>_vars

=============================================================================
