------------------------------ MODULE ChatDesk ------------------------------
(***************************************************************************)
(* The chat: the conversations of one user, each with another person, as   *)
(* the server keeps them, and the chat page of that user, which asks for   *)
(* them again and again.                                                   *)
(*                                                                         *)
(* A thread is asked for as any query of react-query is (module PageDesk); *)
(* here its request is carried out in two steps, as the server does it:    *)
(* what the other wrote is marked read, then the last messages are listed. *)
(* A request that an invalidation cancelled is carried out all the same.   *)
(*                                                                         *)
(* Left out: the bodies, the names, the count of unread messages in the    *)
(* header and in the list of conversations, and the other's page: he may   *)
(* start a conversation and write at any time.                             *)
(***************************************************************************)
EXTENDS Naturals, Sequences, FiniteSets

CONSTANTS
    Convs,      \* the people the user may have a conversation with
    Limit,      \* messages that are listed, 100 in the code
    MaxMessages,\* bound: messages of a conversation
    MaxTexts,   \* bound: texts the user types
    MaxSends    \* bound: sends under way

ASSUME BoundsAssumption ==
    /\ Limit \in Nat \ {0}
    /\ MaxMessages \in Nat
    /\ MaxTexts \in Nat
    /\ MaxSends \in Nat

VARIABLES
    rows,      \* server: the conversations of each pair, by the order of the pair
    start,     \* of each pair, how far the two are in opening one
    messages,  \* server: the messages of each conversation
    known,     \* the conversations the page lists
    active,    \* the conversation that is open, or None
    draft,     \* the text in the input, and whether it was typed over a send
    typed,     \* history: texts typed so far
    sends,     \* sends under way
    loaded,    \* the threads the page has an answer for
    shown,     \* of each thread, how many messages there were when it was listed
    fetch,     \* of each thread, the request under way
    cancelled  \* threads with a request that was cancelled and not carried out

vars == <<rows, start, messages, known, active, draft, typed, sends,
          loaded, shown, fetch, cancelled>>
opening == <<rows, start>>
input == <<draft, typed, sends>>
thread == <<loaded, shown, fetch, cancelled>>

None == "none"
Sides == {"me", "other"}
Slots == 1..MaxSends

Idle == [at |-> "idle"]
Asked == [at |-> "asked"]
NoSend == [at |-> "none"]
Blank == [text |-> 0, over |-> FALSE]
UnderWay(c) == fetch[c] # Idle

\* A message: of the other's, whether it is read and what became of it on
\* the way to the page ("no": nothing yet).
Message ==
    [from : Sides, text : 0..MaxTexts, read : BOOLEAN, fate : {"no", "shown", "lost"}]

\* A request for a thread: asked, its messages marked, or its answer back with
\* the messages there were when it was listed.
Fetch == {Idle, Asked} \cup [at : {"marked"}] \cup [at : {"back"}, upto : Nat]

TypeOK ==
    /\ rows \in [Convs -> SUBSET Sides]
    /\ start \in [Convs -> [Sides -> {"idle", "looked"}]]
    /\ messages \in [Convs -> Seq(Message)]
    /\ shown \in [Convs -> Nat]
    /\ fetch \in [Convs -> Fetch]
    /\ \A c \in Convs : /\ Len(messages[c]) <= MaxMessages
                        /\ messages[c] # << >> => rows[c] # {}
                        /\ shown[c] <= Len(messages[c])
                        /\ fetch[c].at = "back" => fetch[c].upto <= Len(messages[c])
    /\ known \subseteq {c \in Convs : rows[c] # {}}
    /\ active \in known \cup {None}
    /\ typed \in 0..MaxTexts
    /\ draft \in [text : 0..typed, over : BOOLEAN]
    /\ sends \in [Slots -> {NoSend} \cup [at : {"sent", "stored"}, to : known, text : 1..typed]]
    /\ loaded \subseteq Convs
    /\ cancelled \subseteq Convs

\* Slip: the pair is not put in order.
PairAsCalled(side) == side

\* The pair is put in order, whoever of the two asks: say the user comes first.
PairOf(side) == "me"

Init ==
    /\ rows \in [Convs -> {{}, {PairOf("me")}}]
    /\ start = [c \in Convs |-> [side \in Sides |-> "idle"]]
    /\ messages = [c \in Convs |-> << >>]
    /\ known = {}
    /\ active = None
    /\ draft = Blank
    /\ typed = 0
    /\ sends = [s \in Slots |-> NoSend]
    /\ loaded = {}
    /\ shown = [c \in Convs |-> 0]
    /\ fetch = [c \in Convs |-> Idle]
    /\ cancelled = {}

---------------------------------------------------------------------------
(* GetOrCreate: the row is looked for, and inserted where there is none *)

Look(c, side) ==
    /\ start[c][side] = "idle"
    /\ PairOf(side) \notin rows[c]
    /\ start' = [start EXCEPT ![c][side] = "looked"]
    /\ UNCHANGED <<rows, messages, known, active, input, thread>>

\* The index on the pair lets one insert pass; the other is answered with an
\* error, and its user may try again.
Insert(c, side) ==
    /\ start[c][side] = "looked"
    /\ rows' = [rows EXCEPT ![c] = @ \cup {PairOf(side)}]
    /\ start' = [start EXCEPT ![c][side] = "idle"]
    /\ UNCHANGED <<messages, known, active, input, thread>>

---------------------------------------------------------------------------
(* The list of conversations, and a thread *)

\* The list is asked for as the page mounts, every ten seconds and after a
\* send.  Conversations are never deleted.
RefreshList ==
    /\ known' = {c \in Convs : rows[c] # {}}
    /\ UNCHANGED <<opening, messages, active, input, thread>>

\* The draft stays in the input, whoever it was for.
Open(c) ==
    /\ active = None
    /\ c \in known
    /\ active' = c
    /\ fetch' = IF UnderWay(c) THEN fetch ELSE [fetch EXCEPT ![c] = Asked]
    /\ UNCHANGED <<opening, messages, known, input, loaded, shown, cancelled>>

Back ==
    /\ active # None
    /\ active' = None
    /\ UNCHANGED <<opening, messages, known, input, thread>>

\* Slip: no refetchInterval.
PollNever(c) == FALSE /\ UNCHANGED vars

\* Every five seconds, and when the window gets the focus.
Poll(c) ==
    /\ active = c
    /\ ~UnderWay(c)
    /\ fetch' = [fetch EXCEPT ![c] = Asked]
    /\ UNCHANGED <<opening, messages, known, active, input, loaded, shown, cancelled>>

\* MarkRead: what the other wrote and is not read yet.
Marked(ms, fate) ==
    [i \in DOMAIN ms |->
        IF ms[i].from = "other" /\ ~ms[i].read
        THEN [ms[i] EXCEPT !.read = TRUE, !.fate = fate] ELSE ms[i]]

\* Slip: the messages are listed first and marked read then.
ServeListFirst(c) ==
    /\ \/ /\ fetch[c] = Asked
          /\ fetch' = [fetch EXCEPT ![c] = [at |-> "marked", upto |-> Len(messages[c])]]
          /\ UNCHANGED messages
       \/ /\ fetch[c].at = "marked"
          /\ messages' = [messages EXCEPT ![c] = Marked(@, "no")]
          /\ fetch' = [fetch EXCEPT ![c].at = "back"]
    /\ UNCHANGED <<opening, known, active, input, loaded, shown, cancelled>>

\* Service.Messages for a participant.
Serve(c) ==
    /\ \/ /\ fetch[c] = Asked
          /\ messages' = [messages EXCEPT ![c] = Marked(@, "no")]
          /\ fetch' = [fetch EXCEPT ![c] = [at |-> "marked"]]
       \/ /\ fetch[c].at = "marked"
          /\ fetch' = [fetch EXCEPT ![c] = [at |-> "back", upto |-> Len(messages[c])]]
          /\ UNCHANGED messages
    /\ UNCHANGED <<opening, known, active, input, loaded, shown, cancelled>>

\* What was marked for an answer that does not come.
Lost(ms) ==
    [i \in DOMAIN ms |->
        IF ms[i].read /\ ms[i].fate = "no" THEN [ms[i] EXCEPT !.fate = "lost"] ELSE ms[i]]

\* Not answered, with all its retries: the thread stays as it was, and the
\* request may be carried out yet.
FailFetch(c) ==
    /\ UnderWay(c)
    /\ messages' = [messages EXCEPT ![c] = Lost(@)]
    /\ fetch' = [fetch EXCEPT ![c] = Idle]
    /\ cancelled' = IF fetch[c] = Asked THEN cancelled \cup {c} ELSE cancelled
    /\ UNCHANGED <<opening, known, active, input, loaded, shown>>

Window(n) == {i \in 1..n : i > n - Limit \/ n < Limit}

\* The answer is the thread: the last Limit messages.
Complete(c) ==
    /\ fetch[c].at = "back"
    /\ loaded' = loaded \cup {c}
    /\ shown' = [shown EXCEPT ![c] = fetch[c].upto]
    /\ messages' = [messages EXCEPT ![c] =
           [i \in DOMAIN @ |-> IF i \in Window(fetch[c].upto)
                               THEN [@[i] EXCEPT !.fate = "shown"] ELSE @[i]]]
    /\ fetch' = [fetch EXCEPT ![c] = Idle]
    /\ UNCHANGED <<opening, known, active, input, cancelled>>

\* A cancelled request: it marks what it finds, its list is thrown away.
ServeCancelled(c) ==
    /\ c \in cancelled
    /\ cancelled' = cancelled \ {c}
    /\ messages' = [messages EXCEPT ![c] = Marked(@, "lost")]
    /\ UNCHANGED <<opening, known, active, input, loaded, shown, fetch>>

---------------------------------------------------------------------------
(* Writing *)

\* The input is not disabled while a send is pending.
Type ==
    /\ active # None
    /\ typed < MaxTexts
    /\ typed' = typed + 1
    /\ draft' = [text |-> typed + 1, over |-> \E s \in Slots : sends[s] # NoSend]
    /\ UNCHANGED <<opening, messages, known, active, sends, thread>>

\* Slip: the input is cleared at once.
SendCleared ==
    /\ active # None
    /\ draft.text # 0
    /\ \E s \in Slots :
        /\ sends[s] = NoSend
        /\ sends' = [sends EXCEPT ![s] = [at |-> "sent", to |-> active, text |-> draft.text]]
    /\ draft' = Blank
    /\ UNCHANGED <<opening, messages, known, active, typed, thread>>

\* The button or Enter.  Neither is locked: a text may be sent twice.
Send ==
    /\ active # None
    /\ draft.text # 0
    /\ \E s \in Slots :
        /\ sends[s] = NoSend
        /\ sends' = [sends EXCEPT ![s] = [at |-> "sent", to |-> active, text |-> draft.text]]
    /\ UNCHANGED <<opening, messages, known, active, draft, typed, thread>>

Appended(c, from, text) ==
    /\ Len(messages[c]) < MaxMessages
    /\ messages' = [messages EXCEPT ![c] =
           Append(@, [from |-> from, text |-> text, read |-> FALSE, fate |-> "no"])]

Store(s) ==
    /\ sends[s].at = "sent"
    /\ Appended(sends[s].to, "me", sends[s].text)
    /\ sends' = [sends EXCEPT ![s].at = "stored"]
    /\ UNCHANGED <<opening, known, active, draft, typed, thread>>

\* Refused, or an answer that is lost: nobody is told, the draft stays.
SendFails(s) ==
    /\ sends[s] # NoSend
    /\ sends' = [sends EXCEPT ![s] = NoSend]
    /\ UNCHANGED <<opening, messages, known, active, draft, typed, thread>>

\* invalidateQueries on the thread written to: if it is open, and has been
\* listed, it is asked for once more and what was under way is cancelled.
Invalidate(c) ==
    IF active = c /\ ~(UnderWay(c) /\ c \notin loaded)
    THEN /\ fetch' = [fetch EXCEPT ![c] = Asked]
         /\ cancelled' = IF fetch[c] = Asked THEN cancelled \cup {c} ELSE cancelled
         /\ messages' = [messages EXCEPT ![c] = Lost(@)]
    ELSE UNCHANGED <<fetch, cancelled, messages>>

\* The input is cleared, whatever it holds by now.
SendDone(s) ==
    /\ sends[s].at = "stored"
    /\ Invalidate(sends[s].to)
    /\ draft' = Blank
    /\ sends' = [sends EXCEPT ![s] = NoSend]
    /\ UNCHANGED <<opening, known, active, typed, loaded, shown>>

OtherSends(c) ==
    /\ rows[c] # {}
    /\ Appended(c, "other", 0)
    /\ UNCHANGED <<opening, known, active, input, thread>>

---------------------------------------------------------------------------
Next ==
    \/ \E c \in Convs :
        \/ \E side \in Sides : Look(c, side) \/ Insert(c, side)
        \/ Open(c)
        \/ Poll(c)
        \/ Serve(c)
        \/ FailFetch(c)
        \/ Complete(c)
        \/ ServeCancelled(c)
        \/ OtherSends(c)
    \/ RefreshList
    \/ Back
    \/ Type
    \/ Send
    \/ \E s \in Slots : Store(s) \/ SendFails(s) \/ SendDone(s)

\* The interval of the open thread runs, and the server is not down for good.
Fairness ==
    \A c \in Convs :
        /\ WF_vars(Poll(c))
        /\ SF_vars(fetch[c] = Asked /\ Serve(c))
        /\ SF_vars(fetch[c].at = "marked" /\ Serve(c))
        /\ SF_vars(Complete(c))

Spec == Init /\ [][Next]_vars /\ Fairness

---------------------------------------------------------------------------
(* Properties *)

\* However the two open it, a pair has one conversation: neither writes where
\* the other does not look.
OneConversation == \A c \in Convs : Cardinality(rows[c]) <= 1

\* A message that no longer counts as unread has been put before the user, or
\* is on its way to him: the request that marked it lists it too.  Unless its
\* answer was lost or thrown away, or Limit messages came after it.
ReadReachesThread ==
    \A c \in Convs : \A i \in DOMAIN messages[c] :
        messages[c][i].read /\ messages[c][i].fate = "no" =>
            \/ fetch[c].at = "marked"
            \/ fetch[c].at = "back" /\ i <= fetch[c].upto
            \/ i + Limit <= Len(messages[c])

\* The input loses a text only when the server has it, or when it was typed
\* while an earlier one was being sent.
ClearedWasSent ==
    [][draft.text # 0 /\ draft' = Blank =>
        \/ draft.over
        \/ \E c \in Convs : \E i \in DOMAIN messages[c] : messages[c][i].text = draft.text]_vars

\* Whoever keeps a thread open gets to see every message in it.
Delivered ==
    \A c \in Convs : \A n \in 1..MaxMessages :
        active = c /\ Len(messages[c]) >= n ~> active # c \/ shown[c] >= n

=============================================================================
