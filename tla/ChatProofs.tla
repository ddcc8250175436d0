------------------------------ MODULE ChatProofs ------------------------------
(***************************************************************************)
(* Proofs about the chat for every set of conversations, every limit of    *)
(* the listing and any number of messages, texts and sends under way.      *)
(***************************************************************************)
EXTENDS ChatDesk, SequenceTheorems, FiniteSetTheorems, TLAPS

USE BoundsAssumption

---------------------------------------------------------------------------
(* The inductive invariant *)

\* Every row is the one of the ordered pair.
PairsOrdered == \A c \in Convs : rows[c] \subseteq {PairOf("me")}

\* A send that was carried out has its text in the conversation it was for.
StoredIsThere ==
    \A s \in Slots : sends[s].at = "stored" =>
        \E i \in DOMAIN messages[sends[s].to] :
            messages[sends[s].to][i].text = sends[s].text

\* A text that was not typed over a send is the text of every send under way.
DraftIsSent ==
    draft.text # 0 /\ ~draft.over =>
        \A s \in Slots : sends[s] # NoSend => sends[s].text = draft.text

ChatInv ==
    /\ TypeOK
    /\ PairsOrdered
    /\ ReadReachesThread
    /\ StoredIsThere
    /\ DraftIsSent

---------------------------------------------------------------------------
(* Sequences of messages *)

\* A conversation goes on: nothing is deleted, no text changes.
GoesOn(old, new) ==
    /\ new \in Seq(Message)
    /\ Len(old) <= Len(new)
    /\ \A i \in DOMAIN old : new[i].text = old[i].text

\* What is made of a sequence, message by message, is one of the same length.
LEMMA MappedSeq ==
    ASSUME NEW ms \in Seq(Message), NEW f,
           f = [i \in DOMAIN ms |-> f[i]],
           \A i \in DOMAIN ms : f[i] \in Message
    PROVE  f \in Seq(Message) /\ Len(f) = Len(ms) /\ DOMAIN f = DOMAIN ms
<1>1. Len(ms) \in Nat /\ DOMAIN ms = 1..Len(ms)
  BY LenProperties
<1>2. f \in [1..Len(ms) -> Message]
  BY <1>1
<1>3. f \in Seq(Message)
  BY <1>1, <1>2, SeqDef
<1>4. Len(f) \in Nat /\ DOMAIN f = 1..Len(f) /\ DOMAIN f = 1..Len(ms)
  BY <1>2, <1>3, LenProperties
<1>5. QED
  BY <1>1, <1>3, <1>4

\* Marking leaves the length and the texts, and reads what it reads with the
\* fate it is given.
LEMMA MarkedSeq ==
    ASSUME NEW ms \in Seq(Message), NEW fate \in {"no", "lost"}
    PROVE  /\ GoesOn(ms, Marked(ms, fate)) /\ Len(Marked(ms, fate)) = Len(ms)
           /\ \A i \in DOMAIN ms :
                 Marked(ms, fate)[i] = ms[i]
                 \/ Marked(ms, fate)[i].fate = fate
<1> DEFINE f == Marked(ms, fate)
<1>1. ms \in [DOMAIN ms -> Message]
  BY LenProperties
<1>2. ASSUME NEW i \in DOMAIN ms
      PROVE  /\ f[i] \in Message
             /\ f[i].text = ms[i].text
             /\ f[i] = ms[i] \/ f[i].fate = fate
  BY <1>1, <1>2 DEF Marked, Message
<1>3. f = [i \in DOMAIN ms |-> f[i]]
  BY DEF Marked
<1>4. f \in Seq(Message) /\ Len(f) = Len(ms)
  BY <1>2, <1>3, MappedSeq
<1>5. Len(ms) \in Nat
  BY LenProperties
<1>6. QED
  BY <1>2, <1>4, <1>5 DEF GoesOn

\* With the answer lost, no message that is read is without a fate.
LEMMA LostSeq ==
    ASSUME NEW ms \in Seq(Message)
    PROVE  /\ GoesOn(ms, Lost(ms)) /\ Len(Lost(ms)) = Len(ms)
           /\ \A i \in DOMAIN ms : ~(Lost(ms)[i].read /\ Lost(ms)[i].fate = "no")
<1> DEFINE f == Lost(ms)
<1>1. ms \in [DOMAIN ms -> Message]
  BY LenProperties
<1>2. ASSUME NEW i \in DOMAIN ms
      PROVE  /\ f[i] \in Message
             /\ f[i].text = ms[i].text
             /\ ~(f[i].read /\ f[i].fate = "no")
  BY <1>1, <1>2 DEF Lost, Message
<1>3. f = [i \in DOMAIN ms |-> f[i]]
  BY DEF Lost
<1>4. f \in Seq(Message) /\ Len(f) = Len(ms)
  BY <1>2, <1>3, MappedSeq
<1>5. Len(ms) \in Nat
  BY LenProperties
<1>6. QED
  BY <1>2, <1>4, <1>5 DEF GoesOn

\* An appended message is unread; the others stay.
LEMMA AppendedSeq ==
    ASSUME NEW ms \in Seq(Message), NEW m \in Message
    PROVE  /\ GoesOn(ms, Append(ms, m)) /\ Len(Append(ms, m)) = Len(ms) + 1
           /\ \A i \in DOMAIN ms : Append(ms, m)[i] = ms[i]
           /\ Append(ms, m)[Len(ms) + 1] = m
           /\ DOMAIN Append(ms, m) = 1..(Len(ms) + 1)
<1>1. /\ Append(ms, m) \in Seq(Message)
      /\ Len(Append(ms, m)) = Len(ms) + 1
      /\ \A i \in 1..Len(ms) : Append(ms, m)[i] = ms[i]
      /\ Append(ms, m)[Len(ms) + 1] = m
  BY AppendProperties
<1>2. Len(ms) \in Nat /\ DOMAIN ms = 1..Len(ms)
  BY LenProperties
<1>3. DOMAIN Append(ms, m) = 1..(Len(ms) + 1)
  BY <1>1, LenProperties
<1>4. QED
  BY <1>1, <1>2, <1>3 DEF GoesOn

\* A list that stays goes on.
LEMMA GoesOnSame == ASSUME NEW ms \in Seq(Message) PROVE GoesOn(ms, ms)
BY LenProperties DEF GoesOn

---------------------------------------------------------------------------
(* Frames *)

\* The parts of the types that the steps use.
LEMMA Typed ==
    ASSUME TypeOK, NEW c \in Convs
    PROVE  /\ messages[c] \in Seq(Message)
           /\ Len(messages[c]) \in Nat /\ DOMAIN messages[c] = 1..Len(messages[c])
           /\ \A i \in DOMAIN messages[c] : messages[c][i] \in Message
           /\ fetch[c] \in Fetch
           /\ known \subseteq Convs
BY LenProperties DEF TypeOK

\* What is to be shown of a conversation's messages and its request.
Reaches(ms, f) ==
    \A i \in DOMAIN ms :
        ms[i].read /\ ms[i].fate = "no" =>
            \/ f.at = "marked"
            \/ f.at = "back" /\ i <= f.upto
            \/ i + Limit <= Len(ms)

\* The messages of c become new, and its request f.
LEMMA ThreadStep ==
    ASSUME ChatInv, NEW c \in Convs, NEW new, NEW f \in Fetch,
           messages' = [messages EXCEPT ![c] = new],
           fetch' = [fetch EXCEPT ![c] = f],
           GoesOn(messages[c], new), Len(new) <= MaxMessages,
           messages[c] = << >> => new = << >> \/ rows[c] # {},
           f.at = "back" => f.upto <= Len(new),
           Reaches(new, f), rows' = rows
    PROVE  /\ messages' \in [Convs -> Seq(Message)]
           /\ fetch' \in [Convs -> Fetch]
           /\ \A x \in Convs :
                /\ GoesOn(messages[x], messages'[x])
                /\ Len(messages'[x]) <= MaxMessages
                /\ messages'[x] # << >> => rows'[x] # {}
                /\ fetch'[x].at = "back" => fetch'[x].upto <= Len(messages'[x])
           /\ ReadReachesThread'
<1> USE DEF ChatInv
<1>1. new \in Seq(Message)
  BY DEF GoesOn
<1>2. messages' \in [Convs -> Seq(Message)] /\ fetch' \in [Convs -> Fetch]
  BY <1>1 DEF TypeOK
<1>3. /\ messages'[c] = new /\ fetch'[c] = f
      /\ \A x \in Convs \ {c} : messages'[x] = messages[x] /\ fetch'[x] = fetch[x]
  BY DEF TypeOK
<1>4. ASSUME NEW x \in Convs
      PROVE  /\ GoesOn(messages[x], messages'[x])
             /\ Len(messages'[x]) <= MaxMessages
             /\ messages'[x] # << >> => rows'[x] # {}
             /\ fetch'[x].at = "back" => fetch'[x].upto <= Len(messages'[x])
  <2>1. CASE x = c
    BY <1>3, <2>1 DEF TypeOK
  <2>2. CASE x # c
    BY <1>3, <2>2, GoesOnSame DEF TypeOK
  <2>3. QED
    BY <2>1, <2>2
<1>5. \A x \in Convs : Reaches(messages'[x], fetch'[x])
  BY <1>3 DEF Reaches, ReadReachesThread
<1>6. ReadReachesThread'
  BY <1>5 DEF Reaches, ReadReachesThread
<1>7. QED
  BY <1>2, <1>4, <1>6

\* What was stored stays so while the lists go on.
LEMMA StoredKept ==
    ASSUME ChatInv, \A c \in Convs : GoesOn(messages[c], messages'[c]),
           \A s \in Slots : sends'[s].at = "stored" => sends'[s] = sends[s]
    PROVE  StoredIsThere'
<1> USE DEF ChatInv
<1>1. ASSUME NEW s \in Slots, sends'[s].at = "stored"
      PROVE  \E i \in DOMAIN messages'[sends'[s].to] :
                messages'[sends'[s].to][i].text = sends'[s].text
  <2>1. sends'[s] = sends[s] /\ sends[s].at = "stored"
    BY <1>1
  <2>2. sends[s].to \in Convs
    <3>1. sends[s] # NoSend
      BY <2>1 DEF NoSend
    <3>2. sends[s] \in [at : {"sent", "stored"}, to : known, text : 1..typed]
      BY <3>1 DEF TypeOK
    <3>3. QED
      BY <3>2, known \subseteq Convs DEF TypeOK
  <2>3. PICK i \in DOMAIN messages[sends[s].to] :
           messages[sends[s].to][i].text = sends[s].text
    BY <2>1 DEF StoredIsThere
  <2>4. i \in DOMAIN messages'[sends[s].to]
    BY <2>2, <2>3, Typed, LenProperties DEF GoesOn
  <2>5. QED
    BY <2>1, <2>2, <2>3, <2>4 DEF GoesOn
<1>2. QED
  BY <1>1 DEF StoredIsThere

\* A thread is asked for: nothing is marked by that.
LEMMA AskedReaches ==
    ASSUME ChatInv, NEW c \in Convs, ~UnderWay(c)
    PROVE  Reaches(messages[c], Asked)
BY DEF ChatInv, ReadReachesThread, Reaches, UnderWay, Idle, Asked

\* A conversation in which nothing that is read is on its way.
LEMMA NoneOnTheWay ==
    ASSUME NEW ms, NEW f, \A i \in DOMAIN ms : ~(ms[i].read /\ ms[i].fate = "no")
    PROVE  Reaches(ms, f)
BY DEF Reaches

---------------------------------------------------------------------------
(* The steps *)

\* At first there are no messages, and nobody has typed anything.
LEMMA InitChat == Init => ChatInv
<1> SUFFICES ASSUME Init PROVE ChatInv
    OBVIOUS
<1>1. << >> \in Seq(Message) /\ Len(<< >>) = 0 /\ DOMAIN << >> = {}
  BY EmptySeq
<1>2. TypeOK
  <2>1. rows \in [Convs -> SUBSET Sides] /\ start \in [Convs -> [Sides -> {"idle", "looked"}]]
    BY DEF Init, Sides, PairOf
  <2>2. /\ messages \in [Convs -> Seq(Message)] /\ shown \in [Convs -> Nat]
        /\ fetch \in [Convs -> Fetch]
    BY <1>1 DEF Init, Fetch
  <2>3. \A c \in Convs : messages[c] = << >> /\ shown[c] = 0 /\ fetch[c].at = "idle"
    BY DEF Init, Idle
  <2>4. /\ draft \in [text : 0..typed, over : BOOLEAN] /\ typed \in 0..MaxTexts
        /\ sends \in [Slots -> {NoSend} \cup [at : {"sent", "stored"}, to : known, text : 1..typed]]
    BY DEF Init, Blank
  <2>5. known = {} /\ active = None /\ loaded = {} /\ cancelled = {}
    BY DEF Init
  <2>6. QED
    BY <1>1, <2>1, <2>2, <2>3, <2>4, <2>5 DEF TypeOK
<1>3. PairsOrdered /\ ReadReachesThread
  BY <1>1 DEF Init, PairsOrdered, ReadReachesThread, PairOf
<1>4. StoredIsThere /\ DraftIsSent
  BY DEF Init, StoredIsThere, DraftIsSent, NoSend, Blank
<1>5. QED
  BY <1>2, <1>3, <1>4 DEF ChatInv

\* Look, Insert, RefreshList, Back, Open and Poll: no message is touched.
LEMMA PageStep ==
    ASSUME ChatInv,
           \/ \E c \in Convs : \/ \E side \in Sides : Look(c, side) \/ Insert(c, side)
                               \/ Open(c) \/ Poll(c)
           \/ RefreshList \/ Back
    PROVE  ChatInv'
<1> USE DEF ChatInv
<1>1. messages' = messages /\ UNCHANGED <<draft, typed, sends, loaded, shown, cancelled>>
  BY DEF Look, Insert, Open, Poll, RefreshList, Back, input, thread
<1>2. StoredIsThere' /\ DraftIsSent'
  BY <1>1 DEF StoredIsThere, DraftIsSent
<1>3. PairsOrdered'
  <2>1. \A c \in Convs : rows'[c] \in {rows[c], rows[c] \cup {PairOf("me")}}
    BY DEF Look, Insert, Open, Poll, RefreshList, Back, PairOf, TypeOK, opening
  <2>2. QED
    BY <2>1 DEF PairsOrdered, PairOf
<1>4. ReadReachesThread'
  <2>1. CASE fetch' = fetch
    BY <1>1, <2>1 DEF ReadReachesThread
  <2>2. ASSUME NEW c \in Convs, ~UnderWay(c), fetch' = [fetch EXCEPT ![c] = Asked]
        PROVE  ReadReachesThread'
    <3>1. \A x \in Convs : Reaches(messages'[x], fetch'[x])
      BY <1>1, <2>2, AskedReaches DEF Reaches, ReadReachesThread, TypeOK
    <3>2. QED
      BY <3>1 DEF Reaches, ReadReachesThread
  <2>3. QED
    BY <2>1, <2>2 DEF Look, Insert, Open, Poll, RefreshList, Back, thread
<1>5. TypeOK'
  <2>1. CASE \E c \in Convs, side \in Sides : Look(c, side)
    BY <2>1 DEF Look, TypeOK, input, thread
  <2>2. CASE \E c \in Convs, side \in Sides : Insert(c, side)
    <3>1. /\ rows' \in [Convs -> SUBSET Sides]
          /\ start' \in [Convs -> [Sides -> {"idle", "looked"}]]
          /\ \A c \in Convs : rows[c] \subseteq rows'[c]
          /\ UNCHANGED <<messages, known, active, input, thread>>
      BY <2>2 DEF Insert, TypeOK, PairOf, Sides
    <3>2. QED
      BY <3>1 DEF TypeOK, input, thread
  <2>3. CASE \E c \in Convs : Open(c) \/ Poll(c)
    <3>1. fetch' \in [Convs -> Fetch]
      BY <2>3 DEF Open, Poll, TypeOK, Fetch
    <3>2. \A c \in Convs : fetch'[c] = fetch[c] \/ fetch'[c] = Asked
      BY <2>3 DEF Open, Poll, TypeOK
    <3>3. \A c \in Convs : fetch'[c].at = "back" => fetch'[c].upto <= Len(messages[c])
      <4>1. Asked.at # "back"
        BY DEF Asked
      <4>2. QED
        BY <3>2, <4>1 DEF TypeOK
    <3>4. active' \in known \cup {None}
      BY <2>3 DEF Open, Poll, TypeOK
    <3>5. QED
      BY <1>1, <2>3, <3>1, <3>3, <3>4 DEF Open, Poll, TypeOK, opening
  <2>4. CASE RefreshList
    <3>1. known \subseteq known'
      BY <2>4 DEF RefreshList, TypeOK
    <3>2. sends \in [Slots -> {NoSend} \cup [at : {"sent", "stored"}, to : known', text : 1..typed]]
      BY <3>1 DEF TypeOK
    <3>3. QED
      BY <2>4, <3>1, <3>2 DEF RefreshList, TypeOK, opening, input, thread
  <2>5. CASE Back
    BY <2>5 DEF Back, TypeOK, opening, input, thread
  <2>6. QED
    BY <2>1, <2>2, <2>3, <2>4, <2>5
<1>6. QED
  BY <1>2, <1>3, <1>4, <1>5

\* What a step on one thread leaves to be shown.
LEMMA AfterThread ==
    ASSUME ChatInv,
           messages' \in [Convs -> Seq(Message)], fetch' \in [Convs -> Fetch],
           \A x \in Convs :
                /\ GoesOn(messages[x], messages'[x])
                /\ Len(messages'[x]) <= MaxMessages
                /\ messages'[x] # << >> => rows'[x] # {}
                /\ fetch'[x].at = "back" => fetch'[x].upto <= Len(messages'[x]),
           ReadReachesThread',
           UNCHANGED <<rows, start, known, active, typed>>,
           draft' \in {draft, Blank}, shown' \in [Convs -> Nat],
           \A x \in Convs : shown'[x] <= Len(messages'[x]),
           loaded' \subseteq Convs, cancelled' \subseteq Convs,
           sends' \in [Slots -> {NoSend} \cup [at : {"sent", "stored"}, to : known, text : 1..typed]],
           \A s \in Slots : sends'[s] \in {sends[s], NoSend}
    PROVE  ChatInv'
<1> USE DEF ChatInv
<1>1. TypeOK'
  <2>1. draft' \in [text : 0..typed, over : BOOLEAN]
    <3>1. Blank \in [text : 0..typed, over : BOOLEAN]
      BY DEF TypeOK, Blank
    <3>2. QED
      BY <3>1 DEF TypeOK
  <2>2. QED
    BY <2>1 DEF TypeOK
<1>2. PairsOrdered'
  BY DEF PairsOrdered, PairOf
<1>3. StoredIsThere'
  BY StoredKept DEF NoSend
<1>4. DraftIsSent'
  BY DEF DraftIsSent, Blank
<1>5. QED
  BY <1>1, <1>2, <1>3, <1>4

\* A step on the thread of c: its messages become new, its request f.
LEMMA ThreadMove ==
    ASSUME ChatInv, NEW c \in Convs, NEW new, NEW f \in Fetch,
           messages' = [messages EXCEPT ![c] = new],
           fetch' = [fetch EXCEPT ![c] = f],
           GoesOn(messages[c], new), Len(new) <= MaxMessages,
           Len(new) = Len(messages[c]) \/ rows[c] # {},
           f.at = "back" => f.upto <= Len(new),
           Reaches(new, f),
           UNCHANGED <<rows, start, known, active, typed>>,
           draft' \in {draft, Blank}, shown' \in [Convs -> Nat],
           \A x \in Convs : shown'[x] <= Len(messages[x]),
           loaded' \subseteq Convs, cancelled' \subseteq Convs,
           sends' \in [Slots -> {NoSend} \cup [at : {"sent", "stored"}, to : known, text : 1..typed]],
           \A s \in Slots : sends'[s] \in {sends[s], NoSend}
    PROVE  ChatInv'
<1>1. messages[c] = << >> => new = << >> \/ rows[c] # {}
  BY Typed, EmptySeq, LenProperties DEF GoesOn, ChatInv
<1>2. /\ messages' \in [Convs -> Seq(Message)]
      /\ fetch' \in [Convs -> Fetch]
      /\ \A x \in Convs :
            /\ GoesOn(messages[x], messages'[x])
            /\ Len(messages'[x]) <= MaxMessages
            /\ messages'[x] # << >> => rows'[x] # {}
            /\ fetch'[x].at = "back" => fetch'[x].upto <= Len(messages'[x])
      /\ ReadReachesThread'
  BY <1>1, ThreadStep
<1>3. ASSUME NEW x \in Convs
      PROVE  shown'[x] <= Len(messages'[x])
  <2>1. Len(messages[x]) \in Nat /\ Len(messages'[x]) \in Nat
    BY <1>2, Typed, LenProperties DEF ChatInv
  <2>2. Len(messages[x]) <= Len(messages'[x]) /\ shown'[x] <= Len(messages[x])
    BY <1>2 DEF GoesOn
  <2>3. shown'[x] \in Nat
    OBVIOUS
  <2>4. QED
    BY <2>1, <2>2, <2>3
<1>4. QED
  BY <1>2, <1>3, AfterThread

\* The server answers a fetch: what it shows is in flight.
LEMMA ServeStep ==
    ASSUME ChatInv, NEW c \in Convs, Serve(c)
    PROVE  ChatInv'
<1> USE DEF ChatInv
<1>1. /\ UNCHANGED <<rows, start, known, active, draft, typed, sends, loaded, shown, cancelled>>
      /\ \A x \in Convs : shown'[x] <= Len(messages[x])
      /\ shown' \in [Convs -> Nat] /\ loaded' \subseteq Convs /\ cancelled' \subseteq Convs
      /\ sends' \in [Slots -> {NoSend} \cup [at : {"sent", "stored"}, to : known, text : 1..typed]]
  BY DEF Serve, opening, input, TypeOK
<1>2. messages[c] \in Seq(Message) /\ Len(messages[c]) \in Nat /\ Len(messages[c]) <= MaxMessages
  BY Typed DEF TypeOK
<1>3. CASE messages' = [messages EXCEPT ![c] = Marked(@, "no")]
           /\ fetch' = [fetch EXCEPT ![c] = [at |-> "marked"]]
  <2> DEFINE new == Marked(messages[c], "no")
             f == [at |-> "marked"]
  <2>1. GoesOn(messages[c], new) /\ Len(new) = Len(messages[c])
    BY <1>2, MarkedSeq
  <2>2. f \in Fetch /\ Reaches(new, f) /\ f.at # "back"
    BY DEF Fetch, Reaches
  <2>3. messages' = [messages EXCEPT ![c] = new] /\ fetch' = [fetch EXCEPT ![c] = f]
    BY <1>3
  <2>4. QED
    <3> HIDE DEF new, f, ChatInv
    <3>1. QED
      BY <1>1, <1>2, <2>1, <2>2, <2>3, ThreadMove DEF ChatInv
<1>4. CASE messages' = messages
           /\ fetch' = [fetch EXCEPT ![c] = [at |-> "back", upto |-> Len(messages[c])]]
  <2> DEFINE f == [at |-> "back", upto |-> Len(messages[c])]
  <2>1. f \in Fetch /\ f.upto <= Len(messages[c])
    BY <1>2 DEF Fetch
  <2>2. Reaches(messages[c], f)
    BY <1>2, LenProperties DEF Reaches
  <2>3. messages' = [messages EXCEPT ![c] = messages[c]] /\ fetch' = [fetch EXCEPT ![c] = f]
    BY <1>4 DEF TypeOK
  <2>4. GoesOn(messages[c], messages[c])
    BY <1>2, GoesOnSame
  <2>5. QED
    <3> HIDE DEF f, ChatInv
    <3>1. QED
      BY <1>1, <1>2, <2>1, <2>2, <2>3, <2>4, ThreadMove
<1>5. QED
  BY <1>3, <1>4 DEF Serve

\* A fetch fails: what it would have shown is lost.
LEMMA FailStep ==
    ASSUME ChatInv, NEW c \in Convs, FailFetch(c)
    PROVE  ChatInv'
<1> USE DEF ChatInv
<1>1. /\ UNCHANGED <<rows, start, known, active, draft, typed, sends, loaded, shown>>
      /\ \A x \in Convs : shown'[x] <= Len(messages[x])
      /\ shown' \in [Convs -> Nat] /\ loaded' \subseteq Convs /\ cancelled' \subseteq Convs
      /\ sends' \in [Slots -> {NoSend} \cup [at : {"sent", "stored"}, to : known, text : 1..typed]]
  BY DEF FailFetch, opening, input, TypeOK
<1>2. messages[c] \in Seq(Message) /\ Len(messages[c]) \in Nat /\ Len(messages[c]) <= MaxMessages
  BY Typed DEF TypeOK
<1>3. /\ GoesOn(messages[c], Lost(messages[c])) /\ Len(Lost(messages[c])) = Len(messages[c])
      /\ Reaches(Lost(messages[c]), Idle)
  <2>1. \A i \in DOMAIN Lost(messages[c]) :
           ~(Lost(messages[c])[i].read /\ Lost(messages[c])[i].fate = "no")
    BY <1>2, LostSeq DEF Lost
  <2>2. QED
    BY <1>2, <2>1, LostSeq, NoneOnTheWay
<1>4. Idle \in Fetch /\ Idle.at # "back"
  BY DEF Fetch, Idle
<1>5. messages' = [messages EXCEPT ![c] = Lost(messages[c])] /\ fetch' = [fetch EXCEPT ![c] = Idle]
  BY DEF FailFetch
<1>6. QED
  <2> HIDE DEF ChatInv
  <2>1. QED
    BY <1>1, <1>2, <1>3, <1>4, <1>5, ThreadMove

\* The server carries out a poll the browser has cancelled: what that marks as
\* read is lost, for its answer is thrown away.
LEMMA CancelledStep ==
    ASSUME ChatInv, NEW c \in Convs, ServeCancelled(c)
    PROVE  ChatInv'
<1> USE DEF ChatInv
<1>1. /\ UNCHANGED <<rows, start, known, active, draft, typed, sends, loaded, shown>>
      /\ \A x \in Convs : shown'[x] <= Len(messages[x])
      /\ shown' \in [Convs -> Nat] /\ loaded' \subseteq Convs /\ cancelled' \subseteq Convs
      /\ sends' \in [Slots -> {NoSend} \cup [at : {"sent", "stored"}, to : known, text : 1..typed]]
  BY DEF ServeCancelled, opening, input, TypeOK
<1>2. messages[c] \in Seq(Message) /\ Len(messages[c]) \in Nat /\ Len(messages[c]) <= MaxMessages
  BY Typed DEF TypeOK
<1> DEFINE new == Marked(messages[c], "lost")
<1>3. /\ GoesOn(messages[c], new) /\ Len(new) = Len(messages[c]) /\ DOMAIN new = DOMAIN messages[c]
      /\ \A i \in DOMAIN new : new[i] = messages[c][i] \/ new[i].fate = "lost"
  BY <1>2, MarkedSeq DEF Marked
<1>4. Reaches(messages[c], fetch[c])
  BY DEF Reaches, ReadReachesThread
<1>5. Reaches(new, fetch[c])
  BY <1>3, <1>4 DEF Reaches
<1>6. messages' = [messages EXCEPT ![c] = new] /\ fetch' = [fetch EXCEPT ![c] = fetch[c]]
  BY DEF ServeCancelled, TypeOK
<1>7. fetch[c] \in Fetch /\ (fetch[c].at = "back" => fetch[c].upto <= Len(new))
  BY <1>3 DEF TypeOK
<1>8. QED
  <2> HIDE DEF ChatInv, new
  <2>1. QED
    BY <1>1, <1>2, <1>3, <1>5, <1>6, <1>7, ThreadMove

\* The data of an answer are taken, and its messages shown.
LEMMA CompleteStep ==
    ASSUME ChatInv, NEW c \in Convs, Complete(c)
    PROVE  ChatInv'
<1> USE DEF ChatInv
<1> DEFINE n == fetch[c].upto
           ms == messages[c]
           new == [i \in DOMAIN ms |-> IF i \in Window(n) THEN [ms[i] EXCEPT !.fate = "shown"] ELSE ms[i]]
<1>1. ms \in Seq(Message) /\ Len(ms) \in Nat /\ Len(ms) <= MaxMessages /\ DOMAIN ms = 1..Len(ms)
  BY Typed DEF TypeOK
<1>2. n \in Nat /\ n <= Len(ms)
  <2>1. fetch[c] \in Fetch /\ fetch[c].at = "back"
    BY DEF Complete, TypeOK
  <2>2. n \in Nat
    BY <2>1 DEF Fetch, Idle, Asked
  <2>3. QED
    BY <2>1, <2>2 DEF TypeOK
<1>3. /\ UNCHANGED <<rows, start, known, active, draft, typed, sends, cancelled>>
      /\ loaded' \subseteq Convs /\ cancelled' \subseteq Convs
      /\ sends' \in [Slots -> {NoSend} \cup [at : {"sent", "stored"}, to : known, text : 1..typed]]
  BY DEF Complete, opening, input, TypeOK
<1>4. shown' \in [Convs -> Nat] /\ \A x \in Convs : shown'[x] <= Len(messages[x])
  <2>1. shown' = [shown EXCEPT ![c] = n]
    BY DEF Complete
  <2>2. QED
    BY <1>2, <2>1 DEF TypeOK
<1>5. ASSUME NEW i \in DOMAIN ms
      PROVE  new[i] \in Message /\ new[i].text = ms[i].text
  <2>1. ms[i] \in Message
    BY <1>1, <1>5, LenProperties
  <2>2. QED
    BY <2>1 DEF Message
<1>6. /\ new \in Seq(Message) /\ Len(new) = Len(ms) /\ DOMAIN new = DOMAIN ms
  <2>1. new = [i \in DOMAIN ms |-> new[i]]
    OBVIOUS
  <2> HIDE DEF new, n
  <2>2. QED
    BY <1>1, <1>5, <2>1, MappedSeq
<1>7. GoesOn(ms, new)
  BY <1>1, <1>5, <1>6 DEF GoesOn
<1>8. Reaches(new, Idle)
  <2>1. ASSUME NEW i \in DOMAIN new, new[i].read, new[i].fate = "no"
        PROVE  i + Limit <= Len(new)
    <3>1. ms[i] \in Message /\ i \in DOMAIN ms /\ i \in 1..Len(ms)
      BY <1>1, <1>6, <2>1, LenProperties
    <3>2. i \notin Window(n)
      BY <2>1, <3>1 DEF Message
    <3>3. new[i] = ms[i]
      BY <3>1, <3>2
    <3>4. CASE i <= n
      BY <1>1, <1>2, <1>6, <3>1, <3>2, <3>4 DEF Window
    <3>5. CASE i > n
      <4>1. fetch[c].at = "back" /\ ms[i].read /\ ms[i].fate = "no"
        BY <2>1, <3>3 DEF Complete
      <4>2. \/ i <= n
            \/ i + Limit <= Len(ms)
        BY <3>1, <4>1 DEF ReadReachesThread
      <4>3. QED
        BY <1>2, <1>6, <3>1, <3>5, <4>2
    <3>6. QED
      BY <1>2, <3>1, <3>4, <3>5
  <2>2. QED
    BY <2>1 DEF Reaches
<1>9. Idle \in Fetch /\ Idle.at # "back"
  BY DEF Fetch, Idle
<1>10. messages' = [messages EXCEPT ![c] = new] /\ fetch' = [fetch EXCEPT ![c] = Idle]
  BY DEF Complete
<1>11. QED
  <2> HIDE DEF ChatInv, new, n
  <2>1. QED
    BY <1>1, <1>3, <1>4, <1>6, <1>7, <1>8, <1>9, <1>10, ThreadMove

\* An unread message appended leaves what reaches the user as it was.
LEMMA AppendReaches ==
    ASSUME NEW ms \in Seq(Message), NEW m \in Message, NEW f, ~m.read, Reaches(ms, f)
    PROVE  Reaches(Append(ms, m), f)
<1> DEFINE new == Append(ms, m)
<1>1. Len(ms) \in Nat /\ DOMAIN ms = 1..Len(ms)
  BY LenProperties
<1>2. /\ Len(new) = Len(ms) + 1 /\ DOMAIN new = 1..(Len(ms) + 1)
      /\ \A i \in DOMAIN ms : new[i] = ms[i]
      /\ new[Len(ms) + 1] = m
  BY AppendedSeq
<1> HIDE DEF new
<1>3. ASSUME NEW i \in DOMAIN new, new[i].read, new[i].fate = "no"
      PROVE  \/ f.at = "marked"
             \/ f.at = "back" /\ i <= f.upto
             \/ i + Limit <= Len(new)
  <2>1. i # Len(ms) + 1
    BY <1>2, <1>3
  <2>2. i \in DOMAIN ms /\ new[i] = ms[i]
    BY <1>1, <1>2, <1>3, <2>1
  <2>3. \/ f.at = "marked"
        \/ f.at = "back" /\ i <= f.upto
        \/ i + Limit <= Len(ms)
    BY <1>3, <2>2 DEF Reaches
  <2>4. QED
    BY <1>1, <1>2, <2>2, <2>3
<1>4. QED
  BY <1>3 DEF Reaches, new

\* An answer on its way is one to the messages that are there.
LEMMA BackWithin ==
    ASSUME TypeOK, NEW c \in Convs, NEW n \in Nat, Len(messages[c]) <= n
    PROVE  fetch[c] \in Fetch /\ (fetch[c].at = "back" => fetch[c].upto <= n)
<1>1. fetch[c] \in Fetch /\ Len(messages[c]) \in Nat
  BY Typed
<1>2. ASSUME fetch[c].at = "back" PROVE fetch[c].upto <= n
  <2>1. fetch[c].upto \in Nat
    BY <1>1, <1>2 DEF Fetch, Idle, Asked
  <2>2. fetch[c].upto <= Len(messages[c])
    BY <1>2 DEF TypeOK
  <2>3. QED
    BY <1>1, <2>1, <2>2
<1>3. QED
  BY <1>1, <1>2

\* The other one writes: his message goes at the end of the list.
LEMMA OtherSendsStep ==
    ASSUME ChatInv, NEW c \in Convs, OtherSends(c)
    PROVE  ChatInv'
<1> USE DEF ChatInv
<1> DEFINE m == [from |-> "other", text |-> 0, read |-> FALSE, fate |-> "no"]
           ms == messages[c]
           new == Append(ms, m)
<1>1. ms \in Seq(Message) /\ Len(ms) \in Nat /\ DOMAIN ms = 1..Len(ms) 
  BY Typed
<1>2. m \in Message
  BY DEF Message, Sides
<1>3. /\ UNCHANGED <<rows, start, known, active, draft, typed, sends, loaded, shown, cancelled>>
      /\ \A x \in Convs : shown'[x] <= Len(messages[x])
      /\ shown' \in [Convs -> Nat] /\ loaded' \subseteq Convs /\ cancelled' \subseteq Convs
      /\ sends' \in [Slots -> {NoSend} \cup [at : {"sent", "stored"}, to : known, text : 1..typed]]
  BY DEF OtherSends, opening, input, thread, TypeOK
<1>4. /\ GoesOn(ms, new) /\ Len(new) = Len(ms) + 1 /\ DOMAIN new = 1..(Len(ms) + 1)
      /\ \A i \in DOMAIN ms : new[i] = ms[i]
      /\ new[Len(ms) + 1] = m
  BY <1>1, <1>2, AppendedSeq
<1>5. Len(new) <= MaxMessages /\ rows[c] # {}
  BY <1>1, <1>4 DEF OtherSends, Appended
<1>6. messages' = [messages EXCEPT ![c] = new] /\ fetch' = [fetch EXCEPT ![c] = fetch[c]]
  BY DEF OtherSends, Appended, thread, TypeOK
<1>7. Reaches(new, fetch[c])
  BY <1>1, <1>2, AppendReaches DEF ReadReachesThread, Reaches
<1>8. fetch[c] \in Fetch /\ (fetch[c].at = "back" => fetch[c].upto <= Len(new))
  BY <1>1, <1>4, BackWithin
<1>9. QED
  <2> HIDE DEF ChatInv, new, ms, m
  <2>1. messages[c] = ms
    BY DEF ms
  <2>2. QED
    BY <1>3, <1>4, <1>5, <1>6, <1>7, <1>8, <2>1, ThreadMove

\* What a send under way is.
LEMMA SendTyped ==
    ASSUME TypeOK, NEW s \in Slots, sends[s] # NoSend
    PROVE  /\ sends[s] \in [at : {"sent", "stored"}, to : known, text : 1..typed]
           /\ sends[s].to \in Convs /\ rows[sends[s].to] # {}
           /\ sends[s].text \in 0..MaxTexts /\ sends[s].text \in 1..typed
<1>1. sends[s] \in [at : {"sent", "stored"}, to : known, text : 1..typed]
  BY DEF TypeOK
<1>2. typed \in Nat /\ typed <= MaxTexts
  BY DEF TypeOK
<1>3. QED
  BY <1>1, <1>2 DEF TypeOK

\* The server stores a text that was sent.
LEMMA StoreStep ==
    ASSUME ChatInv, NEW s \in Slots, Store(s)
    PROVE  ChatInv'
<1> USE DEF ChatInv
<1> DEFINE c == sends[s].to
           ms == messages[c]
           m == [from |-> "me", text |-> sends[s].text, read |-> FALSE, fate |-> "no"]
           new == Append(ms, m)
<1>1. /\ sends[s] \in [at : {"sent", "stored"}, to : known, text : 1..typed]
      /\ c \in Convs /\ rows[c] # {} /\ m \in Message
  <2>1. sends[s] # NoSend
    BY DEF Store, NoSend
  <2>2. QED
    BY <2>1, SendTyped DEF Message, Sides
<1>2. ms \in Seq(Message) /\ Len(ms) \in Nat /\ DOMAIN ms = 1..Len(ms)
  BY <1>1, Typed
<1>3. /\ GoesOn(ms, new) /\ Len(new) = Len(ms) + 1 /\ DOMAIN new = 1..(Len(ms) + 1)
      /\ new[Len(ms) + 1] = m
  BY <1>1, <1>2, AppendedSeq
<1>4. Len(new) <= MaxMessages
  BY <1>2, <1>3 DEF Store, Appended
<1>5. messages' = [messages EXCEPT ![c] = new] /\ fetch' = [fetch EXCEPT ![c] = fetch[c]]
  BY DEF Store, Appended, thread, TypeOK
<1>6. Reaches(new, fetch[c])
  BY <1>1, <1>2, AppendReaches DEF ReadReachesThread, Reaches
<1>7. fetch[c] \in Fetch /\ (fetch[c].at = "back" => fetch[c].upto <= Len(new))
  BY <1>1, <1>2, <1>3, BackWithin
<1>8. UNCHANGED <<rows, start, known, active, draft, typed, loaded, shown, cancelled>>
  BY DEF Store, opening, thread
<1>9. /\ sends' = [sends EXCEPT ![s].at = "stored"]
      /\ sends' \in [Slots -> {NoSend} \cup [at : {"sent", "stored"}, to : known, text : 1..typed]]
      /\ \A x \in Slots : sends'[x].text = sends[x].text /\ sends'[x].to = sends[x].to
      /\ \A x \in Slots : x # s => sends'[x] = sends[x]
  <2>1. sends' = [sends EXCEPT ![s].at = "stored"]
    BY DEF Store
  <2>2. sends'[s] = [sends[s] EXCEPT !.at = "stored"] /\ \A x \in Slots : x # s => sends'[x] = sends[x]
    BY <2>1 DEF TypeOK
  <2>3. /\ sends'[s] \in [at : {"sent", "stored"}, to : known, text : 1..typed]
        /\ sends'[s].text = sends[s].text /\ sends'[s].to = sends[s].to
    BY <1>1, <2>2
  <2>4. \A x \in Slots : sends'[x] \in {NoSend} \cup [at : {"sent", "stored"}, to : known, text : 1..typed]
    BY <2>2, <2>3 DEF TypeOK
  <2>5. QED
    BY <2>1, <2>2, <2>3, <2>4 DEF TypeOK
<1>10. /\ messages' \in [Convs -> Seq(Message)]
       /\ fetch' \in [Convs -> Fetch]
       /\ \A x \in Convs :
            /\ GoesOn(messages[x], messages'[x])
            /\ Len(messages'[x]) <= MaxMessages
            /\ messages'[x] # << >> => rows'[x] # {}
            /\ fetch'[x].at = "back" => fetch'[x].upto <= Len(messages'[x])
       /\ ReadReachesThread'
  <2>1. PICK cc \in Convs : cc = c
    BY <1>1
  <2> HIDE DEF ChatInv, new, c, ms, m
  <2>2. messages[cc] = ms
    BY <2>1 DEF ms
  <2>3. QED
    BY <1>1, <1>3, <1>4, <1>5, <1>6, <1>7, <1>8, <2>1, <2>2, ThreadStep
<1>11. TypeOK'
  <2>1. ASSUME NEW x \in Convs PROVE shown'[x] <= Len(messages'[x])
    <3>1. Len(messages[x]) \in Nat /\ Len(messages'[x]) \in Nat /\ shown[x] \in Nat
      BY <1>10, Typed, LenProperties DEF TypeOK
    <3>2. Len(messages[x]) <= Len(messages'[x]) /\ shown[x] <= Len(messages[x])
      BY <1>10 DEF GoesOn, TypeOK
    <3>3. QED
      BY <1>8, <3>1, <3>2
  <2>2. QED
    BY <1>8, <1>9, <1>10, <2>1 DEF TypeOK
<1>12. StoredIsThere'
  <2>1. ASSUME NEW x \in Slots, sends'[x].at = "stored"
        PROVE  \E i \in DOMAIN messages'[sends'[x].to] :
                  messages'[sends'[x].to][i].text = sends'[x].text
    <3>1. CASE x = s
      <4>1. messages'[c] = new
        BY <1>1, <1>5 DEF TypeOK
      <4>2. Len(ms) + 1 \in DOMAIN new /\ new[Len(ms) + 1].text = sends[s].text
        BY <1>2, <1>3
      <4>3. sends'[x].to = c /\ sends'[x].text = sends[s].text
        BY <1>9, <3>1
      <4> HIDE DEF new, ms, c
      <4>4. QED
        BY <4>1, <4>2, <4>3
    <3>2. CASE x # s
      <4>1. sends'[x] = sends[x] /\ sends[x].at = "stored" /\ sends[x] # NoSend
        BY <1>9, <2>1, <3>2 DEF NoSend
      <4>2. sends[x].to \in Convs
        BY <4>1, SendTyped
      <4>3. PICK i \in DOMAIN messages[sends[x].to] :
               messages[sends[x].to][i].text = sends[x].text
        BY <4>1 DEF StoredIsThere
      <4>4. i \in DOMAIN messages'[sends[x].to]
        BY <1>10, <4>2, <4>3, Typed, LenProperties DEF GoesOn
      <4>5. QED
        BY <1>10, <4>1, <4>2, <4>3, <4>4 DEF GoesOn
    <3>3. QED
      BY <3>1, <3>2
  <2>2. QED
    BY <2>1 DEF StoredIsThere
<1>13. DraftIsSent'
  <2>1. sends[s] # NoSend
    BY DEF Store, NoSend
  <2>2. \A x \in Slots : sends'[x] # NoSend => sends[x] # NoSend
    BY <1>9, <2>1
  <2>3. QED
    BY <1>8, <1>9, <2>2 DEF DraftIsSent
<1>14. PairsOrdered'
  BY <1>8 DEF PairsOrdered, PairOf
<1>15. QED
  BY <1>10, <1>11, <1>12, <1>13, <1>14

\* The sends with one of them ended.
LEMMA Ended ==
    ASSUME TypeOK, NEW s \in Slots, sends' = [sends EXCEPT ![s] = NoSend]
    PROVE  /\ sends' \in [Slots -> {NoSend} \cup [at : {"sent", "stored"}, to : known, text : 1..typed]]
           /\ \A x \in Slots : sends'[x] \in {sends[x], NoSend}
<1>1. \A x \in Slots : sends'[x] = IF x = s THEN NoSend ELSE sends[x]
  BY DEF TypeOK
<1>2. QED
  BY <1>1 DEF TypeOK

\* A step that leaves the threads and the conversations.
LEMMA InputStep ==
    ASSUME ChatInv, UNCHANGED <<rows, start, messages, known, active, thread>>,
           typed' \in 0..MaxTexts, draft' \in [text : 0..typed', over : BOOLEAN],
           sends' \in [Slots -> {NoSend} \cup [at : {"sent", "stored"}, to : known, text : 1..typed']],
           \A s \in Slots : sends'[s].at = "stored" => sends'[s] = sends[s],
           DraftIsSent'
    PROVE  ChatInv'
<1> USE DEF ChatInv
<1>1. TypeOK'
  BY DEF TypeOK, thread
<1>2. PairsOrdered' /\ ReadReachesThread'
  BY DEF PairsOrdered, ReadReachesThread, PairOf, thread
<1>3. StoredIsThere'
  BY DEF StoredIsThere
<1>4. QED
  BY <1>1, <1>2, <1>3

\* A text is refused, or its answer lost.
LEMMA SendFailsStep ==
    ASSUME ChatInv, NEW s \in Slots, SendFails(s)
    PROVE  ChatInv'
<1> USE DEF ChatInv
<1>1. /\ sends' \in [Slots -> {NoSend} \cup [at : {"sent", "stored"}, to : known, text : 1..typed]]
      /\ \A x \in Slots : sends'[x] \in {sends[x], NoSend}
  BY Ended DEF SendFails
<1>2. UNCHANGED <<rows, start, messages, known, active, draft, typed, thread>>
  BY DEF SendFails, opening
<1>3. DraftIsSent'
  BY <1>1, <1>2 DEF DraftIsSent
<1>4. \A x \in Slots : sends'[x].at = "stored" => sends'[x] = sends[x]
  BY <1>1 DEF NoSend
<1>5. typed' \in 0..MaxTexts /\ draft' \in [text : 0..typed', over : BOOLEAN]
  BY <1>2 DEF TypeOK
<1>6. QED
  <2> HIDE DEF ChatInv
  <2>1. QED
    BY <1>1, <1>2, <1>3, <1>4, <1>5, InputStep

\* A text is typed: it has a number of its own.
LEMMA TypeStep ==
    ASSUME ChatInv, Type
    PROVE  ChatInv'
<1> USE DEF ChatInv
<1>1. UNCHANGED <<rows, start, messages, known, active, sends, thread>>
  BY DEF Type, opening
<1>2. typed \in Nat /\ typed' = typed + 1 /\ typed' \in 0..MaxTexts
  BY DEF Type, TypeOK
<1>3. draft' \in [text : 0..typed', over : BOOLEAN]
  BY <1>2 DEF Type
<1>4. sends' \in [Slots -> {NoSend} \cup [at : {"sent", "stored"}, to : known, text : 1..typed']]
  <2>1. 1..typed \subseteq 1..typed'
    BY <1>2
  <2>2. QED
    BY <1>1, <2>1 DEF TypeOK
<1>5. DraftIsSent'
  <2>1. ~draft'.over => \A s \in Slots : sends'[s] = NoSend
    BY <1>1 DEF Type
  <2>2. QED
    BY <2>1 DEF DraftIsSent
<1>6. QED
  <2> HIDE DEF ChatInv
  <2>1. QED
    BY <1>1, <1>2, <1>3, <1>4, <1>5, InputStep

\* The draft is sent to the conversation that is open.
LEMMA SendStep ==
    ASSUME ChatInv, Send
    PROVE  ChatInv'
<1> USE DEF ChatInv
<1>1. UNCHANGED <<rows, start, messages, known, active, draft, typed, thread>>
  BY DEF Send, opening
<1>2. PICK s \in Slots : sends' = [sends EXCEPT ![s] = [at |-> "sent", to |-> active, text |-> draft.text]]
  BY DEF Send
<1> DEFINE new == [at |-> "sent", to |-> active, text |-> draft.text]
<1>3. new \in [at : {"sent", "stored"}, to : known, text : 1..typed]
  <2>1. active \in known /\ draft.text \in 0..typed /\ draft.text # 0 /\ typed \in Nat
    BY DEF Send, TypeOK
  <2>2. QED
    BY <2>1
<1>4. \A x \in Slots : sends'[x] = IF x = s THEN new ELSE sends[x]
  BY <1>2 DEF TypeOK
<1>5. /\ sends' \in [Slots -> {NoSend} \cup [at : {"sent", "stored"}, to : known, text : 1..typed]]
      /\ \A x \in Slots : sends'[x].at = "stored" => sends'[x] = sends[x]
  <2>1. new.at # "stored" /\ new.text = draft.text
    OBVIOUS
  <2>2. sends' = [sends EXCEPT ![s] = new]
    BY <1>2
  <2> HIDE DEF new
  <2>3. QED
    BY <1>3, <1>4, <2>1, <2>2 DEF TypeOK
<1>6. DraftIsSent'
  BY <1>1, <1>4 DEF DraftIsSent
<1>7. typed' \in 0..MaxTexts /\ draft' \in [text : 0..typed', over : BOOLEAN]
  BY <1>1 DEF TypeOK
<1>8. sends' \in [Slots -> {NoSend} \cup [at : {"sent", "stored"}, to : known, text : 1..typed']]
  BY <1>1, <1>5
<1>9. QED
  <2> HIDE DEF ChatInv
  <2>1. QED
    BY <1>1, <1>5, <1>6, <1>7, <1>8, InputStep

\* The answer to a text clears the draft, whatever it says by then.
LEMMA SendDoneStep ==
    ASSUME ChatInv, NEW s \in Slots, SendDone(s)
    PROVE  ChatInv'
<1> USE DEF ChatInv
<1>1. /\ sends' \in [Slots -> {NoSend} \cup [at : {"sent", "stored"}, to : known, text : 1..typed]]
      /\ \A x \in Slots : sends'[x] \in {sends[x], NoSend}
  BY Ended DEF SendDone
<1>2. UNCHANGED <<rows, start, known, active, typed, loaded, shown>> /\ draft' = Blank
  BY DEF SendDone, opening
<1>3. PICK c \in Convs : c = sends[s].to
  <2>1. sends[s] # NoSend
    BY DEF SendDone, NoSend
  <2>2. QED
    BY <2>1, SendTyped
<1>4. Invalidate(c)
  BY <1>3 DEF SendDone
<1>5. CASE UNCHANGED <<fetch, cancelled, messages>>
  <2>1. draft' \in [text : 0..typed', over : BOOLEAN] /\ typed' \in 0..MaxTexts
    BY <1>2 DEF TypeOK, Blank
  <2>2. DraftIsSent'
    BY <1>2 DEF DraftIsSent, Blank
  <2>3. \A x \in Slots : sends'[x].at = "stored" => sends'[x] = sends[x]
    BY <1>1 DEF NoSend
  <2>4. sends' \in [Slots -> {NoSend} \cup [at : {"sent", "stored"}, to : known, text : 1..typed']]
    BY <1>1, <1>2
  <2>5. UNCHANGED <<rows, start, messages, known, active, thread>>
    BY <1>2, <1>5 DEF thread
  <2>6. QED
    <3> HIDE DEF ChatInv
    <3>1. QED
      BY <2>1, <2>2, <2>3, <2>4, <2>5, InputStep
<1>6. CASE ~UNCHANGED <<fetch, cancelled, messages>>
  <2>1. /\ fetch' = [fetch EXCEPT ![c] = Asked]
        /\ cancelled' \in {cancelled, cancelled \cup {c}}
        /\ messages' = [messages EXCEPT ![c] = Lost(messages[c])]
    BY <1>4, <1>6 DEF Invalidate
  <2>2. messages[c] \in Seq(Message) /\ Len(messages[c]) \in Nat /\ Len(messages[c]) <= MaxMessages
    BY Typed DEF TypeOK
  <2>3. /\ GoesOn(messages[c], Lost(messages[c])) /\ Len(Lost(messages[c])) = Len(messages[c])
        /\ Reaches(Lost(messages[c]), Asked)
    <3>1. \A i \in DOMAIN Lost(messages[c]) :
             ~(Lost(messages[c])[i].read /\ Lost(messages[c])[i].fate = "no")
      BY <2>2, LostSeq DEF Lost
    <3>2. QED
      BY <2>2, <3>1, LostSeq, NoneOnTheWay
  <2>4. Asked \in Fetch /\ Asked.at # "back"
    BY DEF Fetch, Asked
  <2>5. /\ shown' \in [Convs -> Nat] /\ \A x \in Convs : shown'[x] <= Len(messages[x])
        /\ loaded' \subseteq Convs /\ cancelled' \subseteq Convs
    BY <1>2, <2>1 DEF TypeOK
  <2>6. QED
    <3> HIDE DEF ChatInv
    <3>1. QED
      BY <1>1, <1>2, <2>1, <2>2, <2>3, <2>4, <2>5, ThreadMove
<1>7. QED
  BY <1>5, <1>6

\* All of them together.
LEMMA NextChat == ChatInv /\ [Next]_vars => ChatInv'
<1> SUFFICES ASSUME ChatInv, [Next]_vars PROVE ChatInv'
    OBVIOUS
<1>1. CASE \E c \in Convs : Serve(c) \/ FailFetch(c) \/ Complete(c) \/ ServeCancelled(c) \/ OtherSends(c)
  BY <1>1, ServeStep, FailStep, CompleteStep, CancelledStep, OtherSendsStep
<1>2. CASE \/ \E c \in Convs : \/ \E side \in Sides : Look(c, side) \/ Insert(c, side)
                               \/ Open(c) \/ Poll(c)
           \/ RefreshList \/ Back
  BY <1>2, PageStep
<1>3. CASE \E s \in Slots : Store(s) \/ SendFails(s) \/ SendDone(s)
  BY <1>3, StoreStep, SendFailsStep, SendDoneStep
<1>4. CASE Type \/ Send
  BY <1>4, TypeStep, SendStep
<1>5. CASE UNCHANGED vars
  BY <1>5 DEF ChatInv, TypeOK, PairsOrdered, ReadReachesThread, StoredIsThere, DraftIsSent,
              PairOf, vars
<1>6. QED
  BY <1>1, <1>2, <1>3, <1>4, <1>5 DEF Next

---------------------------------------------------------------------------
(* The theorems *)

\* The inductive invariant of the chat.
THEOREM ChatCorrect == Spec => []ChatInv
BY InitChat, NextChat, PTL DEF Spec

\* Every variable of the chat keeps its type; a conversation has messages only
\* where its row is there, and no answer lists more than there is.
THEOREM ChatTypes == Spec => []TypeOK
<1>1. ChatInv => TypeOK
  BY DEF ChatInv
<1>2. QED
  BY <1>1, ChatCorrect, PTL

\* A pair has one conversation, whichever of the two opens it, and when both do
\* at once: GetOrCreate orders the pair before it looks and inserts.
THEOREM OneConversationCorrect == Spec => []OneConversation
<1>1. ChatInv => OneConversation
  <2> SUFFICES ASSUME ChatInv, NEW c \in Convs PROVE Cardinality(rows[c]) <= 1
      BY DEF OneConversation
  <2>1. rows[c] = {} \/ rows[c] = {"me"}
    BY DEF ChatInv, PairsOrdered, PairOf
  <2>2. Cardinality({}) = 0 /\ Cardinality({"me"}) = 1
    BY FS_EmptySet, FS_Singleton
  <2>3. QED
    BY <2>1, <2>2
<1>2. QED
  BY <1>1, ChatCorrect, PTL

\* A message that was marked read is on the page or on its way to it, unless
\* its answer was lost or it is past the limit of the listing: MarkRead comes
\* before the listing in Service.Messages.
THEOREM ReadReachesCorrect == Spec => []ReadReachesThread
<1>1. ChatInv => ReadReachesThread
  BY DEF ChatInv
<1>2. QED
  BY <1>1, ChatCorrect, PTL

\* The input is cleared by the answer to a send alone: the text that is lost was
\* typed over a send, or the server has it.
THEOREM ClearedCorrect == Spec => ClearedWasSent
<1> DEFINE Kept == draft.text # 0 /\ draft' = Blank =>
                      \/ draft.over
                      \/ \E c \in Convs : \E i \in DOMAIN messages[c] :
                            messages[c][i].text = draft.text
<1>1. ChatInv /\ [Next]_vars => [Kept]_vars
  <2> SUFFICES ASSUME ChatInv, Next, draft.text # 0, draft' = Blank, ~draft.over
               PROVE  \E c \in Convs : \E i \in DOMAIN messages[c] :
                         messages[c][i].text = draft.text
      BY DEF ClearedWasSent
  <2>1. draft' # draft
    BY DEF Blank
  <2>2. ASSUME NEW s \in Slots, SendDone(s)
        PROVE  \E c \in Convs : \E i \in DOMAIN messages[c] :
                  messages[c][i].text = draft.text
    <3>1. sends[s].at = "stored" /\ sends[s] # NoSend
      BY <2>2 DEF SendDone, NoSend
    <3>2. sends[s].text = draft.text
      BY <3>1 DEF ChatInv, DraftIsSent
    <3>3. sends[s].to \in Convs
      BY <3>1, SendTyped DEF ChatInv
    <3>4. PICK i \in DOMAIN messages[sends[s].to] :
             messages[sends[s].to][i].text = sends[s].text
      BY <3>1 DEF ChatInv, StoredIsThere
    <3>5. QED
      BY <3>2, <3>3, <3>4
  <2>3. ~Type
    <3>1. ASSUME Type PROVE FALSE
      <4>1. draft'.text = typed + 1 /\ typed \in Nat
        BY <3>1 DEF Type, ChatInv, TypeOK
      <4>2. QED
        BY <4>1 DEF Blank
    <3>2. QED
      BY <3>1
  <2>4. \E s \in Slots : SendDone(s)
    <3>1. ASSUME NEW c \in Convs, NEW side \in Sides
          PROVE  ~Look(c, side) /\ ~Insert(c, side)
      BY <2>1 DEF Look, Insert, input
    <3>2. ASSUME NEW c \in Convs
          PROVE  /\ ~Open(c) /\ ~Poll(c) /\ ~Serve(c) /\ ~FailFetch(c) /\ ~Complete(c)
                 /\ ~ServeCancelled(c) /\ ~OtherSends(c)
      BY <2>1 DEF Open, Poll, Serve, FailFetch, Complete, ServeCancelled, OtherSends, input
    <3>3. ~RefreshList /\ ~Back /\ ~Send
      BY <2>1 DEF RefreshList, Back, Send, input
    <3>4. ASSUME NEW s \in Slots PROVE ~Store(s) /\ ~SendFails(s)
      BY <2>1 DEF Store, SendFails
    <3>5. QED
      BY <2>3, <3>1, <3>2, <3>3, <3>4 DEF Next
  <2>5. QED
    BY <2>2, <2>4
<1>2. QED
  BY <1>1, ChatCorrect, PTL DEF Spec, ClearedWasSent

=============================================================================
