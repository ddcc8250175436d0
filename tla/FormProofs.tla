----------------------------- MODULE FormProofs -----------------------------
(***************************************************************************)
(* Proofs about the address of a kost for every hierarchy of places, every *)
(* number of selects and any number of fetches under way.                  *)
(***************************************************************************)
EXTENDS KostForm, TLAPS

USE PlacesAssumption, BoundsAssumption

---------------------------------------------------------------------------
(* The inductive invariant *)

\* A list that is waited for is the one below the place the select shows.
LoadsServeKode ==
    \A d \in Loads : d[1] > 1 /\ loads[d] > 0 => kode[d[1] - 1] \in {d[2], None}

\* What a select that is open offers lies in the place the one above shows.
ListsServeKode ==
    \A l \in 2..Depth :
        kode[l - 1] # None /\ ~loading[l] => list[l] \subseteq Under(l, kode[l - 1])

\* What holds as long as nothing came between.
Clean ==
    /\ Chain(value)
    /\ Chain(stored)
    /\ \A l \in 1..(Depth - 1) : kode[l] \in {value[l], None}
    /\ LoadsServeKode
    /\ ListsServeKode
    /\ save.at = "sent" => Chain(save.sent)

\* The form of a new kost knows one disturbance only, and is sent whole.
NewIsWhole ==
    form = "new" =>
        /\ blame \subseteq {"overlap"}
        /\ stored = Empty \/ Whole(stored)
        /\ save.at = "sent" => Whole(save.sent)

FormInv ==
    /\ TypeOK
    /\ blame = {} => Clean
    /\ NewIsWhole

---------------------------------------------------------------------------
(* Places, levels and loads *)

\* An address is made level by level.
LEMMA AddressMade ==
    ASSUME NEW a, a = [l \in Levels |-> a[l]],
           \A l \in Levels : a[l] \in Places[l] \cup {None}
    PROVE  a \in Address
<1>1. ASSUME NEW l \in Levels PROVE a[l] \in AnyPlace
  <2>1. Places[l] \in {Places[m] : m \in Levels}
    OBVIOUS
  <2>2. Places[l] \subseteq UNION {Places[m] : m \in Levels}
    BY <2>1
  <2>3. a[l] \in Places[l] \cup {None}
    BY <1>1
  <2>4. QED
    BY <2>2, <2>3, Zenon DEF AnyPlace
<1>2. a \in [Levels -> AnyPlace]
  BY <1>1
<1>3. QED
  BY <1>2 DEF Address

\* An address, part by part.
LEMMA AddressIs ==
    ASSUME NEW a \in Address
    PROVE  /\ a = [l \in Levels |-> a[l]] /\ a \in [Levels -> AnyPlace]
           /\ \A l \in Levels : a[l] \in Places[l] \cup {None}
BY DEF Address

\* A fetch under way is one of the first level, or one for a place above.
LEMMA LoadsAre ==
    /\ \A d \in Loads : /\ d[1] \in Levels
                        /\ d[1] > 1 => d[1] \in 2..Depth /\ d[2] \in Places[d[1] - 1]
                        /\ d = <<d[1], d[2]>>
    /\ \A l \in 1..(Depth - 1) : \A p \in Places[l] : <<l + 1, p>> \in Loads
<1>1. ASSUME NEW d \in Loads
      PROVE  /\ d[1] \in Levels
             /\ d[1] > 1 => d[1] \in 2..Depth /\ d[2] \in Places[d[1] - 1]
             /\ d = <<d[1], d[2]>>
  <2>1. d = <<1, None>> \/ \E l \in 2..Depth : d \in {l} \X Places[l - 1]
    BY <1>1 DEF Loads
  <2>2. CASE d = <<1, None>>
    BY <2>2 DEF Levels
  <2>3. ASSUME NEW l \in 2..Depth, NEW p \in Places[l - 1], d = <<l, p>>
        PROVE  d[1] \in Levels /\ d[1] \in 2..Depth /\ d[2] \in Places[d[1] - 1]
    BY <2>3 DEF Levels
  <2>4. QED
    BY <2>1, <2>2, <2>3
<1>2. ASSUME NEW l \in 1..(Depth - 1), NEW p \in Places[l]
      PROVE  <<l + 1, p>> \in Loads
  <2>1. l + 1 \in 2..Depth /\ (l + 1) - 1 = l
    OBVIOUS
  <2>2. <<l + 1, p>> \in {l + 1} \X Places[(l + 1) - 1]
    BY <2>1
  <2>3. QED
    BY <2>1, <2>2 DEF Loads
<1>3. QED
  BY <1>1, <1>2

\* What the service lists lies on its level, and under the place it was asked for.
LEMMA ServedLies ==
    ASSUME NEW d \in Loads
    PROVE  /\ Served(d) \subseteq Places[d[1]]
           /\ d[1] > 1 => Served(d) \subseteq Under(d[1], d[2])
BY LoadsAre DEF Served, Under

\* A fetch more is under way, of the list below p.
LEMMA AskedTyped ==
    ASSUME NEW ls \in [Loads -> 0..MaxLoads], NEW l \in 1..(Depth - 1),
           NEW p \in Places[l] \cup {None}, p # None => ls[<<l + 1, p>>] < MaxLoads
    PROVE  /\ Asked(ls, l + 1, p) \in [Loads -> 0..MaxLoads]
           /\ \A d \in Loads : Asked(ls, l + 1, p)[d] > 0 => ls[d] > 0 \/ (p # None /\ d = <<l + 1, p>>)
<1>1. CASE p = None
  <2>1. Asked(ls, l + 1, p) = ls
    BY <1>1 DEF Asked
  <2>2. QED
    BY <2>1
<1>2. CASE p # None
  <2>1. <<l + 1, p>> \in Loads
    BY <1>2, LoadsAre
  <2>2. Asked(ls, l + 1, p) = [ls EXCEPT ![<<l + 1, p>>] = ls[<<l + 1, p>>] + 1]
    BY <1>2 DEF Asked
  <2>3. ls[<<l + 1, p>>] + 1 \in 0..MaxLoads
    BY <1>2, <2>1
  <2>4. PICK e \in Loads : e = <<l + 1, p>>
    BY <2>1
  <2>5. PICK n \in 0..MaxLoads : n = ls[e] + 1
    BY <2>3, <2>4
  <2>6. Asked(ls, l + 1, p) = [ls EXCEPT ![e] = n]
    BY <2>2, <2>4, <2>5
  <2>7. QED
    BY <1>2, <2>4, <2>6
<1>3. QED
  BY <1>1, <1>2

\* The list below a chosen place is flagged as loading, and no other flag changes.
LEMMA FlaggedTyped ==
    ASSUME NEW ld \in [Levels -> BOOLEAN], NEW l \in 1..(Depth - 1), NEW p
    PROVE  /\ Flagged(ld, l + 1, p) \in [Levels -> BOOLEAN]
           /\ p = None => Flagged(ld, l + 1, p) = ld
           /\ p # None => Flagged(ld, l + 1, p)[l + 1]
           /\ \A m \in Levels : m # l + 1 => Flagged(ld, l + 1, p)[m] = ld[m]
<1>1. l + 1 \in Levels
  BY DEF Levels
<1>2. QED
  BY <1>1 DEF Flagged

\* A choice at a level empties those below it.
LEMMA CutIs ==
    ASSUME NEW a \in Address, NEW l \in Levels, NEW p \in Places[l] \cup {None}
    PROVE  /\ Cut(a, l, p) \in Address
           /\ \A m \in Levels : Cut(a, l, p)[m] = IF m < l THEN a[m] ELSE IF m = l THEN p ELSE None
<1>1. \A m \in Levels : Cut(a, l, p)[m] = IF m < l THEN a[m] ELSE IF m = l THEN p ELSE None
  BY DEF Cut
<1>2. Cut(a, l, p) = [m \in Levels |-> Cut(a, l, p)[m]]
  BY DEF Cut
<1>3. \A m \in Levels : Cut(a, l, p)[m] \in Places[m] \cup {None}
  BY <1>1, AddressIs
<1>4. QED
  BY <1>1, <1>2, <1>3, AddressMade

\* One level of an address is set.
LEMMA SetIs ==
    ASSUME NEW a \in Address, NEW l \in Levels, NEW p \in Places[l] \cup {None}
    PROVE  /\ [a EXCEPT ![l] = p] \in Address
           /\ [a EXCEPT ![l] = p][l] = p
           /\ \A m \in Levels : m # l => [a EXCEPT ![l] = p][m] = a[m]
<1> DEFINE b == [a EXCEPT ![l] = p]
<1>1. b[l] = p /\ \A m \in Levels : m # l => b[m] = a[m]
  BY AddressIs
<1>2. b = [m \in Levels |-> b[m]]
  BY AddressIs
<1>3. \A m \in Levels : b[m] \in Places[m] \cup {None}
  BY <1>1, AddressIs
<1>4. b \in Address
  <2> HIDE DEF b
  <2>1. QED
    BY <1>2, <1>3, AddressMade
<1>5. QED
  BY <1>1, <1>4

\* A chain cut at l and chosen at l within what is above is a chain.
LEMMA CutChain ==
    ASSUME NEW a \in Address, NEW l \in Levels, NEW p \in Places[l] \cup {None},
           Chain(a), l > 1 /\ p # None => a[l - 1] = Parent[p]
    PROVE  Chain(Cut(a, l, p))
<1> DEFINE b == Cut(a, l, p)
<1>1. \A m \in Levels : b[m] = IF m < l THEN a[m] ELSE IF m = l THEN p ELSE None
  BY CutIs
<1> HIDE DEF b
<1>2. ASSUME NEW m \in 2..Depth, b[m] # None
      PROVE  b[m - 1] = Parent[b[m]]
  <2>1. m \in Levels /\ m - 1 \in Levels /\ l \in Levels
    BY DEF Levels
  <2>2. m <= l /\ b[m - 1] = a[m - 1]
    BY <1>1, <1>2, <2>1 DEF Levels
  <2>3. CASE m = l
    BY <1>1, <1>2, <2>1, <2>2, <2>3 DEF Levels
  <2>4. CASE m < l
    BY <1>1, <1>2, <2>1, <2>2, <2>4 DEF Chain
  <2>5. QED
    BY <2>1, <2>2, <2>3, <2>4 DEF Levels
<1>3. QED
  BY <1>2 DEF Chain, b

---------------------------------------------------------------------------
(* The initial state *)

\* The form opens empty, or with what is to be edited.
LEMMA InitForm == Init => FormInv
<1> SUFFICES ASSUME Init PROVE FormInv
    OBVIOUS
<1>1. Empty \in Address /\ Chain(Empty)
  <2>1. /\ Empty = [l \in Levels |-> Empty[l]]
        /\ \A l \in Levels : Empty[l] = None
    BY DEF Empty
  <2>2. Empty \in Address
    BY <2>1, AddressMade
  <2>3. Chain(Empty)
    BY <2>1 DEF Chain, Levels
  <2>4. QED
    BY <2>2, <2>3
<1>2. stored \in Address /\ Chain(stored) /\ (form = "new" => stored = Empty)
  BY <1>1 DEF Init
<1>3. TypeOK
  <2>1. list \in [Levels -> SUBSET AnyPlace] /\ loading \in [Levels -> BOOLEAN]
    BY DEF Init
  <2>2. loads \in [Loads -> 0..MaxLoads]
    BY DEF Init
  <2>3. \A l \in Levels : list[l] \subseteq Places[l]
    BY DEF Init
  <2>4. version \in 0..MaxVersion /\ data \in 0..version
    BY DEF Init
  <2>5. save.at # "sent" /\ blame \subseteq Blames /\ form \in {"new", "edit"}
    BY DEF Init, NoSave
  <2>6. value \in Address /\ kode \in Address
    BY <1>1, <1>2 DEF Init
  <2>7. QED
    BY <1>2, <2>1, <2>2, <2>3, <2>4, <2>5, <2>6 DEF TypeOK
<1>4. kode = Empty /\ value = stored /\ save = NoSave /\ blame = {}
  BY DEF Init
<1>5. \A l \in Levels : kode[l] = None
  BY <1>4 DEF Empty
<1>6. Clean
  <2>1. \A l \in 1..(Depth - 1) : kode[l] \in {value[l], None}
    BY <1>5 DEF Levels
  <2>2. LoadsServeKode
    <3>1. ASSUME NEW d \in Loads, d[1] > 1 PROVE kode[d[1] - 1] = None
      BY <1>5, <3>1, LoadsAre DEF Levels
    <3>2. QED
      BY <3>1 DEF LoadsServeKode
  <2>3. ListsServeKode
    BY <1>5 DEF ListsServeKode, Levels
  <2>4. QED
    BY <1>2, <1>4, <2>1, <2>2, <2>3 DEF Clean, NoSave
<1>7. NewIsWhole
  BY <1>2, <1>4 DEF NewIsWhole, NoSave
<1>8. QED
  BY <1>3, <1>6, <1>7 DEF FormInv

---------------------------------------------------------------------------
(* A list arrives *)

\* What an answer of d leaves, where it resolves no stored name.
LEMMA ArrivePlain ==
    ASSUME FormInv, NEW d \in Loads, NEW places \in {Served(d), {}},
           loads[d] > 0,
           list' = [list EXCEPT ![d[1]] = places],
           loads' = [loads EXCEPT ![d] = @ - 1],
           loading' = [loading EXCEPT ![d[1]] = FALSE],
           UNCHANGED <<kode, blame, form, value, server, data, save>>
    PROVE  FormInv'
<1> USE DEF FormInv
<1>1. d[1] \in Levels /\ places \subseteq Places[d[1]]
  BY LoadsAre, ServedLies
<1>2. \A e \in Loads : loads'[e] > 0 => loads[e] > 0
  BY DEF TypeOK
<1>3. TypeOK'
  <2>1. places \in SUBSET AnyPlace
    BY <1>1 DEF AnyPlace
  <2>2. list' \in [Levels -> SUBSET AnyPlace] /\ \A l \in Levels : list'[l] \subseteq Places[l]
    BY <1>1, <2>1 DEF TypeOK
  <2>3. loads[d] - 1 \in 0..MaxLoads
    BY DEF TypeOK
  <2>4. loads' \in [Loads -> 0..MaxLoads]
    BY <2>3 DEF TypeOK
  <2>5. loading' \in [Levels -> BOOLEAN]
    BY DEF TypeOK
  <2>6. QED
    BY <2>2, <2>4, <2>5 DEF TypeOK, server
<1>4. ASSUME blame' = {} PROVE Clean'
  <2>1. Clean
    BY <1>4
  <2>2. LoadsServeKode'
    BY <1>2, <2>1 DEF LoadsServeKode, Clean
  <2>3. ASSUME NEW l \in 2..Depth, kode[l - 1] # None, ~loading'[l]
        PROVE  list'[l] \subseteq Under(l, kode[l - 1])
    <3>1. CASE l = d[1]
      <4>1. kode[d[1] - 1] = d[2]
        BY <2>1, <2>3, <3>1 DEF Clean, LoadsServeKode
      <4>2. places \subseteq Under(l, d[2])
        BY <3>1, ServedLies
      <4>3. list'[l] = places
        BY <1>1, <3>1 DEF TypeOK
      <4>4. QED
        BY <3>1, <4>1, <4>2, <4>3
    <3>2. CASE l # d[1]
      <4>1. list'[l] = list[l] /\ loading'[l] = loading[l]
        BY <3>2 DEF TypeOK, Levels
      <4>2. QED
        BY <2>1, <2>3, <4>1 DEF Clean, ListsServeKode
    <3>3. QED
      BY <3>1, <3>2
  <2>4. ListsServeKode'
    BY <2>3 DEF ListsServeKode, Under
  <2>5. QED
    BY <2>1, <2>2, <2>4 DEF Clean, Chain, server
<1>5. NewIsWhole'
  BY DEF NewIsWhole, Whole, Empty, server
<1>6. QED
  BY <1>3, <1>4, <1>5

\* Where the answer of d resolves the stored name, the list below is asked for.
LEMMA ArriveResolving ==
    ASSUME FormInv, NEW d \in Loads, NEW places \in {Served(d), {}}, NEW l, l = d[1],
           Resolves(l, places), Arrive(d, places)
    PROVE  FormInv'
<1> USE DEF FormInv
<1> DEFINE v == value[l]
           rest == [loads EXCEPT ![d] = @ - 1]
           done == [loading EXCEPT ![l] = FALSE]
<1>1. l \in 1..(Depth - 1) /\ l \in Levels /\ l + 1 \in Levels /\ places \subseteq Places[l]
  BY LoadsAre, ServedLies DEF Resolves, Levels
<1>2. v \in Places[l] /\ v # None /\ kode[l] = None
  BY <1>1 DEF Resolves, TypeOK, Address
<1>3. /\ loads[d] > 0 /\ list' = [list EXCEPT ![l] = places]
      /\ kode' = [kode EXCEPT ![l] = v]
      /\ loads' = Asked(rest, l + 1, v) /\ loading' = Flagged(done, l + 1, v)
      /\ CanLoad(l + 1, v) /\ blame' = Blamed(l + 1)
      /\ UNCHANGED <<form, value, stored, version, data, save>>
  BY DEF Arrive, server
<1>4. rest \in [Loads -> 0..MaxLoads] /\ done \in [Levels -> BOOLEAN]
  <2>1. loads[d] - 1 \in 0..MaxLoads
    BY <1>3 DEF TypeOK
  <2>2. QED
    BY <2>1 DEF TypeOK
<1>5. \A e \in Loads : rest[e] > 0 => loads[e] > 0
  BY <1>3 DEF TypeOK
<1>6. rest[<<l + 1, v>>] < MaxLoads
  <2>1. <<l + 1, v>> \in Loads /\ <<l + 1, v>> # d
    BY <1>1, <1>2, LoadsAre
  <2>2. rest[<<l + 1, v>>] = loads[<<l + 1, v>>]
    BY <2>1 DEF TypeOK
  <2>3. QED
    BY <1>2, <1>3, <2>2 DEF CanLoad
<1>7. /\ loads' \in [Loads -> 0..MaxLoads]
      /\ \A e \in Loads : loads'[e] > 0 => loads[e] > 0 \/ e = <<l + 1, v>>
  <2> HIDE DEF rest, v
  <2>1. /\ Asked(rest, l + 1, v) \in [Loads -> 0..MaxLoads]
        /\ \A e \in Loads : Asked(rest, l + 1, v)[e] > 0 =>
              rest[e] > 0 \/ (v # None /\ e = <<l + 1, v>>)
    BY <1>1, <1>2, <1>4, <1>6, AskedTyped
  <2>2. QED
    BY <1>3, <1>5, <2>1
<1>8. /\ loading' \in [Levels -> BOOLEAN] /\ loading'[l + 1]
      /\ \A m \in Levels : m # l /\ m # l + 1 => loading'[m] = loading[m]
  <2>1. \A m \in Levels : m # l => done[m] = loading[m]
    BY DEF TypeOK
  <2> HIDE DEF done, v
  <2>2. /\ Flagged(done, l + 1, v) \in [Levels -> BOOLEAN]
        /\ Flagged(done, l + 1, v)[l + 1]
        /\ \A m \in Levels : m # l + 1 => Flagged(done, l + 1, v)[m] = done[m]
    BY <1>1, <1>2, <1>4, FlaggedTyped
  <2>3. QED
    BY <1>1, <1>2, <1>3, <2>1, <2>2
<1>9. kode' \in Address /\ kode'[l] = v /\ \A m \in Levels : m # l => kode'[m] = kode[m]
  <2>1. kode \in Address
    BY DEF TypeOK
  <2>2. PICK q \in Places[l] : q = v
    BY <1>2
  <2>3. kode' = [kode EXCEPT ![l] = q]
    BY <1>3, <2>2
  <2> HIDE DEF v, FormInv
  <2>4. /\ [kode EXCEPT ![l] = q] \in Address /\ [kode EXCEPT ![l] = q][l] = q
        /\ \A m \in Levels : m # l => [kode EXCEPT ![l] = q][m] = kode[m]
    BY <1>1, <2>1, SetIs
  <2>5. QED
    BY <2>2, <2>3, <2>4
<1>10. /\ list' \in [Levels -> SUBSET AnyPlace] /\ \A m \in Levels : list'[m] \subseteq Places[m]
       /\ \A m \in Levels : list'[m] = IF m = l THEN places ELSE list[m]
  <2>1. places \in SUBSET AnyPlace
    BY <1>1 DEF AnyPlace
  <2>2. QED
    BY <1>1, <1>3, <2>1 DEF TypeOK
<1>11. blame \subseteq blame' /\ blame' \subseteq blame \cup {"overlap"}
       /\ (blame' = {} => LoadsOf(l + 1) = {})
  BY <1>3 DEF Blamed
<1> HIDE DEF v
<1>12. TypeOK'
  BY <1>3, <1>7, <1>8, <1>9, <1>10, <1>11 DEF TypeOK, Blames
<1>13. ASSUME blame' = {} PROVE Clean'
  <2>1. Clean /\ LoadsOf(l + 1) = {}
    BY <1>11, <1>13
  <2>2. \A m \in 1..(Depth - 1) : kode'[m] \in {value'[m], None}
    BY <1>3, <1>9, <2>1 DEF Clean, Levels, v
  <2>3. LoadsServeKode'
    <3>1. ASSUME NEW e \in Loads, e[1] > 1, loads'[e] > 0
          PROVE  kode'[e[1] - 1] \in {e[2], None}
      <4>1. e[1] - 1 \in Levels /\ e[1] \in Levels
        BY <3>1, LoadsAre DEF Levels
      <4>2. CASE e = <<l + 1, v>>
        BY <1>1, <1>9, <4>1, <4>2
      <4>3. CASE e # <<l + 1, v>>
        <5>1. loads[e] > 0
          BY <1>7, <3>1, <4>3
        <5>2. e[1] # l + 1
          BY <2>1, <5>1 DEF LoadsOf
        <5>3. kode'[e[1] - 1] = kode[e[1] - 1]
          BY <1>1, <1>9, <4>1, <5>2 DEF Levels
        <5>4. QED
          BY <2>1, <3>1, <5>1, <5>3 DEF Clean, LoadsServeKode
      <4>4. QED
        BY <4>2, <4>3
    <3>2. QED
      BY <3>1 DEF LoadsServeKode
  <2>4. ListsServeKode'
    <3>1. ASSUME NEW m \in 2..Depth, kode'[m - 1] # None, ~loading'[m]
          PROVE  list'[m] \subseteq Under(m, kode'[m - 1])
      <4>1. m \in Levels /\ m - 1 \in Levels /\ m # l + 1 /\ m - 1 # l
        BY <1>1, <1>8, <3>1 DEF Levels
      <4>2. kode'[m - 1] = kode[m - 1]
        BY <1>9, <4>1
      <4>3. CASE m = l
        <5>1. kode[d[1] - 1] = d[2]
          BY <1>3, <2>1, <3>1, <4>2, <4>3 DEF Clean, LoadsServeKode
        <5>2. places \subseteq Under(l, d[2])
          BY <4>3, ServedLies
        <5>3. QED
          BY <1>10, <4>1, <4>2, <4>3, <5>1, <5>2
      <4>4. CASE m # l
        <5>1. loading'[m] = loading[m] /\ list'[m] = list[m]
          BY <1>8, <1>10, <4>1, <4>4
        <5>2. QED
          BY <2>1, <3>1, <4>2, <5>1 DEF Clean, ListsServeKode
      <4>5. QED
        BY <4>3, <4>4
    <3>2. QED
      BY <3>1 DEF ListsServeKode, Under
  <2>5. QED
    BY <1>3, <2>1, <2>2, <2>3, <2>4 DEF Clean, Chain
<1>14. NewIsWhole'
  BY <1>3, <1>11 DEF NewIsWhole, Whole, Empty
<1>15. QED
  BY <1>12, <1>13, <1>14

\* A list arrives, for the parent that was asked for.
LEMMA ArriveStep ==
    ASSUME FormInv, NEW d \in Loads, NEW places \in {Served(d), {}}, Arrive(d, places)
    PROVE  FormInv'
<1>1. CASE Resolves(d[1], places)
  BY <1>1, ArriveResolving
<1>2. CASE ~Resolves(d[1], places)
  <2>1. /\ loads[d] > 0
        /\ list' = [list EXCEPT ![d[1]] = places]
        /\ loads' = [loads EXCEPT ![d] = @ - 1]
        /\ loading' = [loading EXCEPT ![d[1]] = FALSE]
        /\ UNCHANGED <<kode, blame, form, value, server, data, save>>
    BY <1>2 DEF Arrive
  <2>2. QED
    BY <2>1, ArrivePlain
<1>3. QED
  BY <1>1, <1>2

---------------------------------------------------------------------------
(* A place is chosen *)

\* What an open select offers lies below the place chosen above it.
LEMMA OfferLies ==
    ASSUME TypeOK, Clean, NEW l \in Levels, NEW p \in list[l], Enabled(l), l > 1
    PROVE  value[l - 1] = Parent[p]
<1>1. l \in 2..Depth /\ l - 1 \in 1..(Depth - 1)
  BY DEF Levels
<1>2. kode[l - 1] # None /\ ~loading[l]
  BY DEF Enabled
<1>3. p \in Under(l, kode[l - 1])
  BY <1>1, <1>2 DEF Clean, ListsServeKode
<1>4. QED
  BY <1>1, <1>2, <1>3 DEF Clean, Under

\* A part is chosen, or emptied, and the lists below it are asked for.
LEMMA ChooseStep ==
    ASSUME FormInv, NEW l \in 1..(Depth - 1), NEW p \in list[l] \cup {None}, Choose(l, p)
    PROVE  FormInv'
<1> USE DEF FormInv
<1>1. l \in Levels /\ l + 1 \in Levels /\ Depth \in Levels /\ l # Depth
  BY DEF Levels
<1>2. p \in Places[l] \cup {None}
  BY <1>1 DEF TypeOK
<1>3. /\ Enabled(l) /\ CanLoad(l + 1, p)
      /\ value' = Cut(value, l, p)
      /\ kode' = [Cut(kode, l, p) EXCEPT ![Depth] = IF form = "edit" THEN kode[Depth] ELSE None]
      /\ loads' = Asked(loads, l + 1, p)
      /\ loading' = Flagged(loading, l + 1, p)
      /\ list' = IF p = None THEN [list EXCEPT ![l + 1] = {}] ELSE list
      /\ blame' = IF p = None THEN blame ELSE Blamed(l + 1)
      /\ UNCHANGED <<form, stored, version, data, save>>
  BY DEF Choose, server
<1>4. value \in Address /\ kode \in Address /\ loads \in [Loads -> 0..MaxLoads]
      /\ loading \in [Levels -> BOOLEAN]
  BY DEF TypeOK
<1>5. /\ value' \in Address
      /\ \A m \in Levels : value'[m] = IF m < l THEN value[m] ELSE IF m = l THEN p ELSE None
  <2> HIDE DEF FormInv
  <2>1. /\ Cut(value, l, p) \in Address
        /\ \A m \in Levels : Cut(value, l, p)[m] = IF m < l THEN value[m] ELSE IF m = l THEN p ELSE None
    BY <1>1, <1>2, <1>4, CutIs
  <2>2. QED
    BY <1>3, <2>1
<1>6. /\ kode' \in Address
      /\ \A m \in 1..(Depth - 1) : kode'[m] = IF m < l THEN kode[m] ELSE IF m = l THEN p ELSE None
  <2> HIDE DEF FormInv
  <2>1. PICK c \in Address : c = Cut(kode, l, p)
    BY <1>1, <1>2, <1>4, CutIs
  <2>2. \A m \in Levels : c[m] = IF m < l THEN kode[m] ELSE IF m = l THEN p ELSE None
    BY <1>1, <1>2, <1>4, <2>1, CutIs
  <2>3. PICK q \in Places[Depth] \cup {None} : kode' = [c EXCEPT ![Depth] = q]
    <3>1. kode[Depth] \in Places[Depth] \cup {None}
      BY <1>1, <1>4, AddressIs
    <3>2. QED
      BY <1>3, <2>1, <3>1
  <2>4. /\ [c EXCEPT ![Depth] = q] \in Address
        /\ \A m \in Levels : m # Depth => [c EXCEPT ![Depth] = q][m] = c[m]
    BY <1>1, SetIs
  <2>5. \A m \in 1..(Depth - 1) : m \in Levels /\ m # Depth
    BY DEF Levels
  <2>6. QED
    BY <2>2, <2>3, <2>4, <2>5
<1>7. /\ loads' \in [Loads -> 0..MaxLoads]
      /\ \A e \in Loads : loads'[e] > 0 => loads[e] > 0 \/ (p # None /\ e = <<l + 1, p>>)
  <2>1. /\ Asked(loads, l + 1, p) \in [Loads -> 0..MaxLoads]
        /\ \A e \in Loads : Asked(loads, l + 1, p)[e] > 0 =>
              loads[e] > 0 \/ (p # None /\ e = <<l + 1, p>>)
    BY <1>2, <1>3, <1>4, AskedTyped DEF CanLoad
  <2>2. QED
    BY <1>3, <2>1
<1>8. /\ loading' \in [Levels -> BOOLEAN]
      /\ p # None => loading'[l + 1]
      /\ \A m \in Levels : m # l + 1 => loading'[m] = loading[m]
  <2>1. /\ Flagged(loading, l + 1, p) \in [Levels -> BOOLEAN]
        /\ p # None => Flagged(loading, l + 1, p)[l + 1]
        /\ \A m \in Levels : m # l + 1 => Flagged(loading, l + 1, p)[m] = loading[m]
    BY <1>4, FlaggedTyped
  <2>2. QED
    BY <1>3, <2>1
<1>9. /\ list' \in [Levels -> SUBSET AnyPlace] /\ \A m \in Levels : list'[m] \subseteq Places[m]
      /\ \A m \in Levels : m # l + 1 => list'[m] = list[m]
  BY <1>1, <1>3 DEF TypeOK
<1>10. blame \subseteq blame' /\ blame' \subseteq blame \cup {"overlap"}
       /\ (blame' = {} /\ p # None => LoadsOf(l + 1) = {})
  BY <1>3 DEF Blamed
<1>11. TypeOK'
  BY <1>3, <1>5, <1>6, <1>7, <1>8, <1>9, <1>10 DEF TypeOK, Blames
<1>12. ASSUME blame' = {} PROVE Clean'
  <2>1. Clean /\ (p # None => LoadsOf(l + 1) = {})
    BY <1>10, <1>12
  <2>2. Chain(value')
    <3>1. l > 1 /\ p # None => value[l - 1] = Parent[p]
      BY <1>1, <1>3, <2>1, OfferLies
    <3> HIDE DEF FormInv
    <3>2. Chain(Cut(value, l, p))
      BY <1>1, <1>2, <1>4, <2>1, <3>1, CutChain DEF Clean
    <3>3. QED
      BY <1>3, <3>2
  <2>3. \A m \in 1..(Depth - 1) : kode'[m] \in {value'[m], None}
    BY <1>5, <1>6, <2>1 DEF Clean, Levels
  <2>4. LoadsServeKode'
    <3>1. ASSUME NEW e \in Loads, e[1] > 1, loads'[e] > 0
          PROVE  kode'[e[1] - 1] \in {e[2], None}
      <4>1. e[1] - 1 \in 1..(Depth - 1)
        BY <3>1, LoadsAre
      <4>2. CASE e = <<l + 1, p>>
        BY <1>6, <4>1, <4>2
      <4>3. CASE e # <<l + 1, p>>
        <5>1. loads[e] > 0
          BY <1>7, <3>1, <4>3
        <5>2. e[1] - 1 = l => p = None
          <6>1. ASSUME e[1] - 1 = l, p # None PROVE FALSE
            <7>1. e[1] = l + 1
              BY <4>1, <6>1, LoadsAre DEF Levels
            <7>2. QED
              BY <2>1, <5>1, <6>1, <7>1 DEF LoadsOf
          <6>2. QED
            BY <6>1
        <5>3. kode'[e[1] - 1] \in {kode[e[1] - 1], None}
          BY <1>6, <4>1, <5>2
        <5>4. QED
          BY <2>1, <3>1, <5>1, <5>3 DEF Clean, LoadsServeKode
      <4>4. QED
        BY <4>2, <4>3
    <3>2. QED
      BY <3>1 DEF LoadsServeKode
  <2>5. ListsServeKode'
    <3>1. ASSUME NEW m \in 2..Depth, kode'[m - 1] # None, ~loading'[m]
          PROVE  list'[m] \subseteq Under(m, kode'[m - 1])
      <4>1. m \in Levels /\ m - 1 \in 1..(Depth - 1)
        BY DEF Levels
      <4>2. m - 1 <= l
        BY <1>6, <3>1, <4>1
      <4>3. m - 1 # l
        <5>1. ASSUME m - 1 = l PROVE FALSE
          <6>1. m = l + 1 /\ kode'[m - 1] = p
            BY <1>6, <4>1, <5>1
          <6>2. QED
            BY <1>8, <3>1, <6>1
        <5>2. QED
          BY <5>1
      <4>4. m # l + 1 /\ kode'[m - 1] = kode[m - 1]
        BY <1>6, <4>1, <4>2, <4>3
      <4>5. loading'[m] = loading[m] /\ list'[m] = list[m]
        BY <1>8, <1>9, <4>1, <4>4
      <4>6. QED
        BY <2>1, <3>1, <4>4, <4>5 DEF Clean, ListsServeKode
    <3>2. QED
      BY <3>1 DEF ListsServeKode, Under
  <2>6. QED
    BY <1>3, <2>1, <2>2, <2>3, <2>4, <2>5 DEF Clean, Chain
<1>13. NewIsWhole'
  BY <1>3, <1>10 DEF NewIsWhole, Whole, Empty
<1>14. QED
  BY <1>11, <1>12, <1>13

\* The last part is chosen: nothing hangs on it.
LEMMA ChooseVillageStep ==
    ASSUME FormInv, NEW p \in list[Depth] \cup {None}, ChooseVillage(p)
    PROVE  FormInv'
<1> USE DEF FormInv
<1>1. Depth \in Levels
  BY DEF Levels
<1>2. p \in Places[Depth] \cup {None} /\ value \in Address /\ kode \in Address
  BY <1>1 DEF TypeOK
<1>3. Enabled(Depth) /\ value' = [value EXCEPT ![Depth] = p]
      /\ UNCHANGED <<form, list, loading, loads, stored, version, data, save, blame>>
  BY DEF ChooseVillage, server
<1>4. /\ value' \in Address /\ value'[Depth] = p
      /\ \A m \in Levels : m # Depth => value'[m] = value[m]
  <2> HIDE DEF FormInv
  <2>1. /\ [value EXCEPT ![Depth] = p] \in Address /\ [value EXCEPT ![Depth] = p][Depth] = p
        /\ \A m \in Levels : m # Depth => [value EXCEPT ![Depth] = p][m] = value[m]
    BY <1>1, <1>2, SetIs
  <2>2. QED
    BY <1>3, <2>1
<1>5. kode' \in Address /\ \A m \in Levels : m # Depth => kode'[m] = kode[m]
  <2> HIDE DEF FormInv
  <2>1. PICK q \in Places[Depth] \cup {None} : kode' = [kode EXCEPT ![Depth] = q]
    <3>1. kode[Depth] \in Places[Depth] \cup {None}
      BY <1>1, <1>2, AddressIs
    <3>2. QED
      BY <1>2, <3>1 DEF ChooseVillage
  <2>2. /\ [kode EXCEPT ![Depth] = q] \in Address
        /\ \A m \in Levels : m # Depth => [kode EXCEPT ![Depth] = q][m] = kode[m]
    BY <1>1, <1>2, SetIs
  <2>3. QED
    BY <2>1, <2>2
<1>6. TypeOK'
  BY <1>3, <1>4, <1>5 DEF TypeOK
<1>7. \A m \in 1..(Depth - 1) : m \in Levels /\ m # Depth
  BY DEF Levels
<1>8. ASSUME blame' = {} PROVE Clean'
  <2>1. Clean
    BY <1>3, <1>8
  <2>2. Chain(value')
    <3>1. ASSUME NEW m \in 2..Depth, value'[m] # None
          PROVE  value'[m - 1] = Parent[value'[m]]
      <4>1. m \in Levels /\ m - 1 \in Levels /\ m - 1 # Depth
        BY DEF Levels
      <4>2. CASE m = Depth
        <5>1. value[m - 1] = Parent[p]
          BY <1>1, <1>3, <1>4, <2>1, <3>1, <4>2, OfferLies
        <5>2. QED
          BY <1>4, <4>1, <4>2, <5>1
      <4>3. CASE m # Depth
        BY <1>4, <2>1, <3>1, <4>1, <4>3 DEF Clean, Chain
      <4>4. QED
        BY <4>2, <4>3
    <3>2. QED
      BY <3>1 DEF Chain
  <2>3. \A m \in 1..(Depth - 1) : kode'[m] \in {value'[m], None}
    BY <1>4, <1>5, <1>7, <2>1 DEF Clean
  <2>4. LoadsServeKode'
    <3>1. ASSUME NEW e \in Loads, e[1] > 1, loads'[e] > 0
          PROVE  kode'[e[1] - 1] \in {e[2], None}
      <4>1. e[1] - 1 \in 1..(Depth - 1)
        BY <3>1, LoadsAre
      <4>2. QED
        BY <1>3, <1>5, <1>7, <2>1, <3>1, <4>1 DEF Clean, LoadsServeKode
    <3>2. QED
      BY <3>1 DEF LoadsServeKode
  <2>5. ListsServeKode'
    <3>1. ASSUME NEW m \in 2..Depth
          PROVE  kode'[m - 1] = kode[m - 1]
      <4>1. m - 1 \in 1..(Depth - 1)
        OBVIOUS
      <4>2. QED
        BY <1>5, <1>7, <4>1
    <3>2. QED
      BY <1>3, <2>1, <3>1 DEF Clean, ListsServeKode, Under
  <2>6. QED
    BY <1>3, <2>1, <2>2, <2>3, <2>4, <2>5 DEF Clean, Chain
<1>9. NewIsWhole'
  BY <1>3 DEF NewIsWhole, Whole, Empty
<1>10. QED
  BY <1>6, <1>8, <1>9

---------------------------------------------------------------------------
(* Saving, and the changes of others *)

\* The address is sent as it stands.
LEMMA SubmitStep == FormInv /\ Submit => FormInv'
<1> SUFFICES ASSUME FormInv, Submit PROVE FormInv'
    OBVIOUS
<1> USE DEF FormInv
<1>1. /\ save' = [at |-> "sent", sent |-> value] /\ (form = "new" => Whole(value))
      /\ UNCHANGED <<form, value, kode, list, loading, loads, stored, version, data, blame>>
  BY DEF Submit, selects, server
<1>2. TypeOK'
  BY <1>1 DEF TypeOK
<1>3. Clean => Clean'
  BY <1>1 DEF Clean, Chain, LoadsServeKode, ListsServeKode, Under
<1>4. NewIsWhole'
  BY <1>1 DEF NewIsWhole, Whole, Empty
<1>5. QED
  BY <1>1, <1>2, <1>3, <1>4

\* What is stored is what was sent, wherever nothing came between.
LEMMA TakeSaveStep == FormInv /\ TakeSave => FormInv'
<1> SUFFICES ASSUME FormInv, TakeSave PROVE FormInv'
    OBVIOUS
<1> USE DEF FormInv
<1>1. /\ save.at = "sent" /\ version < MaxVersion /\ stored' = Stored(save.sent)
      /\ version' = version + 1 /\ save' = [at |-> "done"]
      /\ blame' = IF Whole(save.sent) \/ Stored(save.sent) = save.sent
                  THEN blame ELSE blame \cup {"partial"}
      /\ UNCHANGED <<form, value, kode, list, loading, loads, data>>
  BY DEF TakeSave, selects
<1>2. save.sent \in Address /\ stored \in Address
  BY <1>1 DEF TypeOK
<1>3. stored' \in Address
  <2>1. \A l \in Levels : Stored(save.sent)[l] \in Places[l] \cup {None}
    BY <1>2, AddressIs DEF Stored
  <2>2. Stored(save.sent) = [l \in Levels |-> Stored(save.sent)[l]]
    BY DEF Stored
  <2>3. QED
    BY <1>1, <2>1, <2>2, AddressMade
<1>4. Whole(save.sent) => Stored(save.sent) = save.sent
  BY <1>2, AddressIs DEF Whole, Stored
<1>5. TypeOK'
  <2>1. version' \in 0..MaxVersion /\ data' \in 0..version'
    BY <1>1 DEF TypeOK
  <2>2. blame' \subseteq Blames
    BY <1>1 DEF TypeOK, Blames
  <2>3. QED
    BY <1>1, <1>3, <2>1, <2>2 DEF TypeOK
<1>6. ASSUME blame' = {} PROVE Clean'
  <2>1. blame = {} /\ stored' = save.sent
    BY <1>1, <1>4, <1>6
  <2>2. Chain(stored')
    BY <1>1, <2>1 DEF Clean
  <2>3. QED
    BY <1>1, <2>1, <2>2 DEF Clean, Chain, LoadsServeKode, ListsServeKode, Under
<1>7. NewIsWhole'
  BY <1>1, <1>4 DEF NewIsWhole, Whole, Empty
<1>8. QED
  BY <1>5, <1>6, <1>7

\* The answer to a save, and somebody else's change of the kost, leave the form
\* as it is.
LEMMA OtherSteps ==
    ASSUME FormInv, EndSave \/ OthersChange \/ UNCHANGED vars
    PROVE  FormInv'
<1> USE DEF FormInv
<1>1. /\ UNCHANGED <<form, value, kode, list, loading, loads, stored, data, blame>>
      /\ save' \in {save, NoSave}
      /\ version' \in {version, version + 1} /\ (version' # version => version < MaxVersion)
  BY DEF EndSave, OthersChange, vars, selects, server
<1>2. TypeOK'
  <2>1. version' \in 0..MaxVersion /\ data' \in 0..version'
    BY <1>1 DEF TypeOK
  <2>2. QED
    BY <1>1, <2>1 DEF TypeOK, NoSave
<1>3. Clean => Clean'
  BY <1>1 DEF Clean, Chain, LoadsServeKode, ListsServeKode, Under, NoSave
<1>4. NewIsWhole'
  BY <1>1 DEF NewIsWhole, Whole, Empty, NoSave
<1>5. QED
  BY <1>1, <1>2, <1>3, <1>4

\* The edit form is filled again with what the server has.
LEMMA RefillStep == FormInv /\ Refill => FormInv'
<1> SUFFICES ASSUME FormInv, Refill PROVE FormInv'
    OBVIOUS
<1> USE DEF FormInv
<1>1. /\ form = "edit" /\ data' = version /\ value' = stored
      /\ kode' = [kode EXCEPT ![Depth] = None]
      /\ blame' = IF \A l \in 1..(Depth - 1) : kode[l] = None \/ kode[l] = stored[l]
                  THEN blame ELSE blame \cup {"refill"}
      /\ UNCHANGED <<form, list, loading, loads, stored, version, save>>
  BY DEF Refill, server
<1>2. Depth \in Levels /\ kode \in Address
  BY DEF Levels, TypeOK
<1>3. kode' \in Address /\ \A m \in Levels : m # Depth => kode'[m] = kode[m]
  <2> HIDE DEF FormInv
  <2>1. /\ [kode EXCEPT ![Depth] = None] \in Address
        /\ \A m \in Levels : m # Depth => [kode EXCEPT ![Depth] = None][m] = kode[m]
    BY <1>2, SetIs
  <2>2. QED
    BY <1>1, <2>1
<1>4. TypeOK'
  <2>1. data' \in 0..version'
    BY <1>1 DEF TypeOK
  <2>2. blame' \subseteq Blames
    BY <1>1 DEF TypeOK, Blames
  <2>3. QED
    BY <1>1, <1>3, <2>1, <2>2 DEF TypeOK
<1>5. \A m \in 1..(Depth - 1) : kode'[m] = kode[m]
  BY <1>3 DEF Levels
<1>6. ASSUME blame' = {} PROVE Clean'
  <2>1. blame = {} /\ Clean
    BY <1>1, <1>6
  <2>2. \A m \in 1..(Depth - 1) : kode'[m] \in {value'[m], None}
    BY <1>1, <1>5, <1>6
  <2>3. LoadsServeKode'
    <3>1. ASSUME NEW e \in Loads, e[1] > 1, loads'[e] > 0
          PROVE  kode'[e[1] - 1] \in {e[2], None}
      <4>1. e[1] - 1 \in 1..(Depth - 1)
        BY <3>1, LoadsAre
      <4>2. QED
        BY <1>1, <1>5, <2>1, <3>1, <4>1 DEF Clean, LoadsServeKode
    <3>2. QED
      BY <3>1 DEF LoadsServeKode
  <2>4. ListsServeKode'
    <3>1. \A m \in 2..Depth : kode'[m - 1] = kode[m - 1]
      BY <1>5
    <3>2. QED
      BY <1>1, <2>1, <3>1 DEF Clean, ListsServeKode, Under
  <2>5. QED
    BY <1>1, <2>1, <2>2, <2>3, <2>4 DEF Clean, Chain
<1>7. NewIsWhole'
  BY <1>1 DEF NewIsWhole, Whole, Empty
<1>8. QED
  BY <1>4, <1>6, <1>7

\* All of them together.
LEMMA NextForm == FormInv /\ [Next]_vars => FormInv'
<1> SUFFICES ASSUME FormInv, [Next]_vars PROVE FormInv'
    OBVIOUS
<1>1. ASSUME NEW d \in Loads, Answer(d) \/ NoAnswer(d) PROVE FormInv'
  BY <1>1, ArriveStep DEF Answer, NoAnswer
<1>2. ASSUME NEW l \in 1..(Depth - 1), NEW p \in list[l] \cup {None}, Choose(l, p) PROVE FormInv'
  BY <1>2, ChooseStep
<1>3. ASSUME NEW p \in list[Depth] \cup {None}, ChooseVillage(p) PROVE FormInv'
  BY <1>3, ChooseVillageStep
<1>4. CASE Submit
  BY <1>4, SubmitStep
<1>5. CASE TakeSave
  BY <1>5, TakeSaveStep
<1>6. CASE Refill
  BY <1>6, RefillStep
<1>7. CASE EndSave \/ OthersChange \/ UNCHANGED vars
  BY <1>7, OtherSteps
<1>8. QED
  BY <1>1, <1>2, <1>3, <1>4, <1>5, <1>6, <1>7 DEF Next

---------------------------------------------------------------------------
(* The theorems *)

\* The inductive invariant of the address form.
THEOREM FormCorrect == Spec => []FormInv
BY InitForm, NextForm, PTL DEF Spec

\* Every variable of the form keeps its type; a select offers places of its own
\* level, and so do the names and the codes.
THEOREM FormTypes == Spec => []TypeOK
<1>1. FormInv => TypeOK
  BY DEF FormInv
<1>2. QED
  BY <1>1, FormCorrect, PTL

\* The address in the form, the one stored and the one the selects show agree
\* and lie in one another, unless one of the three named things came between:
\* WilayahSelect drops what is chosen below, and closes a select while its list
\* loads.
THEOREM AddressCorrect == Spec => []AddressAgrees
<1>1. FormInv => AddressAgrees
  <2> SUFFICES ASSUME FormInv PROVE AddressAgrees
      OBVIOUS
  <2>1. blame = {} => /\ Chain(value) /\ Chain(stored)
                      /\ \A l \in 1..(Depth - 1) : kode[l] \in {value[l], None}
    BY DEF FormInv, Clean
  <2>2. ASSUME form = "new", stored # Empty
        PROVE  Whole(stored) /\ (Chain(stored) \/ "overlap" \in blame)
    <3>1. Whole(stored) /\ (blame = {} \/ "overlap" \in blame)
      BY <2>2 DEF FormInv, NewIsWhole
    <3>2. QED
      BY <2>1, <3>1
  <2>3. QED
    BY <2>1, <2>2 DEF AddressAgrees
<1>2. QED
  BY <1>1, FormCorrect, PTL

=============================================================================
