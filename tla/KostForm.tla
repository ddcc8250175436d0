------------------------------ MODULE KostForm ------------------------------
(***************************************************************************)
(* The address of a kost: the four dependent selects of WilayahSelect      *)
(* (province, regency, district, village), inside the form of a new kost   *)
(* or the form that edits one.                                             *)
(*                                                                         *)
(* Each select offers the list that the answer of an outside service left  *)
(* there last.  The form holds names, the component holds the codes of its *)
(* own selects; here a place is its name and its code.  The edit form is   *)
(* filled again whenever the query of the kost brings other data.          *)
(*                                                                         *)
(* Left out: the texts of the form, its photos and the postal code, which  *)
(* is typed by hand and depends on no select.                              *)
(***************************************************************************)
EXTENDS Naturals

CONSTANTS
    Depth,     \* the number of selects: four in the code, and all but the last alike
    Places,    \* [1..Depth -> sets of places]: provinces, ..., villages
    Parent,    \* the place of the level above that a place lies in
    MaxLoads,  \* bound: fetches of one level under way
    MaxVersion \* bound: changes of the kost at the server

Levels == 1..Depth
None == "none"

ASSUME PlacesAssumption ==
    /\ Depth \in Nat \ {0}
    /\ DOMAIN Places = Levels
    /\ \A l \in Levels : None \notin Places[l]
    /\ \A l \in 2..Depth : \A p \in Places[l] : Parent[p] \in Places[l - 1]
ASSUME BoundsAssumption == MaxLoads \in Nat \ {0} /\ MaxVersion \in Nat

VARIABLES
    form,     \* "new" or "edit"
    value,    \* the names in the form
    kode,     \* the codes the selects show: provKode, regKode, distKode of the
              \* component, villageKode of the form
    list,     \* what each select offers
    loading,  \* the flags of the lists
    loads,    \* fetches of lists under way: the number, by level and place
    stored,   \* server: the address of the kost
    version,  \* server: the kost changed so often
    data,     \* the version of the kost the page shows
    save,     \* the address in a request under way, or NoSave
    blame     \* history: what may have broken the address

vars == <<form, value, kode, list, loading, loads, stored, version, data, save, blame>>
selects == <<value, kode, list, loading, loads>>
server == <<stored, version>>

AnyPlace == (UNION {Places[l] : l \in Levels}) \cup {None}
Address == {a \in [Levels -> AnyPlace] : \A l \in Levels : a[l] \in Places[l] \cup {None}}
Empty == [l \in Levels |-> None]
NoSave == [at |-> "none"]
Under(l, p) == {q \in Places[l] : Parent[q] = p}
Blames == {"overlap", "refill", "partial"}

\* A list that depends on a place; the provinces depend on none.
Loads == {<<1, None>>} \cup UNION {{l} \X Places[l - 1] : l \in 2..Depth}
LoadsOf(l) == {d \in Loads : d[1] = l /\ loads[d] > 0}

TypeOK ==
    /\ form \in {"new", "edit"}
    /\ value \in Address
    /\ kode \in Address
    /\ list \in [Levels -> SUBSET AnyPlace]
    /\ \A l \in Levels : list[l] \subseteq Places[l]
    /\ loading \in [Levels -> BOOLEAN]
    /\ loads \in [Loads -> 0..MaxLoads]
    /\ stored \in Address
    /\ version \in 0..MaxVersion
    /\ data \in 0..version
    /\ save.at = "sent" => save.sent \in Address
    /\ blame \subseteq Blames

\* An address as the forms make it: what is chosen lies in what is chosen above.
Chain(a) == \A l \in 2..Depth : a[l] # None => a[l - 1] = Parent[a[l]]
Whole(a) == \A l \in Levels : a[l] # None

\* The edit form opens on an address that was stored whole; the component
\* mounts with empty codes and asks for the provinces.
Init ==
    /\ form \in {"new", "edit"}
    /\ stored \in IF form = "new" THEN {Empty} ELSE {a \in Address : Whole(a) /\ Chain(a)}
    /\ value = stored
    /\ kode = Empty
    /\ list = [l \in Levels |-> {}]
    /\ loading = [l \in Levels |-> l = 1]
    /\ loads = [d \in Loads |-> IF d[1] = 1 THEN 1 ELSE 0]
    /\ version = 0
    /\ data = 0
    /\ save = NoSave
    /\ blame = {}

---------------------------------------------------------------------------
(* The lists *)

\* loadRegencies, loadDistricts, loadVillages: nothing is asked for no place.
\* A second fetch of a level does not call the first one back.
\* ls, ld and bl are loads, loading and blame as the step found them.
CanLoad(l, p) == p # None => loads[<<l, p>>] < MaxLoads
Asked(ls, l, p) == IF p = None THEN ls ELSE [ls EXCEPT ![<<l, p>>] = @ + 1]
Flagged(ld, l, p) == IF p = None THEN ld ELSE [ld EXCEPT ![l] = TRUE]
Blamed(l) == IF LoadsOf(l) # {} THEN blame \cup {"overlap"} ELSE blame

\* Edit mode, the effect on a list that has come: the code of the stored name
\* is taken from it and the list below is asked for.
Resolves(l, places) ==
    /\ l < Depth
    /\ value[l] # None
    /\ kode[l] = None
    /\ value[l] \in places

\* Slip: the flag is reset only where the answer is good.
ArriveNoFinally(d, places) ==
    LET l == d[1]
        rest == [loads EXCEPT ![d] = @ - 1]
        done == [loading EXCEPT ![l] = places = {}]
    IN /\ loads[d] > 0
       /\ list' = [list EXCEPT ![l] = places]
       /\ IF Resolves(l, places)
          THEN /\ CanLoad(l + 1, value[l])
               /\ kode' = [kode EXCEPT ![l] = value[l]]
               /\ loads' = Asked(rest, l + 1, value[l])
               /\ loading' = Flagged(done, l + 1, value[l])
               /\ blame' = Blamed(l + 1)
          ELSE /\ loads' = rest
               /\ loading' = done
               /\ UNCHANGED <<kode, blame>>
       /\ UNCHANGED <<form, value, server, data, save>>

\* Whatever arrives last is the list, for whatever place it was asked; the
\* first to arrive resets the flag.
Arrive(d, places) ==
    LET l == d[1]
        rest == [loads EXCEPT ![d] = @ - 1]
        done == [loading EXCEPT ![l] = FALSE]
    IN /\ loads[d] > 0
       /\ list' = [list EXCEPT ![l] = places]
       /\ IF Resolves(l, places)
          THEN /\ CanLoad(l + 1, value[l])
               /\ kode' = [kode EXCEPT ![l] = value[l]]
               /\ loads' = Asked(rest, l + 1, value[l])
               /\ loading' = Flagged(done, l + 1, value[l])
               /\ blame' = Blamed(l + 1)
          ELSE /\ loads' = rest
               /\ loading' = done
               /\ UNCHANGED <<kode, blame>>
       /\ UNCHANGED <<form, value, server, data, save>>

Served(d) == IF d[1] = 1 THEN Places[1] ELSE Under(d[1], d[2])

\* The service answers, or does not: the list is then empty, and is not asked
\* for again.
Answer(d) == Arrive(d, Served(d))
NoAnswer(d) == Arrive(d, {})

---------------------------------------------------------------------------
(* The selects *)

\* A select is disabled while nothing is chosen above it or its list loads.
\* That of the provinces never is.
Enabled(l) == l > 1 => kode[l - 1] # None /\ ~loading[l]

\* What is chosen below is dropped from the names and from the codes.  The
\* edit form keeps a village code that the component clears.
Cut(a, l, p) == [m \in Levels |-> IF m < l THEN a[m] ELSE IF m = l THEN p ELSE None]

\* Slip: the names below are kept.
ChooseKeeping(l, p) ==
    /\ Enabled(l)
    /\ p \in list[l] \cup {None}
    /\ l < Depth
    /\ CanLoad(l + 1, p)
    /\ value' = [value EXCEPT ![l] = p]
    /\ kode' = [Cut(kode, l, p) EXCEPT ![Depth] = IF form = "edit" THEN kode[Depth] ELSE None]
    /\ loads' = Asked(loads, l + 1, p)
    /\ loading' = Flagged(loading, l + 1, p)
    /\ list' = IF p = None THEN [list EXCEPT ![l + 1] = {}] ELSE list
    /\ blame' = IF p = None THEN blame ELSE Blamed(l + 1)
    /\ UNCHANGED <<form, server, data, save>>

\* The first three selects: the list below is asked for, or emptied.
Choose(l, p) ==
    /\ Enabled(l)
    /\ p \in list[l] \cup {None}
    /\ l < Depth
    /\ CanLoad(l + 1, p)
    /\ value' = Cut(value, l, p)
    /\ kode' = [Cut(kode, l, p) EXCEPT ![Depth] = IF form = "edit" THEN kode[Depth] ELSE None]
    /\ loads' = Asked(loads, l + 1, p)
    /\ loading' = Flagged(loading, l + 1, p)
    /\ list' = IF p = None THEN [list EXCEPT ![l + 1] = {}] ELSE list
    /\ blame' = IF p = None THEN blame ELSE Blamed(l + 1)
    /\ UNCHANGED <<form, server, data, save>>

ChooseVillage(p) ==
    /\ Enabled(Depth)
    /\ p \in list[Depth] \cup {None}
    /\ value' = [value EXCEPT ![Depth] = p]
    /\ kode' = [kode EXCEPT ![Depth] = IF p = None /\ form = "edit" THEN kode[Depth] ELSE p]
    /\ UNCHANGED <<form, list, loading, loads, server, data, save, blame>>

---------------------------------------------------------------------------
(* Saving *)

\* A new kost is submitted whole; the edit form whatever it holds.
Submit ==
    /\ save = NoSave
    /\ form = "new" => Whole(value)
    /\ save' = [at |-> "sent", sent |-> value]
    /\ UNCHANGED <<form, selects, server, data, blame>>

\* A name that is not sent is not changed.
Stored(a) == [l \in Levels |-> IF a[l] = None THEN stored[l] ELSE a[l]]

\* The server takes it.  A new kost: the page is left for the list of kosts.
TakeSave ==
    /\ save.at = "sent"
    /\ version < MaxVersion
    /\ stored' = Stored(save.sent)
    /\ version' = version + 1
    /\ blame' = IF Whole(save.sent) \/ Stored(save.sent) = save.sent
                THEN blame ELSE blame \cup {"partial"}
    /\ save' = [at |-> "done"]
    /\ UNCHANGED <<form, selects, data>>

\* The answer, or an error: the button is released.
EndSave ==
    /\ save # NoSave
    /\ form = "new" => save.at = "sent"
    /\ save' = NoSave
    /\ UNCHANGED <<form, selects, server, data, blame>>

\* Someone else changes the kost, its status, its name or its description,
\* not its address.
OthersChange ==
    /\ form = "edit"
    /\ version < MaxVersion
    /\ version' = version + 1
    /\ UNCHANGED <<form, selects, stored, data, save, blame>>

\* The query of the kost is repeated (focus, invalidation): other data fills
\* the form, the component keeps its codes and lists.
Refill ==
    /\ form = "edit"
    /\ data < version
    /\ data' = version
    /\ value' = stored
    /\ kode' = [kode EXCEPT ![Depth] = None]
    /\ blame' = IF \A l \in 1..(Depth - 1) : kode[l] = None \/ kode[l] = stored[l]
                THEN blame ELSE blame \cup {"refill"}
    /\ UNCHANGED <<form, list, loading, loads, server, save>>

---------------------------------------------------------------------------
Next ==
    \/ \E d \in Loads : Answer(d) \/ NoAnswer(d)
    \/ \E l \in 1..(Depth - 1) : \E p \in list[l] \cup {None} : Choose(l, p)
    \/ \E p \in list[Depth] \cup {None} : ChooseVillage(p)
    \/ Submit
    \/ TakeSave
    \/ EndSave
    \/ OthersChange
    \/ Refill

\* Every fetch ends, with an answer or without.
Fairness == \A d \in Loads : WF_vars(Answer(d) \/ NoAnswer(d))
Spec == Init /\ [][Next]_vars /\ Fairness

---------------------------------------------------------------------------
(* Properties *)

\* The address in the form, the one at the server and the one the selects
\* show are chains, and agree, unless one of three things came between: two
\* lists of one level were under way at once (the later answer wins, for
\* whichever place it is), the form was filled again over other choices, or
\* the edit form was saved with a level missing (the server keeps the old).
\* A new kost knows only the first of them, and its address is whole.
AddressAgrees ==
    /\ blame = {} => /\ Chain(value)
                     /\ Chain(stored)
                     /\ \A l \in 1..(Depth - 1) : kode[l] \in {value[l], None}
    /\ form = "new" /\ stored # Empty => Whole(stored) /\ (Chain(stored) \/ "overlap" \in blame)

\* No select waits for its list for ever, however the answers overlap.
SelectsReopen == \A l \in Levels : loading[l] ~> ~loading[l]

=============================================================================
