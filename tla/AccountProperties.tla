-------------------------- MODULE AccountProperties --------------------------
(***************************************************************************)
(* What the accounts keep with requests overlapping (Spec), and what they  *)
(* keep with requests one at a time (SerialSpec) and lose when they do     *)
(* overlap, whatever the documents say.                                    *)
(***************************************************************************)
EXTENDS Accounts

\* The sessions that replaced s in a refresh.
Successors(s) == {n \in Sessions : session[n] # Absent /\ n # s /\ origin[n].from = s}

---------------------------------------------------------------------------
(* Kept whatever overlaps                                                  *)

\* A session that was replaced is never live again beside its successor: the
\* revocation comes first, so a refresh that fails half way logs its user out
\* and does not leave two tokens.
ReplacedClosed == \A s \in Sessions : Successors(s) # {} => ~Live(s)

\* Only a user who once followed a verification link, or whom an admin made,
\* has sessions: no stale Save and no insert after a delete lets one in.
SessionsProved == \A s \in Sessions : IsSession(s) => session[s].user \in proved

\* What the two above rest on.  A session has its origin from the step that
\* makes it, and what it replaces was made before it.
OriginsSound ==
    \A s \in Sessions :
        /\ session[s] = Absent => origin[s].from = s
        /\ session[s] # Absent => session[origin[s].from] # Absent

\* A verified row, in the table or in the hand of a handler that will save it,
\* is that of a user who was proved.
RowsProved == \A u \in Users : IsUser(u) /\ user[u].verified => u \in proved

\* A request that is about to make a session has a proved user, and a refresh
\* past its revocation has a session that is closed for good.
RequestSound(r) ==
    /\ r.op \in {"login", "refresh", "rotate", "renew"} => r.user \in proved
    /\ r.op \in {"refresh", "rotate", "renew"} => session[r.session] # Absent
    /\ r.op = "renew" => ~Live(r.session)
    /\ r.op \in {"save", "update"} /\ r.row.verified => r.user \in proved

RequestsSound == \A h \in Handlers : RequestSound(req[h])

\* The inductive invariant of AccountProofs.
AccountInv ==
    /\ TypeOK
    /\ OriginsSound
    /\ RowsProved
    /\ RequestsSound
    /\ ReplacedClosed
    /\ SessionsProved

---------------------------------------------------------------------------
(* Kept when requests do not overlap                                       *)

\* A login has at most one live session, however often it was refreshed.
OneLivePerLogin ==
    \A s, n \in Sessions : Live(s) /\ Live(n) /\ origin[s].login = origin[n].login => s = n

\* docs/product-foundation.md:408: when a replaced token is used again, every
\* session of the user is revoked, and no refresh in flight brings one back.
ShutStays == \A s \in Sessions : Live(s) => origin[s].login \notin shut

\* What was settled of a user's standing stays: one who proved his address
\* (README.md:50) stays verified through every update of the row, and one an
\* admin deactivated (middleware/auth.go:22-23) inactive until an admin
\* activates him: no update writes back what it did not mean to change.
StandingStays ==
    /\ \A u \in proved : IsUser(u) => user[u].verified
    /\ \A u \in barred : IsUser(u) => ~user[u].active

\* What the three above rest on.  Every session but the first of a login goes
\* back to one that was made before it, and a login that was shut was made.
LoginsSound ==
    \A s \in Sessions :
        /\ session[s] = Absent => origin[s].login = s /\ s \notin shut
        /\ session[s] # Absent => session[origin[s].login] # Absent

\* The sessions of one login are those of one user, so that reuse detection,
\* which revokes by user, shuts a login whole.
LoginOfOne ==
    \A s, n \in Sessions :
        IsSession(s) /\ IsSession(n) /\ origin[s].login = origin[n].login
            => session[s].user = session[n].user

\* Nothing was settled of a user who is not there yet.
StandingOfSome == \A u \in Users : user[u] = Absent => u \notin proved \cup barred

\* What the only request in hand has read is still so: the session of a refresh
\* is live until it is revoked, and its login has none until it is renewed; the
\* row of a save is the row in the table but for what the save is to change.
ReadStillTrue(r) ==
    /\ r.op \in {"refresh", "rotate", "renew"} =>
          IsSession(r.session) /\ session[r.session].user = r.user
    /\ r.op \in {"refresh", "rotate"} => Live(r.session)
    /\ r.op = "renew" =>
          /\ \A s \in Sessions : Live(s) => origin[s].login # origin[r.session].login
          /\ origin[r.session].login \notin shut
    /\ r.op \in {"save", "update"} =>
          IsUser(r.user) /\ r.row.verified = user[r.user].verified
    /\ r.op = "save" => r.row = user[r.user]

\* The inductive invariant of AccountProofs for requests one at a time.
SerialInv ==
    /\ AccountInv
    /\ Alone
    /\ OneLivePerLogin
    /\ ShutStays
    /\ StandingStays
    /\ LoginsSound
    /\ LoginOfOne
    /\ StandingOfSome
    /\ \A h \in Handlers : ReadStillTrue(req[h])

\* What has become of the token of a session.  One that was revoked for its
\* successor is due until the successor is made, or its handler is gone.
Due(s) == \E h \in Handlers : req[h].op = "renew" /\ req[h].session = s

TokenState(s) ==
    IF session[s] = Absent THEN "new"
    ELSE IF Live(s) THEN "open"
    ELSE IF Due(s) THEN "due" ELSE "spent"

Chains == INSTANCE TokenChains WITH
    Tokens <- Sessions,
    state <- [s \in Sessions |-> TokenState(s)],
    chain <- [s \in Sessions |-> origin[s].login]

\* The sessions keep the chains: a token comes from a login or from the one
\* token of its login that is in use, which is taken in first, and a token
\* that was spent is never in use again.
KeepsChains == Chains!Spec

=============================================================================
