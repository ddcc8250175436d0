---------------------------- MODULE AccountProofs ----------------------------
(***************************************************************************)
(* Proofs about the accounts for every set of users, sessions, tokens and  *)
(* handlers.                                                               *)
(***************************************************************************)
EXTENDS AccountProperties, TLAPS

(* No row of one table is a missing one. *)
LEMMA RowsDistinct ==
    /\ Absent # Gone
    /\ \A r \in UserRow : r # Absent /\ r # Gone
    /\ \A r \in SessionRow : r # Absent /\ r # Gone
    /\ \A r \in TokenRow : r # Absent /\ r # Gone
<1>1. Absent # Gone
  BY DEF Absent, Gone
<1>2. \A r \in UserRow : r # Absent /\ r # Gone
  BY DEF UserRow, Absent, Gone
<1>3. \A r \in SessionRow : r # Absent /\ r # Gone
  BY DEF SessionRow, Absent, Gone
<1>4. \A r \in TokenRow : r # Absent /\ r # Gone
  BY DEF TokenRow, Absent, Gone
<1>5. QED
  BY <1>1, <1>2, <1>3, <1>4

LEMMA InitInv == Init => AccountInv
<1> SUFFICES ASSUME Init PROVE AccountInv
    OBVIOUS
<1>1. TypeOK
  BY DEF Init, TypeOK
<1>2. OriginsSound /\ SessionsProved /\ ReplacedClosed
  BY RowsDistinct DEF Init, OriginsSound, SessionsProved, ReplacedClosed, Successors, IsSession
<1>3. RowsProved
  BY RowsDistinct DEF Init, RowsProved, IsUser
<1>4. RequestsSound
  BY DEF Init, RequestsSound, RequestSound, Idle
<1>5. QED
  BY <1>1, <1>2, <1>3, <1>4 DEF AccountInv

---------------------------------------------------------------------------
(* Frames *)

\* The sessions as they may change without a new one: deleted, revoked or late.
SessionsAge ==
    /\ \A s \in Sessions :
          \/ session'[s] = session[s]
          \/ IsSession(s) /\ session'[s] = Gone
          \/ IsSession(s) /\ session'[s] = [session[s] EXCEPT !.revoked = TRUE]
          \/ IsSession(s) /\ session'[s] = [session[s] EXCEPT !.late = TRUE]
    /\ origin' = origin
    /\ proved \subseteq proved'

LEMMA AgeSession ==
    ASSUME TypeOK, SessionsAge, NEW s \in Sessions
    PROVE  /\ session'[s] # Absent <=> session[s] # Absent
           /\ IsSession(s)' => IsSession(s) /\ session'[s].user = session[s].user
           /\ Live(s)' => Live(s)
<1>1. session[s] \in SessionRow \cup {Absent, Gone}
  BY DEF TypeOK
<1>2. CASE session'[s] = session[s]
  BY <1>2 DEF IsSession, Live
<1>3. CASE IsSession(s) /\ session'[s] = Gone
  BY <1>3, RowsDistinct DEF IsSession, Live
<1>4. ASSUME IsSession(s),
             \/ session'[s] = [session[s] EXCEPT !.revoked = TRUE]
             \/ session'[s] = [session[s] EXCEPT !.late = TRUE]
      PROVE  /\ session'[s] \in SessionRow
             /\ session'[s].user = session[s].user
             /\ session'[s].revoked \in {session[s].revoked, TRUE}
  BY <1>4 DEF IsSession, SessionRow
<1>5. QED
  BY <1>1, <1>2, <1>3, <1>4, RowsDistinct DEF SessionsAge, IsSession, Live

LEMMA AgeInv ==
    ASSUME AccountInv, SessionsAge
    PROVE  /\ OriginsSound' /\ ReplacedClosed' /\ SessionsProved'
           /\ \A r \in Request \cup {Idle} : RequestSound(r) => RequestSound(r)'
<1> USE DEF AccountInv
<1>1. OriginsSound'
  BY AgeSession DEF OriginsSound, SessionsAge, TypeOK
<1>2. ReplacedClosed'
  BY AgeSession DEF ReplacedClosed, Successors, SessionsAge
<1>3. SessionsProved'
  BY AgeSession DEF SessionsProved, SessionsAge
<1>4. ASSUME NEW r \in Request \cup {Idle}, RequestSound(r)
      PROVE  RequestSound(r)'
  <2>1. r.op \in {"refresh", "rotate", "renew"} => r.session \in Sessions
    BY DEF Request, Idle
  <2>2. QED
    BY <1>4, <2>1, AgeSession DEF RequestSound, SessionsAge
<1>5. QED
  BY <1>1, <1>2, <1>3, <1>4

\* A new session s of u that replaces p, which is s itself after a login.
LEMMA NewInv ==
    ASSUME AccountInv, NEW s \in Sessions, NEW u \in Users, NEW p \in Sessions,
           CreateSession(s, u), u \in proved, proved' = proved,
           \A n \in Sessions \ {s} : origin'[n] = origin[n],
           origin'[s].from = p,
           p # s => session[p] # Absent /\ ~Live(p)
    PROVE  /\ OriginsSound' /\ ReplacedClosed' /\ SessionsProved'
           /\ \A r \in Request \cup {Idle} : RequestSound(r) => RequestSound(r)'
<1> USE DEF AccountInv
<1>1. /\ session[s] = Absent
      /\ session'[s] = [user |-> u, revoked |-> FALSE, late |-> FALSE]
      /\ session'[s] \in SessionRow
      /\ session'[s] # Absent
      /\ \A n \in Sessions \ {s} : session'[n] = session[n]
  BY RowsDistinct DEF CreateSession, TypeOK, SessionRow
<1>2. OriginsSound'
  BY <1>1 DEF OriginsSound, TypeOK
<1>3. SessionsProved'
  BY <1>1 DEF SessionsProved, IsSession
<1>4. ASSUME NEW x \in Sessions, Successors(x)' # {}
      PROVE  ~Live(x)'
  <2>1. PICK n \in Sessions : session'[n] # Absent /\ n # x /\ origin'[n].from = x
    BY <1>4 DEF Successors
  <2>2. CASE n = s
    BY <1>1, <2>1, <2>2 DEF Live, IsSession
  <2>3. CASE n # s
    <3>1. n \in Successors(x) /\ session[x] # Absent
      BY <1>1, <2>1, <2>3 DEF Successors, OriginsSound
    <3>2. QED
      BY <1>1, <3>1 DEF ReplacedClosed, Live, IsSession
  <2>4. QED
    BY <2>2, <2>3
<1>5. ReplacedClosed'
  BY <1>4 DEF ReplacedClosed
<1>6. ASSUME NEW r \in Request \cup {Idle}, RequestSound(r)
      PROVE  RequestSound(r)'
  <2>1. r.op \in {"refresh", "rotate", "renew"} => r.session \in Sessions
    BY DEF Request, Idle
  <2>2. QED
    BY <1>1, <1>6, <2>1 DEF RequestSound, Live, IsSession
<1>7. QED
  BY <1>2, <1>3, <1>5, <1>6

\* The requests, when handler h now has r in hand.
LEMMA HandInv ==
    ASSUME AccountInv, NEW h \in Handlers, NEW r \in Request \cup {Idle},
           req' = [req EXCEPT ![h] = r], RequestSound(r)',
           \A x \in Request \cup {Idle} : RequestSound(x) => RequestSound(x)'
    PROVE  RequestsSound'
BY DEF AccountInv, TypeOK, RequestsSound, RequestSound, Live, IsSession

\* A step of a handler that writes no table.
LEMMA ReadInv ==
    ASSUME AccountInv, NEW h \in Handlers, NEW r \in Request \cup {Idle},
           req' = [req EXCEPT ![h] = r], RequestSound(r), UNCHANGED <<tables, history>>
    PROVE  AccountInv'
<1> USE DEF AccountInv, tables, history
<1>1. TypeOK'
  BY DEF TypeOK
<1>2. SessionsAge
  BY DEF SessionsAge
<1>3. RowsProved'
  BY DEF RowsProved, IsUser
<1>4. RequestsSound'
  BY <1>2, AgeInv, HandInv
<1>5. QED
  BY <1>1, <1>2, <1>3, <1>4, AgeInv

---------------------------------------------------------------------------
(* The actions *)

LEMMA ReadersInv ==
    ASSUME AccountInv, NEW h \in Handlers,
           \/ \E u \in Users : ResendVerification(h, u) \/ CheckLogin(h, u) \/ CheckDelete(h, u)
                              \/ RequireAuth(h, u) \/ UpdateRole(h, u)
           \/ \E u \in Users, active \in BOOLEAN : UpdateActive(h, u, active)
           \/ \E k \in Tokens : CheckVerify(h, k)
           \/ \E s \in Sessions : FindSession(h, s) \/ FindRevoked(h, s) \/ Logout(h, s)
           \/ LoadUser(h)
           \/ UpdateProfile(h)
           \/ Abort(h)
    PROVE  AccountInv'
<1> USE DEF AccountInv
<1>1. ASSUME NEW u \in Users,
             ResendVerification(h, u) \/ CheckLogin(h, u) \/ CheckDelete(h, u) \/ RequireAuth(h, u)
      PROVE  AccountInv'
  <2>1. PICK op \in {"issue", "login", "delete", "profile"} :
           /\ req' = [req EXCEPT ![h] = [op |-> op, user |-> u]]
           /\ op = "login" => u \in proved
           /\ UNCHANGED <<tables, history>>
    BY <1>1 DEF ResendVerification, CheckLogin, CheckDelete, RequireAuth, Take, RowsProved
  <2>2. [op |-> op, user |-> u] \in Request /\ RequestSound([op |-> op, user |-> u])
    BY <2>1 DEF Request, RequestSound
  <2>3. QED
    BY <2>1, <2>2, ReadInv
<1>2. ASSUME NEW u \in Users, NEW active \in BOOLEAN, UpdateRole(h, u) \/ UpdateActive(h, u, active)
      PROVE  AccountInv'
  <2>1. PICK op \in {"save", "update"}, row \in UserRow :
           /\ req' = [req EXCEPT ![h] = [op |-> op, user |-> u, row |-> row]]
           /\ row.verified => u \in proved
           /\ UNCHANGED <<tables, history>>
    BY <1>2 DEF UpdateRole, UpdateActive, Take, RowsProved, IsUser, UserRow
  <2>2. [op |-> op, user |-> u, row |-> row] \in Request
    BY <2>1 DEF Request
  <2>3. RequestSound([op |-> op, user |-> u, row |-> row])
    BY <2>1 DEF RequestSound
  <2>4. QED
    BY <2>1, <2>2, <2>3, ReadInv
<1>3. ASSUME NEW k \in Tokens, CheckVerify(h, k)
      PROVE  AccountInv'
  <2> DEFINE r == [op |-> "verify", user |-> token[k].user, token |-> k]
  <2>1. r \in Request /\ RequestSound(r)
    BY <1>3 DEF CheckVerify, IsToken, TokenRow, Request, RequestSound
  <2>2. QED
    BY <1>3, <2>1, ReadInv DEF CheckVerify, Take
<1>4. ASSUME NEW s \in Sessions, FindSession(h, s) \/ Logout(h, s)
      PROVE  AccountInv'
  <2>1. PICK op \in {"close", "refresh"} :
           /\ req' = [req EXCEPT ![h] = [op |-> op, user |-> session[s].user, session |-> s]]
           /\ UNCHANGED <<tables, history>>
    BY <1>4 DEF FindSession, Logout, Take
  <2>2. session[s] # Absent /\ session[s].user \in Users /\ session[s].user \in proved
    BY <1>4, RowsDistinct DEF FindSession, Logout, Live, IsSession, SessionRow, SessionsProved
  <2>3. [op |-> op, user |-> session[s].user, session |-> s] \in Request
    BY <2>2 DEF Request
  <2>4. RequestSound([op |-> op, user |-> session[s].user, session |-> s])
    BY <2>2 DEF RequestSound
  <2>5. QED
    BY <2>1, <2>3, <2>4, ReadInv
<1>5. ASSUME NEW s \in Sessions, FindRevoked(h, s)
      PROVE  AccountInv'
  <2> DEFINE r == [op |-> "closeAll", user |-> session[s].user]
  <2>1. r \in Request /\ RequestSound(r)
    BY <1>5 DEF FindRevoked, IsSession, SessionRow, Request, RequestSound
  <2>2. QED
    BY <1>5, <2>1, ReadInv DEF FindRevoked, Take
<1>6. CASE LoadUser(h)
  <2> DEFINE r == [req[h] EXCEPT !.op = "rotate"]
  <2>1. /\ req[h] \in Request /\ req[h].op = "refresh"
        /\ req[h] = [op |-> "refresh", user |-> req[h].user, session |-> req[h].session]
        /\ req[h].user \in Users /\ req[h].session \in Sessions
    BY <1>6 DEF LoadUser, TypeOK, Idle, Request
  <2>2. r = [op |-> "rotate", user |-> req[h].user, session |-> req[h].session]
    BY <2>1
  <2>3. r \in Request
    BY <2>1, <2>2 DEF Request
  <2>4. RequestSound(r)
    BY <2>1, <2>2 DEF RequestsSound, RequestSound
  <2>5. QED
    BY <1>6, <2>3, <2>4, ReadInv DEF LoadUser, GoOn
<1>7. CASE UpdateProfile(h)
  <2>1. req[h].user \in Users /\ user[req[h].user] \in UserRow
    BY <1>7 DEF UpdateProfile, TypeOK, Idle, Request, IsUser
  <2> DEFINE r == [op |-> "save", user |-> req[h].user, row |-> user[req[h].user]]
  <2>2. r \in Request
    BY <2>1 DEF Request
  <2>3. RequestSound(r)
    BY <2>1 DEF RequestSound, RowsProved, IsUser
  <2>4. QED
    BY <1>7, <2>2, <2>3, ReadInv DEF UpdateProfile, GoOn
<1>8. CASE Abort(h)
  <2>1. RequestSound(Idle)
    BY DEF RequestSound, Idle
  <2>2. QED
    BY <1>8, <2>1, ReadInv DEF Abort, Done
<1>9. QED
  BY <1>1, <1>2, <1>3, <1>4, <1>5, <1>6, <1>7, <1>8

\* What is left of a step that makes no session once its handler's next
\* request, the users and the types are dealt with.
LEMMA WriteInv ==
    ASSUME AccountInv, TypeOK', SessionsAge, RowsProved',
           NEW h \in Handlers, NEW r \in Request \cup {Idle},
           req' = [req EXCEPT ![h] = r], RequestSound(r)'
    PROVE  AccountInv'
BY AgeInv, HandInv DEF AccountInv

LEMMA IdleSound == RequestSound(Idle) /\ RequestSound(Idle)'
BY DEF RequestSound, Idle

LEMMA MailInv ==
    ASSUME AccountInv, NEW h \in Handlers, MailStep(h)
    PROVE  AccountInv'
<1> USE DEF AccountInv
<1>1. ASSUME NEW u \in Users, Register(h, u)
      PROVE  AccountInv'
  <2> DEFINE r == [op |-> "issue", user |-> u]
  <2>1. r \in Request /\ RequestSound(r)'
    BY DEF Request, RequestSound
  <2>2. TypeOK'
    BY <1>1, <2>1 DEF Register, Take, TypeOK, UserRow, history
  <2>3. SessionsAge
    BY <1>1 DEF Register, Take, SessionsAge, history
  <2>4. RowsProved'
    BY <1>1 DEF Register, Take, RowsProved, IsUser, TypeOK, history
  <2>5. QED
    BY <1>1, <2>1, <2>2, <2>3, <2>4, WriteInv DEF Register, Take
<1>2. ASSUME NEW k \in Tokens, createVerificationToken(h, k)
      PROVE  AccountInv'
  <2>1. req[h].user \in Users
    BY <1>2 DEF createVerificationToken, TypeOK, Idle, Request
  <2>2. TypeOK'
    BY <1>2, <2>1 DEF createVerificationToken, Done, TypeOK, TokenRow, history
  <2>3. SessionsAge
    BY <1>2 DEF createVerificationToken, SessionsAge, history
  <2>4. RowsProved'
    BY <1>2 DEF createVerificationToken, RowsProved, IsUser, history
  <2>5. QED
    BY <1>2, <2>2, <2>3, <2>4, WriteInv, IdleSound DEF createVerificationToken, Done
<1>3. CASE CommitVerify(h)
  <2>1. req[h].user \in Users /\ req[h].token \in Tokens
    BY <1>3 DEF CommitVerify, TypeOK, Idle, Request
  <2>2. TypeOK'
    <3>1. user' \in [Users -> UserRow \cup {Absent, Gone}]
      BY <1>3, <2>1 DEF CommitVerify, TypeOK, IsUser, UserRow
    <3>2. token' \in [Tokens -> TokenRow \cup {Absent, Gone}]
      BY <1>3, <2>1 DEF CommitVerify, TypeOK, IsToken, TokenRow
    <3>3. QED
      BY <1>3, <2>1, <3>1, <3>2 DEF CommitVerify, Done, TypeOK
  <2>3. SessionsAge
    BY <1>3 DEF CommitVerify, SessionsAge
  <2>4. RowsProved'
    BY <1>3, <2>1 DEF CommitVerify, RowsProved, IsUser, TypeOK
  <2>5. QED
    BY <1>3, <2>2, <2>3, <2>4, WriteInv, IdleSound DEF CommitVerify, Done
<1>4. QED
  BY <1>1, <1>2, <1>3, ReadersInv DEF MailStep

LEMMA SessionInv ==
    ASSUME AccountInv, NEW h \in Handlers, SessionStep(h)
    PROVE  AccountInv'
<1> USE DEF AccountInv
<1>1. ASSUME NEW s \in Sessions, CommitLogin(h, s)
      PROVE  AccountInv'
  <2> DEFINE u == req[h].user
  <2>1. u \in Users /\ u \in proved
    BY <1>1 DEF CommitLogin, TypeOK, Idle, Request, RequestsSound, RequestSound
  <2>2. CreateSession(s, u) /\ origin' = origin /\ proved' = proved /\ origin[s].from = s
    BY <1>1 DEF CommitLogin, CreateSession, history, OriginsSound
  <2>3. TypeOK'
    BY <1>1, <2>1 DEF CommitLogin, CreateSession, Done, TypeOK, SessionRow, history
  <2>4. RowsProved'
    BY <1>1 DEF CommitLogin, RowsProved, IsUser, history
  <2>5. /\ OriginsSound' /\ ReplacedClosed' /\ SessionsProved'
        /\ \A r \in Request \cup {Idle} : RequestSound(r) => RequestSound(r)'
    BY <2>1, <2>2, NewInv
  <2>6. QED
    BY <1>1, <2>3, <2>4, <2>5, HandInv, IdleSound DEF CommitLogin, Done
<1>2. ASSUME NEW s \in Sessions, Renew(h, s)
      PROVE  AccountInv'
  <2> DEFINE u == req[h].user
             p == req[h].session
  <2>1. u \in Users /\ p \in Sessions /\ u \in proved /\ session[p] # Absent /\ ~Live(p)
    BY <1>2 DEF Renew, TypeOK, Idle, Request, RequestsSound, RequestSound
  <2>2. CreateSession(s, u) /\ proved' = proved
    BY <1>2 DEF Renew
  <2>3. origin'[s].from = p /\ \A n \in Sessions \ {s} : origin'[n] = origin[n]
    BY <1>2 DEF Renew, TypeOK
  <2>4. TypeOK'
    BY <1>2, <2>1 DEF Renew, CreateSession, Done, TypeOK, SessionRow
  <2>5. RowsProved'
    BY <1>2 DEF Renew, RowsProved, IsUser
  <2>6. /\ OriginsSound' /\ ReplacedClosed' /\ SessionsProved'
        /\ \A r \in Request \cup {Idle} : RequestSound(r) => RequestSound(r)'
    BY <2>1, <2>2, <2>3, NewInv
  <2>7. QED
    BY <1>2, <2>4, <2>5, <2>6, HandInv, IdleSound DEF Renew, Done
<1>3. CASE Rotate(h)
  <2>1. PICK u \in Users, p \in Sessions :
           req[h] = [op |-> "rotate", user |-> u, session |-> p]
    BY <1>3 DEF Rotate, TypeOK, Idle, Request
  <2>2. PICK r \in Request : r = [op |-> "renew", user |-> u, session |-> p]
    BY DEF Request
  <2>3. /\ session[p] # Absent /\ u \in proved
        /\ session' = IF IsSession(p) THEN [session EXCEPT ![p].revoked = TRUE] ELSE session
        /\ req' = [req EXCEPT ![h] = r]
        /\ UNCHANGED <<user, token, access, origin, proved, barred, shut>>
    <3>1. session[p] # Absent /\ u \in proved
      BY <2>1 DEF RequestsSound, RequestSound
    <3>2. [req[h] EXCEPT !.op = "renew"] = r
      BY <2>1, <2>2
    <3>3. req[h].session = p
      BY <2>1
    <3>4. session' = IF IsSession(p) THEN [session EXCEPT ![p].revoked = TRUE] ELSE session
      BY <1>3, <3>3, Zenon DEF Rotate, RevokeSession
    <3>5. req' = [req EXCEPT ![h] = r]
      BY <1>3, <3>2, Zenon DEF Rotate, GoOn
    <3>6. UNCHANGED <<user, token, access, origin, proved, barred, shut>>
      BY <1>3 DEF Rotate, history
    <3>7. QED
      BY <3>1, <3>4, <3>5, <3>6
  <2>4. SessionsAge
    BY <2>3 DEF SessionsAge, TypeOK
  <2>5. ~Live(p)'
    <3>1. CASE IsSession(p)
      <4>1. session'[p] = [session[p] EXCEPT !.revoked = TRUE]
        BY <2>3, <3>1 DEF TypeOK
      <4>2. session'[p].revoked
        BY <3>1, <4>1 DEF IsSession, SessionRow
      <4>3. QED
        BY <4>2 DEF Live
    <3>2. CASE ~IsSession(p)
      BY <2>3, <3>2 DEF Live, IsSession
    <3>3. QED
      BY <3>1, <3>2
  <2>6. TypeOK'
    <3>1. session' \in [Sessions -> SessionRow \cup {Absent, Gone}]
      BY <2>3 DEF TypeOK, IsSession, SessionRow
    <3>2. QED
      BY <2>3, <3>1 DEF TypeOK
  <2>7. RowsProved'
    BY <2>3 DEF RowsProved, IsUser
  <2>8. session'[p] # Absent
    BY <2>3, <2>4, AgeSession
  <2>9. RequestSound(r)'
    BY <2>2, <2>3, <2>5, <2>8 DEF RequestSound
  <2>10. QED
    BY <2>3, <2>4, <2>6, <2>7, <2>9, WriteInv
<1>4. CASE RevokeAllForUser(h)
  <2>1. SessionsAge
    BY <1>4 DEF RevokeAllForUser, SessionsAge
  <2>2. TypeOK'
    <3>1. session' \in [Sessions -> SessionRow \cup {Absent, Gone}]
      BY <1>4 DEF RevokeAllForUser, TypeOK, IsSession, SessionRow
    <3>2. shut' \subseteq Sessions
      BY <1>4 DEF RevokeAllForUser, TypeOK
    <3>3. QED
      BY <1>4, <3>1, <3>2 DEF RevokeAllForUser, Done, TypeOK
  <2>3. RowsProved'
    BY <1>4 DEF RevokeAllForUser, RowsProved, IsUser
  <2>4. QED
    BY <1>4, <2>1, <2>2, <2>3, WriteInv, IdleSound DEF RevokeAllForUser, Done
<1>5. CASE Close(h)
  <2>1. req[h].session \in Sessions
    BY <1>5 DEF Close, TypeOK, Idle, Request
  <2>2. SessionsAge
    BY <1>5, <2>1 DEF Close, RevokeSession, SessionsAge, TypeOK, history
  <2>3. TypeOK'
    BY <1>5, <2>1 DEF Close, RevokeSession, Done, TypeOK, IsSession, SessionRow, history
  <2>4. RowsProved'
    BY <1>5 DEF Close, RowsProved, IsUser, history
  <2>5. QED
    BY <1>5, <2>2, <2>3, <2>4, WriteInv, IdleSound DEF Close, Done
<1>6. QED
  BY <1>1, <1>2, <1>3, <1>4, <1>5, ReadersInv DEF SessionStep

LEMMA UserInv ==
    ASSUME AccountInv, NEW h \in Handlers, UserStep(h)
    PROVE  AccountInv'
<1> USE DEF AccountInv
<1>1. CASE Save(h)
  <2> DEFINE u == req[h].user
             row == req[h].row
  <2>1. u \in Users /\ row \in UserRow /\ (row.verified => u \in proved)
    BY <1>1 DEF Save, TypeOK, Idle, Request, RequestsSound, RequestSound
  <2>2. PICK new \in UserRow : user' = [user EXCEPT ![u] = new] /\ new.verified = row.verified
    <3>1. CASE IsUser(u)
      BY <1>1, <2>1, <3>1 DEF Save, SaveUser
    <3>2. CASE ~IsUser(u)
      <4>1. [row EXCEPT !.active = TRUE] \in UserRow
        BY <2>1 DEF UserRow
      <4>2. [row EXCEPT !.active = TRUE].verified = row.verified
        BY <2>1 DEF UserRow
      <4>3. QED
        BY <1>1, <3>2, <4>1, <4>2 DEF Save, SaveUser
    <3>3. QED
      BY <3>1, <3>2
  <2>3. TypeOK'
    BY <1>1, <2>1, <2>2 DEF Save, Done, TypeOK
  <2>4. SessionsAge
    BY <1>1 DEF Save, SessionsAge
  <2>5. RowsProved'
    BY <1>1, <2>1, <2>2 DEF Save, RowsProved, IsUser, TypeOK
  <2>6. QED
    BY <1>1, <2>3, <2>4, <2>5, WriteInv, IdleSound DEF Save, Done
<1>2. ASSUME NEW u \in Users, AdminCreate(h, u)
      PROVE  AccountInv'
  <2>1. TypeOK'
    BY <1>2 DEF AdminCreate, TypeOK, UserRow
  <2>2. SessionsAge
    BY <1>2 DEF AdminCreate, SessionsAge
  <2>3. RowsProved'
    BY <1>2 DEF AdminCreate, RowsProved, IsUser, TypeOK
  <2>4. req' = [req EXCEPT ![h] = Idle]
    BY <1>2 DEF AdminCreate, TypeOK
  <2>5. QED
    BY <2>1, <2>2, <2>3, <2>4, WriteInv, IdleSound
<1>3. CASE CommitDelete(h)
  <2>1. req[h].user \in Users
    BY <1>3 DEF CommitDelete, TypeOK, Idle, Request
  <2>2. SessionsAge
    BY <1>3 DEF CommitDelete, SessionsAge, history
  <2>3. TypeOK'
    BY <1>3, <2>1 DEF CommitDelete, Done, TypeOK, history
  <2>4. RowsProved'
    BY <1>3, <2>1, RowsDistinct DEF CommitDelete, RowsProved, IsUser, TypeOK, history
  <2>5. QED
    BY <1>3, <2>2, <2>3, <2>4, WriteInv, IdleSound DEF CommitDelete, Done
<1>4. QED
  BY <1>1, <1>2, <1>3, ReadersInv DEF UserStep

\* The clock makes sessions late, and touches no request and no user.
LEMMA ClockAges ==
    ASSUME TypeOK, ClockStep
    PROVE  SessionsAge /\ UNCHANGED <<user, req, origin, proved, barred, shut>>
<1>1. UNCHANGED <<user, req, origin, proved, barred, shut>>
  BY DEF ClockStep, SessionExpires, TokenExpires, AccessExpires, history
<1>2. ASSUME NEW s \in Sessions, SessionExpires(s)
      PROVE  SessionsAge
  BY <1>1, <1>2 DEF SessionExpires, SessionsAge, TypeOK
<1>3. CASE session' = session
  BY <1>1, <1>3 DEF SessionsAge
<1>4. QED
  BY <1>1, <1>2, <1>3 DEF ClockStep, TokenExpires, AccessExpires

LEMMA ClockInv ==
    ASSUME AccountInv, ClockStep
    PROVE  AccountInv'
<1> USE DEF AccountInv
<1>1. SessionsAge /\ UNCHANGED <<user, req, origin, proved, barred, shut>>
  BY ClockAges DEF TypeOK
<1>2. TypeOK'
  <2>1. session' \in [Sessions -> SessionRow \cup {Absent, Gone}]
    <3>1. ASSUME NEW s \in Sessions, SessionExpires(s)
          PROVE  session' \in [Sessions -> SessionRow \cup {Absent, Gone}]
      BY <3>1 DEF SessionExpires, TypeOK, IsSession, SessionRow
    <3>2. QED
      BY <3>1 DEF ClockStep, TokenExpires, AccessExpires, TypeOK
  <2>2. token' \in [Tokens -> TokenRow \cup {Absent, Gone}]
    <3>1. ASSUME NEW k \in Tokens, TokenExpires(k)
          PROVE  token' \in [Tokens -> TokenRow \cup {Absent, Gone}]
      BY <3>1 DEF TokenExpires, TypeOK, IsToken, TokenRow
    <3>2. QED
      BY <3>1 DEF ClockStep, SessionExpires, AccessExpires, TypeOK
  <2>3. access' \subseteq Users
    BY DEF ClockStep, SessionExpires, TokenExpires, AccessExpires, TypeOK
  <2>4. QED
    BY <1>1, <2>1, <2>2, <2>3 DEF TypeOK
<1>3. RowsProved'
  BY <1>1 DEF RowsProved, IsUser
<1>4. RequestsSound'
  BY <1>1, AgeInv DEF RequestsSound, TypeOK
<1>5. QED
  BY <1>1, <1>2, <1>3, <1>4, AgeInv

\* Every step, stuttering included, keeps the invariant.
LEMMA NextInv == AccountInv /\ [Next]_vars => AccountInv'
<1> SUFFICES ASSUME AccountInv, [Next]_vars PROVE AccountInv'
    OBVIOUS
<1>1. CASE Next
  BY <1>1, MailInv, SessionInv, UserInv, ReadersInv, ClockInv DEF Next
<1>2. CASE UNCHANGED vars
  BY <1>2 DEF vars, AccountInv, TypeOK, OriginsSound, RowsProved, RequestsSound, RequestSound,
              ReplacedClosed, Successors, SessionsProved, IsUser, IsSession, Live
<1>3. QED
  BY <1>1, <1>2

---------------------------------------------------------------------------
\* The inductive invariant holds in every reachable state, however the
\* requests of the server overlap.
THEOREM AccountsCorrect == Spec => []AccountInv
BY InitInv, NextInv, PTL DEF Spec

\* The tables and the requests keep their types.
THEOREM AccountTypes == Spec => []TypeOK
BY AccountsCorrect, PTL DEF AccountInv

\* A session that a refresh replaced is closed for good (auth.Service.Refresh
\* revokes before it creates).
THEOREM ReplacedClosedCorrect == Spec => []ReplacedClosed
BY AccountsCorrect, PTL DEF AccountInv

\* Every session is that of a user who verified their mail or whom an admin made.
THEOREM SessionsProvedCorrect == Spec => []SessionsProved
BY AccountsCorrect, PTL DEF AccountInv
---------------------------------------------------------------------------
(* Requests one at a time *)

LEMMA InitSerial == Init => SerialInv
<1> SUFFICES ASSUME Init PROVE SerialInv
    OBVIOUS
<1>1. AccountInv
  BY InitInv
<1>2. \A s \in Sessions : ~IsSession(s) /\ ~Live(s)
  BY RowsDistinct DEF Init, IsSession, Live
<1>3. \A u \in Users : ~IsUser(u)
  BY RowsDistinct DEF Init, IsUser
<1>4. Alone /\ \A h \in Handlers : ReadStillTrue(req[h])
  BY DEF Init, Alone, ReadStillTrue, Idle
<1>5. OneLivePerLogin /\ ShutStays /\ LoginOfOne /\ LoginsSound
  BY <1>2 DEF Init, OneLivePerLogin, ShutStays, LoginOfOne, LoginsSound
<1>6. StandingStays /\ StandingOfSome
  BY <1>3 DEF Init, StandingStays, StandingOfSome
<1>7. QED
  BY <1>1, <1>4, <1>5, <1>6 DEF SerialInv

\* Sessions that only age keep what is said of logins.
LEMMA AgeSerial ==
    ASSUME SerialInv, SessionsAge, shut' = shut
    PROVE  OneLivePerLogin' /\ ShutStays' /\ LoginsSound' /\ LoginOfOne'
<1> USE DEF SerialInv, AccountInv
<1>1. OneLivePerLogin' /\ ShutStays' /\ LoginOfOne'
  BY AgeSession DEF OneLivePerLogin, ShutStays, LoginOfOne, SessionsAge
<1>2. LoginsSound'
  BY AgeSession DEF LoginsSound, SessionsAge, TypeOK
<1>3. QED
  BY <1>1, <1>2

\* A new session s of u under a login with no live one: a login of its own, or
\* one that was made, is not shut and is u's.
LEMMA NewSerial ==
    ASSUME SerialInv, NEW s \in Sessions, NEW u \in Users, NEW login \in Sessions,
           CreateSession(s, u), shut' = shut,
           \A n \in Sessions \ {s} : origin'[n] = origin[n],
           origin'[s].login = login,
           login = s \/ session[login] # Absent,
           login \notin shut,
           \A n \in Sessions : IsSession(n) /\ origin[n].login = login
                                   => session[n].user = u /\ ~Live(n)
    PROVE  OneLivePerLogin' /\ ShutStays' /\ LoginsSound' /\ LoginOfOne'
<1> USE DEF SerialInv, AccountInv
<1>1. /\ session[s] = Absent
      /\ session'[s] = [user |-> u, revoked |-> FALSE, late |-> FALSE]
      /\ session'[s] \in SessionRow
      /\ session'[s] # Absent
      /\ \A n \in Sessions \ {s} : session'[n] = session[n]
  BY RowsDistinct DEF CreateSession, TypeOK, SessionRow
<1>2. \A n \in Sessions \ {s} : (IsSession(n)' <=> IsSession(n)) /\ (Live(n)' <=> Live(n))
  BY <1>1 DEF IsSession, Live
<1>3. \A n \in Sessions : Live(n) => IsSession(n)
  BY DEF Live
<1>4. OneLivePerLogin'
  BY <1>1, <1>2, <1>3 DEF OneLivePerLogin
<1>5. ShutStays'
  BY <1>1, <1>2 DEF ShutStays
<1>6. LoginsSound'
  BY <1>1 DEF LoginsSound, TypeOK
<1>7. LoginOfOne'
  BY <1>1, <1>2 DEF LoginOfOne
<1>8. QED
  BY <1>4, <1>5, <1>6, <1>7

\* A step that touches no user leaves their standing.
LEMMA SameStanding ==
    ASSUME SerialInv, UNCHANGED <<user, proved, barred>>
    PROVE  StandingStays' /\ StandingOfSome'
BY DEF SerialInv, StandingStays, StandingOfSome, IsUser

\* Only handler h has a request in hand, before the step or after it.
LEMMA HandSerial ==
    ASSUME SerialInv, Alone', NEW h \in Handlers, NEW r,
           req' = [req EXCEPT ![h] = r], req[h] # Idle \/ r # Idle,
           ReadStillTrue(r)'
    PROVE  \A g \in Handlers : ReadStillTrue(req[g])'
<1>1. ASSUME NEW g \in Handlers, g # h
      PROVE  req'[g] = Idle
  BY <1>1 DEF SerialInv, AccountInv, TypeOK, Alone
<1>2. ReadStillTrue(Idle)'
  BY DEF ReadStillTrue, Idle
<1>3. req'[h] = r
  BY DEF SerialInv, AccountInv, TypeOK
<1>4. QED
  BY <1>1, <1>2, <1>3 DEF ReadStillTrue, Live, IsSession, IsUser

LEMMA NothingRead ==
    ASSUME NEW r,
           r.op \notin {"refresh", "rotate", "renew", "save", "update"}
    PROVE  ReadStillTrue(r)
BY DEF ReadStillTrue

LEMMA IdleTrue == ReadStillTrue(Idle) /\ ReadStillTrue(Idle)'
BY DEF ReadStillTrue, Idle

\* A step of a handler that writes no table.
LEMMA ReadSerial ==
    ASSUME SerialInv, Alone', AccountInv', NEW h \in Handlers, NEW r,
           req' = [req EXCEPT ![h] = r], req[h] # Idle \/ r # Idle,
           UNCHANGED <<tables, history>>, ReadStillTrue(r)
    PROVE  SerialInv'
<1>0. ReadStillTrue(r)'
  BY DEF ReadStillTrue, Live, IsSession, IsUser, tables, history
<1>1. SessionsAge /\ shut' = shut /\ UNCHANGED <<user, proved, barred>>
  BY DEF SessionsAge, tables, history
<1>2. QED
  BY <1>0, <1>1, AgeSerial, SameStanding, HandSerial DEF SerialInv

LEMMA ReadersSerial ==
    ASSUME SerialInv, Alone', AccountInv', NEW h \in Handlers,
           \/ \E u \in Users : ResendVerification(h, u) \/ CheckLogin(h, u) \/ CheckDelete(h, u)
                              \/ RequireAuth(h, u) \/ UpdateRole(h, u)
           \/ \E u \in Users, active \in BOOLEAN : UpdateActive(h, u, active)
           \/ \E k \in Tokens : CheckVerify(h, k)
           \/ \E s \in Sessions : FindSession(h, s) \/ FindRevoked(h, s) \/ Logout(h, s)
           \/ LoadUser(h)
           \/ UpdateProfile(h)
           \/ Abort(h)
    PROVE  SerialInv'
<1> USE DEF SerialInv, AccountInv
<1>1. ASSUME NEW u \in Users,
             ResendVerification(h, u) \/ CheckLogin(h, u) \/ CheckDelete(h, u) \/ RequireAuth(h, u)
      PROVE  SerialInv'
  <2>1. PICK op \in {"issue", "login", "delete", "profile"} :
           /\ req' = [req EXCEPT ![h] = [op |-> op, user |-> u]]
           /\ UNCHANGED <<tables, history>>
    BY <1>1 DEF ResendVerification, CheckLogin, CheckDelete, RequireAuth, Take
  <2>2. [op |-> op, user |-> u] # Idle /\ ReadStillTrue([op |-> op, user |-> u])
    BY NothingRead DEF Idle
  <2>3. QED
    BY <2>1, <2>2, ReadSerial
<1>2. ASSUME NEW u \in Users, UpdateRole(h, u)
      PROVE  SerialInv'
  <2> DEFINE r == [op |-> "save", user |-> u, row |-> user[u]]
  <2>1. r # Idle /\ ReadStillTrue(r)
    BY <1>2 DEF UpdateRole, ReadStillTrue, IsUser, tables, Idle
  <2>2. QED
    BY <1>2, <2>1, ReadSerial DEF UpdateRole, Take
<1>3. ASSUME NEW u \in Users, NEW active \in BOOLEAN, UpdateActive(h, u, active)
      PROVE  SerialInv'
  <2> DEFINE r == [op |-> "update", user |-> u, row |-> [user[u] EXCEPT !.active = active]]
  <2>1. r # Idle /\ ReadStillTrue(r)
    BY <1>3 DEF UpdateActive, ReadStillTrue, IsUser, UserRow, tables, Idle
  <2>2. QED
    BY <1>3, <2>1, ReadSerial DEF UpdateActive, Take
<1>4. ASSUME NEW k \in Tokens, CheckVerify(h, k)
      PROVE  SerialInv'
  <2> DEFINE r == [op |-> "verify", user |-> token[k].user, token |-> k]
  <2>1. r # Idle /\ ReadStillTrue(r)
    BY NothingRead DEF Idle
  <2>2. QED
    BY <1>4, <2>1, ReadSerial DEF CheckVerify, Take
<1>5. ASSUME NEW s \in Sessions, FindSession(h, s) \/ Logout(h, s)
      PROVE  SerialInv'
  <2>1. PICK op \in {"close", "refresh"} :
           /\ req' = [req EXCEPT ![h] = [op |-> op, user |-> session[s].user, session |-> s]]
           /\ UNCHANGED <<tables, history>>
    BY <1>5 DEF FindSession, Logout, Take
  <2> DEFINE r == [op |-> op, user |-> session[s].user, session |-> s]
  <2>2. r # Idle /\ ReadStillTrue(r)
    BY <1>5, <2>1 DEF FindSession, Logout, ReadStillTrue, Live, IsSession, tables, Idle
  <2>3. QED
    BY <2>1, <2>2, ReadSerial
<1>6. ASSUME NEW s \in Sessions, FindRevoked(h, s)
      PROVE  SerialInv'
  <2> DEFINE r == [op |-> "closeAll", user |-> session[s].user]
  <2>1. r # Idle /\ ReadStillTrue(r)
    BY NothingRead DEF Idle
  <2>2. QED
    BY <1>6, <2>1, ReadSerial DEF FindRevoked, Take
<1>7. CASE LoadUser(h)
  <2>1. /\ req[h].op = "refresh" /\ req[h] # Idle
        /\ req[h] = [op |-> "refresh", user |-> req[h].user, session |-> req[h].session]
    BY <1>7 DEF LoadUser, TypeOK, Idle, Request
  <2> DEFINE r == [op |-> "rotate", user |-> req[h].user, session |-> req[h].session]
  <2>2. [req[h] EXCEPT !.op = "rotate"] = r
    BY <2>1
  <2>3. ReadStillTrue(r)
    BY <1>7, <2>1 DEF LoadUser, ReadStillTrue, Live, IsSession, tables, history
  <2>4. QED
    BY <1>7, <2>1, <2>2, <2>3, ReadSerial DEF LoadUser, GoOn
<1>8. CASE UpdateProfile(h)
  <2> DEFINE r == [op |-> "save", user |-> req[h].user, row |-> user[req[h].user]]
  <2>1. r # Idle /\ ReadStillTrue(r)
    BY <1>8 DEF UpdateProfile, ReadStillTrue, IsUser, tables, Idle
  <2>2. QED
    BY <1>8, <2>1, ReadSerial DEF UpdateProfile, GoOn
<1>9. CASE Abort(h)
  BY <1>9, IdleTrue, ReadSerial DEF Abort, Done
<1>10. QED
  BY <1>1, <1>2, <1>3, <1>4, <1>5, <1>6, <1>7, <1>8, <1>9

\* A step of h that makes no session and shuts no login, once the users and
\* what h has in hand next are dealt with.
LEMMA WriteSerial ==
    ASSUME SerialInv, Alone', AccountInv', SessionsAge, shut' = shut,
           StandingStays', StandingOfSome',
           NEW h \in Handlers, NEW r,
           req' = [req EXCEPT ![h] = r], req[h] # Idle \/ r # Idle,
           ReadStillTrue(r)'
    PROVE  SerialInv'
BY AgeSerial, HandSerial DEF SerialInv

LEMMA MailSerial ==
    ASSUME SerialInv, Alone', AccountInv', NEW h \in Handlers, MailStep(h)
    PROVE  SerialInv'
<1> USE DEF SerialInv, AccountInv
<1>1. ASSUME NEW u \in Users, Register(h, u)
      PROVE  SerialInv'
  <2> DEFINE r == [op |-> "issue", user |-> u]
  <2>1. r # Idle /\ ReadStillTrue(r)'
    BY DEF ReadStillTrue, Idle
  <2>2. SessionsAge /\ shut' = shut
    BY <1>1 DEF Register, Take, SessionsAge, history
  <2>3. StandingStays' /\ StandingOfSome'
    BY <1>1, RowsDistinct DEF Register, Take, StandingStays, StandingOfSome, IsUser, UserRow,
                              TypeOK, history
  <2>4. QED
    BY <1>1, <2>1, <2>2, <2>3, WriteSerial DEF Register, Take
<1>2. ASSUME NEW k \in Tokens, createVerificationToken(h, k)
      PROVE  SerialInv'
  <2>1. SessionsAge /\ shut' = shut /\ UNCHANGED <<user, proved, barred>> /\ req[h] # Idle
    BY <1>2 DEF createVerificationToken, SessionsAge, history, Idle
  <2>2. QED
    BY <1>2, <2>1, SameStanding, IdleTrue, WriteSerial DEF createVerificationToken, Done
<1>3. CASE CommitVerify(h)
  <2>1. req[h].user \in Users /\ req[h] # Idle
    BY <1>3 DEF CommitVerify, TypeOK, Idle, Request
  <2>2. SessionsAge /\ shut' = shut
    BY <1>3 DEF CommitVerify, SessionsAge
  <2>3. StandingStays' /\ StandingOfSome'
    BY <1>3, <2>1, RowsDistinct
    DEF CommitVerify, StandingStays, StandingOfSome, IsUser, UserRow, TypeOK
  <2>4. QED
    BY <1>3, <2>1, <2>2, <2>3, IdleTrue, WriteSerial DEF CommitVerify, Done
<1>4. QED
  BY <1>1, <1>2, <1>3, ReadersSerial DEF MailStep

LEMMA SessionSerial ==
    ASSUME SerialInv, Alone', AccountInv', NEW h \in Handlers, SessionStep(h)
    PROVE  SerialInv'
<1> USE DEF SerialInv, AccountInv
<1>1. ASSUME NEW s \in Sessions, CommitLogin(h, s)
      PROVE  SerialInv'
  <2> DEFINE u == req[h].user
  <2>1. u \in Users /\ req[h] # Idle
    BY <1>1 DEF CommitLogin, TypeOK, Idle, Request
  <2>2. /\ CreateSession(s, u) /\ session[s] = Absent
        /\ shut' = shut /\ origin' = origin /\ UNCHANGED <<user, proved, barred>>
    BY <1>1 DEF CommitLogin, CreateSession, history
  <2>3. origin[s].login = s /\ s \notin shut
    BY <2>2 DEF LoginsSound
  <2>4. \A n \in Sessions : IsSession(n) => origin[n].login # s
    BY <2>2, RowsDistinct DEF LoginsSound, IsSession
  <2>5. OneLivePerLogin' /\ ShutStays' /\ LoginsSound' /\ LoginOfOne'
    BY <2>1, <2>2, <2>3, <2>4, NewSerial
  <2>6. QED
    BY <1>1, <2>1, <2>2, <2>5, SameStanding, HandSerial, IdleTrue DEF CommitLogin, Done
<1>2. ASSUME NEW s \in Sessions, Renew(h, s)
      PROVE  SerialInv'
  <2> DEFINE u == req[h].user
             p == req[h].session
             login == origin[p].login
  <2>1. u \in Users /\ p \in Sessions /\ login \in Sessions /\ req[h] # Idle
    BY <1>2 DEF Renew, TypeOK, Idle, Request
  <2>2. /\ IsSession(p) /\ session[p].user = u /\ login \notin shut
        /\ \A n \in Sessions : Live(n) => origin[n].login # login
    BY <1>2 DEF Renew, ReadStillTrue
  <2>3. session[login] # Absent
    BY <2>1, <2>2, RowsDistinct DEF LoginsSound, IsSession
  <2>4. \A n \in Sessions : IsSession(n) /\ origin[n].login = login
                                => session[n].user = u /\ ~Live(n)
    BY <2>1, <2>2 DEF LoginOfOne
  <2>5. /\ CreateSession(s, u)
        /\ shut' = shut /\ UNCHANGED <<user, proved, barred>>
        /\ origin'[s].login = login /\ \A n \in Sessions \ {s} : origin'[n] = origin[n]
    BY <1>2 DEF Renew, TypeOK
  <2>6. OneLivePerLogin' /\ ShutStays' /\ LoginsSound' /\ LoginOfOne'
    <3> HIDE DEF u, login, SerialInv, AccountInv
    <3>1. QED
      BY <2>1, <2>2, <2>3, <2>4, <2>5, NewSerial
  <2>7. QED
    BY <1>2, <2>1, <2>5, <2>6, SameStanding, HandSerial, IdleTrue DEF Renew, Done
<1>3. CASE Rotate(h)
  <2>1. PICK u \in Users, p \in Sessions :
           req[h] = [op |-> "rotate", user |-> u, session |-> p]
    BY <1>3 DEF Rotate, TypeOK, Idle, Request
  <2> DEFINE r == [op |-> "renew", user |-> u, session |-> p]
  <2>2. /\ Live(p) /\ session[p].user = u
        /\ origin[p].login \notin shut
        /\ \A s \in Sessions \ {p} : Live(s) => origin[s].login # origin[p].login
    <3>1. ReadStillTrue(req[h])
      OBVIOUS
    <3>2. Live(p) /\ session[p].user = u
      BY <2>1, <3>1 DEF ReadStillTrue
    <3>3. QED
      BY <3>2 DEF ShutStays, OneLivePerLogin
  <2>3. /\ session' = [session EXCEPT ![p].revoked = TRUE]
        /\ req' = [req EXCEPT ![h] = r]
        /\ UNCHANGED <<user, token, access, origin, proved, barred, shut>>
    <3>1. [req[h] EXCEPT !.op = "renew"] = r /\ req[h].session = p
      BY <2>1
    <3>2. session' = [session EXCEPT ![p].revoked = TRUE]
      BY <1>3, <2>2, <3>1 DEF Rotate, RevokeSession, Live
    <3>3. req' = [req EXCEPT ![h] = r]
      BY <1>3, <3>1, Zenon DEF Rotate, GoOn
    <3>4. QED
      BY <1>3, <3>2, <3>3 DEF Rotate, history
  <2>4. SessionsAge
    BY <2>2, <2>3 DEF SessionsAge, TypeOK, Live
  <2>5. session'[p] = [session[p] EXCEPT !.revoked = TRUE] /\ session[p] \in SessionRow
    BY <2>2, <2>3 DEF TypeOK, Live, IsSession
  <2>6. IsSession(p)' /\ session'[p].user = u /\ ~Live(p)'
    BY <2>2, <2>5 DEF SessionRow, IsSession, Live
  <2>7. \A s \in Sessions : Live(s)' => origin'[s].login # origin'[p].login
    BY <2>2, <2>3, <2>4, <2>6, AgeSession
  <2>8. ReadStillTrue(r)'
    BY <2>2, <2>3, <2>6, <2>7 DEF ReadStillTrue
  <2>9. r # Idle
    BY DEF Idle
  <2>10. QED
    BY <2>3, <2>4, <2>8, <2>9, SameStanding, WriteSerial
<1>4. CASE RevokeAllForUser(h)
  <2>1. SessionsAge /\ UNCHANGED <<user, proved, barred>> /\ origin' = origin
    BY <1>4 DEF RevokeAllForUser, SessionsAge
  <2>2. req[h] # Idle
    BY <1>4 DEF RevokeAllForUser, Idle
  <2> DEFINE mine == {s \in Sessions : IsSession(s) /\ session[s].user = req[h].user}
  <2>3. \A s \in mine : ~Live(s)'
    BY <1>4 DEF RevokeAllForUser, TypeOK, IsSession, SessionRow, Live
  <2>4. shut' = shut \cup {origin[s].login : s \in mine}
    BY <1>4 DEF RevokeAllForUser
  <2>5. OneLivePerLogin' /\ LoginOfOne'
    BY <2>1, AgeSession DEF OneLivePerLogin, LoginOfOne, SessionsAge
  <2>6. \A s \in mine : session[origin[s].login] # Absent
    BY RowsDistinct DEF LoginsSound, IsSession
  <2>7. LoginsSound'
    BY <2>1, <2>4, <2>6, AgeSession DEF LoginsSound, TypeOK
  <2>8. ShutStays'
    <3>1. ASSUME NEW s \in Sessions, Live(s)', NEW n \in mine, origin[s].login = origin[n].login
          PROVE  FALSE
      <4>1. Live(s) /\ IsSession(s)
        BY <2>1, <3>1, AgeSession DEF Live
      <4>2. s \in mine
        BY <3>1, <4>1 DEF LoginOfOne
      <4>3. QED
        BY <2>3, <3>1, <4>2
    <3>2. \A s \in Sessions : Live(s)' => origin[s].login \notin shut
      BY <2>1, AgeSession DEF ShutStays
    <3>3. QED
      BY <2>1, <2>4, <3>1, <3>2 DEF ShutStays
  <2>9. QED
    BY <1>4, <2>1, <2>2, <2>5, <2>7, <2>8, SameStanding, HandSerial, IdleTrue
    DEF RevokeAllForUser, Done
<1>5. CASE Close(h)
  <2>1. req[h].session \in Sessions /\ req[h] # Idle
    BY <1>5 DEF Close, TypeOK, Idle, Request
  <2>2. SessionsAge /\ shut' = shut /\ UNCHANGED <<user, proved, barred>>
    BY <1>5, <2>1 DEF Close, RevokeSession, SessionsAge, TypeOK, history
  <2>3. QED
    BY <1>5, <2>1, <2>2, SameStanding, IdleTrue, WriteSerial DEF Close, Done
<1>6. QED
  BY <1>1, <1>2, <1>3, <1>4, <1>5, ReadersSerial DEF SessionStep

LEMMA UserSerial ==
    ASSUME SerialInv, Alone', AccountInv', NEW h \in Handlers, UserStep(h)
    PROVE  SerialInv'
<1> USE DEF SerialInv, AccountInv
<1>1. CASE Save(h)
  <2> DEFINE u == req[h].user
             row == req[h].row
  <2>1. u \in Users /\ row \in UserRow /\ req[h] # Idle
    BY <1>1 DEF Save, TypeOK, Idle, Request
  <2>2. /\ IsUser(u) /\ row.verified = user[u].verified
        /\ req[h].op = "save" => row = user[u]
    BY <1>1 DEF Save, ReadStillTrue
  <2>3. user' = [user EXCEPT ![u] = row] /\ proved' = proved /\ shut' = shut
    BY <1>1, <2>2 DEF Save, SaveUser
  <2>4. barred' = IF req[h].op = "save" THEN barred
                  ELSE IF row.active THEN barred \ {u} ELSE barred \cup {u}
    BY <1>1 DEF Save
  <2>5. SessionsAge
    BY <1>1 DEF Save, SessionsAge
  <2>6. StandingStays'
    BY <2>1, <2>2, <2>3, <2>4 DEF StandingStays, IsUser, TypeOK
  <2>7. StandingOfSome'
    BY <2>1, <2>2, <2>3, <2>4, RowsDistinct DEF StandingOfSome, TypeOK
  <2>8. QED
    BY <1>1, <2>1, <2>3, <2>5, <2>6, <2>7, IdleTrue, WriteSerial DEF Save, Done
<1>2. ASSUME NEW u \in Users, AdminCreate(h, u)
      PROVE  SerialInv'
  <2>1. SessionsAge /\ shut' = shut /\ req' = req
    BY <1>2 DEF AdminCreate, SessionsAge
  <2>2. StandingStays' /\ StandingOfSome'
    BY <1>2, RowsDistinct DEF AdminCreate, StandingStays, StandingOfSome, IsUser, UserRow, TypeOK
  <2>3. ASSUME NEW g \in Handlers
        PROVE  ReadStillTrue(req[g])'
    <3>1. req[g].op \in {"save", "update"} => IsUser(req[g].user) /\ req[g].user \in Users
      BY DEF ReadStillTrue, TypeOK, Request, Idle
    <3>2. req[g].op \in {"save", "update"} => user'[req[g].user] = user[req[g].user]
      BY <1>2, <3>1, RowsDistinct DEF AdminCreate, IsUser, TypeOK
    <3>3. UNCHANGED <<session, origin, shut>>
      BY <1>2 DEF AdminCreate
    <3>4. ReadStillTrue(req[g])
      OBVIOUS
    <3>5. QED
      BY <2>1, <3>1, <3>2, <3>3, <3>4 DEF ReadStillTrue, Live, IsSession, IsUser
  <2>4. QED
    BY <2>1, <2>2, <2>3, AgeSerial
<1>3. CASE CommitDelete(h)
  <2>1. req[h].user \in Users /\ req[h] # Idle
    BY <1>3 DEF CommitDelete, TypeOK, Idle, Request
  <2>2. SessionsAge /\ shut' = shut
    BY <1>3 DEF CommitDelete, SessionsAge, history
  <2>3. StandingStays' /\ StandingOfSome'
    BY <1>3, <2>1, RowsDistinct
    DEF CommitDelete, StandingStays, StandingOfSome, IsUser, TypeOK, history
  <2>4. QED
    BY <1>3, <2>1, <2>2, <2>3, IdleTrue, WriteSerial DEF CommitDelete, Done
<1>4. QED
  BY <1>1, <1>2, <1>3, ReadersSerial DEF UserStep

LEMMA ClockSerial ==
    ASSUME SerialInv, Alone', AccountInv', ClockStep
    PROVE  SerialInv'
<1> USE DEF SerialInv, AccountInv
<1>1. /\ SessionsAge /\ shut' = shut
      /\ UNCHANGED <<user, req, origin, proved, barred>>
  BY ClockAges
<1>2. \A s \in Sessions : /\ IsSession(s)' <=> IsSession(s)
                          /\ IsSession(s) => session'[s].user = session[s].user
                          /\ Live(s)' <=> Live(s)
  <2>1. CASE session' = session
    BY <2>1 DEF IsSession, Live
  <2>2. ASSUME NEW s \in Sessions, SessionExpires(s)
        PROVE  \A n \in Sessions : /\ IsSession(n)' <=> IsSession(n)
                                   /\ IsSession(n) => session'[n].user = session[n].user
                                   /\ Live(n)' <=> Live(n)
    BY <2>2 DEF SessionExpires, IsSession, Live, SessionRow, TypeOK
  <2>3. QED
    BY <2>1, <2>2 DEF ClockStep, TokenExpires, AccessExpires
<1>3. ASSUME NEW g \in Handlers
      PROVE  ReadStillTrue(req[g])'
  <2>1. req[g].op \in {"refresh", "rotate", "renew"} => req[g].session \in Sessions
    BY DEF TypeOK, Request, Idle
  <2>2. ReadStillTrue(req[g])
    OBVIOUS
  <2>3. QED
    BY <1>1, <1>2, <2>1, <2>2 DEF ReadStillTrue, IsUser
<1>4. QED
  BY <1>1, <1>3, AgeSerial, SameStanding

LEMMA NextSerial == SerialInv /\ [Next /\ Alone']_vars => SerialInv'
<1> SUFFICES ASSUME SerialInv, [Next /\ Alone']_vars PROVE SerialInv'
    OBVIOUS
<1>1. AccountInv'
  BY NextInv DEF SerialInv
<1>2. CASE Next /\ Alone'
  BY <1>1, <1>2, MailSerial, SessionSerial, UserSerial, ReadersSerial, ClockSerial DEF Next
<1>3. CASE UNCHANGED vars
  BY <1>1, <1>3 DEF vars, SerialInv, Alone, OneLivePerLogin, ShutStays, StandingStays, LoginsSound,
                    LoginOfOne, StandingOfSome, ReadStillTrue, IsUser, IsSession, Live
<1>4. QED
  BY <1>2, <1>3

\* The inductive invariant holds in every reachable state as long as the
\* server works on one request at a time, at every size of the tables.
THEOREM SerialCorrect == SerialSpec => []SerialInv
BY InitSerial, NextSerial, PTL DEF SerialSpec

\* A login has at most one live session, however often it is refreshed
\* (auth.Service.Refresh revokes what it replaces).
THEOREM OneLiveCorrect == SerialSpec => []OneLivePerLogin
BY SerialCorrect, PTL DEF SerialInv

\* Once a replaced token was used again, no session of its login is live: the
\* revocation is by user, and the sessions of one login are one user's.
THEOREM ShutCorrect == SerialSpec => []ShutStays
BY SerialCorrect, PTL DEF SerialInv

\* A proved address stays verified and a deactivated user inactive through
\* every whole-row Save of the profile form and of the admin.
THEOREM StandingCorrect == SerialSpec => []StandingStays
BY SerialCorrect, PTL DEF SerialInv
---------------------------------------------------------------------------
(* The chains of tokens.  A session that is only revoked, deleted or late  *)
(* closes its token or leaves it; the three steps that do more are a login *)
(* and the two halves of a refresh.                                        *)

\* A session whose successor is being made is not live.
LEMMA DueClosed ==
    ASSUME SerialInv, NEW s \in Sessions, Due(s)
    PROVE  ~Live(s)
<1>1. PICK h \in Handlers : req[h].op = "renew" /\ req[h].session = s
  BY DEF Due
<1>2. ReadStillTrue(req[h])
  BY DEF SerialInv
<1>3. QED
  BY <1>1, <1>2 DEF ReadStillTrue

\* While handler h has a request, what is due is what h is about to renew.
LEMMA DueInHand ==
    ASSUME SerialInv, NEW h \in Handlers, req[h] # Idle, NEW s \in Sessions
    PROVE  Due(s) <=> req[h].op = "renew" /\ req[h].session = s
<1>1. \A g \in Handlers \ {h} : req[g] = Idle
  BY DEF SerialInv, Alone
<1>2. Idle.op # "renew"
  BY DEF Idle
<1>3. QED
  BY <1>1, <1>2 DEF Due

\* The same of what is due after a step that leaves h with r in hand.
LEMMA DueNext ==
    ASSUME SerialInv, NEW h \in Handlers, NEW r, req[h] # Idle,
           req' = [req EXCEPT ![h] = r], NEW s \in Sessions
    PROVE  Due(s)' <=> r.op = "renew" /\ r.session = s
<1>1. \A g \in Handlers \ {h} : req'[g] = Idle
  BY DEF SerialInv, AccountInv, TypeOK, Alone
<1>2. req'[h] = r
  BY DEF SerialInv, AccountInv, TypeOK
<1>3. Idle.op # "renew"
  BY DEF Idle
<1>4. QED
  BY <1>1, <1>2, <1>3 DEF Due

\* A handler that goes on with something else renews nothing.
LEMMA HandDue ==
    ASSUME TypeOK, NEW h \in Handlers, NEW r, r.op # "renew", req' = [req EXCEPT ![h] = r]
    PROVE  \A s \in Sessions : Due(s)' => Due(s)
<1>1. \A g \in Handlers : req'[g] = IF g = h THEN r ELSE req[g]
  BY DEF TypeOK
<1>2. QED
  BY <1>1 DEF Due

\* What has become of a token, before a step and after it.
LEMMA StateIs ==
    ASSUME NEW s \in Sessions
    PROVE  /\ session[s] = Absent => TokenState(s) = "new"
           /\ session[s] # Absent /\ Live(s) => TokenState(s) = "open"
           /\ session[s] # Absent /\ ~Live(s) /\ Due(s) => TokenState(s) = "due"
           /\ session[s] # Absent /\ ~Live(s) /\ ~Due(s) => TokenState(s) = "spent"
           /\ session'[s] = Absent => TokenState(s)' = "new"
           /\ session'[s] # Absent /\ Live(s)' => TokenState(s)' = "open"
           /\ session'[s] # Absent /\ ~Live(s)' /\ Due(s)' => TokenState(s)' = "due"
           /\ session'[s] # Absent /\ ~Live(s)' /\ ~Due(s)' => TokenState(s)' = "spent"
BY DEF TokenState

\* Sessions that age close their tokens or leave them.
LEMMA AgeChain ==
    ASSUME SerialInv, SessionsAge, \A s \in Sessions : Due(s)' => Due(s)
    PROVE  Chains!Next
<1> DEFINE ks == {s \in Sessions : TokenState(s) \in {"open", "due"} /\ TokenState(s)' = "spent"}
<1>1. ASSUME NEW s \in Sessions
      PROVE  \/ TokenState(s)' = TokenState(s)
             \/ TokenState(s) \in {"open", "due"} /\ TokenState(s)' = "spent"
  <2>1. /\ session'[s] # Absent <=> session[s] # Absent
        /\ Live(s)' => Live(s)
    BY AgeSession DEF SerialInv, AccountInv
  <2>2. Due(s)' => Due(s) /\ ~Live(s)
    BY DueClosed
  <2>3. CASE session[s] = Absent
    BY <2>1, <2>3, StateIs
  <2>4. CASE session[s] # Absent
    BY <2>1, <2>2, <2>4, StateIs
  <2>5. QED
    BY <2>3, <2>4
<1>2. [s \in Sessions |-> origin[s].login]' = [s \in Sessions |-> origin[s].login]
  BY DEF SessionsAge
<1>3. Chains!Close(ks)
  <2>1. \A s \in ks : Chains!InUse(s)
    BY DEF Chains!InUse
  <2>2. [s \in Sessions |-> TokenState(s)]'
            = [s \in Sessions |-> IF s \in ks THEN "spent" ELSE [n \in Sessions |-> TokenState(n)][s]]
    BY <1>1
  <2>3. QED
    BY <1>2, <2>1, <2>2 DEF Chains!Close
<1>4. ks \in SUBSET Sessions
  OBVIOUS
<1>5. QED
  BY <1>3, <1>4 DEF Chains!Next

\* Every step but those three.
LEMMA OtherChains ==
    ASSUME SerialInv,
           \/ \E h \in Handlers : MailStep(h) \/ UserStep(h) \/ Abort(h)
           \/ \E h \in Handlers, u \in Users : CheckLogin(h, u)
           \/ \E h \in Handlers, s \in Sessions :
                 FindSession(h, s) \/ FindRevoked(h, s) \/ Logout(h, s)
           \/ \E h \in Handlers : LoadUser(h) \/ RevokeAllForUser(h) \/ Close(h)
           \/ ClockStep
    PROVE  Chains!Next
<1> USE DEF SerialInv, AccountInv
<1>1. SessionsAge
  <2>1. ASSUME NEW h \in Handlers, MailStep(h)
        PROVE  SessionsAge
    BY <2>1 DEF MailStep, Register, ResendVerification, createVerificationToken, CheckVerify,
                CommitVerify, Take, SessionsAge, tables, history
  <2>2. ASSUME NEW h \in Handlers, UserStep(h)
        PROVE  SessionsAge
    <3>1. CASE CommitDelete(h)
      BY <3>1 DEF CommitDelete, SessionsAge, history
    <3>2. CASE session' = session /\ origin' = origin /\ proved \subseteq proved'
      BY <3>2 DEF SessionsAge
    <3>3. QED
      BY <2>2, <3>1, <3>2 DEF UserStep, RequireAuth, UpdateProfile, UpdateActive, UpdateRole,
                              Save, AdminCreate, CheckDelete, Take, tables, history
  <2>3. CASE \E h \in Handlers : Abort(h) \/ LoadUser(h) \/ RevokeAllForUser(h)
    BY <2>3 DEF Abort, LoadUser, RevokeAllForUser, SessionsAge, tables, history
  <2>4. ASSUME NEW h \in Handlers, Close(h)
        PROVE  SessionsAge
    <3>1. req[h].session \in Sessions
      BY <2>4 DEF Close, TypeOK, Idle, Request
    <3>2. QED
      BY <2>4, <3>1 DEF Close, RevokeSession, SessionsAge, TypeOK, history
  <2>5. ASSUME NEW h \in Handlers,
               \/ \E u \in Users : CheckLogin(h, u)
               \/ \E s \in Sessions : FindSession(h, s) \/ FindRevoked(h, s) \/ Logout(h, s)
        PROVE  SessionsAge
    BY <2>5 DEF CheckLogin, FindSession, FindRevoked, Logout, Take, SessionsAge, tables, history
  <2>6. CASE ClockStep
    BY <2>6, ClockAges
  <2>7. QED
    BY <2>1, <2>2, <2>3, <2>4, <2>5, <2>6
<1>2. \A s \in Sessions : Due(s)' => Due(s)
  <2>1. CASE req' = req
    BY <2>1 DEF Due
  <2>2. ASSUME NEW h \in Handlers, NEW r, r.op # "renew", req' = [req EXCEPT ![h] = r]
        PROVE  \A s \in Sessions : Due(s)' => Due(s)
    BY <2>2, HandDue
  <2>3. Idle.op # "renew"
    BY DEF Idle
  <2>4. ASSUME NEW h \in Handlers,
               MailStep(h) \/ UserStep(h) \/ Abort(h)
               \/ (\E u \in Users : CheckLogin(h, u))
               \/ (\E s \in Sessions : FindSession(h, s) \/ FindRevoked(h, s) \/ Logout(h, s))
               \/ RevokeAllForUser(h) \/ Close(h)
        PROVE  req' = req \/ \E r : r.op # "renew" /\ req' = [req EXCEPT ![h] = r]
    <3>1. CASE MailStep(h)
      BY <2>3, <3>1 DEF MailStep, Register, ResendVerification, createVerificationToken,
                        CheckVerify, CommitVerify, Take, Done
    <3>2. CASE UserStep(h)
      <4>1. CASE \E u \in Users : RequireAuth(h, u) \/ CheckDelete(h, u) \/ AdminCreate(h, u)
        BY <4>1 DEF RequireAuth, CheckDelete, AdminCreate, Take
      <4>2. CASE UpdateProfile(h)
        BY <4>2 DEF UpdateProfile, GoOn
      <4>3. CASE \E u \in Users, active \in BOOLEAN : UpdateActive(h, u, active)
        BY <4>3 DEF UpdateActive, Take
      <4>4. CASE \E u \in Users : UpdateRole(h, u)
        BY <4>4 DEF UpdateRole, Take
      <4>5. CASE Save(h) \/ CommitDelete(h)
        BY <2>3, <4>5 DEF Save, CommitDelete, Done
      <4>6. QED
        BY <3>2, <4>1, <4>2, <4>3, <4>4, <4>5 DEF UserStep
    <3>3. CASE Abort(h) \/ RevokeAllForUser(h) \/ Close(h)
      BY <2>3, <3>3 DEF Abort, RevokeAllForUser, Close, Done
    <3>4. CASE \E u \in Users : CheckLogin(h, u)
      BY <3>4 DEF CheckLogin, Take
    <3>5. ASSUME NEW s \in Sessions, FindSession(h, s) \/ FindRevoked(h, s) \/ Logout(h, s)
          PROVE  \E r : r.op # "renew" /\ req' = [req EXCEPT ![h] = r]
      <4>1. CASE FindSession(h, s)
        <5>1. PICK op \in {"close", "refresh"} :
                 req' = [req EXCEPT ![h] = [op |-> op, user |-> session[s].user, session |-> s]]
          BY <4>1 DEF FindSession, Take
        <5>2. QED
          BY <5>1
      <4>2. CASE FindRevoked(h, s)
        BY <4>2 DEF FindRevoked, Take
      <4>3. CASE Logout(h, s)
        BY <4>3 DEF Logout, Take
      <4>4. QED
        BY <3>5, <4>1, <4>2, <4>3
    <3>6. QED
      BY <2>4, <3>1, <3>2, <3>3, <3>4, <3>5
  <2>5. ASSUME NEW h \in Handlers, LoadUser(h)
        PROVE  \A s \in Sessions : Due(s)' => Due(s)
    <3>1. PICK u \in Users, p \in Sessions :
             req[h] = [op |-> "refresh", user |-> u, session |-> p]
      BY <2>5 DEF LoadUser, TypeOK, Idle, Request
    <3>2. [req[h] EXCEPT !.op = "rotate"] = [op |-> "rotate", user |-> u, session |-> p]
      BY <3>1
    <3>3. req' = [req EXCEPT ![h] = [op |-> "rotate", user |-> u, session |-> p]]
      BY <2>5, <3>2, Zenon DEF LoadUser, GoOn
    <3>4. QED
      BY <2>2, <3>3
  <2>6. CASE ClockStep
    BY <2>1, <2>6, ClockAges
  <2>7. QED
    BY <2>1, <2>2, <2>4, <2>5, <2>6
<1>3. QED
  BY <1>1, <1>2, AgeChain

\* A login gives out the first token of a chain.
LEMMA LoginChain ==
    ASSUME SerialInv, NEW h \in Handlers, NEW s \in Sessions, CommitLogin(h, s)
    PROVE  Chains!Next
<1> USE DEF SerialInv, AccountInv
<1>1. /\ session[s] = Absent
      /\ session'[s] = [user |-> req[h].user, revoked |-> FALSE, late |-> FALSE]
      /\ \A n \in Sessions \ {s} : session'[n] = session[n]
      /\ origin' = origin
  BY DEF CommitLogin, CreateSession, TypeOK, history
<1>2. req[h] # Idle /\ req[h].op # "renew" /\ req' = [req EXCEPT ![h] = Idle]
  BY DEF CommitLogin, Done, Idle
<1>3. ASSUME NEW n \in Sessions
      PROVE  ~Due(n) /\ ~Due(n)'
  <2>1. Idle.op # "renew"
    BY DEF Idle
  <2> HIDE DEF SerialInv, AccountInv
  <2>2. ~Due(n)
    BY <1>2, DueInHand
  <2>3. Due(n)' <=> Idle.op = "renew" /\ Idle.session = n
    BY <1>2, DueNext
  <2>4. QED
    BY <2>1, <2>2, <2>3
<1>4. TokenState(s) = "new"
  BY <1>1 DEF TokenState
<1>5. TokenState(s)' = "open"
  <2>1. req[h].user \in Users
    BY DEF CommitLogin, TypeOK, Idle, Request
  <2>2. session'[s] \in SessionRow
    BY <1>1, <2>1 DEF SessionRow
  <2>3. session'[s] # Absent /\ ~session'[s].revoked
    <3>1. session'[s] # Absent
      BY <2>2, RowsDistinct
    <3>2. session'[s].revoked = FALSE
      BY <1>1
    <3>3. QED
      BY <3>1, <3>2
  <2>4. Live(s)'
    BY <2>2, <2>3 DEF Live, IsSession
  <2>5. QED
    BY <2>3, <2>4, StateIs
<1>6. \A n \in Sessions \ {s} : TokenState(n)' = TokenState(n)
  BY <1>1, <1>3 DEF TokenState, Live, IsSession
<1>7. Chains!Grant(s)
  BY <1>1, <1>4, <1>5, <1>6 DEF Chains!Grant
<1>8. QED
  BY <1>7 DEF Chains!Next

\* The first half of a refresh takes its token in.
LEMMA RotateChain ==
    ASSUME SerialInv, NEW h \in Handlers, Rotate(h)
    PROVE  Chains!Next
<1> USE DEF SerialInv, AccountInv
<1>1. PICK u \in Users, p \in Sessions : req[h] = [op |-> "rotate", user |-> u, session |-> p]
  BY DEF Rotate, TypeOK, Idle, Request
<1>2. Live(p)
  <2>1. ReadStillTrue(req[h])
    OBVIOUS
  <2>2. QED
    BY <1>1, <2>1 DEF ReadStillTrue
<1>3. session' = [session EXCEPT ![p].revoked = TRUE] /\ origin' = origin
  BY <1>1, <1>2 DEF Rotate, RevokeSession, Live, history
<1>4. req' = [req EXCEPT ![h] = [op |-> "renew", user |-> u, session |-> p]]
  <2>1. [req[h] EXCEPT !.op = "renew"] = [op |-> "renew", user |-> u, session |-> p]
    BY <1>1
  <2>2. QED
    BY <2>1, Zenon DEF Rotate, GoOn
<1>5. req[h] # Idle
  BY <1>1 DEF Idle
<1>6. \A n \in Sessions : ~Due(n) /\ (Due(n)' <=> n = p)
  <2> DEFINE r == [op |-> "renew", user |-> u, session |-> p]
  <2>1. r.op = "renew" /\ r.session = p /\ req' = [req EXCEPT ![h] = r]
    BY <1>4
  <2> HIDE DEF r, SerialInv, AccountInv
  <2>2. ASSUME NEW n \in Sessions
        PROVE  ~Due(n) /\ (Due(n)' <=> n = p)
    <3>1. Due(n) <=> req[h].op = "renew" /\ req[h].session = n
      BY <1>5, DueInHand
    <3>2. Due(n)' <=> r.op = "renew" /\ r.session = n
      BY <1>5, <2>1, DueNext
    <3>3. QED
      BY <1>1, <2>1, <3>1, <3>2
  <2>3. QED
    BY <2>2
<1>7. TokenState(p) = "open"
  BY <1>2, RowsDistinct DEF TokenState, Live, IsSession
<1>8. TokenState(p)' = "due"
  <2>1. session[p] \in SessionRow /\ session'[p] = [session[p] EXCEPT !.revoked = TRUE]
    BY <1>2, <1>3 DEF Live, IsSession, TypeOK
  <2>2. session'[p] \in SessionRow /\ session'[p].revoked
    BY <2>1 DEF SessionRow
  <2>3. session'[p] # Absent /\ ~Live(p)'
    BY <2>2, RowsDistinct DEF Live
  <2>4. QED
    BY <1>6, <2>3 DEF TokenState
<1>9. \A n \in Sessions \ {p} : TokenState(n)' = TokenState(n)
  BY <1>3, <1>6 DEF TokenState, Live, IsSession, TypeOK
<1>10. Chains!TakeIn(p)
  BY <1>3, <1>7, <1>8, <1>9 DEF Chains!TakeIn
<1>11. QED
  BY <1>10 DEF Chains!Next

\* The second half gives out its successor.
LEMMA RenewChain ==
    ASSUME SerialInv, NEW h \in Handlers, NEW s \in Sessions, Renew(h, s)
    PROVE  Chains!Next
<1> USE DEF SerialInv, AccountInv
<1>1. PICK u \in Users, p \in Sessions : req[h] = [op |-> "renew", user |-> u, session |-> p]
  BY DEF Renew, TypeOK, Idle, Request
<1>2. /\ session[s] = Absent
      /\ session'[s] = [user |-> u, revoked |-> FALSE, late |-> FALSE]
      /\ \A n \in Sessions \ {s} : session'[n] = session[n]
      /\ origin'[s].login = origin[p].login
      /\ \A n \in Sessions \ {s} : origin'[n] = origin[n]
  BY <1>1 DEF Renew, CreateSession, TypeOK
<1>3. req[h] # Idle /\ req' = [req EXCEPT ![h] = Idle]
  BY <1>1 DEF Renew, Done, Idle
<1>4. \A n \in Sessions : (Due(n) <=> n = p) /\ ~Due(n)'
  <2>1. Idle.op # "renew"
    BY DEF Idle
  <2> HIDE DEF SerialInv, AccountInv
  <2>2. ASSUME NEW n \in Sessions
        PROVE  (Due(n) <=> n = p) /\ ~Due(n)'
    <3>1. Due(n) <=> req[h].op = "renew" /\ req[h].session = n
      BY <1>3, DueInHand
    <3>2. Due(n)' <=> Idle.op = "renew" /\ Idle.session = n
      BY <1>3, DueNext
    <3>3. QED
      BY <1>1, <2>1, <3>1, <3>2
  <2>3. QED
    BY <2>2
<1>5. IsSession(p) /\ ~Live(p)
  <2>1. ReadStillTrue(req[h])
    OBVIOUS
  <2>2. QED
    BY <1>1, <2>1 DEF ReadStillTrue
<1>6. p # s /\ session[p] # Absent
  BY <1>2, <1>5, RowsDistinct DEF IsSession
<1>7. TokenState(p) = "due" /\ TokenState(s) = "new"
  BY <1>2, <1>4, <1>5, <1>6 DEF TokenState
<1>8. TokenState(p)' = "spent"
  BY <1>2, <1>4, <1>5, <1>6 DEF TokenState, Live, IsSession
<1>9. TokenState(s)' = "open"
  <2>1. session'[s] \in SessionRow
    BY <1>2 DEF SessionRow
  <2>2. session'[s] # Absent /\ ~session'[s].revoked
    <3>1. session'[s] # Absent
      BY <2>1, RowsDistinct
    <3>2. session'[s].revoked = FALSE
      BY <1>2
    <3>3. QED
      BY <3>1, <3>2
  <2>3. Live(s)'
    BY <2>1, <2>2 DEF Live, IsSession
  <2>4. QED
    BY <2>2, <2>3, StateIs
<1>10. \A n \in Sessions \ {s, p} : TokenState(n)' = TokenState(n)
  BY <1>2, <1>4 DEF TokenState, Live, IsSession
<1>11. Chains!Replace(p, s)
  BY <1>2, <1>6, <1>7, <1>8, <1>9, <1>10 DEF Chains!Replace
<1>12. QED
  BY <1>11 DEF Chains!Next

LEMMA ChainsInit == Init => Chains!Init
<1> SUFFICES ASSUME Init PROVE Chains!Init
    OBVIOUS
<1>1. \A s \in Sessions : TokenState(s) = "new" /\ origin[s].login = s
  BY DEF Init, TokenState
<1>2. QED
  BY <1>1 DEF Chains!Init

LEMMA ChainsStep == SerialInv /\ [Next /\ Alone']_vars => [Chains!Next]_(Chains!vars)
<1> SUFFICES ASSUME SerialInv, [Next /\ Alone']_vars PROVE [Chains!Next]_(Chains!vars)
    OBVIOUS
<1>1. CASE Next
  BY <1>1, OtherChains, LoginChain, RotateChain, RenewChain DEF Next, SessionStep
<1>2. CASE UNCHANGED vars
  BY <1>2 DEF vars, Chains!vars, TokenState, Due, Live, IsSession
<1>3. QED
  BY <1>1, <1>2

\* One request at a time, the sessions keep the chains of TokenChains: every
\* refresh token comes from a login or in place of the one token of its login
\* that was in use, and no logout, reuse, deletion, failure or late row brings
\* a spent one back.
THEOREM ChainsKept == SerialSpec => KeepsChains
BY ChainsInit, ChainsStep, SerialCorrect, PTL DEF SerialSpec, KeepsChains, Chains!Spec
=============================================================================
