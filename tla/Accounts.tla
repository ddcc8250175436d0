------------------------------ MODULE Accounts ------------------------------
(***************************************************************************)
(* Users, their sessions and their mail verification (backend/internal/    *)
(* modules/auth and users, and the RequireAuth middleware).                *)
(*                                                                         *)
(* Only VerifyEmail writes in a transaction; every other handler is a      *)
(* sequence of single statements, each a step of its own, with the other   *)
(* handlers' statements in between.  The two updates of users (the admin's *)
(* and the profile form) read the whole row, change the fields the input   *)
(* names and Save it: every column goes back as it was read, and a row     *)
(* deleted in between is inserted again.                                   *)
(*                                                                         *)
(* Of a user row the model keeps is_active and email_verified (role goes   *)
(* the way of is_active); of sessions and tokens whose they are, whether   *)
(* they are revoked or used, and whether they are past their date.         *)
(***************************************************************************)
EXTENDS Naturals, FiniteSets

CONSTANTS
    Users,     \* ids a new user may get
    Sessions,  \* ids a new session may get
    Tokens,    \* ids a new verification token may get
    Handlers   \* requests the server works on at a time

VARIABLES
    user,     \* the users table
    session,  \* the sessions table
    token,    \* the email_verification_tokens table
    access,   \* users with an access token that is not expired
    req,      \* what each handler is doing
    origin,   \* history: the login a session goes back to, and the session it replaces
    proved,   \* history: users who verified their mail, or whom an admin made
    barred,   \* history: users an admin disabled and none has enabled since
    shut      \* history: logins shut by reuse detection

tables == <<user, session, token, access>>
history == <<origin, proved, barred, shut>>
vars == <<user, session, token, access, req, origin, proved, barred, shut>>

---------------------------------------------------------------------------
(* Rows.  An id is given out once: a deleted row is Gone.                  *)

Absent == [row |-> "absent"]
Gone == [row |-> "gone"]

UserRow == [active : BOOLEAN, verified : BOOLEAN]
SessionRow == [user : Users, revoked : BOOLEAN, late : BOOLEAN]
TokenRow == [user : Users, used : BOOLEAN, late : BOOLEAN]

IsUser(u) == user[u] \in UserRow
IsSession(s) == session[s] \in SessionRow
IsToken(k) == token[k] \in TokenRow
Live(s) == IsSession(s) /\ ~session[s].revoked

Idle == [op |-> "none"]

Request ==
    [op : {"issue", "login", "closeAll", "profile", "delete"}, user : Users]
    \cup [op : {"refresh", "rotate", "renew", "close"}, user : Users, session : Sessions]
    \cup [op : {"verify"}, user : Users, token : Tokens]
    \cup [op : {"save", "update"}, user : Users, row : UserRow]

TypeOK ==
    /\ user \in [Users -> UserRow \cup {Absent, Gone}]
    /\ session \in [Sessions -> SessionRow \cup {Absent, Gone}]
    /\ token \in [Tokens -> TokenRow \cup {Absent, Gone}]
    /\ access \subseteq Users
    /\ req \in [Handlers -> Request \cup {Idle}]
    /\ origin \in [Sessions -> [login : Sessions, from : Sessions]]
    /\ proved \subseteq Users
    /\ barred \subseteq Users
    /\ shut \subseteq Sessions

Init ==
    /\ user = [u \in Users |-> Absent]
    /\ session = [s \in Sessions |-> Absent]
    /\ token = [k \in Tokens |-> Absent]
    /\ access = {}
    /\ req = [h \in Handlers |-> Idle]
    /\ origin = [s \in Sessions |-> [login |-> s, from |-> s]]
    /\ proved = {}
    /\ barred = {}
    /\ shut = {}

---------------------------------------------------------------------------
(* Handlers *)

\* An idle handler takes a request, reads, and has r in hand.
Take(h, r) ==
    /\ req[h] = Idle
    /\ req' = [req EXCEPT ![h] = r]
    /\ UNCHANGED history
GoOn(h, r) == req' = [req EXCEPT ![h] = r]
Done(h) == req' = [req EXCEPT ![h] = Idle]

\* Statements several handlers use.
CreateSession(s, u) ==
    /\ session[s] = Absent
    /\ IsUser(u)
    /\ session' = [session EXCEPT ![s] = [user |-> u, revoked |-> FALSE, late |-> FALSE]]
    /\ access' = access \cup {u}

RevokeSession(s) ==
    session' = IF IsSession(s) THEN [session EXCEPT ![s].revoked = TRUE] ELSE session

\* Save writes every column; with no row to update it inserts one, and then
\* an is_active of false is taken for a missing value and the column default,
\* true, is written.
SaveUser(u, row) ==
    user' = [user EXCEPT ![u] = IF IsUser(u) THEN row ELSE [row EXCEPT !.active = TRUE]]

---------------------------------------------------------------------------
(* Registration and mail verification.  The user and the token are two     *)
(* inserts: a user may be left with no token, and asks for another.        *)
Register(h, u) ==
    /\ user[u] = Absent
    /\ user' = [user EXCEPT ![u] = [active |-> TRUE, verified |-> FALSE]]
    /\ Take(h, [op |-> "issue", user |-> u])
    /\ UNCHANGED <<session, token, access>>

ResendVerification(h, u) ==
    /\ IsUser(u)
    /\ ~user[u].verified
    /\ Take(h, [op |-> "issue", user |-> u])
    /\ UNCHANGED tables

createVerificationToken(h, k) ==
    /\ req[h].op = "issue"
    /\ token[k] = Absent
    /\ IsUser(req[h].user)
    /\ token' = [token EXCEPT ![k] = [user |-> req[h].user, used |-> FALSE, late |-> FALSE]]
    /\ Done(h)
    /\ UNCHANGED <<user, session, access, history>>

CheckVerify(h, k) ==
    /\ IsToken(k)
    /\ ~token[k].used
    /\ ~token[k].late
    /\ Take(h, [op |-> "verify", user |-> token[k].user, token |-> k])
    /\ UNCHANGED tables

CommitVerify(h) ==
    /\ req[h].op = "verify"
    /\ LET u == req[h].user
           k == req[h].token
       IN /\ token' = IF IsToken(k) THEN [token EXCEPT ![k].used = TRUE] ELSE token
          /\ user' = IF IsUser(u) THEN [user EXCEPT ![u].verified = TRUE] ELSE user
          /\ proved' = IF IsUser(u) THEN proved \cup {u} ELSE proved
    /\ Done(h)
    /\ UNCHANGED <<session, access, origin, barred, shut>>

---------------------------------------------------------------------------
\* Slip: Login that does not ask for a verified mail.
CheckLoginUnverified(h, u) ==
    /\ IsUser(u)
    /\ user[u].active
    /\ Take(h, [op |-> "login", user |-> u])
    /\ UNCHANGED tables

(* Login: the flags are checked on the row as read, before the password is *)
(* compared, and the session is inserted after.                            *)
CheckLogin(h, u) ==
    /\ IsUser(u)
    /\ user[u].active
    /\ user[u].verified
    /\ Take(h, [op |-> "login", user |-> u])
    /\ UNCHANGED tables

CommitLogin(h, s) ==
    /\ req[h].op = "login"
    /\ CreateSession(s, req[h].user)
    /\ Done(h)
    /\ UNCHANGED <<user, token, history>>

---------------------------------------------------------------------------
\* Slip: Refresh without reuse detection.
FindSessionAny(h, s) ==
    /\ IsSession(s)
    /\ Take(h, [op |-> IF session[s].late THEN "close" ELSE "refresh",
                user |-> session[s].user, session |-> s])
    /\ UNCHANGED tables

(* Refresh, with any refresh token ever given out: one statement each to   *)
(* find the session, load the user, revoke the session and insert its      *)
(* successor.  Nobody asks how many rows the revocation found.             *)
FindSession(h, s) ==
    /\ Live(s)
    /\ Take(h, [op |-> IF session[s].late THEN "close" ELSE "refresh",
                user |-> session[s].user, session |-> s])
    /\ UNCHANGED tables

FindRevoked(h, s) ==
    /\ IsSession(s)
    /\ session[s].revoked
    /\ Take(h, [op |-> "closeAll", user |-> session[s].user])
    /\ UNCHANGED tables

LoadUser(h) ==
    /\ req[h].op = "refresh"
    /\ IsUser(req[h].user)
    /\ user[req[h].user].active
    /\ GoOn(h, [req[h] EXCEPT !.op = "rotate"])
    /\ UNCHANGED <<tables, history>>

\* Slip: Refresh that leaves the old session alone.
RotateKeeping(h) ==
    /\ req[h].op = "rotate"
    /\ GoOn(h, [req[h] EXCEPT !.op = "renew"])
    /\ UNCHANGED <<tables, history>>

Rotate(h) ==
    /\ req[h].op = "rotate"
    /\ RevokeSession(req[h].session)
    /\ GoOn(h, [req[h] EXCEPT !.op = "renew"])
    /\ UNCHANGED <<user, token, access, history>>

Renew(h, s) ==
    /\ req[h].op = "renew"
    /\ CreateSession(s, req[h].user)
    /\ origin' = [origin EXCEPT ![s] = [login |-> origin[req[h].session].login,
                                        from |-> req[h].session]]
    /\ Done(h)
    /\ UNCHANGED <<user, token, proved, barred, shut>>

\* Slip: Reuse detection that revokes nothing but what is past its date.
RevokeLateForUser(h) ==
    /\ req[h].op = "closeAll"
    /\ LET mine == {s \in Sessions : IsSession(s) /\ session[s].user = req[h].user}
       IN /\ session' = [s \in Sessions |->
                            IF s \in mine /\ session[s].late
                            THEN [session[s] EXCEPT !.revoked = TRUE] ELSE session[s]]
          /\ shut' = shut \cup {origin[s].login : s \in mine}
    /\ Done(h)
    /\ UNCHANGED <<user, token, access, origin, proved, barred>>

(* Reuse detection: a revoked session's token was presented, so every      *)
(* session of its user is revoked.                                         *)
RevokeAllForUser(h) ==
    /\ req[h].op = "closeAll"
    /\ LET mine == {s \in Sessions : IsSession(s) /\ session[s].user = req[h].user}
       IN /\ session' = [s \in Sessions |->
                            IF s \in mine THEN [session[s] EXCEPT !.revoked = TRUE]
                                          ELSE session[s]]
          /\ shut' = shut \cup {origin[s].login : s \in mine}
    /\ Done(h)
    /\ UNCHANGED <<user, token, access, origin, proved, barred>>

(* Logout, and Refresh with a token past its date: one session is revoked. *)
Logout(h, s) ==
    /\ Live(s)
    /\ Take(h, [op |-> "close", user |-> session[s].user, session |-> s])
    /\ UNCHANGED tables

Close(h) ==
    /\ req[h].op = "close"
    /\ RevokeSession(req[h].session)
    /\ Done(h)
    /\ UNCHANGED <<user, token, access, history>>

---------------------------------------------------------------------------
(* The profile form: RequireAuth loads an active user, UpdateProfile reads *)
(* the row once more and saves it.                                         *)
RequireAuth(h, u) ==
    /\ u \in access
    /\ IsUser(u)
    /\ user[u].active
    /\ Take(h, [op |-> "profile", user |-> u])
    /\ UNCHANGED tables

UpdateProfile(h) ==
    /\ req[h].op = "profile"
    /\ IsUser(req[h].user)
    /\ GoOn(h, [op |-> "save", user |-> req[h].user, row |-> user[req[h].user]])
    /\ UNCHANGED <<tables, history>>

(* The admin's update, with is_active in its body or with a role alone.    *)
(* email_verified is accepted there and not used: to the tables, an update *)
(* with nothing else is one of a role.                                     *)
UpdateActive(h, u, active) ==
    /\ IsUser(u)
    /\ Take(h, [op |-> "update", user |-> u, row |-> [user[u] EXCEPT !.active = active]])
    /\ UNCHANGED tables

\* Slip: A missing is_active taken for true.
UpdateRoleActive(h, u) ==
    /\ IsUser(u)
    /\ Take(h, [op |-> "save", user |-> u, row |-> [user[u] EXCEPT !.active = TRUE]])
    /\ UNCHANGED tables

UpdateRole(h, u) ==
    /\ IsUser(u)
    /\ Take(h, [op |-> "save", user |-> u, row |-> user[u]])
    /\ UNCHANGED tables

Save(h) ==
    /\ req[h].op \in {"save", "update"}
    /\ LET u == req[h].user
       IN /\ SaveUser(u, req[h].row)
          /\ barred' = IF req[h].op # "update" THEN barred
                       ELSE IF req[h].row.active THEN barred \ {u} ELSE barred \cup {u}
    /\ Done(h)
    /\ UNCHANGED <<session, token, access, origin, proved, shut>>

(* The admin's create: an is_active of false is a zero value GORM replaces *)
(* by the column default, so the user is active whatever was asked.        *)
AdminCreate(h, u) ==
    /\ req[h] = Idle
    /\ user[u] = Absent
    /\ user' = [user EXCEPT ![u] = [active |-> TRUE, verified |-> TRUE]]
    /\ proved' = proved \cup {u}
    /\ UNCHANGED <<session, token, access, req, origin, barred, shut>>

CheckDelete(h, u) ==
    /\ IsUser(u)
    /\ Take(h, [op |-> "delete", user |-> u])
    /\ UNCHANGED tables

\* The foreign keys cascade to the user's sessions and tokens.
CommitDelete(h) ==
    /\ req[h].op = "delete"
    /\ LET u == req[h].user
       IN /\ user' = [user EXCEPT ![u] = Gone]
          /\ session' = [s \in Sessions |->
                IF IsSession(s) /\ session[s].user = u THEN Gone ELSE session[s]]
          /\ token' = [k \in Tokens |->
                IF IsToken(k) /\ token[k].user = u THEN Gone ELSE token[k]]
    /\ Done(h)
    /\ UNCHANGED <<access, history>>

---------------------------------------------------------------------------
(* A statement fails, its guard on the row as now read refuses, the client *)
(* is gone or the server stops: what was written stays, the rest is not.   *)
Abort(h) ==
    /\ req[h] # Idle
    /\ Done(h)
    /\ UNCHANGED <<tables, history>>

(* The environment: dates pass. *)
SessionExpires(s) ==
    /\ IsSession(s)
    /\ ~session[s].late
    /\ session' = [session EXCEPT ![s].late = TRUE]
    /\ UNCHANGED <<user, token, access, req, history>>

TokenExpires(k) ==
    /\ IsToken(k)
    /\ ~token[k].late
    /\ token' = [token EXCEPT ![k].late = TRUE]
    /\ UNCHANGED <<user, session, access, req, history>>

AccessExpires(u) ==
    /\ u \in access
    /\ access' = access \ {u}
    /\ UNCHANGED <<user, session, token, req, history>>

---------------------------------------------------------------------------
MailStep(h) ==
    \/ \E u \in Users : Register(h, u) \/ ResendVerification(h, u)
    \/ \E k \in Tokens : createVerificationToken(h, k) \/ CheckVerify(h, k)
    \/ CommitVerify(h)

SessionStep(h) ==
    \/ \E u \in Users : CheckLogin(h, u)
    \/ \E s \in Sessions : CommitLogin(h, s)
    \/ \E s \in Sessions : FindSession(h, s) \/ FindRevoked(h, s) \/ Logout(h, s)
    \/ LoadUser(h)
    \/ Rotate(h)
    \/ \E s \in Sessions : Renew(h, s)
    \/ RevokeAllForUser(h)
    \/ Close(h)

UserStep(h) ==
    \/ \E u \in Users : RequireAuth(h, u)
    \/ UpdateProfile(h)
    \/ \E u \in Users, active \in BOOLEAN : UpdateActive(h, u, active)
    \/ \E u \in Users : UpdateRole(h, u)
    \/ Save(h)
    \/ \E u \in Users : AdminCreate(h, u) \/ CheckDelete(h, u)
    \/ CommitDelete(h)

ClockStep ==
    \/ \E s \in Sessions : SessionExpires(s)
    \/ \E k \in Tokens : TokenExpires(k)
    \/ \E u \in Users : AccessExpires(u)

Next ==
    \/ \E h \in Handlers : MailStep(h) \/ SessionStep(h) \/ UserStep(h) \/ Abort(h)
    \/ ClockStep

Spec == Init /\ [][Next]_vars

\* The same when requests do not overlap.
Alone == \A g, h \in Handlers : req[g] # Idle /\ req[h] # Idle => g = h

SerialSpec == Init /\ [][Next /\ Alone']_vars
=============================================================================
