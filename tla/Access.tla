------------------------------- MODULE Access -------------------------------
(***************************************************************************)
(* Who may do what: the guards in front of the handlers, the cookie and    *)
(* the X-token they look at, and the handlers that open, change and end    *)
(* sessions.                                                               *)
(*                                                                         *)
(* A request passes its guard in one step and runs its handler later, and  *)
(* a handler that checks the role again does so in a step of its own; in   *)
(* between, other requests may log out, log in or change a role, also with *)
(* the same cookie.  The chains of transactions inside a login or an       *)
(* account change are in UserAccounts; here a login reads the role and     *)
(* then opens a session, and a change writes and then rotates sessions.    *)
(***************************************************************************)
EXTENDS Naturals, FiniteSets

CONSTANTS Clients,         \* browsers: one cookie each
          Ids,             \* accounts
          SeedRoles,       \* their roles initially
          Asked,           \* routes that are requested
          Tokens,          \* tokens that may ever be minted (bound)
          Handlers,        \* requests in progress at once (bound)
          None

Roles == {"admin", "operator"}
Sessions == [token : Tokens, id : Ids, role : Roles]

\* The guarded routes, by what they are guarded with and what they do.
Api == {"modellist", "cardwrite", "cardsearch"}
Pages == {"carddata"}      \* with modelwrite, loginrec, ...: no further check
Accounts == {"changerole", "resetpw"}
Self == {"changepw", "logout"}
AdminRoutes == Api \cup Pages \cup Accounts     \* checkAdminVerify
Routes == AdminRoutes \cup Self                 \* the others: checkOperatorVerify

\* A request: as which account it acts, and on which; trusted is history.
Requests ==
  [pc : {"login", "handle", "write", "rotate", "leave"}, client : Clients,
   route : Routes \cup {"login"}, header : Tokens \cup {None}, token : Tokens \cup {None},
   id : Ids, target : Ids, role : Roles, trusted : SUBSET Ids]

ASSUME AccessAssumption ==
  /\ SeedRoles \in [Ids -> Roles]
  /\ Asked \subseteq Routes
  /\ None \notin Tokens \cup Requests

VARIABLES users,           \* the accounts' roles
          sess,            \* bucket sessions, without the expired ones
          minted,
          userdb,          \* whether the user store could be opened
          jar,             \* jar[c]: the token in the session of c's cookie
          known,           \* known[c]: tokens c was given, for X-token
          req,             \* req[h]: the request handler h is serving
          overstepped,     \* history: an account acted as admin that was not
          late,            \* history: a request got in with an ended token
          ended,           \* history: tokens whose end was answered, or expired
          stale            \* history: accounts that may have sessions of an older
                          \* role, of a login that overlapped the change or
                          \* because a stop cut the change short

vars == <<users, sess, minted, userdb, jar, known, req,
          overstepped, late, ended, stale>>

TypeOK ==
  /\ users \in [Ids -> Roles] /\ sess \subseteq Sessions
  /\ minted \subseteq Tokens /\ ended \subseteq Tokens
  /\ userdb \in BOOLEAN
  /\ jar \in [Clients -> Tokens \cup {None}]
  /\ known \in [Clients -> SUBSET Tokens]
  /\ req \in [Handlers -> Requests \cup {None}]
  /\ overstepped \in BOOLEAN /\ late \in BOOLEAN
  /\ stale \subseteq Ids

Init ==
  /\ users = SeedRoles /\ sess = {} /\ minted = {}
  /\ userdb \in BOOLEAN
  /\ jar = [c \in Clients |-> None] /\ known = [c \in Clients |-> {}]
  /\ req = [h \in Handlers |-> None]
  /\ overstepped = FALSE /\ late = FALSE /\ ended = {} /\ stale = {}

-----------------------------------------------------------------------------
Admins == {id \in Ids : users[id] = "admin"}
At(h, pc) == req[h] # None /\ req[h].pc = pc
Goto(h, fields) == req' = [req EXCEPT ![h] = fields]
Done(h) == req' = [req EXCEPT ![h] = None]

\* The changes of role that have been written and not yet answered.
Demoting ==
  {h \in Handlers : /\ At(h, "rotate")
                    /\ req[h].route = "changerole" /\ req[h].role = "operator"}

\* Accounts that are admin, or were until a moment ago.
Trusted == Admins \cup stale \cup {req[h].target : h \in Demoting}

\* Handler h goes on; while the others are in progress, id came to be trusted.
Trust(h, fields, id) ==
  req' = [g \in Handlers |->
            IF g = h THEN fields
            ELSE IF req[g] = None THEN None
            ELSE [req[g] EXCEPT !.trusted = @ \cup {id}]]

\* ResolveSession: at most one session, none without a user store.
ResolveSession(t) == {s \in sess : userdb /\ s.token = t}

\* The token of a request: X-token first, then the cookie.
Presented(r) == IF r.header # None THEN r.header ELSE jar[r.client]

\* A login: the row that UserVerify read, once its password is known to match.
\* Without a user store the legacy credential passes too, but gives no token.
Login(h, c, id) ==
  /\ userdb /\ req[h] = None
  /\ Goto(h, [pc |-> "login", client |-> c, route |-> "login", header |-> None,
              token |-> None, id |-> id, target |-> id, role |-> users[id],
              trusted |-> {}])
  /\ UNCHANGED <<users, sess, minted, userdb, jar, known, overstepped, late, ended,
                 stale>>

\* AdminIn: the session has the role of that row; the token goes into the
\* cookie, and the API answers with it.
AdminIn(h) ==
  /\ At(h, "login")
  /\ LET r == req[h]
         outdated == r.role = "admin" /\ users[r.id] # "admin"
     IN /\ \E t \in Tokens \ minted :
             /\ minted' = minted \cup {t}
             /\ sess' = sess \cup {[token |-> t, id |-> r.id, role |-> r.role]}
             /\ jar' = [jar EXCEPT ![r.client] = t]
             /\ known' = [known EXCEPT ![r.client] = @ \cup {t}]
        /\ IF outdated THEN /\ stale' = stale \cup {r.id}
                            /\ Trust(h, None, r.id)
                       ELSE UNCHANGED stale /\ Done(h)
  /\ UNCHANGED <<users, userdb, overstepped, late, ended>>

-----------------------------------------------------------------------------
(* The guards.                                                             *)

AdmitsAnyRole(r, s) ==             \* mutant: operators pass the admin guard
  r.route \in AdminRoutes /\ r.header # None => r.route \in Api

\* checkAdminVerify: with an X-token three routes, whatever the role; with the
\* cookie all of them, for an admin.  checkOperatorVerify: any session.  (Update
\* of AppSession, called for an X-token, is module AppSession.)
Admits(r, s) ==
  r.route \in AdminRoutes =>
    IF r.header # None THEN r.route \in Api ELSE s.role = "admin"

\* A request arrives and passes its guard; otherwise it is answered "not found"
\* and nothing has happened.  Remembered for the properties: which accounts might
\* act as admin, and whether the end of the token has already been answered.
Receive(h, c, route, header, target, role) ==
  /\ req[h] = None
  /\ route \in Accounts \/ target = CHOOSE id \in Ids : TRUE
  /\ route = "changerole" \/ role = "operator"
  /\ LET r == [pc |-> "handle", client |-> c, route |-> route, header |-> header,
               token |-> None, id |-> target, target |-> target, role |-> role,
               trusted |-> IF route \in AdminRoutes THEN Trusted ELSE {}]
     IN \E s \in ResolveSession(Presented(r)) :
          /\ Admits(r, s)
          /\ Goto(h, [r EXCEPT !.id = s.id])
          /\ late' = (late \/ s.token \in ended)
  /\ UNCHANGED <<users, sess, minted, userdb, jar, known, overstepped, ended, stale>>

-----------------------------------------------------------------------------
(* The handlers.                                                           *)

Act(h, id) ==
  overstepped' = \/ overstepped
                 \/ /\ req[h].route \in AdminRoutes
                    /\ req[h].header = None \/ req[h].route \notin Api
                    /\ id \notin req[h].trusted

\* What is served as it was admitted.
Serve(h) ==
  /\ At(h, "handle") /\ req[h].route \in Api \cup Pages
  /\ Act(h, req[h].id)
  /\ Done(h)
  /\ UNCHANGED <<users, sess, minted, userdb, jar, known, late, ended, stale>>

\* adminChangeRole and adminResetPW ask for the role again, of the session the
\* cookie has now.
Recheck(h) ==
  /\ At(h, "handle") /\ req[h].route \in Accounts
  /\ LET found == {s \in ResolveSession(jar[req[h].client]) : s.role = "admin"}
     IN \/ \E s \in found : Goto(h, [req[h] EXCEPT !.pc = "write", !.id = s.id])
        \/ found = {} /\ Done(h)
  /\ UNCHANGED <<users, sess, minted, userdb, jar, known, overstepped, late, ended, stale>>

\* UserChangeRole, which refuses to demote the last admin (in detail in
\* UserAccounts), and UserChangePW for another account.
Write(h) ==
  /\ At(h, "write")
  /\ LET r == req[h]
         written == [r EXCEPT !.pc = "rotate"]
     IN IF r.route = "changerole" /\ r.role = "operator" /\ Admins = {r.target}
          THEN Done(h) /\ UNCHANGED <<users, overstepped>>
          ELSE /\ users' = IF r.route = "changerole"
                             THEN [users EXCEPT ![r.target] = r.role] ELSE users
               /\ IF users'[r.target] = "admin" THEN Trust(h, written, r.target)
                                               ELSE Goto(h, written)
               /\ Act(h, r.id)
  /\ UNCHANGED <<sess, minted, userdb, jar, known, late, ended, stale>>

\* changepw: the account of the session the request has now, whose old password
\* matches or does not.
ChangeOwnPW(h) ==
  /\ At(h, "handle") /\ req[h].route = "changepw"
  /\ LET found == ResolveSession(Presented(req[h]))
     IN \/ \E s \in found :
             /\ Goto(h, [req[h] EXCEPT !.pc = "rotate", !.token = s.token,
                                       !.id = s.id, !.target = s.id])
             /\ Act(h, s.id)
        \/ Done(h) /\ UNCHANGED overstepped
  /\ UNCHANGED <<users, sess, minted, userdb, jar, known, late, ended, stale>>

\* SessionDeleteForUser, after which an admin is answered.
Rotate(h) ==
  /\ At(h, "rotate")
  /\ sess' = {s \in sess : s.id # req[h].target}
  /\ ended' = ended \cup {s.token : s \in sess \ sess'}
  /\ stale' = stale \ {req[h].target}
  /\ IF req[h].route = "changepw" THEN Goto(h, [req[h] EXCEPT !.pc = "leave"])
                                  ELSE Done(h)
  /\ UNCHANGED <<users, minted, userdb, jar, known, overstepped, late>>

LogoutCookie(h) ==                 \* mutant: only the cookie is given up
  /\ At(h, "handle") /\ req[h].route = "logout"
  /\ Act(h, req[h].id)
  /\ Goto(h, [req[h] EXCEPT !.pc = "leave", !.token = Presented(req[h])])
  /\ UNCHANGED <<users, sess, minted, userdb, jar, known, late, ended, stale>>

\* LogoutCurrentUser: the session of X-token or else of the cookie ...
Logout(h) ==
  /\ At(h, "handle") /\ req[h].route = "logout"
  /\ sess' = {s \in sess : s.token # Presented(req[h])}
  /\ Act(h, req[h].id)
  /\ Goto(h, [req[h] EXCEPT !.pc = "leave", !.token = Presented(req[h])])
  /\ UNCHANGED <<users, minted, userdb, jar, known, late, ended, stale>>

\* ... and AdminOut, which ends the cookie, whatever session it stands for.
AdminOut(h) ==
  /\ At(h, "leave")
  /\ jar' = [jar EXCEPT ![req[h].client] = None]
  /\ ended' = (ended \cup {req[h].token}) \ {None}
  /\ Done(h)
  /\ UNCHANGED <<users, sess, minted, userdb, known, overstepped, late, stale>>

-----------------------------------------------------------------------------
\* A session grows older than API_SESSION_TIME.
Expire(s) ==
  /\ sess' = sess \ {s}
  /\ ended' = ended \cup {s.token}
  /\ UNCHANGED <<users, minted, userdb, jar, known, req, overstepped, late, stale>>

\* The process stops and starts.  The cookies are worth nothing then if their
\* sessions were in memory, or the file they are in cannot be opened.
Restart ==
  /\ \E h \in Handlers : req[h] # None
  /\ req' = [h \in Handlers |-> None]
  /\ jar' \in {jar, [c \in Clients |-> None]}
  /\ stale' = stale \cup {req[h].target : h \in Demoting}
  /\ UNCHANGED <<users, sess, minted, userdb, known, overstepped, late, ended>>

Handle(h) == \/ AdminIn(h) \/ Serve(h) \/ Recheck(h) \/ Write(h) \/ Rotate(h)
             \/ ChangeOwnPW(h) \/ Logout(h) \/ AdminOut(h)

Next ==
  \/ \E h \in Handlers, c \in Clients, id \in Ids : Login(h, c, id)
  \/ \E h \in Handlers, c \in Clients, route \in Asked :
       \E header \in known[c] \cup {None}, target \in Ids, role \in Roles :
         Receive(h, c, route, header, target, role)
  \/ \E h \in Handlers : Handle(h)
  \/ \E s \in sess : Expire(s)
  \/ Restart

Spec == Init /\ [][Next]_vars

-----------------------------------------------------------------------------
\* Except for the three API routes with an X-token, what is guarded by
\* checkAdminVerify is done only for an account that was admin, or whose
\* demotion had not yet been answered, while the request was in progress:
\* however the steps of requests, logouts and role changes fall, also in several
\* tabs that share a cookie.  A login that read the role before the demotion, and
\* opens its session after it, escapes; the account's next change ends that.
PrivilegeCurrent == ~overstepped

\* No request gets in with a token after its logout or rotation was answered or
\* its time had passed, by cookie or by X-token, though cookie and token may be
\* used in other requests and other tabs at that moment.
RevokedNeverServed == ~late
=============================================================================
