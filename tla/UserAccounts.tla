---------------------------- MODULE UserAccounts ----------------------------
(***************************************************************************)
(* The multi-user store (userdb.db) and the handlers that use it: login    *)
(* with the one-time bootstrap of the first account, own password change,  *)
(* role change, account creation, password reset and logout.               *)
(*                                                                         *)
(* Each bbolt transaction is one action.  A handler is a chain of them and *)
(* keeps what it read (a whole account row) in its own variables in        *)
(* between, so two handlers may overtake each other at every pc, and a     *)
(* restart may cut a chain anywhere.  rec and salt are abstracted to the   *)
(* password they were made from; a session the clock has expired is not in *)
(* sess, since every reader treats it as absent.                           *)
(***************************************************************************)
EXTENDS Naturals, FiniteSets

CONSTANTS Names,           \* usernames; the bootstrap account's id is its name
          Uuids,           \* ids UserNewID may return
          Passwords,
          Tokens,          \* session tokens that may ever be minted (bound)
          Handlers,        \* requests in progress at once (bound)
          Operations,      \* handlers in this instance, a subset of AllOperations
          LegacyName, LegacyPw,   \* the credential CheckAdminLogin accepts
          Seeded,          \* ids of the accounts present initially
          SeedRow,         \* and their rows
          SeedSessions,    \* and the sessions that are open
          Restarts,        \* whether the process may stop and start again
          Nobody           \* neither an id nor a token

Ids == Names \cup Uuids
Roles == {"admin", "operator"}
Rows == [name : Names, pw : Passwords, role : Roles, must : BOOLEAN]
Sessions == [token : Tokens, id : Ids, role : Roles]
AllOperations == {"login", "logout", "changepw", "changerole", "create", "reset"}

ASSUME UsersAssumption ==
  /\ LegacyName \in Names \ Uuids /\ LegacyPw \in Passwords
  /\ Seeded \subseteq Ids /\ SeedRow \in [Ids -> Rows]
  /\ LegacyName \in Seeded => SeedRow[LegacyName].name = LegacyName
  /\ SeedSessions \subseteq Sessions
  /\ \A s \in SeedSessions : s.id \in Seeded /\ s.role = SeedRow[s.id].role
  /\ Operations \subseteq AllOperations
  /\ Restarts \in BOOLEAN
  /\ Nobody \notin Ids \cup Tokens

VARIABLES exists, users,   \* bucket users: its keys and rows
          sess,            \* bucket sessions
          loginlog,        \* bucket loginlog
          bootstrap,       \* bucket meta: the bootstrap user's id
          lastToken,       \* CardAdmin.lastToken, shared by all requests
          minted,          \* tokens NewV4 has returned
          req,             \* req[h]: the request handler h is serving
          handed,          \* history: tokens handed out, with the name and password
          granted,         \* history: roles and passwords ever set, per id
          own,             \* history: ids whose owner chose the current password
          cut              \* history: ids a restart left half-written

store == <<exists, users, sess, loginlog, bootstrap>>
vars == <<exists, users, sess, loginlog, bootstrap, lastToken, minted, req,
          handed, granted, own, cut>>
history == <<handed, granted, own, cut>>

\* The chain a handler is in and what it holds: the account it works on, the
\* row it read, the arguments of the request and the token it minted.
Requests ==
  [op : AllOperations, id : Ids \cup {Nobody}, row : Rows,
   name : Names, pw : Passwords, old : Passwords, role : Roles,
   token : Tokens \cup {Nobody},
   pc : {"idle", "verify", "exists", "bootadd", "bootmark", "session", "log",
         "reply", "check", "pwread", "pwwrite", "rotate", "mustread",
         "mustwrite", "roleread", "rolecount", "rolewrite", "dup", "add"}]

AnyRow == SeedRow[LegacyName]
Idle == [op |-> "logout", id |-> Nobody, row |-> AnyRow, name |-> LegacyName,
         pw |-> LegacyPw, old |-> LegacyPw, role |-> "operator",
         token |-> Nobody, pc |-> "idle"]

TypeOK ==
  /\ exists \subseteq Ids
  /\ users \in [Ids -> Rows]
  /\ sess \subseteq Sessions
  /\ loginlog \subseteq Sessions
  /\ bootstrap \in Ids \cup {Nobody}
  /\ lastToken \in Tokens \cup {Nobody}
  /\ minted \subseteq Tokens
  /\ req \in [Handlers -> Requests]
  /\ handed \subseteq [name : Names, pw : Passwords, token : Tokens]
  /\ granted \in [Ids -> SUBSET (Roles \cup Passwords)]
  /\ own \subseteq Ids
  /\ cut \subseteq Ids

Init ==
  /\ exists = Seeded
  /\ users = SeedRow
  /\ sess = SeedSessions
  /\ loginlog = SeedSessions
  /\ bootstrap = IF Seeded \cap Names = {} THEN Nobody
                                          ELSE CHOOSE id \in Seeded : id \in Names
  /\ lastToken = Nobody
  /\ minted = {s.token : s \in SeedSessions}
  /\ req = [h \in Handlers |-> Idle]
  /\ handed = {}
  /\ granted = [id \in Ids |-> IF id \in Seeded
                  THEN {SeedRow[id].role, SeedRow[id].pw} ELSE {}]
  /\ own = {id \in Seeded : ~SeedRow[id].must}
  /\ cut = {}

-----------------------------------------------------------------------------
(* Readers and steps shared by the handlers.                               *)

UserGetByIDFirst(id) == users[CHOOSE x \in exists : TRUE]   \* mutant: any row
UserGetByID(id) == users[id]

\* UserGetByUsername scans the bucket and returns one of the rows with that
\* name (the last in key order; ids are random, so which one is arbitrary).
Named(n) == {id \in exists : users[id].name = n}
UserGetByUsername(n) == CHOOSE id \in Named(n) : TRUE

Admins == {id \in exists : users[id].role = "admin"}

At(h, pc) == req[h].pc = pc
Goto(h, pc) == req' = [req EXCEPT ![h].pc = pc]
Finish(h) == req' = [req EXCEPT ![h] = Idle]
Begin(h, op, fields) ==
  /\ At(h, "idle")
  /\ op \in Operations
  /\ req' = [req EXCEPT ![h] = fields]

PutRowNoRole(id, row) ==             \* mutant: the role gets its default
  users' = [users EXCEPT ![id] = [row EXCEPT !.role = "operator"]]

\* A write of a whole row, always of the copy the handler has read before.
PutRow(id, row) == users' = [users EXCEPT ![id] = row]
Grant(id, what) == granted' = [granted EXCEPT ![id] = @ \cup what]

\* UserSetMustChange: a View that reads the row, an Update that writes it back
\* with the flag.  The flag is cleared only by a change of one's own password.
MustRead(h) ==
  /\ At(h, "mustread")
  /\ req' = [req EXCEPT ![h].row = UserGetByID(req[h].id), ![h].pc = "mustwrite"]
  /\ UNCHANGED <<store, lastToken, minted, history>>

MustWriteReset(h) ==                 \* mutant: only a reset sets the flag
  /\ At(h, "mustwrite")
  /\ PutRow(req[h].id, [req[h].row EXCEPT !.must = req[h].op = "reset"])
  /\ IF req[h].op = "login" THEN Goto(h, "session") ELSE Finish(h)
  /\ UNCHANGED <<exists, sess, loginlog, bootstrap, lastToken, minted, history>>

MustWrite(h) ==
  /\ At(h, "mustwrite")
  /\ PutRow(req[h].id, [req[h].row EXCEPT !.must = req[h].op # "changepw"])
  /\ IF req[h].op = "login" THEN Goto(h, "session") ELSE Finish(h)
  /\ UNCHANGED <<exists, sess, loginlog, bootstrap, lastToken, minted, history>>

RotatePW(h) ==                       \* mutant: a role change keeps sessions
  /\ At(h, "rotate")
  /\ sess' = {s \in sess : s.id # req[h].id \/ req[h].op = "changerole"}
  /\ IF req[h].op = "changerole" THEN Finish(h) ELSE Goto(h, "mustread")
  /\ UNCHANGED <<exists, users, loginlog, bootstrap, lastToken, minted, history>>

\* SessionDeleteForUser, after a role or a password was written.
Rotate(h) ==
  /\ At(h, "rotate")
  /\ sess' = {s \in sess : s.id # req[h].id}
  /\ IF req[h].op = "changerole" THEN Finish(h) ELSE Goto(h, "mustread")
  /\ UNCHANGED <<exists, users, loginlog, bootstrap, lastToken, minted, history>>

-----------------------------------------------------------------------------
(* adminLoginCore: the user store first, the legacy credential only when   *)
(* the store is empty.                                                     *)

LoginStart(h, n, p) ==
  /\ Begin(h, "login", [Idle EXCEPT !.op = "login", !.name = n, !.pw = p,
       !.id = IF Named(n) = {} THEN Nobody ELSE UserGetByUsername(n),
       !.role = IF Named(n) = {} THEN "operator" ELSE users[UserGetByUsername(n)].role,
       !.pc = IF Named(n) = {} THEN "exists" ELSE "verify"])
  /\ lastToken' = Nobody
  /\ UNCHANGED <<store, minted, history>>

LoginVerifyAny(h) ==                 \* mutant: the password is not compared
  /\ At(h, "verify")
  /\ Goto(h, "session")
  /\ UNCHANGED <<store, lastToken, minted, history>>

\* UserVerify reads the account by name again.
LoginVerify(h) ==
  /\ At(h, "verify")
  /\ IF users[UserGetByUsername(req[h].name)].pw = req[h].pw
       THEN Goto(h, "session") ELSE Goto(h, "exists")
  /\ UNCHANGED <<store, lastToken, minted, history>>

LoginExistsAny(h) ==                 \* mutant: accounts are not looked for
  /\ At(h, "exists")
  /\ IF req[h].name = LegacyName /\ req[h].pw = LegacyPw
       THEN Goto(h, "bootadd") ELSE Finish(h)
  /\ UNCHANGED <<store, lastToken, minted, history>>

\* userRecordExists, then CheckAdminLogin against the other database.
LoginExists(h) ==
  /\ At(h, "exists")
  /\ IF exists = {} /\ req[h].name = LegacyName /\ req[h].pw = LegacyPw
       THEN Goto(h, "bootadd") ELSE Finish(h)
  /\ UNCHANGED <<store, lastToken, minted, history>>

BootAdd(h) ==
  /\ At(h, "bootadd")
  /\ exists' = exists \cup {req[h].name}
  /\ PutRow(req[h].name, [name |-> req[h].name, pw |-> req[h].pw,
                          role |-> "admin", must |-> FALSE])
  /\ Grant(req[h].name, {"admin", req[h].pw})
  /\ own' = own \ {req[h].name}
  /\ req' = [req EXCEPT ![h].id = req[h].name, ![h].role = "admin",
                        ![h].pc = "bootmark"]
  /\ UNCHANGED <<sess, loginlog, bootstrap, lastToken, minted, handed, cut>>

BootMark(h) ==
  /\ At(h, "bootmark")
  /\ bootstrap' = req[h].id
  /\ Goto(h, "mustread")
  /\ UNCHANGED <<exists, users, sess, loginlog, lastToken, minted, history>>

SessionCreateEarly(h) ==             \* mutant: published before it is logged
  /\ At(h, "session")
  /\ \E t \in Tokens \ minted :
       /\ minted' = minted \cup {t}
       /\ sess' = sess \cup {[token |-> t, id |-> req[h].id, role |-> req[h].role]}
       /\ req' = [req EXCEPT ![h].token = t, ![h].pc = "log"]
       /\ lastToken' = t
  /\ UNCHANGED <<exists, users, loginlog, bootstrap, history>>

\* UserLoginNew: the session, with the role read when the login began ...
SessionCreate(h) ==
  /\ At(h, "session")
  /\ \E t \in Tokens \ minted :
       /\ minted' = minted \cup {t}
       /\ sess' = sess \cup {[token |-> t, id |-> req[h].id, role |-> req[h].role]}
       /\ req' = [req EXCEPT ![h].token = t, ![h].pc = "log"]
  /\ UNCHANGED <<exists, users, loginlog, bootstrap, lastToken, history>>

\* NewV4 fails, and the login with it.
SessionFails(h) ==
  /\ At(h, "session")
  /\ Finish(h)
  /\ UNCHANGED <<store, lastToken, minted, history>>

\* ... then the history entry; the caller publishes the token in lastToken.
LoginLogAppend(h) ==
  /\ At(h, "log")
  /\ loginlog' = loginlog \cup
       {[token |-> req[h].token, id |-> req[h].id, role |-> req[h].role]}
  /\ lastToken' = req[h].token
  /\ Goto(h, "reply")
  /\ UNCHANGED <<exists, users, sess, bootstrap, minted, history>>

\* AdminIn sets the cookie to the request's own token; verifyApiLogin answers
\* with the shared field as well, unless another login has blanked it.
LoginReplyApi(h) ==
  /\ At(h, "reply")
  /\ handed' = handed \cup {[name |-> req[h].name, pw |-> req[h].pw, token |-> t] :
                               t \in {req[h].token, lastToken} \ {Nobody}}
  /\ Finish(h)
  /\ UNCHANGED <<store, lastToken, minted, granted, own, cut>>

LoginReplyGui(h) ==
  /\ At(h, "reply")
  /\ handed' = handed \cup {[name |-> req[h].name, pw |-> req[h].pw,
                                token |-> req[h].token]}
  /\ Finish(h)
  /\ UNCHANGED <<store, lastToken, minted, granted, own, cut>>

\* LogoutCurrentUser, and the clock running past API_SESSION_TIME.
SessionDelete(h, s) ==
  /\ At(h, "idle")
  /\ "logout" \in Operations
  /\ s \in sess
  /\ sess' = sess \ {s}
  /\ UNCHANGED <<exists, users, loginlog, bootstrap, lastToken, minted, req,
                 history>>

-----------------------------------------------------------------------------
(* ChangeOwnPassword and UserAdminResetPW, both through UserChangePW.      *)

ChangePWStart(h, s, old, new) ==
  /\ s \in sess
  /\ Begin(h, "changepw", [Idle EXCEPT !.op = "changepw", !.id = s.id,
                             !.old = old, !.pw = new, !.pc = "check"])
  /\ UNCHANGED <<store, lastToken, minted, history>>

ChangePWCheck(h) ==
  /\ At(h, "check")
  /\ IF UserGetByID(req[h].id).pw = req[h].old THEN Goto(h, "pwread") ELSE Finish(h)
  /\ UNCHANGED <<store, lastToken, minted, history>>

\* adminResetPW lets in a session whose role is admin.
ResetPWStart(h, s, id, new) ==
  /\ s \in sess /\ s.role = "admin"
  /\ Begin(h, "reset", [Idle EXCEPT !.op = "reset", !.id = id, !.pw = new,
                          !.pc = "pwread"])
  /\ UNCHANGED <<store, lastToken, minted, history>>

PWRead(h) ==
  /\ At(h, "pwread")
  /\ IF req[h].id \in exists
       THEN req' = [req EXCEPT ![h].row = UserGetByID(req[h].id),
                               ![h].pc = "pwwrite"]
       ELSE Finish(h)
  /\ UNCHANGED <<store, lastToken, minted, history>>

PWWrite(h) ==
  /\ At(h, "pwwrite")
  /\ PutRow(req[h].id, [req[h].row EXCEPT !.pw = req[h].pw, !.must = FALSE])
  /\ Grant(req[h].id, {req[h].pw})
  /\ own' = IF req[h].op = "changepw" THEN own \cup {req[h].id}
                                     ELSE own \ {req[h].id}
  /\ Goto(h, "rotate")
  /\ UNCHANGED <<exists, sess, loginlog, bootstrap, lastToken, minted, handed, cut>>

-----------------------------------------------------------------------------
(* UserChangeRole.                                                         *)

ChangeRoleStart(h, s, id, r) ==
  /\ s \in sess /\ s.role = "admin"
  /\ Begin(h, "changerole", [Idle EXCEPT !.op = "changerole", !.id = id,
                               !.role = r, !.pc = "roleread"])
  /\ UNCHANGED <<store, lastToken, minted, history>>

RoleRead(h) ==
  /\ At(h, "roleread")
  /\ IF req[h].id \in exists
       THEN req' = [req EXCEPT ![h].row = UserGetByID(req[h].id),
              ![h].pc = IF UserGetByID(req[h].id).role = "admin" /\ req[h].role # "admin"
                          THEN "rolecount" ELSE "rolewrite"]
       ELSE Finish(h)
  /\ UNCHANGED <<store, lastToken, minted, history>>

RoleCountNone(h) ==                  \* mutant: off by one
  /\ At(h, "rolecount")
  /\ IF Cardinality(Admins) < 1 THEN Finish(h) ELSE Goto(h, "rolewrite")
  /\ UNCHANGED <<store, lastToken, minted, history>>

\* The guard against demoting the last admin, on a count of its own.
RoleCount(h) ==
  /\ At(h, "rolecount")
  /\ IF Cardinality(Admins) <= 1 THEN Finish(h) ELSE Goto(h, "rolewrite")
  /\ UNCHANGED <<store, lastToken, minted, history>>

RoleWrite(h) ==
  /\ At(h, "rolewrite")
  /\ PutRow(req[h].id, [req[h].row EXCEPT !.role = req[h].role])
  /\ Grant(req[h].id, {req[h].role})
  /\ Goto(h, "rotate")
  /\ UNCHANGED <<exists, sess, loginlog, bootstrap, lastToken, minted, handed, own, cut>>

-----------------------------------------------------------------------------
(* UserCreate: look the name up, add the row, flag it.                     *)

CreateStart(h, s, n, p, r) ==
  /\ s \in sess /\ s.role = "admin"
  /\ Begin(h, "create", [Idle EXCEPT !.op = "create", !.name = n, !.pw = p,
                           !.role = r, !.pc = "dup"])
  /\ UNCHANGED <<store, lastToken, minted, history>>

CreateDupNone(h) ==                  \* mutant: the name is not looked up
  /\ At(h, "dup")
  /\ Goto(h, "add")
  /\ UNCHANGED <<store, lastToken, minted, history>>

CreateDup(h) ==
  /\ At(h, "dup")
  /\ IF Named(req[h].name) # {} THEN Finish(h) ELSE Goto(h, "add")
  /\ UNCHANGED <<store, lastToken, minted, history>>

CreateAdd(h) ==
  /\ At(h, "add")
  /\ \E id \in Uuids \ exists :
       /\ exists' = exists \cup {id}
       /\ PutRow(id, [name |-> req[h].name, pw |-> req[h].pw,
                      role |-> req[h].role, must |-> FALSE])
       /\ Grant(id, {req[h].role, req[h].pw})
       /\ own' = own \ {id}
       /\ req' = [req EXCEPT ![h].id = id, ![h].pc = "mustread"]
  /\ UNCHANGED <<sess, loginlog, bootstrap, lastToken, minted, handed, cut>>

\* UserNewID fails, and nothing is created.
CreateFails(h) ==
  /\ At(h, "add")
  /\ Finish(h)
  /\ UNCHANGED <<store, lastToken, minted, history>>

-----------------------------------------------------------------------------
\* What stops when the process does: the requests and lastToken.
Stop ==
  /\ Restarts
  /\ \E h \in Handlers : ~At(h, "idle")
  /\ req' = [h \in Handlers |-> Idle]
  /\ lastToken' = Nobody
  /\ cut' = cut \cup {req[h].id : h \in {g \in Handlers :
               req[g].pc \in {"bootmark", "mustread", "mustwrite", "rotate"}}}
  /\ UNCHANGED <<exists, users, sess, loginlog, minted, handed, granted, own>>

RestartPlain == Stop /\ UNCHANGED bootstrap            \* mutant: no backfill

\* The process stops anywhere and starts again: the requests and lastToken are
\* gone, the file stays, and CreateUserDB runs backfillBootstrapUser.
Restart ==
  /\ Stop
  /\ bootstrap' = IF bootstrap = Nobody /\ \E id \in exists : id = users[id].name
                    THEN CHOOSE id \in exists : id = users[id].name
                    ELSE bootstrap

Login(h) ==
  \/ \E n \in Names, p \in Passwords : LoginStart(h, n, p)
  \/ LoginVerify(h) \/ LoginExists(h) \/ BootAdd(h) \/ BootMark(h)
  \/ SessionCreate(h) \/ SessionFails(h) \/ LoginLogAppend(h)
  \/ LoginReplyApi(h) \/ LoginReplyGui(h)

ChangePW(h) ==
  \/ \E s \in sess, old, new \in Passwords : ChangePWStart(h, s, old, new)
  \/ \E s \in sess, id \in Ids, new \in Passwords : ResetPWStart(h, s, id, new)
  \/ ChangePWCheck(h) \/ PWRead(h) \/ PWWrite(h)

ChangeRole(h) ==
  \/ \E s \in sess, id \in Ids, r \in Roles : ChangeRoleStart(h, s, id, r)
  \/ RoleRead(h) \/ RoleCount(h) \/ RoleWrite(h)

Create(h) ==
  \/ \E s \in sess, n \in Names, p \in Passwords, r \in Roles :
       CreateStart(h, s, n, p, r)
  \/ CreateDup(h) \/ CreateAdd(h) \/ CreateFails(h)

Next ==
  \/ \E h \in Handlers :
       \/ Login(h) \/ ChangePW(h) \/ ChangeRole(h) \/ Create(h)
       \/ MustRead(h) \/ MustWrite(h) \/ Rotate(h)
       \/ \E s \in sess : SessionDelete(h, s)
  \/ Restart

Spec == Init /\ [][Next]_vars

-----------------------------------------------------------------------------
(* Properties that hold whatever the interleaving, and across restarts.    *)

\* The login history is complete: a token that reached any client, even one
\* published through the shared lastToken, has its entry in the log.
HandedOutLogged ==
  \A x \in handed : \E e \in loginlog : e.token = x.token

\* Nothing in the store is made up: the role and password of a row, and the
\* role of a session, are ones some handler explicitly set for that account,
\* however stale the rows that handlers write back.
GrantedOnly ==
  /\ \A id \in exists : {users[id].role, users[id].pw} \subseteq granted[id]
  /\ \A s \in sess : s.id \in exists /\ s.role \in granted[s.id]

\* Accounts never vanish and never change their name: a whole-row write goes
\* to the account the row was read from.
AccountsStable ==
  [][\A id \in exists : id \in exists' /\ users'[id].name = users[id].name]_vars

(* Properties of a server that handles one request at a time, but may be   *)
(* stopped between any two transactions.                                   *)

\* There is an admin from the moment there is an account.
AtLeastOneAdmin == exists # {} => Admins # {}

\* No two accounts share a username.
UniqueNames ==
  \A id1, id2 \in exists : users[id1].name = users[id2].name => id1 = id2

Quiescent == \A h \in Handlers : At(h, "idle")

\* The bootstrap account is marked as such once nothing is in progress, also
\* when the server stopped before SetBootstrapUser: the backfill repairs it.
BootstrapMarked ==
  Quiescent /\ exists \cap Names # {} => bootstrap \in exists \cap Names

\* Between requests every open session carries its account's current role: a
\* demoted admin has lost access when changerole has answered.  A stop before
\* SessionDeleteForUser leaves old sessions, of the one account in hand only.
SessionRoleCurrent ==
  Quiescent => \A s \in sess : s.id \in cut \/ s.role = users[s.id].role

\* A login hands out the session of the account that logged in.
ReplyIsOwn ==
  \A x \in handed : \E e \in loginlog :
    e.token = x.token /\ users[e.id].name = x.name

\* The legacy credential seeds an account only into an empty store.
BootstrapOnce == [][\A h \in Handlers : BootAdd(h) => exists = {}]_vars

\* Between requests an account is flagged for a password change exactly when
\* its password was set by someone else (bootstrap, create or reset).  A stop
\* before UserSetMustChange misses the flag, of the one account in hand only.
ForcedChange ==
  Quiescent => \A id \in exists \ cut : users[id].must <=> id \notin own

-----------------------------------------------------------------------------
(* What a server promises that handles one request at a time, Serving's.    *)

Serving == CHOOSE h \in Handlers : TRUE
Holds(id, pcs) == req[Serving].id = id /\ req[Serving].pc \in pcs

\* An account with a password of somebody else's choice and no flag yet.
Unsettled(id) ==
  Holds(id, {"bootmark", "mustread", "mustwrite"}) /\ req[Serving].op # "changepw"

\* A change counts once the sessions are gone, a flag as soon as it is due, and
\* a session once the login that opened it has answered.
Shown(id) ==
  CASE Holds(id, {"rotate"}) -> req[Serving].row
    [] Unsettled(id) -> [users[id] EXCEPT !.must = TRUE]
    [] OTHER -> users[id]
Answered(s) ==
  At(Serving, "log") \/ At(Serving, "reply") => s.token # req[Serving].token

\* The user store implements the promise: whole logins, changes and creations
\* are its steps, and a stop cuts them short only in the ways it allows.
Promised == INSTANCE Accounts WITH
  accounts <- [id \in exists |-> Shown(id)],
  sessions <- {s \in sess : Answered(s)},
  clients <- handed,
  root <- IF At(Serving, "bootmark") THEN req[Serving].id ELSE bootstrap,
  unflagged <- IF Unsettled(req[Serving].id) THEN req[Serving].id ELSE Nobody
AccountsSpec == Promised!Spec
=============================================================================
