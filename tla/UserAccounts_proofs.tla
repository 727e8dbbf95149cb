------------------------ MODULE UserAccounts_proofs ------------------------
(***************************************************************************)
(* Why stale rows do no worse than restore what was once set, for any       *)
(* number of accounts, tokens and requests at once.  What a handler carries  *)
(* from one transaction to the next was true when it read it (InFlight), and *)
(* accounts, grants and the login history only grow (Grows), so it is still   *)
(* good enough when it is written.                                          *)
(***************************************************************************)
EXTENDS UserAccounts, TLAPS

\* Places at which a handler works on an account that exists, and those at which
\* it holds a copy of its row.
Holding == {"mustwrite", "pwwrite", "rolecount", "rolewrite"}
Bound == Holding \cup {"verify", "bootmark", "session", "log", "rotate", "mustread"}

\* Places a login never comes to, and those only a login comes to.
Others == {"check", "pwread", "pwwrite", "roleread", "rolecount", "rolewrite",
           "rotate", "dup", "add"}
LoginOnly == {"verify", "exists", "bootadd", "bootmark", "session", "log", "reply"}

InFlightOf(h) ==
  LET r == req[h]
  IN /\ r.pc \in LoginOnly => r.op = "login"
     /\ r.pc \in Others => r.op # "login"
     /\ r.pc \in Bound => r.id \in exists
     /\ r.pc \in Bound /\ r.op = "login" => r.role \in granted[r.id]
     /\ r.pc \in Holding => /\ {r.row.role, r.row.pw} \subseteq granted[r.id]
                            /\ r.row.name = users[r.id].name
     /\ r.pc = "bootadd" => r.name = LegacyName
     /\ r.pc \in {"log", "reply"} => r.token \in Tokens
     /\ r.pc = "reply" => \E e \in loginlog : e.token = r.token

InFlight == \A h \in Handlers : InFlightOf(h)

\* The bootstrap account's id is its name.
Bootstrapped == LegacyName \in exists => users[LegacyName].name = LegacyName

LastLogged == lastToken # Nobody => \E e \in loginlog : e.token = lastToken

IInv ==
  TypeOK /\ InFlight /\ Bootstrapped /\ LastLogged /\ HandedOutLogged /\ GrantedOnly

\* What no step takes away.
Grows ==
  /\ exists \subseteq exists' /\ loginlog \subseteq loginlog'
  /\ \A id \in Ids : granted[id] \subseteq granted'[id]
  /\ \A id \in exists : users'[id].name = users[id].name

-----------------------------------------------------------------------------
LEMMA IdleType == Idle \in Requests
BY UsersAssumption DEF Idle, AnyRow, Requests, AllOperations, Ids, Roles

\* UserGetByUsername returns an account of that name, if there is one.
LEMMA FoundByName ==
  ASSUME NEW n, Named(n) # {}
  PROVE  UserGetByUsername(n) \in exists /\ users[UserGetByUsername(n)].name = n
<1>1. UserGetByUsername(n) \in Named(n)
  BY Zenon DEF UserGetByUsername
<1> QED
  BY <1>1 DEF Named

LEMMA InitIInv == Init => IInv
<1> SUFFICES ASSUME Init PROVE IInv
  OBVIOUS
<1> USE UsersAssumption DEF Init
<1>1. bootstrap \in Ids \cup {Nobody}
  <2>1. CASE Seeded \cap Names = {}
    BY <2>1
  <2>2. CASE Seeded \cap Names # {}
    <3>1. (CHOOSE id \in Seeded : id \in Names) \in Seeded
      BY <2>2, Zenon
    <3> QED
      BY <2>2, <3>1
  <2> QED
    BY <2>1, <2>2
<1>2. granted \in [Ids -> SUBSET (Roles \cup Passwords)]
  BY DEF Rows
<1>3. TypeOK
  BY <1>1, <1>2, IdleType DEF TypeOK, Sessions
<1>4. InFlight
  BY DEF InFlight, InFlightOf, Idle, LoginOnly, Others, Bound, Holding
<1>5. GrantedOnly
  BY DEF GrantedOnly, Sessions
<1> QED
  BY <1>3, <1>4, <1>5 DEF IInv, Bootstrapped, LastLogged, HandedOutLogged

\* A handler that does nothing in a step goes on holding what it held.
LEMMA OthersKeep ==
  ASSUME IInv, Grows, NEW g \in Handlers, req'[g] = req[g]
  PROVE  InFlightOf(g)'
<1>1. InFlightOf(g) /\ req[g] \in Requests
  BY DEF IInv, InFlight, TypeOK
<1>2. req[g].pc \in Bound =>
        /\ req[g].id \in exists /\ req[g].id \in exists'
        /\ granted[req[g].id] \subseteq granted'[req[g].id]
        /\ users'[req[g].id].name = users[req[g].id].name
  BY <1>1 DEF InFlightOf, Grows, IInv, TypeOK
<1>3. req[g].pc \in Holding => req[g].pc \in Bound
  BY DEF Bound
<1> QED
  BY <1>1, <1>2, <1>3 DEF InFlightOf, Grows

LEMMA HandlerKeeps ==
  ASSUME IInv, Grows, TypeOK', NEW h \in Handlers, InFlightOf(h)',
         \A g \in Handlers \ {h} : req'[g] = req[g]
  PROVE  InFlight'
BY OthersKeep DEF InFlight

\* Nothing changes but what a handler carries; lastToken may be blanked.
Quiet ==
  UNCHANGED <<store, minted, history>> /\ lastToken' \in {Nobody, lastToken}

LEMMA QuietKeeps ==
  ASSUME IInv, NEW h \in Handlers, NEW r \in Requests,
         req' = [req EXCEPT ![h] = r], InFlightOf(h)', Quiet
  PROVE  IInv' /\ Grows
<1> USE DEF Quiet, store, history
<1>1. Grows
  BY DEF Grows
<1>2. TypeOK'
  BY DEF IInv, TypeOK
<1>3. \A g \in Handlers \ {h} : req'[g] = req[g]
  BY DEF IInv, TypeOK
<1>4. InFlight'
  BY <1>1, <1>2, <1>3, HandlerKeeps
<1>5. (Bootstrapped /\ LastLogged /\ HandedOutLogged /\ GrantedOnly)'
  BY DEF IInv, Bootstrapped, LastLogged, HandedOutLogged, GrantedOnly
<1> QED
  BY <1>1, <1>2, <1>4, <1>5 DEF IInv

Places == LoginOnly \cup Others \cup {"idle", "mustread", "mustwrite"}

\* A handler is done, or goes on to a place where it needs to know no more.
LEMMA FinishKeeps ==
  ASSUME IInv, NEW h \in Handlers, Finish(h), Quiet
  PROVE  IInv' /\ Grows
<1>1. req' = [req EXCEPT ![h] = Idle] /\ req'[h] = Idle
  BY DEF IInv, TypeOK, Finish
<1>2. InFlightOf(h)'
  BY <1>1 DEF InFlightOf, Idle, LoginOnly, Others, Bound, Holding
<1> QED
  BY <1>1, <1>2, IdleType, QuietKeeps

LEMMA GotoKeeps ==
  ASSUME IInv, NEW h \in Handlers, NEW pc \in Places, Goto(h, pc), Quiet,
         InFlightOf(h)'
  PROVE  IInv' /\ Grows
<1> DEFINE r == [req[h] EXCEPT !.pc = pc]
<1>1. req' = [req EXCEPT ![h] = r]
  BY DEF Goto
<1>2. r \in Requests
  BY DEF IInv, TypeOK, Requests, Places, LoginOnly, Others
<1> QED
  BY <1>1, <1>2, QuietKeeps

-----------------------------------------------------------------------------
(* A login.                                                                *)

LEMMA LoginStartKeeps ==
  ASSUME IInv, NEW h \in Handlers, NEW n \in Names, NEW p \in Passwords,
         LoginStart(h, n, p)
  PROVE  IInv' /\ Grows
<1> DEFINE u == UserGetByUsername(n)
           r == [Idle EXCEPT !.op = "login", !.name = n, !.pw = p,
                   !.id = IF Named(n) = {} THEN Nobody ELSE u,
                   !.role = IF Named(n) = {} THEN "operator" ELSE users[u].role,
                   !.pc = IF Named(n) = {} THEN "exists" ELSE "verify"]
<1>1. req' = [req EXCEPT ![h] = r]
  BY DEF LoginStart, Begin
<1>2. Named(n) # {} => /\ u \in exists /\ u \in Ids
                       /\ users[u].role \in Roles /\ users[u].role \in granted[u]
  BY FoundByName DEF IInv, TypeOK, GrantedOnly, Rows
<1> HIDE DEF u
<1>3. r \in Requests
  BY <1>2, IdleType DEF Requests, AllOperations, Roles
<1>4. req'[h] = r
  BY <1>1 DEF IInv, TypeOK
<1>5. Quiet
  BY DEF LoginStart, Quiet, store
<1>6. /\ r.op = "login" /\ r.pc \in {"exists", "verify"}
      /\ r.pc = "verify" => r.id \in exists /\ r.role \in granted[r.id]
  BY <1>2, IdleType DEF Idle, Requests
<1> HIDE DEF r
<1>7. InFlightOf(h)'
  BY <1>4, <1>5, <1>6
  DEF InFlightOf, LoginOnly, Others, Bound, Holding, Quiet, store, history
<1> QED
  BY <1>1, <1>3, <1>5, <1>7, QuietKeeps

LEMMA LoginVerifyKeeps ==
  ASSUME IInv, NEW h \in Handlers, LoginVerify(h)
  PROVE  IInv' /\ Grows
<1>1. PICK pc \in {"session", "exists"} : Goto(h, pc)
  BY DEF LoginVerify
<1>2. Quiet /\ req[h].pc = "verify"
  BY DEF LoginVerify, Quiet, At, store
<1>3. InFlightOf(h)'
  BY <1>1, <1>2
  DEF IInv, TypeOK, InFlight, InFlightOf, Goto, LoginOnly, Others, Bound, Holding,
      Quiet, store, history, Requests
<1> QED
  BY <1>1, <1>2, <1>3, GotoKeeps DEF Places, LoginOnly

LEMMA LoginExistsKeeps ==
  ASSUME IInv, NEW h \in Handlers, LoginExists(h)
  PROVE  IInv' /\ Grows
<1>1. Quiet /\ req[h].pc = "exists"
  BY DEF LoginExists, Quiet, At, store
<1>2. CASE Finish(h)
  BY <1>1, <1>2, FinishKeeps
<1>3. CASE req[h].name = LegacyName /\ Goto(h, "bootadd")
  <2>1. InFlightOf(h)'
    BY <1>1, <1>3
    DEF IInv, TypeOK, InFlight, InFlightOf, Goto, LoginOnly, Others, Bound, Holding,
        Requests
  <2> QED
    BY <1>1, <1>3, <2>1, GotoKeeps DEF Places, LoginOnly
<1> QED
  BY <1>2, <1>3 DEF LoginExists

LEMMA SessionFailsKeeps ==
  ASSUME IInv, NEW h \in Handlers, SessionFails(h)
  PROVE  IInv' /\ Grows
BY FinishKeeps DEF SessionFails, Quiet

LEMMA BootAddKeeps ==
  ASSUME IInv, NEW h \in Handlers, BootAdd(h)
  PROVE  IInv' /\ Grows
<1> DEFINE n == req[h].name
           row == [name |-> n, pw |-> req[h].pw, role |-> "admin", must |-> FALSE]
<1> USE DEF BootAdd, At, PutRow, Grant
<1>1. /\ n = LegacyName /\ n \in Ids /\ n \in Names /\ req[h].pw \in Passwords
      /\ req[h].op = "login"
  BY DEF IInv, InFlight, InFlightOf, TypeOK, Requests, LoginOnly, Ids
<1>2. row \in Rows /\ "admin" \in Roles
  BY <1>1 DEF Rows, Roles
<1>3. TypeOK'
  <2>1. req' \in [Handlers -> Requests]
    BY <1>1, <1>2 DEF IInv, TypeOK, Requests
  <2>2. users' \in [Ids -> Rows]
    BY <1>1, <1>2 DEF IInv, TypeOK
  <2>3. granted' \in [Ids -> SUBSET (Roles \cup Passwords)]
    BY <1>1, <1>2 DEF IInv, TypeOK
  <2> QED
    BY <1>1, <2>1, <2>2, <2>3 DEF IInv, TypeOK
<1>4. users'[n] = row /\ \A id \in Ids \ {n} : users'[id] = users[id]
  BY <1>1 DEF IInv, TypeOK
<1>5. /\ granted'[n] = granted[n] \cup {"admin", req[h].pw}
      /\ \A id \in Ids \ {n} : granted'[id] = granted[id]
  BY <1>1 DEF IInv, TypeOK
<1>6. Grows
  BY <1>1, <1>4, <1>5 DEF Grows, IInv, TypeOK, Bootstrapped
<1>7. InFlightOf(h)'
  <2>1. req'[h].id = n /\ req'[h].role = "admin" /\ req'[h].pc = "bootmark"
        /\ req'[h].op = "login"
    BY <1>1 DEF IInv, TypeOK, Requests
  <2> QED
    BY <2>1, <1>5 DEF InFlightOf, LoginOnly, Others, Bound, Holding
<1>8. \A g \in Handlers \ {h} : req'[g] = req[g]
  BY DEF IInv, TypeOK
<1>9. GrantedOnly'
  BY <1>1, <1>4, <1>5 DEF IInv, GrantedOnly, TypeOK, Sessions
<1>10. (Bootstrapped /\ LastLogged /\ HandedOutLogged)'
  BY <1>1, <1>4 DEF IInv, Bootstrapped, LastLogged, HandedOutLogged
<1> QED
  BY <1>3, <1>6, <1>7, <1>8, <1>9, <1>10, HandlerKeeps DEF IInv

LEMMA BootMarkKeeps ==
  ASSUME IInv, NEW h \in Handlers, BootMark(h)
  PROVE  IInv' /\ Grows
<1> USE DEF BootMark, At, Goto, history
<1>1. Grows
  BY DEF Grows
<1>2. req[h].id \in exists /\ req[h].op = "login"
  BY DEF IInv, InFlight, InFlightOf, Bound, LoginOnly
<1>3. TypeOK'
  <2>1. req' \in [Handlers -> Requests]
    BY DEF IInv, TypeOK, Requests
  <2> QED
    BY <1>2, <2>1 DEF IInv, TypeOK
<1>4. InFlightOf(h)'
  BY <1>2 DEF IInv, TypeOK, InFlight, InFlightOf, LoginOnly, Others, Bound, Holding,
              Requests
<1>5. \A g \in Handlers \ {h} : req'[g] = req[g]
  BY DEF IInv, TypeOK
<1>6. (Bootstrapped /\ LastLogged /\ HandedOutLogged /\ GrantedOnly)'
  BY DEF IInv, Bootstrapped, LastLogged, HandedOutLogged, GrantedOnly
<1> QED
  BY <1>1, <1>3, <1>4, <1>5, <1>6, HandlerKeeps DEF IInv

LEMMA SessionCreateKeeps ==
  ASSUME IInv, NEW h \in Handlers, SessionCreate(h)
  PROVE  IInv' /\ Grows
<1> USE DEF SessionCreate, At, history
<1> PICK t \in Tokens \ minted :
      /\ minted' = minted \cup {t}
      /\ sess' = sess \cup {[token |-> t, id |-> req[h].id, role |-> req[h].role]}
      /\ req' = [req EXCEPT ![h].token = t, ![h].pc = "log"]
  OBVIOUS
<1>1. Grows
  BY DEF Grows
<1>2. /\ req[h].id \in exists /\ req[h].id \in Ids /\ req[h].op = "login"
      /\ req[h].role \in granted[req[h].id] /\ req[h].role \in Roles
  BY DEF IInv, InFlight, InFlightOf, TypeOK, Bound, LoginOnly, Requests
<1>3. TypeOK'
  <2>1. req' \in [Handlers -> Requests]
    BY DEF IInv, TypeOK, Requests
  <2> QED
    BY <1>2, <2>1 DEF IInv, TypeOK, Sessions
<1>4. InFlightOf(h)'
  BY <1>2 DEF IInv, TypeOK, InFlight, InFlightOf, LoginOnly, Others, Bound, Holding,
              Requests
<1>5. \A g \in Handlers \ {h} : req'[g] = req[g]
  BY DEF IInv, TypeOK
<1>6. GrantedOnly'
  BY <1>2 DEF IInv, GrantedOnly
<1>7. (Bootstrapped /\ LastLogged /\ HandedOutLogged)'
  BY DEF IInv, Bootstrapped, LastLogged, HandedOutLogged
<1> QED
  BY <1>1, <1>3, <1>4, <1>5, <1>6, <1>7, HandlerKeeps DEF IInv

LEMMA LoginLogAppendKeeps ==
  ASSUME IInv, NEW h \in Handlers, LoginLogAppend(h)
  PROVE  IInv' /\ Grows
<1> USE DEF LoginLogAppend, At, Goto, history
<1> DEFINE e == [token |-> req[h].token, id |-> req[h].id, role |-> req[h].role]
<1>1. Grows
  BY DEF Grows
<1>2. /\ req[h].id \in Ids /\ req[h].role \in Roles /\ req[h].token \in Tokens
      /\ req[h].op = "login"
  BY DEF IInv, InFlight, InFlightOf, TypeOK, Bound, LoginOnly, Requests
<1>3. e \in loginlog' /\ e.token = req[h].token
  OBVIOUS
<1>4. TypeOK'
  <2>1. req' \in [Handlers -> Requests]
    BY DEF IInv, TypeOK, Requests
  <2>2. e \in Sessions
    BY <1>2 DEF Sessions
  <2> QED
    BY <1>2, <2>1, <2>2 DEF IInv, TypeOK
<1>5. InFlightOf(h)'
  <2>1. /\ req'[h].pc = "reply" /\ req'[h].op = "login"
        /\ req'[h].token = req[h].token
    BY <1>2 DEF IInv, TypeOK, Requests
  <2> QED
    BY <1>2, <1>3, <2>1 DEF InFlightOf, LoginOnly, Others, Bound, Holding
<1>6. \A g \in Handlers \ {h} : req'[g] = req[g]
  BY DEF IInv, TypeOK
<1>7. LastLogged'
  BY <1>3 DEF LastLogged
<1>8. (Bootstrapped /\ HandedOutLogged /\ GrantedOnly)'
  BY DEF IInv, Bootstrapped, HandedOutLogged, GrantedOnly
<1> QED
  BY <1>1, <1>4, <1>5, <1>6, <1>7, <1>8, HandlerKeeps DEF IInv

LEMMA LoginReplyKeeps ==
  ASSUME IInv, NEW h \in Handlers, LoginReplyApi(h) \/ LoginReplyGui(h)
  PROVE  IInv' /\ Grows
<1> USE DEF LoginReplyApi, LoginReplyGui, At, Finish, store
<1> PICK T \in SUBSET {req[h].token, lastToken} :
      /\ Nobody \notin T
      /\ handed' = handed \cup {[name |-> req[h].name, pw |-> req[h].pw, token |-> t] : t \in T}
  <2>1. req[h].token # Nobody
    BY UsersAssumption DEF IInv, InFlight, InFlightOf
  <2>2. CASE LoginReplyApi(h)
    BY <2>2
  <2>3. CASE LoginReplyGui(h)
    <3>1. handed' = handed \cup
                      {[name |-> req[h].name, pw |-> req[h].pw, token |-> t] :
                          t \in {req[h].token}}
      BY <2>3
    <3> QED
      BY <2>1, <3>1
  <2> QED
    BY <2>2, <2>3
<1>1. Grows
  BY DEF Grows
<1>2. \A t \in T : t \in Tokens /\ \E e \in loginlog : e.token = t
  BY DEF IInv, InFlight, InFlightOf, LastLogged, TypeOK
<1>3. TypeOK'
  <2>1. req[h].name \in Names /\ req[h].pw \in Passwords
    BY DEF IInv, TypeOK, Requests
  <2> QED
    BY <1>2, <2>1, IdleType DEF IInv, TypeOK
<1>4. InFlightOf(h)'
  <2>1. req'[h] = Idle
    BY DEF IInv, TypeOK
  <2> QED
    BY <2>1 DEF InFlightOf, Idle, LoginOnly, Others, Bound, Holding
<1>5. \A g \in Handlers \ {h} : req'[g] = req[g]
  BY DEF IInv, TypeOK
<1>6. HandedOutLogged'
  BY <1>2 DEF IInv, HandedOutLogged
<1>7. (Bootstrapped /\ LastLogged /\ GrantedOnly)'
  BY DEF IInv, Bootstrapped, LastLogged, GrantedOnly
<1> QED
  BY <1>1, <1>3, <1>4, <1>5, <1>6, <1>7, HandlerKeeps DEF IInv

-----------------------------------------------------------------------------
(* Sessions that end, and the account changes.                             *)

LEMMA FewerSessions ==
  ASSUME IInv, Grows, NEW h \in Handlers, sess' \subseteq sess,
         req' \in [Handlers -> Requests], InFlightOf(h)',
         \A g \in Handlers \ {h} : req'[g] = req[g],
         UNCHANGED <<exists, users, loginlog, bootstrap, lastToken, minted, history>>
  PROVE  IInv'
<1> USE DEF history
<1>1. TypeOK'
  BY DEF IInv, TypeOK
<1>2. (Bootstrapped /\ LastLogged /\ HandedOutLogged /\ GrantedOnly)'
  BY DEF IInv, Bootstrapped, LastLogged, HandedOutLogged, GrantedOnly
<1> QED
  BY <1>1, <1>2, HandlerKeeps DEF IInv

LEMMA SessionDeleteKeeps ==
  ASSUME IInv, NEW h \in Handlers, NEW s \in sess, SessionDelete(h, s)
  PROVE  IInv' /\ Grows
<1>1. Grows
  BY DEF SessionDelete, Grows, history
<1>2. InFlightOf(h)'
  BY <1>1, OthersKeep DEF SessionDelete
<1> QED
  BY <1>1, <1>2, FewerSessions DEF SessionDelete, IInv, TypeOK

LEMMA RotateKeeps ==
  ASSUME IInv, NEW h \in Handlers, Rotate(h)
  PROVE  IInv' /\ Grows
<1> USE DEF Rotate, At
<1>1. Grows
  BY DEF Grows, history
<1>2. CASE Finish(h)
  <2>1. req'[h] = Idle /\ req' \in [Handlers -> Requests]
    BY <1>2, IdleType DEF IInv, TypeOK, Finish
  <2>2. InFlightOf(h)'
    BY <2>1 DEF InFlightOf, Idle, LoginOnly, Others, Bound, Holding
  <2>3. \A g \in Handlers \ {h} : req'[g] = req[g]
    BY <1>2 DEF IInv, TypeOK, Finish
  <2> QED
    BY <1>1, <2>1, <2>2, <2>3, FewerSessions
<1>3. CASE Goto(h, "mustread")
  <2>1. req' \in [Handlers -> Requests]
    BY <1>3 DEF IInv, TypeOK, Goto, Requests
  <2>2. InFlightOf(h)'
    BY <1>3, <1>1
    DEF IInv, TypeOK, InFlight, InFlightOf, Goto, LoginOnly, Others, Bound, Holding,
        Requests, Grows
  <2>3. \A g \in Handlers \ {h} : req'[g] = req[g]
    BY <1>3 DEF IInv, TypeOK, Goto
  <2> QED
    BY <1>1, <2>1, <2>2, <2>3, FewerSessions
<1> QED
  BY <1>2, <1>3

\* A row that was read goes beside what the handler held.
LEMMA ReadFields ==
  ASSUME NEW q \in Requests, NEW row, NEW pc
  PROVE  LET r == [q EXCEPT !.row = row, !.pc = pc]
         IN /\ r.row = row /\ r.pc = pc /\ r.id = q.id
            /\ r.op = q.op /\ r.role = q.role
BY DEF Requests

\* A handler reads the row of its account.
LEMMA ReadKeeps ==
  ASSUME IInv, NEW h \in Handlers, req[h].id \in exists,
         req[h].pc \in {"mustread", "pwread", "roleread"},
         NEW pc \in Holding, pc = "mustwrite" <=> req[h].pc = "mustread",
         req' = [req EXCEPT ![h].row = UserGetByID(req[h].id), ![h].pc = pc],
         Quiet
  PROVE  IInv' /\ Grows
<1> DEFINE row == users[req[h].id]
           r == [req[h] EXCEPT !.row = row, !.pc = pc]
<1>1. req' = [req EXCEPT ![h] = r]
  BY DEF UserGetByID, IInv, TypeOK
<1>2. req[h].id \in Ids /\ row \in Rows
  BY DEF IInv, TypeOK
<1>3. r \in Requests
  BY <1>2 DEF IInv, TypeOK, Requests, Holding
<1>4. /\ req'[h].row = row /\ req'[h].pc = pc /\ req'[h].id = req[h].id
      /\ req'[h].op = req[h].op /\ req'[h].role = req[h].role
  <2>1. req[h] \in Requests /\ req'[h] = r
    BY <1>1 DEF IInv, TypeOK
  <2> HIDE DEF row
  <2>2. /\ r.row = row /\ r.pc = pc /\ r.id = req[h].id
        /\ r.op = req[h].op /\ r.role = req[h].role
    BY <2>1, ReadFields
  <2> HIDE DEF r
  <2> QED
    BY <2>1, <2>2
<1>5. {row.role, row.pw} \subseteq granted[req[h].id]
  BY DEF IInv, GrantedOnly
<1>6. /\ req[h].pc # "mustread" => req[h].op # "login"
      /\ req[h].op = "login" => req[h].role \in granted[req[h].id]
  BY DEF IInv, InFlight, InFlightOf, Others, Bound
<1>7. InFlightOf(h)'
  BY <1>4, <1>5, <1>6
  DEF InFlightOf, LoginOnly, Others, Bound, Holding, Quiet, store, history
<1> QED
  BY <1>1, <1>3, <1>7, QuietKeeps

LEMMA MustReadKeeps ==
  ASSUME IInv, NEW h \in Handlers, MustRead(h)
  PROVE  IInv' /\ Grows
<1>1. req[h].id \in exists /\ req[h].pc = "mustread"
  BY DEF MustRead, At, IInv, InFlight, InFlightOf, Bound
<1> QED
  BY <1>1, ReadKeeps DEF MustRead, Quiet, Holding

LEMMA PWReadKeeps ==
  ASSUME IInv, NEW h \in Handlers, PWRead(h)
  PROVE  IInv' /\ Grows
<1>1. Quiet /\ req[h].pc = "pwread"
  BY DEF PWRead, Quiet, At
<1>2. CASE Finish(h)
  BY <1>1, <1>2, FinishKeeps
<1>3. CASE /\ req[h].id \in exists
           /\ req' = [req EXCEPT ![h].row = UserGetByID(req[h].id), ![h].pc = "pwwrite"]
  BY <1>1, <1>3, ReadKeeps DEF Holding
<1> QED
  BY <1>2, <1>3 DEF PWRead

LEMMA RoleReadKeeps ==
  ASSUME IInv, NEW h \in Handlers, RoleRead(h)
  PROVE  IInv' /\ Grows
<1>1. Quiet /\ req[h].pc = "roleread"
  BY DEF RoleRead, Quiet, At
<1>2. CASE Finish(h)
  BY <1>1, <1>2, FinishKeeps
<1>3. CASE \E pc \in {"rolecount", "rolewrite"} :
             /\ req[h].id \in exists
             /\ req' = [req EXCEPT ![h].row = UserGetByID(req[h].id), ![h].pc = pc]
  BY <1>1, <1>3, ReadKeeps DEF Holding
<1> QED
  BY <1>2, <1>3 DEF RoleRead

\* A handler writes back the row it holds, with a change that is granted.
LEMMA WriteKeeps ==
  ASSUME IInv, NEW h \in Handlers, req[h].pc \in Holding,
         NEW row \in Rows, row.name = req[h].row.name,
         PutRow(req[h].id, row),
         NEW G \in SUBSET (Roles \cup Passwords), Grant(req[h].id, G),
         {row.role, row.pw} \subseteq {req[h].row.role, req[h].row.pw} \cup G,
         own' \subseteq Ids, req' \in [Handlers -> Requests],
         \A g \in Handlers \ {h} : req'[g] = req[g],
         Grows => InFlightOf(h)',
         UNCHANGED <<exists, sess, loginlog, bootstrap, lastToken, minted, handed, cut>>
  PROVE  IInv' /\ Grows
<1> DEFINE id == req[h].id
<1>1. /\ id \in exists /\ id \in Ids /\ exists \subseteq Ids
      /\ {req[h].row.role, req[h].row.pw} \subseteq granted[id]
      /\ req[h].row.name = users[id].name
  BY DEF IInv, TypeOK, InFlight, InFlightOf, Bound
<1>2. users'[id] = row /\ \A x \in Ids \ {id} : users'[x] = users[x]
  BY <1>1 DEF IInv, TypeOK, PutRow
<1>3. /\ granted'[id] = granted[id] \cup G
      /\ \A x \in Ids \ {id} : granted'[x] = granted[x]
  BY <1>1 DEF IInv, TypeOK, Grant
<1>4. Grows
  BY <1>1, <1>2, <1>3 DEF Grows
<1>5. TypeOK'
  <2>1. users' \in [Ids -> Rows]
    BY DEF IInv, TypeOK, PutRow
  <2>2. granted' \in [Ids -> SUBSET (Roles \cup Passwords)]
    BY <1>1 DEF IInv, TypeOK, Grant
  <2> QED
    BY <2>1, <2>2 DEF IInv, TypeOK
<1>6. GrantedOnly'
  <2>1. \A x \in exists : {users'[x].role, users'[x].pw} \subseteq granted'[x]
    BY <1>1, <1>2, <1>3 DEF IInv, GrantedOnly
  <2>2. \A s \in sess : s.id \in exists /\ s.role \in granted'[s.id]
    BY <1>1, <1>3 DEF IInv, GrantedOnly
  <2> QED
    BY <2>1, <2>2 DEF GrantedOnly
<1>7. Bootstrapped'
  BY <1>4 DEF Bootstrapped, IInv, Grows
<1>8. (LastLogged /\ HandedOutLogged)'
  BY DEF IInv, LastLogged, HandedOutLogged
<1> QED
  BY <1>4, <1>5, <1>6, <1>7, <1>8, HandlerKeeps DEF IInv

LEMMA MustWriteKeeps ==
  ASSUME IInv, NEW h \in Handlers, MustWrite(h)
  PROVE  IInv' /\ Grows
<1> DEFINE row == [req[h].row EXCEPT !.must = req[h].op # "changepw"]
<1>1. /\ req[h].pc = "mustwrite" /\ req[h] \in Requests
      /\ req[h].id \in exists
      /\ req[h].op = "login" => req[h].role \in granted[req[h].id]
  BY DEF MustWrite, At, IInv, TypeOK, InFlight, InFlightOf, Bound, Holding
<1>2. /\ row \in Rows /\ row.name = req[h].row.name
      /\ row.role = req[h].row.role /\ row.pw = req[h].row.pw
  BY <1>1 DEF Requests, Rows
<1>3. Grant(req[h].id, {})
  BY DEF Grant, MustWrite, history, IInv, TypeOK
<1>4. req' \in [Handlers -> Requests] /\ \A g \in Handlers \ {h} : req'[g] = req[g]
  BY IdleType DEF MustWrite, IInv, TypeOK, Goto, Finish, Requests
<1>5. Grows => InFlightOf(h)'
  <2>1. CASE Finish(h)
    <3>1. req'[h] = Idle
      BY <2>1 DEF Finish, IInv, TypeOK
    <3> QED
      BY <3>1 DEF InFlightOf, Idle, LoginOnly, Others, Bound, Holding
  <2>2. CASE req[h].op = "login" /\ Goto(h, "session")
    <3>1. /\ req'[h].pc = "session" /\ req'[h].op = "login"
          /\ req'[h].id = req[h].id /\ req'[h].role = req[h].role
      BY <1>1, <2>2 DEF Goto, IInv, TypeOK, Requests
    <3> QED
      BY <1>1, <2>2, <3>1
      DEF InFlightOf, LoginOnly, Others, Bound, Holding, MustWrite, history
  <2> QED
    BY <2>1, <2>2 DEF MustWrite
<1>6. /\ PutRow(req[h].id, row)
      /\ UNCHANGED <<exists, sess, loginlog, bootstrap, lastToken, minted, handed, cut>>
      /\ own' \subseteq Ids
  BY DEF MustWrite, history, IInv, TypeOK
<1> HIDE DEF row
<1> QED
  BY <1>1, <1>2, <1>3, <1>4, <1>5, <1>6, WriteKeeps DEF Holding

\* What PWWrite and RoleWrite do next.
LEMMA ToRotate ==
  ASSUME IInv, NEW h \in Handlers, req[h].pc \in {"pwwrite", "rolewrite"},
         Goto(h, "rotate")
  PROVE  /\ req' \in [Handlers -> Requests]
         /\ \A g \in Handlers \ {h} : req'[g] = req[g]
         /\ Grows => InFlightOf(h)'
<1>1. /\ req[h] \in Requests /\ req[h].id \in exists /\ req[h].op # "login"
  BY DEF IInv, TypeOK, InFlight, InFlightOf, Bound, Holding, Others
<1>2. /\ req'[h].pc = "rotate" /\ req'[h].id = req[h].id /\ req'[h].op = req[h].op
  BY <1>1 DEF Goto, IInv, TypeOK, Requests
<1>3. Grows => InFlightOf(h)'
  BY <1>1, <1>2 DEF InFlightOf, LoginOnly, Others, Bound, Holding, Grows
<1> QED
  BY <1>1, <1>3 DEF Goto, IInv, TypeOK, Requests

LEMMA PWWriteKeeps ==
  ASSUME IInv, NEW h \in Handlers, PWWrite(h)
  PROVE  IInv' /\ Grows
<1> DEFINE row == [req[h].row EXCEPT !.pw = req[h].pw, !.must = FALSE]
<1>1. /\ req[h].pc = "pwwrite" /\ req[h] \in Requests /\ req[h].id \in Ids
      /\ own \subseteq Ids
  BY DEF PWWrite, At, IInv, TypeOK, InFlight, InFlightOf, Bound, Holding
<1>2. /\ row \in Rows /\ row.name = req[h].row.name
      /\ row.role = req[h].row.role /\ row.pw = req[h].pw
      /\ {req[h].pw} \in SUBSET (Roles \cup Passwords)
  BY <1>1 DEF Requests, Rows
<1>3. /\ PutRow(req[h].id, row) /\ Grant(req[h].id, {req[h].pw})
      /\ Goto(h, "rotate")
      /\ UNCHANGED <<exists, sess, loginlog, bootstrap, lastToken, minted, handed, cut>>
  BY DEF PWWrite
<1>4. own' \subseteq Ids
  BY <1>1 DEF PWWrite
<1> HIDE DEF row
<1> QED
  BY <1>1, <1>2, <1>3, <1>4, ToRotate, WriteKeeps DEF Holding

LEMMA RoleWriteKeeps ==
  ASSUME IInv, NEW h \in Handlers, RoleWrite(h)
  PROVE  IInv' /\ Grows
<1> DEFINE row == [req[h].row EXCEPT !.role = req[h].role]
<1>1. req[h].pc = "rolewrite" /\ req[h] \in Requests
  BY DEF RoleWrite, At, IInv, TypeOK
<1>2. /\ row \in Rows /\ row.name = req[h].row.name
      /\ row.role = req[h].role /\ row.pw = req[h].row.pw
      /\ {req[h].role} \in SUBSET (Roles \cup Passwords)
  BY <1>1 DEF Requests, Rows
<1>3. /\ PutRow(req[h].id, row) /\ Grant(req[h].id, {req[h].role})
      /\ Goto(h, "rotate") /\ own' \subseteq Ids
      /\ UNCHANGED <<exists, sess, loginlog, bootstrap, lastToken, minted, handed, cut>>
  BY DEF RoleWrite, IInv, TypeOK
<1> HIDE DEF row
<1> QED
  BY <1>1, <1>2, <1>3, ToRotate, WriteKeeps DEF Holding

LEMMA ChangePWStartKeeps ==
  ASSUME IInv, NEW h \in Handlers, NEW s \in sess, NEW old \in Passwords,
         NEW new \in Passwords, ChangePWStart(h, s, old, new)
  PROVE  IInv' /\ Grows
<1> DEFINE r == [Idle EXCEPT !.op = "changepw", !.id = s.id, !.old = old, !.pw = new,
                            !.pc = "check"]
<1>1. req' = [req EXCEPT ![h] = r] /\ Quiet
  BY DEF ChangePWStart, Begin, Quiet
<1>2. r \in Requests
  BY IdleType DEF IInv, TypeOK, Sessions, Requests, AllOperations
<1>3. r.pc = "check" /\ r.op = "changepw"
  BY IdleType DEF Idle
<1>4. req'[h] = r
  BY <1>1 DEF IInv, TypeOK
<1>5. InFlightOf(h)'
  BY <1>3, <1>4 DEF InFlightOf, LoginOnly, Others, Bound, Holding
<1> QED
  BY <1>1, <1>2, <1>5, QuietKeeps

LEMMA ResetPWStartKeeps ==
  ASSUME IInv, NEW h \in Handlers, NEW s \in sess, NEW id \in Ids,
         NEW new \in Passwords, ResetPWStart(h, s, id, new)
  PROVE  IInv' /\ Grows
<1> DEFINE r == [Idle EXCEPT !.op = "reset", !.id = id, !.pw = new, !.pc = "pwread"]
<1>1. req' = [req EXCEPT ![h] = r] /\ Quiet
  BY DEF ResetPWStart, Begin, Quiet
<1>2. r \in Requests
  BY IdleType DEF IInv, TypeOK, Sessions, Requests, AllOperations
<1>3. r.pc = "pwread" /\ r.op = "reset"
  BY IdleType DEF Idle
<1>4. req'[h] = r
  BY <1>1 DEF IInv, TypeOK
<1>5. InFlightOf(h)'
  BY <1>3, <1>4 DEF InFlightOf, LoginOnly, Others, Bound, Holding
<1> QED
  BY <1>1, <1>2, <1>5, QuietKeeps

LEMMA ChangeRoleStartKeeps ==
  ASSUME IInv, NEW h \in Handlers, NEW s \in sess, NEW id \in Ids,
         NEW role \in Roles, ChangeRoleStart(h, s, id, role)
  PROVE  IInv' /\ Grows
<1> DEFINE r == [Idle EXCEPT !.op = "changerole", !.id = id, !.role = role,
                            !.pc = "roleread"]
<1>1. req' = [req EXCEPT ![h] = r] /\ Quiet
  BY DEF ChangeRoleStart, Begin, Quiet
<1>2. r \in Requests
  BY IdleType DEF IInv, TypeOK, Sessions, Requests, AllOperations
<1>3. r.pc = "roleread" /\ r.op = "changerole"
  BY IdleType DEF Idle
<1>4. req'[h] = r
  BY <1>1 DEF IInv, TypeOK
<1>5. InFlightOf(h)'
  BY <1>3, <1>4 DEF InFlightOf, LoginOnly, Others, Bound, Holding
<1> QED
  BY <1>1, <1>2, <1>5, QuietKeeps

LEMMA CreateStartKeeps ==
  ASSUME IInv, NEW h \in Handlers, NEW s \in sess, NEW n \in Names,
         NEW p \in Passwords, NEW role \in Roles, CreateStart(h, s, n, p, role)
  PROVE  IInv' /\ Grows
<1> DEFINE r == [Idle EXCEPT !.op = "create", !.name = n, !.pw = p, !.role = role,
                            !.pc = "dup"]
<1>1. req' = [req EXCEPT ![h] = r] /\ Quiet
  BY DEF CreateStart, Begin, Quiet
<1>2. r \in Requests
  BY IdleType DEF IInv, TypeOK, Sessions, Requests, AllOperations
<1>3. r.pc = "dup" /\ r.op = "create"
  BY IdleType DEF Idle
<1>4. req'[h] = r
  BY <1>1 DEF IInv, TypeOK
<1>5. InFlightOf(h)'
  BY <1>3, <1>4 DEF InFlightOf, LoginOnly, Others, Bound, Holding
<1> QED
  BY <1>1, <1>2, <1>5, QuietKeeps

\* The checks after which a request goes on or ends.
LEMMA CheckKeeps ==
  ASSUME IInv, NEW h \in Handlers,
         ChangePWCheck(h) \/ RoleCount(h) \/ CreateDup(h) \/ CreateFails(h)
  PROVE  IInv' /\ Grows
<1> USE DEF ChangePWCheck, RoleCount, CreateDup, CreateFails
<1>1. Quiet
  BY DEF Quiet
<1>2. CASE Finish(h)
  BY <1>1, <1>2, FinishKeeps
<1>3. CASE \/ req[h].pc = "check" /\ Goto(h, "pwread")
           \/ req[h].pc = "rolecount" /\ Goto(h, "rolewrite")
           \/ req[h].pc = "dup" /\ Goto(h, "add")
  <2>1. PICK pc \in {"pwread", "rolewrite", "add"} :
          /\ Goto(h, pc)
          /\ pc = "rolewrite" => req[h].pc = "rolecount"
          /\ req[h].pc \in Others
    BY <1>3 DEF Others
  <2>2. req[h] \in Requests /\ req'[h] = [req[h] EXCEPT !.pc = pc]
    BY <2>1 DEF Goto, IInv, TypeOK
  <2>3. InFlightOf(h)
    BY DEF IInv, InFlight
  <2>4. InFlightOf(h)'
    BY <1>1, <2>1, <2>2, <2>3
    DEF InFlightOf, LoginOnly, Others, Bound, Holding, Requests, Quiet, store, history
  <2> QED
    BY <1>1, <2>1, <2>4, GotoKeeps DEF Places, Others
<1> QED
  BY <1>2, <1>3 DEF At

LEMMA CreateAddKeeps ==
  ASSUME IInv, NEW h \in Handlers, CreateAdd(h)
  PROVE  IInv' /\ Grows
<1> USE DEF CreateAdd, At, PutRow, Grant
<1> DEFINE row == [name |-> req[h].name, pw |-> req[h].pw, role |-> req[h].role,
                   must |-> FALSE]
<1> PICK id \in Uuids \ exists :
      /\ exists' = exists \cup {id}
      /\ PutRow(id, row)
      /\ Grant(id, {req[h].role, req[h].pw})
      /\ own' = own \ {id}
      /\ req' = [req EXCEPT ![h].id = id, ![h].pc = "mustread"]
  OBVIOUS
<1>1. id \in Ids /\ id # LegacyName /\ row \in Rows /\ req[h].op # "login"
  BY UsersAssumption
  DEF Ids, Rows, IInv, TypeOK, Requests, InFlight, InFlightOf, Others
<1>2. users'[id] = row /\ \A x \in Ids \ {id} : users'[x] = users[x]
  BY <1>1 DEF IInv, TypeOK
<1>3. /\ granted'[id] = granted[id] \cup {req[h].role, req[h].pw}
      /\ \A x \in Ids \ {id} : granted'[x] = granted[x]
  BY <1>1 DEF IInv, TypeOK
<1>4. TypeOK'
  <2>1. req' \in [Handlers -> Requests]
    BY <1>1 DEF IInv, TypeOK, Requests
  <2>2. users' \in [Ids -> Rows]
    BY <1>1 DEF IInv, TypeOK
  <2>3. granted' \in [Ids -> SUBSET (Roles \cup Passwords)]
    BY <1>1 DEF IInv, TypeOK, Requests
  <2> QED
    BY <1>1, <2>1, <2>2, <2>3 DEF IInv, TypeOK
<1>5. Grows
  BY <1>1, <1>2, <1>3 DEF Grows, IInv, TypeOK
<1>6. InFlightOf(h)'
  <2>1. req'[h].id = id /\ req'[h].pc = "mustread" /\ req'[h].op = req[h].op
    BY DEF IInv, TypeOK, Requests
  <2> QED
    BY <1>1, <2>1 DEF InFlightOf, LoginOnly, Others, Bound, Holding
<1>7. \A g \in Handlers \ {h} : req'[g] = req[g]
  BY DEF IInv, TypeOK
<1>8. GrantedOnly'
  BY <1>1, <1>2, <1>3 DEF IInv, GrantedOnly, TypeOK, Sessions
<1>9. Bootstrapped'
  BY <1>1, <1>2, UsersAssumption DEF IInv, Bootstrapped, Ids
<1>10. (LastLogged /\ HandedOutLogged)'
  BY DEF IInv, LastLogged, HandedOutLogged
<1> QED
  BY <1>4, <1>5, <1>6, <1>7, <1>8, <1>9, <1>10, HandlerKeeps DEF IInv

-----------------------------------------------------------------------------
(* A restart, and all steps together.                                      *)

LEMMA RestartKeeps ==
  ASSUME IInv, Restart
  PROVE  IInv' /\ Grows
<1> USE DEF Restart, Stop
<1>1. Grows
  BY DEF Grows
<1>2. bootstrap' \in Ids \cup {Nobody}
  <2>1. CASE bootstrap' = bootstrap
    BY <2>1 DEF IInv, TypeOK
  <2>2. CASE /\ \E id \in exists : id = users[id].name
             /\ bootstrap' = CHOOSE id \in exists : id = users[id].name
    <3>1. bootstrap' \in exists
      BY <2>2, Zenon
    <3> QED
      BY <3>1 DEF IInv, TypeOK
  <2> QED
    BY <2>1, <2>2
<1>3. cut' \subseteq Ids
  <2> DEFINE Halfway == {g \in Handlers :
               req[g].pc \in {"bootmark", "mustread", "mustwrite", "rotate"}}
  <2>1. \A g \in Halfway : req[g].id \in Ids
    BY DEF IInv, TypeOK, InFlight, InFlightOf, Bound, Holding
  <2>2. cut' = cut \cup {req[g].id : g \in Halfway} /\ cut \subseteq Ids
    BY DEF IInv, TypeOK
  <2> HIDE DEF Halfway
  <2> QED
    BY <2>1, <2>2
<1>4. TypeOK'
  BY <1>2, <1>3, IdleType DEF IInv, TypeOK
<1>5. InFlight'
  BY DEF InFlight, InFlightOf, Idle, LoginOnly, Others, Bound, Holding
<1>6. (Bootstrapped /\ LastLogged /\ HandedOutLogged /\ GrantedOnly)'
  BY DEF IInv, Bootstrapped, LastLogged, HandedOutLogged, GrantedOnly
<1> QED
  BY <1>1, <1>4, <1>5, <1>6 DEF IInv

LEMMA StepIInv == IInv /\ [Next]_vars => IInv' /\ Grows
<1> SUFFICES ASSUME IInv, [Next]_vars PROVE IInv' /\ Grows
  OBVIOUS
<1>1. ASSUME NEW h \in Handlers, Login(h) PROVE IInv' /\ Grows
  BY <1>1, LoginStartKeeps, LoginVerifyKeeps, LoginExistsKeeps, BootAddKeeps,
     BootMarkKeeps, SessionCreateKeeps, SessionFailsKeeps, LoginLogAppendKeeps,
     LoginReplyKeeps, Zenon
  DEF Login
<1>2. ASSUME NEW h \in Handlers, ChangePW(h) PROVE IInv' /\ Grows
  BY <1>2, ChangePWStartKeeps, ResetPWStartKeeps, CheckKeeps, PWReadKeeps,
     PWWriteKeeps, Zenon
  DEF ChangePW
<1>3. ASSUME NEW h \in Handlers, ChangeRole(h) PROVE IInv' /\ Grows
  BY <1>3, ChangeRoleStartKeeps, RoleReadKeeps, CheckKeeps, RoleWriteKeeps, Zenon
  DEF ChangeRole
<1>4. ASSUME NEW h \in Handlers, Create(h) PROVE IInv' /\ Grows
  BY <1>4, CreateStartKeeps, CheckKeeps, CreateAddKeeps, Zenon DEF Create
<1>5. ASSUME NEW h \in Handlers, MustRead(h) \/ MustWrite(h) \/ Rotate(h)
      PROVE  IInv' /\ Grows
  BY <1>5, MustReadKeeps, MustWriteKeeps, RotateKeeps
<1>6. ASSUME NEW h \in Handlers, NEW s \in sess, SessionDelete(h, s)
      PROVE  IInv' /\ Grows
  BY <1>6, SessionDeleteKeeps
<1>7. CASE Restart
  BY <1>7, RestartKeeps
<1>8. CASE UNCHANGED vars
  <2>1. IInv'
    BY <1>8
    DEF vars, IInv, TypeOK, InFlight, InFlightOf, Bootstrapped, LastLogged,
        HandedOutLogged, GrantedOnly
  <2> QED
    BY <1>8, <2>1 DEF vars, Grows
<1> QED
  BY <1>1, <1>2, <1>3, <1>4, <1>5, <1>6, <1>7, <1>8, Zenon DEF Next

LEMMA Invariance == Spec => []IInv
<1> QED
  BY InitIInv, StepIInv, PTL DEF Spec

\* Every reachable state is well-typed.
THEOREM TypeCorrect == Spec => []TypeOK
<1>1. IInv => TypeOK
  BY DEF IInv
<1> QED
  BY <1>1, Invariance, PTL

\* A token that reached a client is in the login history, however logins share
\* lastToken.
THEOREM HistoryComplete == Spec => []HandedOutLogged
<1>1. IInv => HandedOutLogged
  BY DEF IInv
<1> QED
  BY <1>1, Invariance, PTL

\* Stale rows restore only roles and passwords that were once set for that very
\* account, and sessions carry only such roles.
THEOREM NothingMadeUp == Spec => []GrantedOnly
<1>1. IInv => GrantedOnly
  BY DEF IInv
<1> QED
  BY <1>1, Invariance, PTL

\* Accounts never vanish and never change their name.
THEOREM AccountsStay == Spec => AccountsStable
<1>1. IInv /\ [Next]_vars => [\A id \in exists : id \in exists' /\
                                users'[id].name = users[id].name]_vars
  BY StepIInv DEF Grows
<1> QED
  BY <1>1, Invariance, PTL DEF Spec, AccountsStable
=============================================================================
