-------------------- MODULE UserAccounts_serial_proofs --------------------
(***************************************************************************)
(* One request at a time, whole or cut short by a restart, on a store that   *)
(* started empty: what a handler reads in one transaction is still true in    *)
(* its next one (Fresh), so its guards decide on the rows they protect.  Two  *)
(* handlers break this: they demote the last two admins, or create the same   *)
(* name twice.  On top of it the store implements the promise of Accounts.    *)
(***************************************************************************)
EXTENDS UserAccounts_proofs, FiniteSetTheorems

\* Places where a password has been set for the account and its flag not yet.
Unflagged(r) ==
  \/ r.pc \in {"bootmark", "mustread", "mustwrite"}
  \/ r.pc = "rotate" /\ r.op # "changerole"

\* Places where a login carries the role it will put in its session.
CarriesRole(r) ==
  \/ r.pc \in {"verify", "bootmark", "session"}
  \/ r.pc \in {"mustread", "mustwrite"} /\ r.op = "login"

\* Which operation a handler is in, where its place says so.
Operation(r) ==
  /\ r.pc \in {"check", "pwread", "pwwrite"} => r.op \in {"changepw", "reset"}
  /\ r.pc \in {"roleread", "rolecount", "rolewrite"} => r.op = "changerole"
  /\ r.pc \in {"dup", "add"} => r.op = "create"

FreshOf(h) ==
  LET r == req[h]
  IN /\ Operation(r)
     /\ r.pc \in Holding => r.row = users[r.id]
     /\ r.pc = "rolewrite" /\ r.role # "admin" =>
          r.id \notin Admins \/ \E a \in Admins : a # r.id
     /\ r.pc \in {"dup", "add"} => exists # {}
     /\ r.pc = "add" => Named(r.name) = {}
     /\ r.pc = "bootadd" => exists = {}
     /\ r.pc = "bootmark" => r.id = LegacyName
     /\ CarriesRole(r) => r.role = users[r.id].role
     /\ Unflagged(r) => (r.id \in own <=> r.op = "changepw")

Fresh == \A h \in Handlers : FreshOf(h)

\* The store, but for what the handler still has to put right.
Marked ==
  \/ exists = {} /\ bootstrap = Nobody
  \/ bootstrap \in exists \cap Names
  \/ LegacyName \in exists /\ bootstrap = Nobody /\ \E h \in Handlers : At(h, "bootmark")

RolesCurrent ==
  \A s \in sess : \/ s.id \in cut \/ s.role = users[s.id].role
                  \/ \E h \in Handlers : At(h, "rotate") /\ req[h].id = s.id

FlagsCurrent ==
  \A id \in exists \ cut : \/ users[id].must <=> id \notin own
                           \/ \E h \in Handlers : Unflagged(req[h]) /\ req[h].id = id

SerialInv ==
  /\ IsFiniteSet(exists) /\ Fresh
  /\ AtLeastOneAdmin /\ UniqueNames /\ Marked /\ RolesCurrent /\ FlagsCurrent
-----------------------------------------------------------------------------
LEMMA InitSerial ==
  ASSUME Seeded = {}
  PROVE  Init => SerialInv
BY UsersAssumption, FS_EmptySet
DEF Init, SerialInv, Fresh, FreshOf, Operation, Unflagged, CarriesRole, Holding,
    AtLeastOneAdmin, UniqueNames, Marked, RolesCurrent, FlagsCurrent, Idle

\* What a handler holds after it moved on, or was done.
LEMMA GotoFields ==
  ASSUME TypeOK, NEW h \in Handlers, NEW pc, Goto(h, pc)
  PROVE  /\ req'[h].pc = pc /\ req'[h].op = req[h].op /\ req'[h].id = req[h].id
         /\ req'[h].row = req[h].row /\ req'[h].role = req[h].role
         /\ req'[h].name = req[h].name /\ req'[h].pw = req[h].pw
         /\ req'[h].token = req[h].token
BY DEF TypeOK, Goto, Requests

LEMMA FinishFresh ==
  ASSUME TypeOK, NEW h \in Handlers, req'[h] = Idle
  PROVE  FreshOf(h)' /\ ~Unflagged(req'[h])
BY DEF FreshOf, Operation, Unflagged, CarriesRole, Holding, Idle

\* No row changes; sessions may go, and the handler keeps its account as long as
\* there is something left to do for it.
LEMMA QuietSerial ==
  ASSUME IInv, SerialInv, NEW h, Handlers = {h},
         UNCHANGED <<exists, users, bootstrap, own, cut>>, sess' \subseteq sess,
         req[h].pc \notin {"bootmark", "rotate"}, FreshOf(h)',
         Unflagged(req[h]) => Unflagged(req'[h]) /\ req'[h].id = req[h].id
  PROVE  SerialInv'
<1> USE DEF SerialInv
<1>1. Fresh'
  BY DEF Fresh
<1>2. AtLeastOneAdmin' /\ UniqueNames'
  BY DEF AtLeastOneAdmin, UniqueNames, Admins
<1>3. Marked'
  BY DEF Marked, At
<1>4. RolesCurrent'
  BY DEF RolesCurrent, At
<1>5. FlagsCurrent'
  BY DEF FlagsCurrent
<1> QED
  BY <1>1, <1>2, <1>3, <1>4, <1>5

\* A handler with nothing left to put right is done.
LEMMA FinishSerial ==
  ASSUME IInv, SerialInv, NEW h, Handlers = {h}, Finish(h), ~Unflagged(req[h]),
         req[h].pc # "rotate",
         UNCHANGED <<exists, users, sess, bootstrap, own, cut>>
  PROVE  SerialInv'
<1>1. req'[h] = Idle
  BY DEF Finish, IInv, TypeOK
<1> QED
  BY <1>1, FinishFresh, QuietSerial DEF Unflagged, IInv

\* A whole row is written, with the account's name, by the handler in charge.
LEMMA WriteSerial ==
  ASSUME IInv, IInv', Grows, SerialInv, NEW h, Handlers = {h}, NEW id \in exists,
         UNCHANGED <<exists, sess, bootstrap, cut>>,
         \A x \in exists \ {id} : users'[x] = users[x],
         req[h].pc # "bootmark", FreshOf(h)', Admins' # {},
         RolesCurrent', FlagsCurrent'
  PROVE  SerialInv'
<1> USE DEF SerialInv
<1>1. Fresh'
  BY DEF Fresh
<1>2. UniqueNames'
  BY DEF UniqueNames, Grows
<1>3. Marked'
  BY DEF Marked, At
<1> QED
  BY <1>1, <1>2, <1>3 DEF AtLeastOneAdmin

-----------------------------------------------------------------------------
(* A login.                                                                *)

LEMMA LoginStartSerial ==
  ASSUME IInv, SerialInv, NEW h, Handlers = {h}, NEW n \in Names, NEW p \in Passwords,
         LoginStart(h, n, p)
  PROVE  SerialInv'
<1> DEFINE u == UserGetByUsername(n)
<1>1. /\ req'[h].pc = (IF Named(n) = {} THEN "exists" ELSE "verify")
      /\ Named(n) # {} => req'[h].id = u /\ req'[h].role = users[u].role
  BY DEF LoginStart, Begin, Idle, IInv, TypeOK
<1>2. UNCHANGED <<exists, users, sess, bootstrap, own, cut>> /\ req[h].pc = "idle"
  BY DEF LoginStart, Begin, At, store, history
<1> HIDE DEF u
<1>3. FreshOf(h)'
  BY <1>1, <1>2 DEF FreshOf, Operation, Unflagged, CarriesRole, Holding
<1> QED
  BY <1>2, <1>3, QuietSerial DEF Unflagged

LEMMA LoginMovesSerial ==
  ASSUME IInv, SerialInv, NEW h, Handlers = {h},
         LoginVerify(h) \/ LoginExists(h) \/ SessionFails(h) \/ LoginLogAppend(h)
           \/ LoginReplyApi(h) \/ LoginReplyGui(h)
  PROVE  SerialInv'
<1>1. UNCHANGED <<exists, users, sess, bootstrap, own, cut>>
  BY DEF LoginVerify, LoginExists, SessionFails, LoginLogAppend, LoginReplyApi,
         LoginReplyGui, store, history
<1>2. req[h].pc \in {"verify", "exists", "session", "log", "reply"}
  BY DEF LoginVerify, LoginExists, SessionFails, LoginLogAppend, LoginReplyApi,
         LoginReplyGui, At
<1>3. FreshOf(h) /\ TypeOK
  BY DEF SerialInv, Fresh, IInv
<1>4. CASE Finish(h)
  BY <1>1, <1>2, <1>4, FinishSerial DEF Unflagged
<1>5. ASSUME NEW pc, Goto(h, pc),
             \/ pc = "session" /\ req[h].pc = "verify"
             \/ pc = "exists"
             \/ pc = "bootadd" /\ exists = {}
             \/ pc = "reply"
      PROVE  SerialInv'
  <2>1. /\ req'[h].pc = pc /\ req'[h].id = req[h].id /\ req'[h].role = req[h].role
    BY <1>3, <1>5, GotoFields
  <2>2. FreshOf(h)'
    BY <1>1, <1>3, <1>5, <2>1 DEF FreshOf, Operation, Unflagged, CarriesRole, Holding
  <2> QED
    BY <1>1, <1>2, <2>2, QuietSerial DEF Unflagged
<1> QED
  BY <1>4, <1>5
  DEF LoginVerify, LoginExists, SessionFails, LoginLogAppend, LoginReplyApi,
      LoginReplyGui, At

LEMMA BootAddSerial ==
  ASSUME IInv, IInv', SerialInv, NEW h, Handlers = {h}, BootAdd(h)
  PROVE  SerialInv'
<1> USE DEF SerialInv
<1>1. /\ exists = {} /\ req[h].name = LegacyName /\ req[h].op = "login"
      /\ LegacyName \in Ids /\ bootstrap = Nobody /\ sess = {}
  BY UsersAssumption
  DEF BootAdd, At, Fresh, FreshOf, IInv, InFlight, InFlightOf, LoginOnly, Marked,
      GrantedOnly, Ids
<1>2. /\ exists' = {LegacyName} /\ sess' = {} /\ bootstrap' = Nobody
      /\ users'[LegacyName].role = "admin" /\ LegacyName \notin own'
  BY <1>1 DEF BootAdd, PutRow, IInv, TypeOK
<1>3. /\ req'[h].pc = "bootmark" /\ req'[h].id = LegacyName
      /\ req'[h].role = "admin" /\ req'[h].op = "login"
  BY <1>1 DEF BootAdd, IInv, TypeOK, Requests
<1>4. Fresh'
  BY <1>2, <1>3
  DEF Fresh, FreshOf, Operation, Unflagged, CarriesRole, Holding
<1>5. AtLeastOneAdmin' /\ UniqueNames' /\ IsFiniteSet(exists')
  BY <1>2, FS_Singleton DEF AtLeastOneAdmin, UniqueNames, Admins
<1>6. Marked' /\ RolesCurrent' /\ FlagsCurrent'
  BY <1>2, <1>3 DEF Marked, At, RolesCurrent, FlagsCurrent, Unflagged
<1> QED
  BY <1>4, <1>5, <1>6

LEMMA BootMarkSerial ==
  ASSUME IInv, SerialInv, NEW h, Handlers = {h}, BootMark(h)
  PROVE  SerialInv'
<1> USE DEF SerialInv
<1>1. /\ UNCHANGED <<exists, users, sess, own, cut>> /\ bootstrap' = req[h].id
      /\ req[h].pc = "bootmark" /\ Goto(h, "mustread")
  BY DEF BootMark, At, history
<1>2. /\ req[h].id = LegacyName /\ LegacyName \in exists \cap Names
  BY <1>1, UsersAssumption
  DEF Fresh, FreshOf, IInv, InFlight, InFlightOf, Bound
<1>3. /\ req'[h].pc = "mustread" /\ req'[h].op = req[h].op
      /\ req'[h].id = req[h].id /\ req'[h].role = req[h].role
  BY <1>1, GotoFields DEF IInv
<1>4. Fresh'
  BY <1>1, <1>3
  DEF Fresh, FreshOf, Operation, Unflagged, CarriesRole, Holding
<1>5. AtLeastOneAdmin' /\ UniqueNames' /\ IsFiniteSet(exists')
  BY <1>1 DEF AtLeastOneAdmin, UniqueNames, Admins
<1>6. Marked' /\ RolesCurrent'
  BY <1>1, <1>2 DEF Marked, At, RolesCurrent
<1>7. FlagsCurrent'
  BY <1>1, <1>3 DEF FlagsCurrent, Unflagged
<1> QED
  BY <1>4, <1>5, <1>6, <1>7

LEMMA SessionCreateSerial ==
  ASSUME IInv, SerialInv, NEW h, Handlers = {h}, SessionCreate(h)
  PROVE  SerialInv'
<1> USE DEF SerialInv
<1>1. PICK t \in Tokens :
        /\ sess' = sess \cup {[token |-> t, id |-> req[h].id, role |-> req[h].role]}
        /\ req' = [req EXCEPT ![h].token = t, ![h].pc = "log"]
  BY DEF SessionCreate
<1>2. /\ UNCHANGED <<exists, users, bootstrap, own, cut>>
      /\ req[h].pc = "session" /\ req'[h].pc = "log"
  BY <1>1 DEF SessionCreate, At, history, IInv, TypeOK, Requests
<1>3. req[h].role = users[req[h].id].role
  BY <1>2 DEF Fresh, FreshOf, CarriesRole
<1>4. Fresh'
  BY <1>2 DEF Fresh, FreshOf, Operation, Unflagged, CarriesRole, Holding
<1>5. AtLeastOneAdmin' /\ UniqueNames' /\ IsFiniteSet(exists')
  BY <1>2 DEF AtLeastOneAdmin, UniqueNames, Admins
<1>6. Marked'
  BY <1>2 DEF Marked, At
<1>7. RolesCurrent'
  BY <1>1, <1>2, <1>3 DEF RolesCurrent, At
<1>8. FlagsCurrent'
  BY <1>2 DEF FlagsCurrent, Unflagged
<1> QED
  BY <1>4, <1>5, <1>6, <1>7, <1>8
-----------------------------------------------------------------------------
(* The handlers of a session: they begin, look, and end.                     *)

LEMMA StartSerial ==
  ASSUME IInv, SerialInv, NEW h, Handlers = {h}, NEW s \in sess, NEW id \in Ids,
         NEW n \in Names, NEW p \in Passwords, NEW q \in Passwords, NEW r \in Roles,
         \/ ChangePWStart(h, s, p, q) \/ ResetPWStart(h, s, id, q)
         \/ ChangeRoleStart(h, s, id, r) \/ CreateStart(h, s, n, p, r)
  PROVE  SerialInv'
<1>1. UNCHANGED <<exists, users, sess, bootstrap, own, cut>> /\ req[h].pc = "idle"
  BY DEF ChangePWStart, ResetPWStart, ChangeRoleStart, CreateStart, Begin, At, store,
         history
<1>2. \/ req'[h].pc \in {"check", "pwread"} /\ req'[h].op \in {"changepw", "reset"}
      \/ req'[h].pc = "roleread" /\ req'[h].op = "changerole"
      \/ req'[h].pc = "dup" /\ req'[h].op = "create"
  <2>1. req \in [Handlers -> Requests] /\ h \in Handlers
    BY DEF IInv, TypeOK
  <2>2. CASE ChangePWStart(h, s, p, q)
    BY <2>1, <2>2 DEF ChangePWStart, Begin, Idle
  <2>3. CASE ResetPWStart(h, s, id, q)
    BY <2>1, <2>3 DEF ResetPWStart, Begin, Idle
  <2>4. CASE ChangeRoleStart(h, s, id, r)
    BY <2>1, <2>4 DEF ChangeRoleStart, Begin, Idle
  <2>5. CASE CreateStart(h, s, n, p, r)
    BY <2>1, <2>5 DEF CreateStart, Begin, Idle
  <2> QED
    BY <2>2, <2>3, <2>4, <2>5
<1>3. exists # {}
  BY DEF IInv, GrantedOnly
<1>4. FreshOf(h)'
  BY <1>1, <1>2, <1>3 DEF FreshOf, Operation, Unflagged, CarriesRole, Holding
<1> QED
  BY <1>1, <1>4, QuietSerial DEF Unflagged

\* The guard of UserChangeRole counts right: with two admins, one is another.
LEMMA OtherAdmin ==
  ASSUME IsFiniteSet(exists), ~(Cardinality(Admins) <= 1), NEW id
  PROVE  \E a \in Admins : a # id
<1>1. SUFFICES ASSUME Admins \subseteq {id} PROVE FALSE
  OBVIOUS
<1>2. IsFiniteSet({id}) /\ Cardinality({id}) = 1
  BY FS_Singleton
<1>3. Cardinality(Admins) <= 1 /\ Cardinality(Admins) \in Nat
  BY <1>1, <1>2, FS_Subset, FS_CardinalityType
<1> QED
  BY <1>3

LEMMA LooksSerial ==
  ASSUME IInv, SerialInv, NEW h, Handlers = {h},
         \/ ChangePWCheck(h) \/ RoleCount(h) \/ CreateDup(h) \/ CreateFails(h)
  PROVE  SerialInv'
<1>1. /\ UNCHANGED <<exists, users, sess, bootstrap, own, cut>>
      /\ req[h].pc \in {"check", "rolecount", "dup", "add"}
  BY DEF ChangePWCheck, RoleCount, CreateDup, CreateFails, At, store, history
<1>2. FreshOf(h) /\ TypeOK /\ IsFiniteSet(exists)
  BY DEF SerialInv, Fresh, IInv
<1>3. CASE Finish(h)
  BY <1>1, <1>3, FinishSerial DEF Unflagged
<1>4. ASSUME NEW pc, Goto(h, pc),
             \/ pc = "pwread" /\ req[h].pc = "check"
             \/ pc = "rolewrite" /\ req[h].pc = "rolecount"
                  /\ ~(Cardinality(Admins) <= 1)
             \/ pc = "add" /\ req[h].pc = "dup" /\ Named(req[h].name) = {}
      PROVE  SerialInv'
  <2>1. /\ req'[h].pc = pc /\ req'[h].op = req[h].op /\ req'[h].id = req[h].id
        /\ req'[h].row = req[h].row /\ req'[h].role = req[h].role
        /\ req'[h].name = req[h].name
    BY <1>2, <1>4, GotoFields
  <2>2. Admins' = Admins /\ \A n : Named(n)' = Named(n)
    BY <1>1 DEF Admins, Named
  <2>3. pc = "rolewrite" => \E a \in Admins : a # req[h].id
    BY <1>2, <1>4, OtherAdmin
  <2>4. FreshOf(h)'
    BY <1>1, <1>2, <1>4, <2>1, <2>2, <2>3
    DEF FreshOf, Operation, Unflagged, CarriesRole, Holding
  <2> QED
    BY <1>1, <2>4, QuietSerial DEF Unflagged
<1> QED
  BY <1>3, <1>4 DEF ChangePWCheck, RoleCount, CreateDup, CreateFails, At

LEMMA ReadsSerial ==
  ASSUME IInv, SerialInv, NEW h, Handlers = {h}, MustRead(h) \/ PWRead(h) \/ RoleRead(h)
  PROVE  SerialInv'
<1>1. /\ UNCHANGED <<exists, users, sess, bootstrap, own, cut>>
      /\ req[h].pc \in {"mustread", "pwread", "roleread"}
      /\ req[h].pc = "mustread" => ~PWRead(h) /\ ~RoleRead(h)
  BY DEF MustRead, PWRead, RoleRead, At, store, history
<1>2. FreshOf(h) /\ TypeOK
  BY DEF SerialInv, Fresh, IInv
<1>3. CASE Finish(h) /\ req[h].pc # "mustread"
  BY <1>1, <1>3, FinishSerial DEF Unflagged
<1>4. ASSUME NEW pc,
             req' = [req EXCEPT ![h].row = users[req[h].id], ![h].pc = pc],
             \/ pc = "mustwrite" /\ req[h].pc = "mustread"
             \/ pc = "pwwrite" /\ req[h].pc = "pwread"
             \/ pc = "rolecount" /\ req[h].pc = "roleread"
             \/ pc = "rolewrite" /\ req[h].pc = "roleread"
                  /\ (users[req[h].id].role # "admin" \/ req[h].role = "admin")
      PROVE  SerialInv'
  <2>1. /\ req'[h].pc = pc /\ req'[h].op = req[h].op /\ req'[h].id = req[h].id
        /\ req'[h].row = users[req[h].id] /\ req'[h].role = req[h].role
    BY <1>2, <1>4 DEF TypeOK, Requests
  <2>2. Admins' = Admins
    BY <1>1 DEF Admins
  <2>3. FreshOf(h)'
    BY <1>1, <1>2, <1>4, <2>1, <2>2
    DEF FreshOf, Operation, Unflagged, CarriesRole, Holding, Admins
  <2> QED
    BY <1>1, <1>4, <2>1, <2>3, QuietSerial DEF Unflagged
<1> QED
  BY <1>3, <1>4 DEF MustRead, PWRead, RoleRead, UserGetByID, At

LEMMA SessionDeleteSerial ==
  ASSUME IInv, SerialInv, NEW h, Handlers = {h}, NEW s \in sess, SessionDelete(h, s)
  PROVE  SerialInv'
<1>1. /\ UNCHANGED <<exists, users, bootstrap, own, cut, req>> /\ sess' \subseteq sess
      /\ req[h].pc = "idle"
  BY DEF SessionDelete, At, history
<1>2. FreshOf(h)'
  BY <1>1 DEF FreshOf, Operation, Unflagged, CarriesRole, Holding
<1> QED
  BY <1>1, <1>2, QuietSerial

-----------------------------------------------------------------------------
(* The handlers of a session: they write.                                    *)

LEMMA PWWriteSerial ==
  ASSUME IInv, IInv', Grows, SerialInv, NEW h, Handlers = {h}, PWWrite(h)
  PROVE  SerialInv'
<1> DEFINE id == req[h].id
<1> USE DEF SerialInv
<1>1. /\ UNCHANGED <<exists, sess, bootstrap, cut>> /\ req[h].pc = "pwwrite"
      /\ own' = IF req[h].op = "changepw" THEN own \cup {id} ELSE own \ {id}
  BY DEF PWWrite, At
<1>2. /\ req'[h].pc = "rotate" /\ req'[h].op = req[h].op /\ req'[h].id = id
  BY GotoFields DEF PWWrite, IInv
<1>3. id \in exists /\ req[h].row = users[id] /\ req[h].op \in {"changepw", "reset"}
  BY <1>1 DEF Fresh, FreshOf, Holding, Operation, IInv, InFlight, InFlightOf, Bound
<1>4. /\ users'[id].role = users[id].role
      /\ \A x \in exists \ {id} : users'[x] = users[x]
  BY <1>3 DEF PWWrite, PutRow, IInv, TypeOK, Rows
<1>5. Admins' = Admins /\ Admins # {}
  BY <1>1, <1>3, <1>4 DEF Admins, AtLeastOneAdmin
<1>6. FreshOf(h)'
  BY <1>1, <1>2, <1>3 DEF FreshOf, Operation, Unflagged, CarriesRole, Holding
<1>7. RolesCurrent'
  BY <1>1, <1>4 DEF RolesCurrent, At, IInv, GrantedOnly
<1>8. FlagsCurrent'
  BY <1>1, <1>2, <1>3, <1>4 DEF FlagsCurrent, Unflagged
<1> HIDE DEF id
<1> QED
  BY <1>1, <1>3, <1>4, <1>5, <1>6, <1>7, <1>8, WriteSerial

LEMMA RoleWriteSerial ==
  ASSUME IInv, IInv', Grows, SerialInv, NEW h, Handlers = {h}, RoleWrite(h)
  PROVE  SerialInv'
<1> DEFINE id == req[h].id
<1> USE DEF SerialInv
<1>1. UNCHANGED <<exists, sess, bootstrap, cut, own>> /\ req[h].pc = "rolewrite"
  BY DEF RoleWrite, At
<1>2. /\ req'[h].pc = "rotate" /\ req'[h].op = req[h].op /\ req'[h].id = id
  BY GotoFields DEF RoleWrite, IInv
<1>3. id \in exists /\ req[h].row = users[id] /\ req[h].op = "changerole"
  BY <1>1 DEF Fresh, FreshOf, Holding, Operation, IInv, InFlight, InFlightOf, Bound
<1>4. /\ users'[id].role = req[h].role /\ users'[id].must = users[id].must
      /\ \A x \in exists \ {id} : users'[x] = users[x]
  BY <1>3 DEF RoleWrite, PutRow, IInv, TypeOK, Rows
<1>5. Admins' # {}
  <2>1. CASE req[h].role = "admin"
    BY <1>1, <1>3, <1>4, <2>1 DEF Admins
  <2>2. CASE req[h].role # "admin"
    <3>1. PICK a \in Admins : a # id
      BY <1>1, <1>3, <2>2 DEF Fresh, FreshOf, AtLeastOneAdmin
    <3> QED
      BY <1>1, <1>4, <3>1 DEF Admins
  <2> QED
    BY <2>1, <2>2
<1>6. FreshOf(h)'
  BY <1>1, <1>2, <1>3 DEF FreshOf, Operation, Unflagged, CarriesRole, Holding
<1>7. RolesCurrent'
  BY <1>1, <1>2, <1>4 DEF RolesCurrent, At, IInv, GrantedOnly
<1>8. FlagsCurrent'
  BY <1>1, <1>4 DEF FlagsCurrent, Unflagged
<1> HIDE DEF id
<1> QED
  BY <1>1, <1>3, <1>4, <1>5, <1>6, <1>7, <1>8, WriteSerial

LEMMA MustWriteSerial ==
  ASSUME IInv, IInv', Grows, SerialInv, NEW h, Handlers = {h}, MustWrite(h)
  PROVE  SerialInv'
<1> DEFINE id == req[h].id
<1> USE DEF SerialInv
<1>1. UNCHANGED <<exists, sess, bootstrap, cut, own>> /\ req[h].pc = "mustwrite"
  BY DEF MustWrite, At, history
<1>2. /\ id \in exists /\ req[h].row = users[id]
      /\ id \in own <=> req[h].op = "changepw"
      /\ req[h].op = "login" => req[h].role = users[id].role
  BY <1>1
  DEF Fresh, FreshOf, Holding, Unflagged, CarriesRole, IInv, InFlight, InFlightOf, Bound
<1>3. /\ users'[id].role = users[id].role
      /\ users'[id].must <=> id \notin own
      /\ \A x \in exists \ {id} : users'[x] = users[x]
  <2>1. users'[id] = [users[id] EXCEPT !.must = req[h].op # "changepw"]
    BY <1>2 DEF MustWrite, PutRow, IInv, TypeOK
  <2>2. users[id] \in Rows
    BY <1>2 DEF IInv, TypeOK
  <2>3. /\ users'[id].role = users[id].role
        /\ users'[id].must = (req[h].op # "changepw")
    BY <2>1, <2>2 DEF Rows
  <2>4. \A x \in exists \ {id} : users'[x] = users[x]
    BY DEF MustWrite, PutRow, IInv, TypeOK
  <2> QED
    BY <1>2, <2>3, <2>4
<1>4. \/ req'[h] = Idle
      \/ /\ req'[h].pc = "session" /\ req'[h].op = "login" /\ req'[h].id = id
         /\ req'[h].role = req[h].role /\ req[h].op = "login"
  <2>1. CASE req[h].op = "login"
    BY <2>1, GotoFields DEF MustWrite, IInv
  <2>2. CASE req[h].op # "login"
    BY <2>2 DEF MustWrite, Finish, IInv, TypeOK
  <2> QED
    BY <2>1, <2>2
<1>5. Admins' = Admins /\ Admins # {}
  BY <1>1, <1>2, <1>3 DEF Admins, AtLeastOneAdmin
<1>6. FreshOf(h)'
  <2>1. CASE req'[h] = Idle
    BY <2>1, FinishFresh DEF IInv
  <2>2. CASE req'[h] # Idle
    BY <1>1, <1>2, <1>3, <1>4, <2>2
    DEF FreshOf, Operation, Unflagged, CarriesRole, Holding
  <2> QED
    BY <2>1, <2>2
<1>7. RolesCurrent'
  BY <1>1, <1>3 DEF RolesCurrent, At, IInv, GrantedOnly
<1>8. FlagsCurrent'
  BY <1>1, <1>3 DEF FlagsCurrent, Unflagged
<1> HIDE DEF id
<1> QED
  BY <1>1, <1>2, <1>3, <1>5, <1>6, <1>7, <1>8, WriteSerial

LEMMA RotateSerial ==
  ASSUME IInv, SerialInv, NEW h, Handlers = {h}, Rotate(h)
  PROVE  SerialInv'
<1> DEFINE id == req[h].id
<1> USE DEF SerialInv
<1>1. /\ UNCHANGED <<exists, users, bootstrap, cut, own>> /\ req[h].pc = "rotate"
      /\ sess' = {s \in sess : s.id # id}
  BY DEF Rotate, At, history
<1>2. \/ req'[h] = Idle /\ ~Unflagged(req[h])
      \/ /\ req'[h].pc = "mustread" /\ req'[h].op = req[h].op /\ req'[h].id = id
         /\ Unflagged(req[h])
  <2>1. CASE req[h].op = "changerole"
    BY <1>1, <2>1 DEF Rotate, Finish, IInv, TypeOK, Unflagged
  <2>2. CASE req[h].op # "changerole"
    BY <1>1, <2>2, GotoFields DEF Rotate, IInv, Unflagged
  <2> QED
    BY <2>1, <2>2
<1>3. FreshOf(h)'
  <2>1. CASE req'[h] = Idle
    BY <2>1, FinishFresh DEF IInv
  <2>2. CASE req'[h] # Idle
    <3>1. req[h].op # "login" /\ FreshOf(h)
      BY <1>1 DEF IInv, InFlight, InFlightOf, Others, Fresh
    <3> QED
      BY <1>1, <1>2, <2>2, <3>1
      DEF FreshOf, Operation, Unflagged, CarriesRole, Holding
  <2> QED
    BY <2>1, <2>2
<1>4. Fresh'
  BY <1>3 DEF Fresh
<1>5. AtLeastOneAdmin' /\ UniqueNames' /\ IsFiniteSet(exists')
  BY <1>1 DEF AtLeastOneAdmin, UniqueNames, Admins
<1>6. Marked' /\ RolesCurrent'
  BY <1>1 DEF Marked, At, RolesCurrent
<1>7. FlagsCurrent'
  BY <1>1, <1>2 DEF FlagsCurrent, Unflagged
<1> QED
  BY <1>4, <1>5, <1>6, <1>7

LEMMA CreateAddSerial ==
  ASSUME IInv, IInv', Grows, SerialInv, NEW h, Handlers = {h}, CreateAdd(h)
  PROVE  SerialInv'
<1> USE DEF SerialInv
<1>1. PICK id \in Uuids \ exists :
        /\ exists' = exists \cup {id} /\ own' = own \ {id}
        /\ PutRow(id, [name |-> req[h].name, pw |-> req[h].pw,
                       role |-> req[h].role, must |-> FALSE])
        /\ req' = [req EXCEPT ![h].id = id, ![h].pc = "mustread"]
  BY DEF CreateAdd
<1>2. UNCHANGED <<sess, bootstrap, cut>> /\ req[h].pc = "add"
  BY DEF CreateAdd, At
<1>3. /\ req'[h].pc = "mustread" /\ req'[h].id = id /\ req'[h].op = req[h].op
      /\ req[h].op = "create" /\ exists # {} /\ Named(req[h].name) = {}
  BY <1>1, <1>2 DEF IInv, TypeOK, Requests, Fresh, FreshOf, Operation
<1>4. /\ users'[id].name = req[h].name
      /\ \A x \in exists : users'[x] = users[x]
  BY <1>1 DEF PutRow, IInv, TypeOK, Ids
<1>5. Fresh'
  BY <1>1, <1>3 DEF Fresh, FreshOf, Operation, Unflagged, CarriesRole, Holding
<1>6. AtLeastOneAdmin'
  BY <1>1, <1>3, <1>4 DEF AtLeastOneAdmin, Admins
<1>7. UniqueNames'
  BY <1>1, <1>3, <1>4 DEF UniqueNames, Named
<1>8. Marked'
  BY <1>1, <1>2, <1>3 DEF Marked, At
<1>9. RolesCurrent'
  BY <1>1, <1>2, <1>4 DEF RolesCurrent, At, IInv, GrantedOnly
<1>10. FlagsCurrent'
  BY <1>1, <1>2, <1>3, <1>4 DEF FlagsCurrent, Unflagged
<1>11. IsFiniteSet(exists')
  BY <1>1, FS_AddElement
<1> QED
  BY <1>5, <1>6, <1>7, <1>8, <1>9, <1>10, <1>11
-----------------------------------------------------------------------------
\* A stop loses the request; what it left undone is in cut, and the backfill
\* marks the bootstrap account.
LEMMA RestartSerial ==
  ASSUME IInv, SerialInv, NEW h, Handlers = {h}, Restart
  PROVE  SerialInv'
<1> USE DEF SerialInv
<1>1. /\ UNCHANGED <<exists, users, sess, own>> /\ req'[h] = Idle
      /\ cut \subseteq cut' /\ bootstrap \in {Nobody} \cup Ids
      /\ req[h].pc \in {"bootmark", "mustread", "mustwrite", "rotate"} => req[h].id \in cut'
  BY DEF Restart, Stop, IInv, TypeOK
<1>2. Fresh'
  BY <1>1, FinishFresh DEF Fresh, IInv
<1>3. AtLeastOneAdmin' /\ UniqueNames' /\ IsFiniteSet(exists')
  BY <1>1 DEF AtLeastOneAdmin, UniqueNames, Admins
<1>4. Marked'
  <2>1. CASE exists = {}
    <3>1. bootstrap = Nobody /\ bootstrap' = bootstrap
      BY <2>1 DEF Marked, Restart
    <3> QED
      BY <1>1, <2>1, <3>1 DEF Marked
  <2>2. CASE bootstrap \in exists \cap Names
    <3>1. bootstrap' = bootstrap
      BY <2>2, UsersAssumption DEF Restart, Ids
    <3> QED
      BY <1>1, <2>2, <3>1 DEF Marked
  <2>3. CASE LegacyName \in exists /\ bootstrap = Nobody
    <3>1. \E id \in exists : id = users[id].name
      BY <2>3 DEF IInv, Bootstrapped
    <3> DEFINE b == CHOOSE id \in exists : id = users[id].name
    <3>2. b \in exists /\ b = users[b].name
      BY <3>1
    <3>3. bootstrap' = b
      BY <2>3, <3>1 DEF Restart
    <3> HIDE DEF b
    <3>4. b \in Names
      BY <3>2 DEF IInv, TypeOK, Rows
    <3> QED
      BY <1>1, <3>2, <3>3, <3>4 DEF Marked
  <2> QED
    BY <2>1, <2>2, <2>3 DEF Marked
<1>5. RolesCurrent' /\ FlagsCurrent'
  BY <1>1 DEF RolesCurrent, FlagsCurrent, Unflagged, At
<1> QED
  BY <1>2, <1>3, <1>4, <1>5

LEMMA StepSerial ==
  ASSUME NEW only, Handlers = {only}
  PROVE  IInv /\ IInv' /\ SerialInv /\ [Next]_vars => SerialInv'
<1> SUFFICES ASSUME IInv, IInv', SerialInv, [Next]_vars PROVE SerialInv'
  OBVIOUS
<1>0. Grows
  BY StepIInv
<1>1. CASE Login(only)
  BY <1>1, LoginStartSerial, LoginMovesSerial, BootAddSerial, BootMarkSerial,
     SessionCreateSerial, Zenon
  DEF Login
<1>2. CASE ChangePW(only)
  <2>1. ASSUME NEW s \in sess, NEW id \in Ids, NEW old \in Passwords,
               NEW new \in Passwords,
               ChangePWStart(only, s, old, new) \/ ResetPWStart(only, s, id, new)
        PROVE  SerialInv'
    BY <2>1, StartSerial, UsersAssumption DEF Roles
  <2> QED
    BY <1>0, <1>2, <2>1, LooksSerial, ReadsSerial, PWWriteSerial, UsersAssumption
    DEF ChangePW, Ids
<1>3. CASE ChangeRole(only)
  <2>1. ASSUME NEW s \in sess, NEW id \in Ids, NEW r \in Roles,
               ChangeRoleStart(only, s, id, r)
        PROVE  SerialInv'
    BY <2>1, StartSerial, UsersAssumption
  <2> QED
    BY <1>0, <1>3, <2>1, LooksSerial, ReadsSerial, RoleWriteSerial DEF ChangeRole
<1>4. CASE Create(only)
  <2>1. ASSUME NEW s \in sess, NEW n \in Names, NEW p \in Passwords, NEW r \in Roles,
               CreateStart(only, s, n, p, r)
        PROVE  SerialInv'
    BY <2>1, StartSerial DEF Ids
  <2> QED
    BY <1>0, <1>4, <2>1, LooksSerial, CreateAddSerial DEF Create
<1>5. CASE MustRead(only) \/ MustWrite(only) \/ Rotate(only)
  BY <1>0, <1>5, ReadsSerial, MustWriteSerial, RotateSerial
<1>6. ASSUME NEW s \in sess, SessionDelete(only, s) PROVE SerialInv'
  BY <1>6, SessionDeleteSerial
<1>7. CASE Restart
  BY <1>7, RestartSerial
<1>8. CASE UNCHANGED vars
  BY <1>8
  DEF vars, SerialInv, Fresh, FreshOf, Named, Admins, AtLeastOneAdmin, UniqueNames,
      Marked, RolesCurrent, FlagsCurrent, At
<1> QED
  BY <1>1, <1>2, <1>3, <1>4, <1>5, <1>6, <1>7, <1>8, Zenon DEF Next

LEMMA SerialInvariant ==
  ASSUME NEW only, Handlers = {only}, Seeded = {}
  PROVE  Spec => [](IInv /\ SerialInv)
<1> QED
  BY InitSerial, StepSerial, Invariance, PTL DEF Spec

\* With one handler, and a store that started empty, there is an admin from the
\* moment there is an account: UserChangeRole never demotes the last one.
THEOREM SerialAdmin ==
  ASSUME NEW only, Handlers = {only}, Seeded = {}
  PROVE  Spec => []AtLeastOneAdmin
<1>1. SerialInv => AtLeastOneAdmin
  BY DEF SerialInv
<1> QED
  BY <1>1, SerialInvariant, PTL

\* With one handler no two accounts get the same name.
THEOREM SerialNames ==
  ASSUME NEW only, Handlers = {only}, Seeded = {}
  PROVE  Spec => []UniqueNames
<1>1. SerialInv => UniqueNames
  BY DEF SerialInv
<1> QED
  BY <1>1, SerialInvariant, PTL

\* With one handler the bootstrap account is marked when nothing is in progress,
\* after a stop between the account and the mark thanks to the backfill.
THEOREM SerialMarked ==
  ASSUME NEW only, Handlers = {only}, Seeded = {}
  PROVE  Spec => []BootstrapMarked
<1>1. SerialInv => BootstrapMarked
  BY DEF SerialInv, Marked, BootstrapMarked, Quiescent, At
<1> QED
  BY <1>1, SerialInvariant, PTL

\* With one handler no open session outlives the role it was opened with, but for
\* the account whose role change a stop cut short.
THEOREM SerialRoles ==
  ASSUME NEW only, Handlers = {only}, Seeded = {}
  PROVE  Spec => []SessionRoleCurrent
<1>1. SerialInv => SessionRoleCurrent
  BY DEF SerialInv, RolesCurrent, SessionRoleCurrent, Quiescent, At
<1> QED
  BY <1>1, SerialInvariant, PTL

\* With one handler an account must change its password exactly when somebody
\* else chose it, but for accounts whose change a stop cut short.
THEOREM SerialFlags ==
  ASSUME NEW only, Handlers = {only}, Seeded = {}
  PROVE  Spec => []ForcedChange
<1>1. SerialInv => ForcedChange
  BY DEF SerialInv, FlagsCurrent, ForcedChange, Quiescent, At, Unflagged
<1> QED
  BY <1>1, SerialInvariant, PTL

\* With one handler the legacy credential adds an account to an empty store only.
THEOREM SerialBootstrap ==
  ASSUME NEW only, Handlers = {only}, Seeded = {}
  PROVE  Spec => BootstrapOnce
<1> DEFINE Once == \A h \in Handlers : BootAdd(h) => exists = {}
<1>1. SerialInv /\ [Next]_vars => [Once]_vars
  BY DEF SerialInv, Fresh, FreshOf, BootAdd, At
<1> QED
  BY <1>1, SerialInvariant, PTL DEF BootstrapOnce, Spec
-----------------------------------------------------------------------------
(* Refinement: the store keeps the promise of Accounts.  What a step of the  *)
(* promise asks of the whole store was looked at in earlier transactions, and *)
(* is still so when the last one makes it count (RefInv).                     *)

\* A login that has been let in, on its way to the answer.
LetIn(r) ==
  \/ r.pc \in {"session", "log", "reply"}
  \/ r.pc \in {"bootmark", "mustread", "mustwrite"} /\ r.op = "login"

\* A login works on the account its credential is of, with that account's role.
LoginRef(r) ==
  /\ r.pc = "verify" => Named(r.name) # {} /\ r.id = UserGetByUsername(r.name)
  /\ r.pc = "bootadd" => r.pw = LegacyPw
  /\ LetIn(r) => /\ r.id \in exists
                 /\ users[r.id].name = r.name /\ users[r.id].pw = r.pw
                 /\ users[r.id].role = r.role

\* Its token is in one session, and with no client, until it answers.
TokenRef(r) ==
  /\ r.pc \in {"log", "reply"} =>
       /\ [token |-> r.token, id |-> r.id, role |-> r.role] \in sess
       /\ \A s \in sess : s.token = r.token =>
            s = [token |-> r.token, id |-> r.id, role |-> r.role]
       /\ \A x \in handed : x.token # r.token
  /\ r.pc = "reply" => lastToken = r.token

\* A change is made under a session that allows it and is still open.
SessionRef(r) ==
  r.pc \in Others =>
    \/ r.op = "changepw" /\ \E s \in sess : s.id = r.id
    \/ r.op \in {"reset", "changerole", "create"} /\ \E s \in sess : s.role = "admin"

\* What a change has written, and what it still has to settle.
ChangeRef(r) ==
  /\ r.pc = "rotate" =>
       \/ /\ r.op = "changerole"
          /\ users[r.id] = [r.row EXCEPT !.role = r.role]
          /\ r.row.role = "admin" /\ r.role # "admin" => \E a \in Admins : a # r.id
       \/ /\ r.op \in {"changepw", "reset"}
          /\ users[r.id] = [r.row EXCEPT !.pw = r.pw, !.must = FALSE]
  /\ r.pc \in {"bootmark", "mustread", "mustwrite"} => users[r.id].must = FALSE

TokensMinted ==
  /\ \A s \in sess : s.token \in minted
  /\ \A x \in handed : x.token \in minted

\* The bootstrap account is the first one, and is marked by the second step.
Rooted ==
  \/ exists = {} /\ bootstrap = Nobody
  \/ LegacyName \in exists /\ bootstrap = LegacyName
  \/ exists = {LegacyName} /\ bootstrap = Nobody /\ \E h \in Handlers : At(h, "bootmark")

RefOf(r) == LoginRef(r) /\ TokenRef(r) /\ SessionRef(r) /\ ChangeRef(r)
RefInv == TokensMinted /\ Rooted /\ \A h \in Handlers : RefOf(req[h])

LEMMA InitRef ==
  ASSUME Seeded = {}
  PROVE  Init => RefInv
BY UsersAssumption
DEF Init, RefInv, TokensMinted, Rooted, RefOf, LoginRef, LetIn, TokenRef, SessionRef,
    ChangeRef, Others, Idle

\* Nothing in the store changes, and the handler goes on as it must.
LEMMA QuietRef ==
  ASSUME IInv, RefInv, NEW h, Handlers = {h}, req[h].pc # "bootmark", RefOf(req[h])',
         UNCHANGED <<exists, users, sess, bootstrap, minted, handed>>
  PROVE  RefInv'
<1>1. TokensMinted'
  BY DEF RefInv, TokensMinted
<1>2. Rooted'
  BY DEF RefInv, Rooted, At
<1> QED
  BY <1>1, <1>2 DEF RefInv

LEMMA FinishRef ==
  ASSUME IInv, RefInv, NEW h, Handlers = {h}, Finish(h), req[h].pc # "bootmark",
         UNCHANGED <<exists, users, sess, bootstrap, minted, handed>>
  PROVE  RefInv'
<1>1. req'[h] = Idle
  BY DEF Finish, IInv, TypeOK
<1>2. RefOf(req[h])'
  BY <1>1 DEF RefOf, LoginRef, LetIn, TokenRef, SessionRef, ChangeRef, Others, Idle
<1> QED
  BY <1>2, QuietRef

LEMMA LoginStartRef ==
  ASSUME IInv, RefInv, NEW h, Handlers = {h}, NEW n \in Names, NEW p \in Passwords,
         LoginStart(h, n, p)
  PROVE  RefInv'
<1> DEFINE u == UserGetByUsername(n)
<1>1. /\ UNCHANGED <<exists, users, sess, bootstrap, minted, handed>>
      /\ req[h].pc = "idle"
  BY DEF LoginStart, Begin, At, store, history
<1>2. /\ req'[h].pc = (IF Named(n) = {} THEN "exists" ELSE "verify")
      /\ Named(n) # {} => req'[h].id = u /\ req'[h].name = n
  BY DEF LoginStart, Begin, Idle, IInv, TypeOK
<1>3. u' = u /\ Named(n)' = Named(n)
  BY <1>1 DEF UserGetByUsername, Named
<1> HIDE DEF u
<1>4. LoginRef(req[h])'
  <2>1. CASE Named(n) = {}
    BY <1>2, <2>1 DEF LoginRef, LetIn
  <2>2. CASE Named(n) # {}
    <3>1. /\ req'[h].pc = "verify" /\ req'[h].id = u /\ req'[h].name = n
      BY <1>2, <2>2
    <3>2. Named(req[h].name)' # {} /\ UserGetByUsername(req[h].name)' = u'
      BY <1>3, <2>2, <3>1 DEF u
    <3> QED
      BY <1>3, <3>1, <3>2 DEF LoginRef, LetIn
  <2> QED
    BY <2>1, <2>2
<1>5. RefOf(req[h])'
  BY <1>2, <1>4 DEF RefOf, TokenRef, SessionRef, ChangeRef, Others
<1> QED
  BY <1>1, <1>5, QuietRef

\* UserVerify compares with the very account the login had looked up.
LEMMA LoginMovesRef ==
  ASSUME IInv, SerialInv, RefInv, NEW h, Handlers = {h},
         LoginVerify(h) \/ LoginExists(h) \/ LoginLogAppend(h)
  PROVE  RefInv'
<1>1. /\ UNCHANGED <<exists, users, sess, bootstrap, minted, handed>>
      /\ req[h].pc \in {"verify", "exists", "log"}
  BY DEF LoginVerify, LoginExists, LoginLogAppend, At, store, history
<1>2. RefOf(req[h]) /\ FreshOf(h) /\ TypeOK
  BY DEF RefInv, SerialInv, Fresh, IInv
<1>3. CASE Finish(h)
  BY <1>1, <1>3, FinishRef
<1>4. ASSUME NEW pc, Goto(h, pc),
             \/ /\ pc = "session" /\ req[h].pc = "verify"
                /\ users[UserGetByUsername(req[h].name)].pw = req[h].pw
             \/ pc = "exists"
             \/ pc = "bootadd" /\ req[h].pw = LegacyPw
             \/ pc = "reply" /\ req[h].pc = "log" /\ lastToken' = req[h].token
      PROVE  RefInv'
  <2>1. /\ req'[h].pc = pc /\ req'[h].op = req[h].op /\ req'[h].id = req[h].id
        /\ req'[h].role = req[h].role /\ req'[h].name = req[h].name
        /\ req'[h].pw = req[h].pw /\ req'[h].token = req[h].token
    BY <1>2, <1>4, GotoFields
  <2>2. LoginRef(req[h])'
    <3>1. CASE pc = "session"
      <4>1. /\ req[h].id \in exists /\ users[req[h].id].name = req[h].name
            /\ users[req[h].id].pw = req[h].pw
            /\ users[req[h].id].role = req[h].role
        BY <1>2, <1>4, <3>1, FoundByName
        DEF RefOf, LoginRef, FreshOf, CarriesRole
      <4> QED
        BY <1>1, <2>1, <3>1, <4>1 DEF LoginRef, LetIn
    <3>2. CASE pc # "session"
      BY <1>1, <1>2, <1>4, <2>1, <3>2 DEF RefOf, LoginRef, LetIn
    <3> QED
      BY <3>1, <3>2
  <2>3. TokenRef(req[h])'
    BY <1>1, <1>2, <1>4, <2>1 DEF RefOf, TokenRef
  <2>4. RefOf(req[h])'
    BY <1>4, <2>1, <2>2, <2>3 DEF RefOf, SessionRef, ChangeRef, Others
  <2> QED
    BY <1>1, <2>4, QuietRef
<1> QED
  BY <1>3, <1>4 DEF LoginVerify, LoginExists, LoginLogAppend, At

LEMMA BootAddRef ==
  ASSUME IInv, IInv', SerialInv, RefInv, NEW h, Handlers = {h}, BootAdd(h)
  PROVE  RefInv'
<1>1. /\ exists = {} /\ req[h].name = LegacyName /\ req[h].op = "login"
      /\ req[h].pw = LegacyPw /\ LegacyName \in Ids /\ bootstrap = Nobody
      /\ LegacyName \in Names /\ LegacyPw \in Passwords
  BY UsersAssumption
  DEF BootAdd, At, SerialInv, Fresh, FreshOf, IInv, InFlight, InFlightOf, LoginOnly,
      RefInv, RefOf, LoginRef, Rooted, Ids
<1>2. /\ exists' = {LegacyName} /\ UNCHANGED <<sess, bootstrap, minted, handed>>
      /\ users'[LegacyName] = [name |-> LegacyName, pw |-> LegacyPw,
                               role |-> "admin", must |-> FALSE]
  BY <1>1 DEF BootAdd, PutRow, IInv, TypeOK
<1>3. /\ req'[h].pc = "bootmark" /\ req'[h].id = LegacyName
      /\ req'[h].role = "admin" /\ req'[h].op = "login"
      /\ req'[h].name = LegacyName /\ req'[h].pw = LegacyPw
  BY <1>1 DEF BootAdd, IInv, TypeOK, Requests
<1>4. TokensMinted'
  BY <1>2 DEF RefInv, TokensMinted
<1>5. Rooted'
  BY <1>1, <1>2, <1>3 DEF Rooted, At
<1>6. RefOf(req[h])'
  BY <1>2, <1>3 DEF RefOf, LoginRef, LetIn, TokenRef, SessionRef, ChangeRef, Others
<1> QED
  BY <1>4, <1>5, <1>6 DEF RefInv

LEMMA BootMarkRef ==
  ASSUME IInv, SerialInv, RefInv, NEW h, Handlers = {h}, BootMark(h)
  PROVE  RefInv'
<1>1. /\ UNCHANGED <<exists, users, sess, minted, handed>> /\ bootstrap' = req[h].id
      /\ req[h].pc = "bootmark" /\ Goto(h, "mustread")
  BY DEF BootMark, At, history
<1>2. /\ req[h].id = LegacyName /\ LegacyName \in exists /\ RefOf(req[h])
      /\ req[h].op = "login"
  BY <1>1
  DEF SerialInv, Fresh, FreshOf, IInv, InFlight, InFlightOf, Bound, LoginOnly, RefInv
<1>3. /\ req'[h].pc = "mustread" /\ req'[h].op = req[h].op
      /\ req'[h].id = req[h].id /\ req'[h].role = req[h].role
      /\ req'[h].name = req[h].name /\ req'[h].pw = req[h].pw
  BY <1>1, GotoFields DEF IInv
<1>4. TokensMinted' /\ Rooted'
  BY <1>1, <1>2 DEF RefInv, TokensMinted, Rooted
<1>5. RefOf(req[h])'
  BY <1>1, <1>2, <1>3
  DEF RefOf, LoginRef, LetIn, TokenRef, SessionRef, ChangeRef, Others
<1> QED
  BY <1>4, <1>5 DEF RefInv

LEMMA SessionCreateRef ==
  ASSUME IInv, SerialInv, RefInv, NEW h, Handlers = {h}, SessionCreate(h)
  PROVE  RefInv'
<1>1. PICK t \in Tokens \ minted :
        /\ minted' = minted \cup {t}
        /\ sess' = sess \cup {[token |-> t, id |-> req[h].id, role |-> req[h].role]}
        /\ req' = [req EXCEPT ![h].token = t, ![h].pc = "log"]
  BY DEF SessionCreate
<1>2. /\ UNCHANGED <<exists, users, bootstrap, handed>> /\ req[h].pc = "session"
      /\ req'[h].pc = "log" /\ req'[h].op = req[h].op /\ req'[h].id = req[h].id
      /\ req'[h].role = req[h].role /\ req'[h].token = t
      /\ req'[h].name = req[h].name /\ req'[h].pw = req[h].pw
  BY <1>1 DEF SessionCreate, At, history, IInv, TypeOK, Requests
<1>3. TokensMinted'
  BY <1>1, <1>2 DEF RefInv, TokensMinted
<1>4. Rooted'
  BY <1>2 DEF RefInv, Rooted, At
<1>5. TokenRef(req[h])'
  <2> DEFINE new == [token |-> t, id |-> req[h].id, role |-> req[h].role]
  <2>1. /\ new = [token |-> req'[h].token, id |-> req'[h].id, role |-> req'[h].role]
        /\ new.token = t /\ sess' = sess \cup {new}
    BY <1>1, <1>2
  <2> HIDE DEF new
  <2>2. /\ \A s \in sess : s.token # t
        /\ \A x \in handed : x.token # t
    BY DEF RefInv, TokensMinted
  <2> QED
    BY <1>2, <2>1, <2>2 DEF TokenRef
<1>6. RefOf(req[h])'
  BY <1>2, <1>5 DEF RefInv, RefOf, LoginRef, LetIn, SessionRef, ChangeRef, Others
<1> QED
  BY <1>3, <1>4, <1>6 DEF RefInv

\* In a login of its own lastToken is the token of this very login.
LEMMA ReplyHands ==
  ASSUME IInv, RefInv, NEW h, Handlers = {h}, LoginReplyApi(h) \/ LoginReplyGui(h)
  PROVE  /\ handed' = handed \cup {[name |-> req[h].name, pw |-> req[h].pw,
                                    token |-> req[h].token]}
         /\ UNCHANGED <<exists, users, sess, bootstrap, minted>>
         /\ req[h].pc = "reply" /\ req'[h] = Idle
<1>1. /\ UNCHANGED <<exists, users, sess, bootstrap, minted>>
      /\ req[h].pc = "reply" /\ req'[h] = Idle
  BY DEF LoginReplyApi, LoginReplyGui, At, store, Finish, IInv, TypeOK
<1>2. lastToken = req[h].token /\ req[h].token # Nobody
  BY <1>1, UsersAssumption DEF RefInv, RefOf, TokenRef, IInv, InFlight, InFlightOf
<1>3. {req[h].token, lastToken} \ {Nobody} = {req[h].token}
  BY <1>2
<1> QED
  BY <1>1, <1>3 DEF LoginReplyApi, LoginReplyGui

LEMMA LoginReplyRef ==
  ASSUME IInv, RefInv, NEW h, Handlers = {h}, LoginReplyApi(h) \/ LoginReplyGui(h)
  PROVE  RefInv'
<1>1. /\ handed' = handed \cup {[name |-> req[h].name, pw |-> req[h].pw,
                                 token |-> req[h].token]}
      /\ UNCHANGED <<exists, users, sess, bootstrap, minted>>
      /\ req[h].pc = "reply" /\ req'[h] = Idle
  BY ReplyHands
<1>2. req[h].token \in minted
  BY <1>1 DEF RefInv, TokensMinted, RefOf, TokenRef
<1>3. TokensMinted'
  BY <1>1, <1>2 DEF RefInv, TokensMinted
<1>4. Rooted'
  BY <1>1 DEF RefInv, Rooted, At
<1>5. RefOf(req[h])'
  BY <1>1 DEF RefOf, LoginRef, LetIn, TokenRef, SessionRef, ChangeRef, Others, Idle
<1> QED
  BY <1>3, <1>4, <1>5 DEF RefInv
-----------------------------------------------------------------------------
\* The session that allows a request is open when it begins.
LEMMA StartRef ==
  ASSUME IInv, RefInv, NEW h, Handlers = {h}, NEW s \in sess, NEW id \in Ids,
         NEW n \in Names, NEW p \in Passwords, NEW q \in Passwords, NEW r \in Roles,
         \/ ChangePWStart(h, s, p, q) \/ ResetPWStart(h, s, id, q)
         \/ ChangeRoleStart(h, s, id, r) \/ CreateStart(h, s, n, p, r)
  PROVE  RefInv'
<1>1. /\ UNCHANGED <<exists, users, sess, bootstrap, minted, handed>>
      /\ req[h].pc = "idle"
  BY DEF ChangePWStart, ResetPWStart, ChangeRoleStart, CreateStart, Begin, At, store,
         history
<1>2. /\ req'[h].pc \in {"check", "pwread", "roleread", "dup"}
      /\ \/ req'[h].op = "changepw" /\ req'[h].id = s.id
         \/ req'[h].op \in {"reset", "changerole", "create"} /\ s.role = "admin"
  <2>1. req \in [Handlers -> Requests] /\ h \in Handlers
    BY DEF IInv, TypeOK
  <2>2. CASE ChangePWStart(h, s, p, q)
    BY <2>1, <2>2 DEF ChangePWStart, Begin, Idle
  <2>3. CASE ResetPWStart(h, s, id, q)
    BY <2>1, <2>3 DEF ResetPWStart, Begin, Idle
  <2>4. CASE ChangeRoleStart(h, s, id, r)
    BY <2>1, <2>4 DEF ChangeRoleStart, Begin, Idle
  <2>5. CASE CreateStart(h, s, n, p, r)
    BY <2>1, <2>5 DEF CreateStart, Begin, Idle
  <2> QED
    BY <2>2, <2>3, <2>4, <2>5
<1>3. SessionRef(req[h])'
  BY <1>1, <1>2 DEF SessionRef
<1>4. RefOf(req[h])'
  BY <1>2, <1>3 DEF RefOf, LoginRef, LetIn, TokenRef, ChangeRef
<1> QED
  BY <1>1, <1>4, QuietRef

LEMMA LooksRef ==
  ASSUME IInv, RefInv, NEW h, Handlers = {h},
         \/ ChangePWCheck(h) \/ RoleCount(h) \/ CreateDup(h)
         \/ MustRead(h) \/ PWRead(h) \/ RoleRead(h)
  PROVE  RefInv'
<1>1. /\ UNCHANGED <<exists, users, sess, bootstrap, minted, handed>>
      /\ req[h].pc \in {"check", "rolecount", "dup", "mustread", "pwread", "roleread"}
  BY DEF ChangePWCheck, RoleCount, CreateDup, MustRead, PWRead, RoleRead, At, store,
         history
<1>2. RefOf(req[h]) /\ TypeOK
  BY DEF RefInv, IInv
<1>3. CASE Finish(h)
  BY <1>1, <1>3, FinishRef
<1>4. CASE ~Finish(h)
  <2>1. /\ req'[h].op = req[h].op /\ req'[h].id = req[h].id
        /\ req'[h].role = req[h].role /\ req'[h].name = req[h].name
        /\ req'[h].pw = req[h].pw
        /\ \/ req'[h].pc \in {"pwread", "rolewrite", "add", "pwwrite", "rolecount"}
              /\ req[h].pc \in Others
           \/ req'[h].pc = "mustwrite" /\ req[h].pc = "mustread"
    <3>1. CASE ChangePWCheck(h) \/ RoleCount(h) \/ CreateDup(h)
      BY <1>2, <1>4, <3>1, GotoFields
      DEF ChangePWCheck, RoleCount, CreateDup, At, Others
    <3>2. CASE MustRead(h) \/ PWRead(h) \/ RoleRead(h)
      BY <1>2, <1>4, <3>2
      DEF MustRead, PWRead, RoleRead, At, Others, TypeOK, Requests
    <3> QED
      BY <3>1, <3>2
  <2>2. LoginRef(req[h])' /\ TokenRef(req[h])'
    BY <1>1, <1>2, <2>1 DEF RefOf, LoginRef, LetIn, TokenRef
  <2>3. SessionRef(req[h])' /\ ChangeRef(req[h])'
    BY <1>1, <1>2, <2>1 DEF RefOf, SessionRef, ChangeRef, Others
  <2> QED
    BY <1>1, <2>2, <2>3, QuietRef DEF RefOf
<1> QED
  BY <1>3, <1>4

LEMMA SessionDeleteRef ==
  ASSUME IInv, RefInv, NEW h, Handlers = {h}, NEW s \in sess, SessionDelete(h, s)
  PROVE  RefInv'
<1>1. /\ UNCHANGED <<exists, users, bootstrap, minted, handed, req>>
      /\ sess' \subseteq sess /\ req[h].pc = "idle"
  BY DEF SessionDelete, At, history
<1>2. TokensMinted'
  BY <1>1 DEF RefInv, TokensMinted
<1>3. Rooted'
  <2>1. Rooted
    BY DEF RefInv
  <2> QED
    BY <1>1, <2>1 DEF Rooted, At
<1>4. RefOf(req[h])'
  BY <1>1 DEF RefOf, LoginRef, LetIn, TokenRef, SessionRef, ChangeRef, Others
<1> QED
  BY <1>2, <1>3, <1>4 DEF RefInv

\* A write of one row, in a place of the handler's own.
LEMMA WriteRef ==
  ASSUME IInv, RefInv, NEW h, Handlers = {h}, RefOf(req[h])', sess' \subseteq sess,
         UNCHANGED <<exists, bootstrap, minted, handed>>, req[h].pc # "bootmark"
  PROVE  RefInv'
<1>1. TokensMinted'
  BY DEF RefInv, TokensMinted
<1>2. Rooted'
  BY DEF RefInv, Rooted, At
<1> QED
  BY <1>1, <1>2 DEF RefInv

LEMMA PWWriteRef ==
  ASSUME IInv, SerialInv, RefInv, NEW h, Handlers = {h}, PWWrite(h)
  PROVE  RefInv'
<1> DEFINE id == req[h].id
<1>1. /\ UNCHANGED <<exists, sess, bootstrap, minted, handed>> /\ req[h].pc = "pwwrite"
  BY DEF PWWrite, At
<1>2. /\ req'[h].pc = "rotate" /\ req'[h].op = req[h].op /\ req'[h].id = id
      /\ req'[h].row = req[h].row /\ req'[h].pw = req[h].pw
  BY GotoFields DEF PWWrite, IInv
<1>3. req[h].op \in {"changepw", "reset"} /\ RefOf(req[h]) /\ id \in Ids
  BY <1>1
  DEF SerialInv, Fresh, FreshOf, Operation, RefInv, IInv, TypeOK, InFlight, InFlightOf,
      Bound, Holding
<1>4. users'[id] = [req[h].row EXCEPT !.pw = req[h].pw, !.must = FALSE]
  BY <1>3 DEF PWWrite, PutRow, IInv, TypeOK
<1>5. ChangeRef(req[h])'
  BY <1>2, <1>3, <1>4 DEF ChangeRef
<1>6. SessionRef(req[h])'
  BY <1>1, <1>2, <1>3 DEF RefOf, SessionRef, Others
<1>7. RefOf(req[h])'
  BY <1>2, <1>5, <1>6 DEF RefOf, LoginRef, LetIn, TokenRef
<1> QED
  BY <1>1, <1>7, WriteRef

LEMMA RoleWriteRef ==
  ASSUME IInv, SerialInv, RefInv, NEW h, Handlers = {h}, RoleWrite(h)
  PROVE  RefInv'
<1> DEFINE id == req[h].id
<1>1. UNCHANGED <<exists, sess, bootstrap, minted, handed>> /\ req[h].pc = "rolewrite"
  BY DEF RoleWrite, At
<1>2. /\ req'[h].pc = "rotate" /\ req'[h].op = req[h].op /\ req'[h].id = id
      /\ req'[h].row = req[h].row /\ req'[h].role = req[h].role
  BY GotoFields DEF RoleWrite, IInv
<1>3. /\ req[h].op = "changerole" /\ RefOf(req[h]) /\ id \in exists /\ id \in Ids
      /\ req[h].row = users[id]
      /\ req[h].role # "admin" => id \notin Admins \/ \E a \in Admins : a # id
  BY <1>1
  DEF SerialInv, Fresh, FreshOf, Operation, RefInv, IInv, TypeOK, InFlight, InFlightOf,
      Bound, Holding
<1>4. /\ users'[id] = [req[h].row EXCEPT !.role = req[h].role]
      /\ \A x \in exists \ {id} : users'[x] = users[x]
  BY <1>3 DEF RoleWrite, PutRow, IInv, TypeOK
<1>5. req[h].row.role = "admin" /\ req[h].role # "admin" => \E a \in Admins' : a # id
  BY <1>1, <1>3, <1>4 DEF Admins
<1>6. ChangeRef(req[h])'
  BY <1>2, <1>3, <1>4, <1>5 DEF ChangeRef
<1>7. SessionRef(req[h])'
  BY <1>1, <1>2, <1>3 DEF RefOf, SessionRef, Others
<1>8. RefOf(req[h])'
  BY <1>2, <1>6, <1>7 DEF RefOf, LoginRef, LetIn, TokenRef
<1> QED
  BY <1>1, <1>8, WriteRef

LEMMA RotateRef ==
  ASSUME IInv, SerialInv, RefInv, NEW h, Handlers = {h}, Rotate(h)
  PROVE  RefInv'
<1>1. /\ UNCHANGED <<exists, users, bootstrap, minted, handed>>
      /\ req[h].pc = "rotate" /\ sess' \subseteq sess
  BY DEF Rotate, At, history
<1>2. RefOf(req[h])'
  <2>1. CASE req[h].op = "changerole"
    <3>1. req'[h] = Idle
      BY <2>1 DEF Rotate, Finish, IInv, TypeOK
    <3> QED
      BY <3>1 DEF RefOf, LoginRef, LetIn, TokenRef, SessionRef, ChangeRef, Others, Idle
  <2>2. CASE req[h].op # "changerole"
    <3>1. /\ req'[h].pc = "mustread" /\ req'[h].op = req[h].op
          /\ req'[h].id = req[h].id
      BY <2>2, GotoFields DEF Rotate, IInv
    <3>2. /\ req[h].op \in {"changepw", "reset"}
          /\ users[req[h].id] = [req[h].row EXCEPT !.pw = req[h].pw, !.must = FALSE]
          /\ req[h].row \in Rows
      BY <1>1, <2>2 DEF RefInv, RefOf, ChangeRef, IInv, TypeOK, Requests
    <3>3. users'[req[h].id].must = FALSE
      BY <1>1, <3>2 DEF Rows
    <3> QED
      BY <3>1, <3>2, <3>3
      DEF RefOf, LoginRef, LetIn, TokenRef, SessionRef, ChangeRef, Others
  <2> QED
    BY <2>1, <2>2
<1> QED
  BY <1>1, <1>2, WriteRef

LEMMA MustWriteRef ==
  ASSUME IInv, SerialInv, RefInv, NEW h, Handlers = {h}, MustWrite(h)
  PROVE  RefInv'
<1> DEFINE id == req[h].id
<1>1. UNCHANGED <<exists, sess, bootstrap, minted, handed>> /\ req[h].pc = "mustwrite"
  BY DEF MustWrite, At, history
<1>2. RefOf(req[h])'
  <2>1. CASE req[h].op # "login"
    <3>1. req'[h] = Idle
      BY <2>1 DEF MustWrite, Finish, IInv, TypeOK
    <3> QED
      BY <3>1 DEF RefOf, LoginRef, LetIn, TokenRef, SessionRef, ChangeRef, Others, Idle
  <2>2. CASE req[h].op = "login"
    <3>1. /\ req'[h].pc = "session" /\ req'[h].id = id /\ req'[h].role = req[h].role
          /\ req'[h].name = req[h].name /\ req'[h].pw = req[h].pw
      BY <2>2, GotoFields DEF MustWrite, IInv
    <3>2. /\ id \in exists /\ users[id].name = req[h].name
          /\ users[id].pw = req[h].pw /\ users[id].role = req[h].role
          /\ req[h].row = users[id] /\ id \in Ids /\ users[id] \in Rows
      BY <1>1, <2>2
      DEF RefInv, RefOf, LoginRef, LetIn, SerialInv, Fresh, FreshOf, Holding, IInv, TypeOK
    <3>3. /\ users'[id].name = req[h].name /\ users'[id].pw = req[h].pw
          /\ users'[id].role = req[h].role
      BY <3>2 DEF MustWrite, PutRow, IInv, TypeOK, Rows
    <3> HIDE DEF id
    <3> QED
      BY <1>1, <3>1, <3>2, <3>3
      DEF RefOf, LoginRef, LetIn, TokenRef, SessionRef, ChangeRef, Others
  <2> QED
    BY <2>1, <2>2
<1> QED
  BY <1>1, <1>2, WriteRef

LEMMA CreateAddRef ==
  ASSUME IInv, SerialInv, RefInv, NEW h, Handlers = {h}, CreateAdd(h)
  PROVE  RefInv'
<1>1. PICK id \in Uuids \ exists :
        /\ exists' = exists \cup {id}
        /\ PutRow(id, [name |-> req[h].name, pw |-> req[h].pw,
                       role |-> req[h].role, must |-> FALSE])
        /\ req' = [req EXCEPT ![h].id = id, ![h].pc = "mustread"]
  BY DEF CreateAdd
<1>2. UNCHANGED <<sess, bootstrap, minted, handed>> /\ req[h].pc = "add"
  BY DEF CreateAdd, At
<1>3. /\ req'[h].pc = "mustread" /\ req'[h].id = id /\ req'[h].op = "create"
      /\ exists # {}
  BY <1>1, <1>2 DEF IInv, TypeOK, Requests, SerialInv, Fresh, FreshOf, Operation
<1>4. users'[id].must = FALSE
  BY <1>1 DEF PutRow, IInv, TypeOK, Ids
<1>5. TokensMinted'
  BY <1>2 DEF RefInv, TokensMinted
<1>6. Rooted'
  <2>1. Rooted
    BY DEF RefInv
  <2> QED
    BY <1>1, <1>2, <1>3, <2>1 DEF Rooted, At
<1>7. RefOf(req[h])'
  BY <1>3, <1>4 DEF RefOf, LoginRef, LetIn, TokenRef, SessionRef, ChangeRef, Others
<1> QED
  BY <1>5, <1>6, <1>7 DEF RefInv

\* The backfill finds the account that was about to be marked.
LEMMA RestartRef ==
  ASSUME IInv, RefInv, NEW h, Handlers = {h}, Restart
  PROVE  /\ RefInv' /\ UNCHANGED <<exists, users, sess, minted, handed>>
         /\ req'[h] = Idle
         /\ bootstrap' = IF At(h, "bootmark") THEN LegacyName ELSE bootstrap
<1>1. /\ UNCHANGED <<exists, users, sess, minted, handed>> /\ req'[h] = Idle
  BY DEF Restart, Stop, IInv, TypeOK
<1>2. /\ bootstrap' = (IF At(h, "bootmark") THEN LegacyName ELSE bootstrap)
      /\ Rooted'
  <2>1. Rooted
    BY DEF RefInv
  <2>2. CASE exists = {}
    <3>1. ~At(h, "bootmark")
      BY <2>2 DEF At, IInv, InFlight, InFlightOf, Bound
    <3> QED
      BY <1>1, <2>1, <2>2, <3>1 DEF Rooted, Restart
  <2>3. CASE LegacyName \in exists /\ bootstrap = LegacyName
    <3>1. bootstrap' = bootstrap
      BY <2>3, UsersAssumption DEF Restart, Ids
    <3> QED
      BY <1>1, <2>3, <3>1 DEF Rooted
  <2>4. CASE exists = {LegacyName} /\ bootstrap = Nobody /\ At(h, "bootmark")
    <3>1. \E id \in exists : id = users[id].name
      BY <2>4 DEF IInv, Bootstrapped
    <3> DEFINE b == CHOOSE id \in exists : id = users[id].name
    <3>2. b \in exists
      BY <3>1
    <3>3. bootstrap' = b
      BY <2>4, <3>1 DEF Restart
    <3> HIDE DEF b
    <3> QED
      BY <1>1, <2>4, <3>2, <3>3 DEF Rooted
  <2> QED
    BY <2>1, <2>2, <2>3, <2>4, Zenon DEF Rooted
<1>3. TokensMinted'
  BY <1>1 DEF RefInv, TokensMinted
<1>4. RefOf(req[h])'
  BY <1>1 DEF RefOf, LoginRef, LetIn, TokenRef, SessionRef, ChangeRef, Others, Idle
<1> QED
  BY <1>1, <1>2, <1>3, <1>4 DEF RefInv

LEMMA StepRef ==
  ASSUME NEW only, Handlers = {only}
  PROVE  IInv /\ IInv' /\ SerialInv /\ RefInv /\ [Next]_vars => RefInv'
<1> SUFFICES ASSUME IInv, IInv', SerialInv, RefInv, [Next]_vars PROVE RefInv'
  OBVIOUS
<1>1. CASE SessionFails(only) \/ CreateFails(only)
  BY <1>1, FinishRef DEF SessionFails, CreateFails, At, store, history
<1>2. CASE Login(only)
  BY <1>1, <1>2, LoginStartRef, LoginMovesRef, BootAddRef, BootMarkRef,
     SessionCreateRef, LoginReplyRef, Zenon
  DEF Login
<1>3. CASE ChangePW(only)
  <2>1. ASSUME NEW s \in sess, NEW id \in Ids, NEW old \in Passwords,
               NEW new \in Passwords,
               ChangePWStart(only, s, old, new) \/ ResetPWStart(only, s, id, new)
        PROVE  RefInv'
    BY <2>1, StartRef, UsersAssumption DEF Roles
  <2> QED
    BY <1>3, <2>1, LooksRef, PWWriteRef, UsersAssumption DEF ChangePW, Ids
<1>4. CASE ChangeRole(only)
  <2>1. ASSUME NEW s \in sess, NEW id \in Ids, NEW r \in Roles,
               ChangeRoleStart(only, s, id, r)
        PROVE  RefInv'
    BY <2>1, StartRef, UsersAssumption
  <2> QED
    BY <1>4, <2>1, LooksRef, RoleWriteRef DEF ChangeRole
<1>5. CASE Create(only)
  <2>1. ASSUME NEW s \in sess, NEW n \in Names, NEW p \in Passwords, NEW r \in Roles,
               CreateStart(only, s, n, p, r)
        PROVE  RefInv'
    BY <2>1, StartRef DEF Ids
  <2> QED
    BY <1>1, <1>5, <2>1, LooksRef, CreateAddRef DEF Create
<1>6. CASE MustRead(only) \/ MustWrite(only) \/ Rotate(only)
  BY <1>6, LooksRef, MustWriteRef, RotateRef
<1>7. ASSUME NEW s \in sess, SessionDelete(only, s) PROVE RefInv'
  BY <1>7, SessionDeleteRef
<1>8. CASE Restart
  BY <1>8, RestartRef
<1>9. CASE UNCHANGED vars
  BY <1>9
  DEF vars, RefInv, TokensMinted, Rooted, RefOf, LoginRef, LetIn, TokenRef, SessionRef,
      ChangeRef, Named, UserGetByUsername, Admins, At
<1> QED
  BY <1>2, <1>3, <1>4, <1>5, <1>6, <1>7, <1>8, <1>9, Zenon DEF Next

LEMMA RefInvariant ==
  ASSUME NEW only, Handlers = {only}, Seeded = {}
  PROVE  Spec => [](IInv /\ SerialInv /\ RefInv)
<1> QED
  BY InitRef, StepRef, SerialInvariant, PTL DEF Spec

-----------------------------------------------------------------------------
(* The steps of the promise.                                               *)

AccountsNow == [id \in exists |-> Shown(id)]
SessionsNow == {s \in sess : Answered(s)}
RootNow == IF At(Serving, "bootmark") THEN req[Serving].id ELSE bootstrap
UnflaggedNow ==
  IF Unsettled(req[Serving].id) THEN req[Serving].id ELSE Nobody

\* Places where the promise is ahead of the store, or behind it.
Between == {"rotate", "bootmark", "mustread", "mustwrite", "log", "reply"}

LEMMA OneServing ==
  ASSUME NEW h, Handlers = {h}
  PROVE  Serving = h
BY DEF Serving

LEMMA ShownNow ==
  ASSUME NEW h, Handlers = {h}
  PROVE  /\ \A x : Shown(x) =
              IF req[h].id = x /\ req[h].pc = "rotate" THEN req[h].row
              ELSE IF /\ req[h].id = x /\ req[h].op # "changepw"
                      /\ req[h].pc \in {"bootmark", "mustread", "mustwrite"}
                     THEN [users[x] EXCEPT !.must = TRUE] ELSE users[x]
         /\ \A s : Answered(s) <=> (req[h].pc \in {"log", "reply"} =>
                                      s.token # req[h].token)
         /\ RootNow = IF req[h].pc = "bootmark" THEN req[h].id ELSE bootstrap
         /\ UnflaggedNow = IF /\ req[h].op # "changepw"
                              /\ req[h].pc \in {"bootmark", "mustread", "mustwrite"}
                             THEN req[h].id ELSE Nobody
BY OneServing DEF Shown, Answered, RootNow, UnflaggedNow, Unsettled, Holds, At

LEMMA ShownNext ==
  ASSUME NEW h, Handlers = {h}
  PROVE  /\ \A x : Shown(x)' =
              IF req'[h].id = x /\ req'[h].pc = "rotate" THEN req'[h].row
              ELSE IF /\ req'[h].id = x /\ req'[h].op # "changepw"
                      /\ req'[h].pc \in {"bootmark", "mustread", "mustwrite"}
                     THEN [users'[x] EXCEPT !.must = TRUE] ELSE users'[x]
         /\ \A s : Answered(s)' <=> (req'[h].pc \in {"log", "reply"} =>
                                       s.token # req'[h].token)
         /\ RootNow' = IF req'[h].pc = "bootmark" THEN req'[h].id ELSE bootstrap'
         /\ UnflaggedNow' = IF /\ req'[h].op # "changepw"
                               /\ req'[h].pc \in {"bootmark", "mustread", "mustwrite"}
                              THEN req'[h].id ELSE Nobody
BY OneServing DEF Shown, Answered, RootNow, UnflaggedNow, Unsettled, Holds, At

LEMMA PlainNow ==
  ASSUME NEW h, Handlers = {h}, req[h].pc \notin Between
  PROVE  /\ \A x : Shown(x) = users[x]
         /\ SessionsNow = sess /\ RootNow = bootstrap /\ UnflaggedNow = Nobody
BY ShownNow DEF Between, SessionsNow

LEMMA PlainNext ==
  ASSUME NEW h, Handlers = {h}, req'[h].pc \notin Between
  PROVE  /\ \A x : Shown(x)' = users'[x]
         /\ SessionsNow' = sess' /\ RootNow' = bootstrap' /\ UnflaggedNow' = Nobody
BY ShownNext DEF Between, SessionsNow

\* Nothing the promise speaks of changes.
LEMMA Stutter ==
  ASSUME UNCHANGED <<exists, handed, SessionsNow, RootNow, UnflaggedNow>>,
         \A x \in exists : Shown(x)' = Shown(x)
  PROVE  UNCHANGED Promised!promise
BY DEF Promised!promise, SessionsNow, RootNow, UnflaggedNow

LEMMA PlainStutter ==
  ASSUME NEW h, Handlers = {h}, req[h].pc \notin Between, req'[h].pc \notin Between,
         UNCHANGED <<exists, users, sess, bootstrap, handed>>
  PROVE  UNCHANGED Promised!promise
BY PlainNow, PlainNext, Stutter

\* One row changes, or is new.
LEMMA PutNow ==
  ASSUME NEW id, NEW row, exists' = exists \cup {id}, Shown(id)' = row,
         \A x \in exists : x # id => Shown(x)' = Shown(x)
  PROVE  Promised!Put(id, row)
BY DEF Promised!Put, Promised!InUse

LEMMA InUseNow == Promised!InUse = exists
BY DEF Promised!InUse

LEMMA NextNow ==
  ASSUME UnflaggedNow = Nobody,
         \/ Promised!Seed
         \/ \E id \in exists, t \in Tokens : Promised!Login(id, t)
         \/ \E s \in SessionsNow : \/ Promised!Logout(s)
                                   \/ \E p \in Passwords : Promised!ChangePW(s, p)
         \/ \E id \in exists : \/ \E p \in Passwords : Promised!Reset(id, p)
                               \/ \E r \in Roles : Promised!ChangeRole(id, r)
         \/ \E id \in Uuids, n \in Names, p \in Passwords, r \in Roles :
              Promised!Create(id, n, p, r)
  PROVE  Promised!Next
BY InUseNow, Zenon DEF Promised!Next, UnflaggedNow, SessionsNow, Promised!Roles, Roles

LEMMA SettleNow ==
  ASSUME UnflaggedNow # Nobody, Promised!Settle
  PROVE  Promised!Next
BY DEF Promised!Next, UnflaggedNow

-----------------------------------------------------------------------------
(* What each transaction is in the promise.                                *)

\* A handler begins, looks, or gives up, where nothing is pending.
LEMMA LoginStartPromise ==
  ASSUME IInv, NEW h, Handlers = {h}, NEW n \in Names, NEW p \in Passwords,
         LoginStart(h, n, p)
  PROVE  UNCHANGED Promised!promise
<1>1. /\ UNCHANGED <<exists, users, sess, bootstrap, handed>>
      /\ req[h].pc \notin Between
  BY DEF LoginStart, Begin, At, store, history, Between
<1>2. req'[h].pc \notin Between
  BY DEF LoginStart, Begin, Idle, Between, IInv, TypeOK
<1> QED
  BY <1>1, <1>2, PlainStutter

LEMMA StartPromise ==
  ASSUME IInv, NEW h, Handlers = {h}, NEW s \in sess, NEW id \in Ids,
         NEW n \in Names, NEW p \in Passwords, NEW q \in Passwords, NEW r \in Roles,
         \/ ChangePWStart(h, s, p, q) \/ ResetPWStart(h, s, id, q)
         \/ ChangeRoleStart(h, s, id, r) \/ CreateStart(h, s, n, p, r)
  PROVE  UNCHANGED Promised!promise
<1>1. /\ UNCHANGED <<exists, users, sess, bootstrap, handed>>
      /\ req[h].pc \notin Between
  BY DEF ChangePWStart, ResetPWStart, ChangeRoleStart, CreateStart, Begin, At, store,
         history, Between
<1>2. req'[h].pc \notin Between
  <2>1. req \in [Handlers -> Requests] /\ h \in Handlers
    BY DEF IInv, TypeOK
  <2>2. CASE ChangePWStart(h, s, p, q) \/ ResetPWStart(h, s, id, q)
    BY <2>1, <2>2 DEF ChangePWStart, ResetPWStart, Begin, Idle, Between
  <2>3. CASE ChangeRoleStart(h, s, id, r) \/ CreateStart(h, s, n, p, r)
    BY <2>1, <2>3 DEF ChangeRoleStart, CreateStart, Begin, Idle, Between
  <2> QED
    BY <2>2, <2>3
<1> QED
  BY <1>1, <1>2, PlainStutter

LEMMA LooksPromise ==
  ASSUME IInv, NEW h, Handlers = {h},
         \/ LoginVerify(h) \/ LoginExists(h) \/ SessionFails(h) \/ ChangePWCheck(h)
         \/ PWRead(h) \/ RoleRead(h) \/ RoleCount(h) \/ CreateDup(h) \/ CreateFails(h)
  PROVE  UNCHANGED Promised!promise
<1>1. /\ UNCHANGED <<exists, users, sess, bootstrap, handed>>
      /\ req[h].pc \notin Between
  BY DEF LoginVerify, LoginExists, SessionFails, ChangePWCheck, PWRead, RoleRead,
         RoleCount, CreateDup, CreateFails, At, store, history, Between
<1>2. req'[h].pc \notin Between
  <2>1. TypeOK
    BY DEF IInv
  <2>2. CASE Finish(h)
    BY <2>1, <2>2 DEF Finish, TypeOK, Idle, Between
  <2>3. CASE PWRead(h) \/ RoleRead(h)
    BY <2>1, <2>2, <2>3 DEF PWRead, RoleRead, TypeOK, Requests, Between
  <2> QED
    BY <2>1, <2>2, <2>3, GotoFields
    DEF LoginVerify, LoginExists, SessionFails, ChangePWCheck, RoleCount, CreateDup,
        CreateFails, Between
<1> QED
  BY <1>1, <1>2, PlainStutter

LEMMA BootAddPromise ==
  ASSUME IInv, SerialInv, RefInv, NEW h, Handlers = {h}, BootAdd(h)
  PROVE  Promised!Next
<1>1. /\ exists = {} /\ req[h].name = LegacyName /\ req[h].op = "login"
      /\ req[h].pw = LegacyPw /\ LegacyName \in Ids
      /\ req[h].pc = "bootadd"
  BY UsersAssumption
  DEF BootAdd, At, SerialInv, Fresh, FreshOf, IInv, InFlight, InFlightOf, LoginOnly,
      RefInv, RefOf, LoginRef, Ids
<1>2. /\ exists' = {LegacyName} /\ UNCHANGED <<sess, handed>>
      /\ users'[LegacyName] = [name |-> LegacyName, pw |-> LegacyPw,
                               role |-> "admin", must |-> FALSE]
  BY <1>1 DEF BootAdd, PutRow, IInv, TypeOK
<1>3. /\ req'[h].pc = "bootmark" /\ req'[h].id = LegacyName /\ req'[h].op = "login"
  BY <1>1 DEF BootAdd, IInv, TypeOK, Requests
<1>4. Shown(LegacyName)' = [name |-> LegacyName, pw |-> LegacyPw,
                            role |-> "admin", must |-> TRUE]
  BY <1>2, <1>3, ShownNext
<1>5. Promised!Put(LegacyName, [name |-> LegacyName, pw |-> LegacyPw,
                                role |-> "admin", must |-> TRUE])
  BY <1>1, <1>2, <1>4, PutNow
<1>6. /\ RootNow' = LegacyName /\ UnflaggedNow' = LegacyName /\ SessionsNow' = sess'
  BY <1>3, ShownNext DEF SessionsNow
<1>7. UnflaggedNow = Nobody /\ SessionsNow = sess
  BY <1>1, PlainNow DEF Between
<1>8. Promised!Seed
  BY <1>1, <1>2, <1>5, <1>6, <1>7, InUseNow
  DEF Promised!Seed, RootNow, UnflaggedNow, SessionsNow
<1> QED
  BY <1>7, <1>8, NextNow

LEMMA BootMarkPromise ==
  ASSUME IInv, SerialInv, NEW h, Handlers = {h}, BootMark(h)
  PROVE  UNCHANGED Promised!promise
<1>1. /\ UNCHANGED <<exists, users, sess, handed>> /\ bootstrap' = req[h].id
      /\ req[h].pc = "bootmark" /\ Goto(h, "mustread") /\ req[h].op = "login"
  BY DEF BootMark, At, history, IInv, InFlight, InFlightOf, LoginOnly
<1>2. /\ req'[h].pc = "mustread" /\ req'[h].op = req[h].op /\ req'[h].id = req[h].id
  BY <1>1, GotoFields DEF IInv
<1>3. ASSUME NEW x PROVE Shown(x)' = Shown(x)
  <2>1. req[h].op # "changepw" /\ users' = users
    BY <1>1
  <2>2. CASE req[h].id = x
    <3>1. Shown(x)' = [users'[x] EXCEPT !.must = TRUE]
      BY <1>2, <2>1, <2>2, ShownNext
    <3>2. Shown(x) = [users[x] EXCEPT !.must = TRUE]
      BY <1>1, <2>1, <2>2, ShownNow
    <3> QED
      BY <2>1, <3>1, <3>2
  <2>3. CASE req[h].id # x
    BY <1>2, <2>1, <2>3, ShownNow, ShownNext
  <2> QED
    BY <2>2, <2>3
<1>4. UNCHANGED <<SessionsNow, RootNow, UnflaggedNow>>
  BY <1>1, <1>2, ShownNow, ShownNext DEF SessionsNow
<1> QED
  BY <1>1, <1>3, <1>4, Stutter

LEMMA SessionCreatePromise ==
  ASSUME IInv, RefInv, NEW h, Handlers = {h}, SessionCreate(h)
  PROVE  UNCHANGED Promised!promise
<1>1. PICK t \in Tokens \ minted :
        /\ sess' = sess \cup {[token |-> t, id |-> req[h].id, role |-> req[h].role]}
        /\ req' = [req EXCEPT ![h].token = t, ![h].pc = "log"]
  BY DEF SessionCreate
<1>2. /\ UNCHANGED <<exists, users, bootstrap, handed>> /\ req[h].pc = "session"
      /\ req'[h].pc = "log" /\ req'[h].token = t
  BY <1>1 DEF SessionCreate, At, history, IInv, TypeOK, Requests
<1>3. /\ \A x : Shown(x) = users[x]
      /\ SessionsNow = sess /\ RootNow = bootstrap /\ UnflaggedNow = Nobody
  BY <1>2, PlainNow DEF Between
<1>4. /\ \A x : Shown(x)' = users'[x]
      /\ RootNow' = bootstrap' /\ UnflaggedNow' = Nobody
      /\ \A s : Answered(s)' <=> s.token # t
  BY <1>2, ShownNext
<1>5. SessionsNow' = sess
  <2> DEFINE new == [token |-> t, id |-> req[h].id, role |-> req[h].role]
  <2>1. new.token = t /\ sess' = sess \cup {new}
    BY <1>1
  <2>2. \A s \in sess : s.token # t
    BY DEF RefInv, TokensMinted
  <2> HIDE DEF new
  <2> QED
    BY <1>4, <2>1, <2>2 DEF SessionsNow
<1> QED
  BY <1>2, <1>3, <1>4, <1>5, Stutter

LEMMA LoginLogPromise ==
  ASSUME IInv, NEW h, Handlers = {h}, LoginLogAppend(h)
  PROVE  UNCHANGED Promised!promise
<1>1. /\ UNCHANGED <<exists, users, sess, bootstrap, handed>> /\ req[h].pc = "log"
      /\ req'[h].pc = "reply" /\ req'[h].token = req[h].token
  BY GotoFields DEF LoginLogAppend, At, history, IInv
<1>2. /\ \A x : Shown(x)' = Shown(x)
      /\ UNCHANGED <<SessionsNow, RootNow, UnflaggedNow>>
  BY <1>1, ShownNow, ShownNext DEF SessionsNow
<1> QED
  BY <1>1, <1>2, Stutter

\* The login of the promise: its session counts, whether or not the client hears.
LEMMA AnswerPromise ==
  ASSUME IInv, RefInv, NEW h, Handlers = {h}, req[h].pc \in {"log", "reply"},
         req'[h] = Idle, UNCHANGED <<exists, users, sess, bootstrap>>,
         handed' \in {handed, handed \cup {[name |-> req[h].name, pw |-> req[h].pw,
                                            token |-> req[h].token]}}
  PROVE  Promised!Next
<1> PICK id, t : id = req[h].id /\ t = req[h].token
  OBVIOUS
<1> DEFINE new == [token |-> t, id |-> id, role |-> users[id].role]
<1>1. /\ id \in exists /\ t \in Tokens
      /\ users[id].name = req[h].name /\ users[id].pw = req[h].pw
      /\ users[id].role = req[h].role
      /\ new \in sess /\ \A s \in sess : s.token = t => s = new
      /\ \A x \in handed : x.token # t
  BY DEF RefInv, RefOf, LoginRef, LetIn, TokenRef, IInv, InFlight, InFlightOf
<1>2. /\ \A x : Shown(x) = users[x]
      /\ RootNow = bootstrap /\ UnflaggedNow = Nobody
      /\ \A s : Answered(s) <=> s.token # t
  BY ShownNow
<1>3. req'[h].pc \notin Between
  BY DEF Between, Idle
<1>4. /\ \A x : Shown(x)' = users'[x]
      /\ SessionsNow' = sess' /\ RootNow' = bootstrap' /\ UnflaggedNow' = Nobody
  BY <1>3, PlainNext
<1>5. new.token = t
  OBVIOUS
<1> HIDE DEF new
<1>6. SessionsNow' = SessionsNow \cup {new} /\ \A s \in SessionsNow : s.token # t
  BY <1>1, <1>2, <1>4, <1>5 DEF SessionsNow
<1>7. AccountsNow[id] = users[id] /\ AccountsNow' = AccountsNow
  BY <1>1, <1>2, <1>4 DEF AccountsNow
<1>8. Promised!Login(id, t)
  BY <1>1, <1>2, <1>4, <1>6, <1>7, InUseNow
  DEF Promised!Login, AccountsNow, SessionsNow, RootNow, UnflaggedNow, new
<1> QED
  BY <1>1, <1>2, <1>8, NextNow

LEMMA SessionDeletePromise ==
  ASSUME IInv, NEW h, Handlers = {h}, NEW s \in sess, SessionDelete(h, s)
  PROVE  Promised!Next
<1>1. /\ UNCHANGED <<exists, users, bootstrap, handed, req>> /\ sess' = sess \ {s}
      /\ req[h].pc \notin Between
  BY DEF SessionDelete, At, history, Between
<1>2. /\ \A x : Shown(x) = users[x]
      /\ SessionsNow = sess /\ RootNow = bootstrap /\ UnflaggedNow = Nobody
  BY <1>1, PlainNow
<1>3. /\ \A x : Shown(x)' = users'[x]
      /\ SessionsNow' = sess' /\ RootNow' = bootstrap' /\ UnflaggedNow' = Nobody
  BY <1>1, PlainNext
<1>4. AccountsNow' = AccountsNow
  BY <1>1, <1>2, <1>3 DEF AccountsNow
<1>5. Promised!Logout(s)
  BY <1>1, <1>2, <1>3, <1>4
  DEF Promised!Logout, AccountsNow, SessionsNow, RootNow, UnflaggedNow
<1> QED
  BY <1>2, <1>5, NextNow
-----------------------------------------------------------------------------
\* The flag of a new or reset account has been promised before it is written.
LEMMA MustReadPromise ==
  ASSUME IInv, SerialInv, NEW h, Handlers = {h}, MustRead(h)
  PROVE  UNCHANGED Promised!promise
<1>1. /\ UNCHANGED <<exists, users, sess, bootstrap, handed>> /\ req[h].pc = "mustread"
      /\ req'[h].pc = "mustwrite" /\ req'[h].id = req[h].id /\ req'[h].op = req[h].op
  BY DEF MustRead, At, store, history, IInv, TypeOK, Requests
<1>2. ASSUME NEW x PROVE Shown(x)' = Shown(x)
  <2>1. users' = users
    BY <1>1
  <2>2. CASE req[h].id = x /\ req[h].op # "changepw"
    <3>1. Shown(x)' = [users'[x] EXCEPT !.must = TRUE]
      BY <1>1, <2>2, ShownNext
    <3>2. Shown(x) = [users[x] EXCEPT !.must = TRUE]
      BY <1>1, <2>2, ShownNow
    <3> QED
      BY <2>1, <3>1, <3>2
  <2>3. CASE ~(req[h].id = x /\ req[h].op # "changepw")
    BY <1>1, <2>1, <2>3, ShownNow, ShownNext
  <2> QED
    BY <2>2, <2>3
<1>3. UNCHANGED <<SessionsNow, RootNow, UnflaggedNow>>
  BY <1>1, ShownNow, ShownNext DEF SessionsNow
<1> QED
  BY <1>1, <1>2, <1>3, Stutter

LEMMA MustWritePromise ==
  ASSUME IInv, SerialInv, RefInv, NEW h, Handlers = {h}, MustWrite(h)
  PROVE  Promised!Next \/ UNCHANGED Promised!promise
<1> PICK id : id = req[h].id
  OBVIOUS
<1>1. /\ UNCHANGED <<exists, sess, bootstrap, handed>> /\ req[h].pc = "mustwrite"
      /\ users' = [users EXCEPT ![id] = [req[h].row EXCEPT !.must = req[h].op # "changepw"]]
  BY DEF MustWrite, PutRow, At, history
<1>2. /\ id \in exists /\ id \in Ids /\ id # Nobody /\ req[h].row = users[id]
      /\ users[id].must = FALSE /\ users[id] \in Rows
  BY <1>1, UsersAssumption
  DEF SerialInv, Fresh, FreshOf, Holding, IInv, TypeOK, InFlight, InFlightOf, Bound,
      RefInv, RefOf, ChangeRef
<1>3. req'[h].pc \notin Between
  <2>1. CASE req[h].op = "login"
    BY <2>1, GotoFields DEF MustWrite, IInv, Between
  <2>2. CASE req[h].op # "login"
    BY <2>2 DEF MustWrite, Finish, IInv, TypeOK, Idle, Between
  <2> QED
    BY <2>1, <2>2
<1>4. /\ \A x : Shown(x)' = users'[x]
      /\ SessionsNow' = sess' /\ RootNow' = bootstrap' /\ UnflaggedNow' = Nobody
  BY <1>3, PlainNext
<1>5. SessionsNow = sess /\ RootNow = bootstrap
  BY <1>1, ShownNow DEF SessionsNow
<1>6. \A x \in exists : x # id => Shown(x)' = Shown(x)
  BY <1>1, <1>4, ShownNow DEF IInv, TypeOK
<1>7. CASE req[h].op = "changepw"
  <2>1. users'[id] = users[id]
    BY <1>1, <1>2, <1>7 DEF IInv, TypeOK, Rows
  <2>2. Shown(id) = users[id] /\ UnflaggedNow = Nobody
    BY <1>1, <1>7, ShownNow
  <2> QED
    BY <1>1, <1>4, <1>5, <1>6, <2>1, <2>2, Stutter
<1>8. CASE req[h].op # "changepw"
  <2>1. users'[id] = [users[id] EXCEPT !.must = TRUE]
    BY <1>1, <1>2, <1>8 DEF IInv, TypeOK
  <2>2. Shown(id) = [users[id] EXCEPT !.must = TRUE] /\ UnflaggedNow = id
    <3>1. UnflaggedNow = id
      BY <1>1, <1>8, ShownNow
    <3>2. Shown(id) = [users[id] EXCEPT !.must = TRUE]
      BY <1>1, <1>8, ShownNow
    <3> QED
      BY <3>1, <3>2
  <2>3. AccountsNow' = AccountsNow
    BY <1>1, <1>4, <1>6, <2>1, <2>2 DEF AccountsNow
  <2>4. Promised!Settle
    BY <1>1, <1>4, <1>5, <2>3
    DEF Promised!Settle, AccountsNow, SessionsNow, RootNow, UnflaggedNow
  <2> QED
    BY <1>2, <2>2, <2>4, SettleNow
<1> QED
  BY <1>7, <1>8

\* A written row does not count before the sessions are gone.
LEMMA WritePromise ==
  ASSUME IInv, SerialInv, NEW h, Handlers = {h}, PWWrite(h) \/ RoleWrite(h)
  PROVE  UNCHANGED Promised!promise
<1> PICK id : id = req[h].id
  OBVIOUS
<1>1. /\ UNCHANGED <<exists, sess, bootstrap, handed>> /\ req[h].pc \notin Between
      /\ req[h].pc \in Holding
  BY DEF PWWrite, RoleWrite, At, Between, Holding
<1>2. /\ req'[h].pc = "rotate" /\ req'[h].id = id /\ req'[h].row = req[h].row
  BY GotoFields DEF PWWrite, RoleWrite, IInv
<1>3. req[h].row = users[id]
  BY <1>1 DEF SerialInv, Fresh, FreshOf
<1>4. \A x \in exists : x # id => users'[x] = users[x]
  BY DEF PWWrite, RoleWrite, PutRow, IInv, TypeOK
<1>5. /\ \A x : Shown(x) = users[x]
      /\ SessionsNow = sess /\ RootNow = bootstrap /\ UnflaggedNow = Nobody
  BY <1>1, PlainNow
<1>6. /\ Shown(id)' = req[h].row /\ \A x : x # id => Shown(x)' = users'[x]
      /\ SessionsNow' = sess' /\ RootNow' = bootstrap' /\ UnflaggedNow' = Nobody
  BY <1>2, ShownNext DEF SessionsNow
<1> QED
  BY <1>1, <1>3, <1>4, <1>5, <1>6, Stutter

\* A change of role or of the own password, with the sessions or without them:
\* what Rotate has done, or a stop before it has left.
LEMMA ChangePromise ==
  ASSUME IInv, RefInv, NEW h, Handlers = {h}, req[h].pc = "rotate",
         UNCHANGED <<exists, users, bootstrap, handed>>,
         sess' \in {sess, {s \in sess : s.id # req[h].id}},
         req[h].op \in {"changerole", "changepw"}, UnflaggedNow' = Nobody,
         req'[h].pc \in {"idle", "mustread"}, req'[h].op # "changepw" => req'[h].pc = "idle"
  PROVE  Promised!Next
<1> PICK id : id = req[h].id
  OBVIOUS
<1>1. /\ Shown(id) = req[h].row /\ \A x : x # id => Shown(x) = users[x]
      /\ SessionsNow = sess /\ RootNow = bootstrap /\ UnflaggedNow = Nobody
  BY ShownNow DEF SessionsNow
<1>2. /\ \A x : Shown(x)' = users'[x]
      /\ SessionsNow' = sess' /\ RootNow' = bootstrap'
  BY ShownNext DEF SessionsNow
<1>3. /\ id \in exists /\ id \in Ids /\ users[id] \in Rows /\ req[h].row \in Rows
      /\ req[h].pw \in Passwords /\ req[h].role \in Roles
  BY DEF IInv, TypeOK, InFlight, InFlightOf, Bound, Requests
<1>4. AccountsNow[id] = req[h].row /\ exists' = exists \cup {id}
  BY <1>1, <1>3 DEF AccountsNow
<1>5. Promised!Put(id, users[id])
  BY <1>1, <1>2, <1>4, PutNow
<1>6. Promised!SessionsOfOthers(id) = {s \in sess : s.id # id}
  BY <1>1 DEF Promised!SessionsOfOthers, SessionsNow
<1>7. CASE req[h].op = "changepw"
  <2>1. PICK s \in sess : s.id = id
    BY <1>7 DEF RefInv, RefOf, SessionRef, Others
  <2>2. users[id] = [req[h].row EXCEPT !.pw = req[h].pw, !.must = FALSE]
    BY <1>7 DEF RefInv, RefOf, ChangeRef
  <2> PICK p \in Passwords : p = req[h].pw
    BY <1>3
  <2> DEFINE row == [AccountsNow[s.id] EXCEPT !.pw = p, !.must = FALSE]
  <2>3. Promised!Put(s.id, row)
    <3>1. AccountsNow[s.id] = req[h].row /\ exists' = exists \cup {s.id}
      BY <1>4, <2>1
    <3>2. row = users[s.id]
      BY <2>1, <2>2, <3>1
    <3> HIDE DEF row
    <3>3. /\ Shown(s.id)' = row
          /\ \A x \in exists : x # s.id => Shown(x)' = Shown(x)
      BY <1>1, <1>2, <2>1, <3>2
    <3> QED
      BY <3>1, <3>3, PutNow
  <2>4. SessionsNow' \in {SessionsNow, Promised!SessionsOfOthers(s.id)}
    BY <1>1, <1>2, <2>1 DEF Promised!SessionsOfOthers, SessionsNow
  <2>5. Promised!ChangePW(s, p)
    BY <1>1, <1>2, <2>3, <2>4
    DEF Promised!ChangePW, AccountsNow, SessionsNow, RootNow, UnflaggedNow
  <2> QED
    BY <1>1, <2>5, NextNow
<1>8. CASE req[h].op = "changerole"
  <2>1. /\ users[id] = [req[h].row EXCEPT !.role = req[h].role]
        /\ req[h].row.role = "admin" /\ req[h].role # "admin" =>
             \E a \in Admins : a # id
    BY <1>8 DEF RefInv, RefOf, ChangeRef
  <2> PICK r \in Roles : r = req[h].role
    BY <1>3
  <2>2. Promised!ByAdmin
    BY <1>1, <1>8 DEF RefInv, RefOf, SessionRef, Others, Promised!ByAdmin, SessionsNow
  <2>3. AccountsNow[id].role = "admin" /\ r # "admin" =>
          \E other \in exists : other # id /\ AccountsNow[other].role = "admin"
    BY <1>1, <1>4, <2>1 DEF Admins, AccountsNow
  <2>4. Promised!ChangeRole(id, r)
    BY <1>1, <1>2, <1>4, <1>5, <1>6, <2>1, <2>2, <2>3, InUseNow
    DEF Promised!ChangeRole, AccountsNow, SessionsNow, RootNow, UnflaggedNow
  <2> QED
    BY <1>1, <1>3, <2>4, NextNow
<1> QED
  BY <1>7, <1>8

\* A reset, done or cut short.
LEMMA ResetPromise ==
  ASSUME IInv, RefInv, NEW h, Handlers = {h}, req[h].pc = "rotate",
         UNCHANGED <<exists, users, bootstrap, handed>>, req[h].op = "reset",
         \/ /\ sess' = {s \in sess : s.id # req[h].id} /\ req'[h].pc = "mustread"
            /\ req'[h].op = "reset" /\ req'[h].id = req[h].id
         \/ sess' = sess /\ req'[h] = Idle
  PROVE  Promised!Next
<1> PICK id, p : id = req[h].id /\ p = req[h].pw
  OBVIOUS
<1>1. /\ Shown(id) = req[h].row /\ \A x : x # id => Shown(x) = users[x]
      /\ SessionsNow = sess /\ RootNow = bootstrap /\ UnflaggedNow = Nobody
  BY ShownNow DEF SessionsNow
<1>2. /\ id \in exists /\ id \in Ids /\ users[id] \in Rows /\ req[h].row \in Rows
      /\ p \in Passwords
      /\ users[id] = [req[h].row EXCEPT !.pw = p, !.must = FALSE]
  BY DEF IInv, TypeOK, InFlight, InFlightOf, Bound, Requests, RefInv, RefOf, ChangeRef
<1>3. AccountsNow[id] = req[h].row /\ exists' = exists \cup {id}
  BY <1>1, <1>2 DEF AccountsNow
<1>4. Promised!ByAdmin
  BY <1>1 DEF RefInv, RefOf, SessionRef, Others, Promised!ByAdmin, SessionsNow
<1>5. Promised!SessionsOfOthers(id) = {s \in sess : s.id # id}
  BY <1>1 DEF Promised!SessionsOfOthers, SessionsNow
<1>6. CASE req'[h].pc = "mustread"
  <2>1. /\ req'[h].op = "reset" /\ req'[h].id = id /\ sess' = {s \in sess : s.id # id}
    BY <1>6 DEF Idle
  <2>2. /\ Shown(id)' = [users'[id] EXCEPT !.must = TRUE]
        /\ \A x : x # id => Shown(x)' = users'[x]
        /\ SessionsNow' = sess' /\ RootNow' = bootstrap' /\ UnflaggedNow' = id
    BY <1>6, <2>1, ShownNext DEF SessionsNow
  <2>3. Shown(id)' = [req[h].row EXCEPT !.pw = p, !.must = TRUE]
    BY <1>2, <2>2 DEF Rows
  <2>4. Promised!Put(id, [req[h].row EXCEPT !.pw = p, !.must = TRUE])
    BY <1>1, <1>3, <2>2, <2>3, PutNow
  <2>5. Promised!Reset(id, p)
    BY <1>1, <1>3, <1>4, <1>5, <2>1, <2>2, <2>4
    DEF Promised!Reset, AccountsNow, SessionsNow, RootNow, UnflaggedNow
  <2> QED
    BY <1>1, <1>2, <2>5, NextNow
<1>7. CASE req'[h].pc # "mustread"
  <2>1. sess' = sess /\ req'[h].pc \notin Between
    BY <1>7 DEF Idle, Between
  <2>2. /\ \A x : Shown(x)' = users'[x]
        /\ SessionsNow' = sess' /\ RootNow' = bootstrap' /\ UnflaggedNow' = Nobody
    BY <2>1, PlainNext
  <2>3. Promised!Put(id, [req[h].row EXCEPT !.pw = p, !.must = FALSE])
    BY <1>1, <1>2, <1>3, <2>2, PutNow
  <2>4. Promised!Reset(id, p)
    BY <1>1, <1>3, <1>4, <2>1, <2>2, <2>3
    DEF Promised!Reset, AccountsNow, SessionsNow, RootNow, UnflaggedNow
  <2> QED
    BY <1>1, <1>2, <2>4, NextNow
<1> QED
  BY <1>6, <1>7

LEMMA RotatePromise ==
  ASSUME IInv, RefInv, NEW h, Handlers = {h}, Rotate(h)
  PROVE  Promised!Next
<1>1. /\ UNCHANGED <<exists, users, bootstrap, handed>> /\ req[h].pc = "rotate"
      /\ sess' = {s \in sess : s.id # req[h].id}
  BY DEF Rotate, At, history
<1>2. req[h].op \in {"changerole", "changepw", "reset"}
  BY <1>1 DEF RefInv, RefOf, ChangeRef
<1>3. CASE req[h].op = "changerole"
  <2>1. req'[h] = Idle
    BY <1>3 DEF Rotate, Finish, IInv, TypeOK
  <2>2. UnflaggedNow' = Nobody
    BY <2>1, PlainNext DEF Idle, Between
  <2>3. req'[h].pc = "idle"
    BY <2>1 DEF Idle
  <2> QED
    BY <1>1, <1>3, <2>2, <2>3, ChangePromise
<1>4. CASE req[h].op # "changerole"
  <2>1. /\ req'[h].pc = "mustread" /\ req'[h].op = req[h].op /\ req'[h].id = req[h].id
    BY <1>4, GotoFields DEF Rotate, IInv
  <2>2. CASE req[h].op = "changepw"
    <3>1. UnflaggedNow' = Nobody
      BY <2>1, <2>2, ShownNext
    <3> QED
      BY <1>1, <2>1, <2>2, <3>1, ChangePromise
  <2>3. CASE req[h].op = "reset"
    BY <1>1, <2>1, <2>3, ResetPromise
  <2> QED
    BY <1>2, <1>4, <2>2, <2>3
<1> QED
  BY <1>3, <1>4

LEMMA Flag ==
  ASSUME NEW old \in Rows, NEW b
  PROVE  [old EXCEPT !.must = b] =
           [name |-> old.name, pw |-> old.pw, role |-> old.role, must |-> b]
BY DEF Rows

LEMMA CreateAddPromise ==
  ASSUME IInv, SerialInv, RefInv, NEW h, Handlers = {h}, CreateAdd(h)
  PROVE  Promised!Next
<1>1. PICK id \in Uuids \ exists :
        /\ exists' = exists \cup {id}
        /\ PutRow(id, [name |-> req[h].name, pw |-> req[h].pw,
                       role |-> req[h].role, must |-> FALSE])
        /\ req' = [req EXCEPT ![h].id = id, ![h].pc = "mustread"]
  BY DEF CreateAdd
<1> PICK n, p, r : n = req[h].name /\ p = req[h].pw /\ r = req[h].role
  OBVIOUS
<1> DEFINE row == [name |-> n, pw |-> p, role |-> r, must |-> TRUE]
<1>2. UNCHANGED <<sess, bootstrap, handed>> /\ req[h].pc = "add" /\ id \in Ids
  BY DEF CreateAdd, At, Ids
<1>3. /\ req'[h].pc = "mustread" /\ req'[h].id = id /\ req'[h].op = "create"
      /\ n \in Names /\ p \in Passwords /\ r \in Roles /\ Named(n) = {}
  BY <1>1, <1>2 DEF IInv, TypeOK, Requests, SerialInv, Fresh, FreshOf, Operation
<1>4. /\ users'[id] = [name |-> n, pw |-> p, role |-> r, must |-> FALSE]
      /\ \A x \in exists : x # id /\ users'[x] = users[x]
  BY <1>1, <1>2 DEF PutRow, IInv, TypeOK
<1>5. /\ \A x : Shown(x) = users[x]
      /\ SessionsNow = sess /\ RootNow = bootstrap /\ UnflaggedNow = Nobody
  BY <1>2, PlainNow DEF Between
<1>6. /\ Shown(id)' = [users'[id] EXCEPT !.must = TRUE]
      /\ \A x : x # id => Shown(x)' = users'[x]
      /\ SessionsNow' = sess' /\ RootNow' = bootstrap' /\ UnflaggedNow' = id
  BY <1>3, ShownNext DEF SessionsNow
<1>7. Shown(id)' = row
  <2>1. /\ users'[id] \in Rows /\ users'[id].name = n
        /\ users'[id].pw = p /\ users'[id].role = r
    BY <1>3, <1>4 DEF Rows
  <2>2. Shown(id)' = [name |-> users'[id].name, pw |-> users'[id].pw,
                      role |-> users'[id].role, must |-> TRUE]
    BY <1>6, <2>1, Flag, Zenon
  <2> QED
    BY <2>1, <2>2, Zenon
<1>8. Promised!Put(id, row)
  <2> HIDE DEF row
  <2> QED
    BY <1>1, <1>4, <1>5, <1>6, <1>7, PutNow
<1>9. Promised!ByAdmin
  BY <1>2, <1>3, <1>5
  DEF RefInv, RefOf, SessionRef, Others, Promised!ByAdmin, SessionsNow, SerialInv, Fresh,
      FreshOf, Operation
<1>10. \A x \in exists : AccountsNow[x].name # n
  BY <1>3, <1>5 DEF Named, AccountsNow
<1>11. Promised!Create(id, n, p, r)
  BY <1>1, <1>2, <1>5, <1>6, <1>8, <1>9, <1>10, InUseNow
  DEF Promised!Create, AccountsNow, SessionsNow, RootNow, UnflaggedNow
<1> QED
  BY <1>3, <1>5, <1>11, NextNow

\* A stop loses the flag that was still to be written.
LEMMA LostFlag ==
  ASSUME IInv, RefInv, NEW h, Handlers = {h}, req[h].op # "changepw",
         req[h].pc \in {"bootmark", "mustread", "mustwrite"}, req'[h] = Idle,
         UNCHANGED <<exists, users, sess, handed, RootNow>>
  PROVE  Promised!Next
<1> PICK id : id = req[h].id
  OBVIOUS
<1>1. /\ UnflaggedNow = id /\ \A x : x # id => Shown(x) = users[x]
      /\ SessionsNow = sess
  BY ShownNow DEF SessionsNow
<1>2. Shown(id) = [users[id] EXCEPT !.must = TRUE]
  BY ShownNow
<1>3. req'[h].pc \notin Between
  BY DEF Idle, Between
<1>4. /\ \A x : Shown(x)' = users[x]
      /\ SessionsNow' = sess /\ UnflaggedNow' = Nobody
  BY <1>3, PlainNext
<1>5. /\ id \in exists /\ id # Nobody /\ users[id] \in Rows /\ users[id].must = FALSE
  <2>1. id \in exists /\ exists \subseteq Ids /\ users \in [Ids -> Rows]
    BY DEF IInv, TypeOK, InFlight, InFlightOf, Bound, Holding
  <2>2. users[id].must = FALSE
    BY DEF RefInv, RefOf, ChangeRef
  <2> QED
    BY <2>1, <2>2, UsersAssumption
<1>6. [AccountsNow[id] EXCEPT !.must = FALSE] = users[id]
  BY <1>2, <1>5 DEF Rows, AccountsNow
<1>7. AccountsNow' = [AccountsNow EXCEPT ![id].must = FALSE]
  <2>1. AccountsNow' = [x \in exists |-> users[x]]
    BY <1>4 DEF AccountsNow
  <2>2. \A x \in exists : x # id => AccountsNow[x] = users[x]
    BY <1>1 DEF AccountsNow
  <2>3. DOMAIN AccountsNow = exists /\ AccountsNow = [x \in exists |-> AccountsNow[x]]
    BY DEF AccountsNow
  <2> QED
    BY <1>6, <2>1, <2>2, <2>3
<1>8. Promised!Settle
  BY <1>1, <1>4, <1>7
  DEF Promised!Settle, AccountsNow, SessionsNow, RootNow, UnflaggedNow
<1> QED
  BY <1>1, <1>5, <1>8, SettleNow

LEMMA RestartPromise ==
  ASSUME IInv, SerialInv, RefInv, NEW h, Handlers = {h}, Restart
  PROVE  Promised!Next \/ UNCHANGED Promised!promise
<1>1. /\ UNCHANGED <<exists, users, sess, handed>> /\ req'[h] = Idle
      /\ bootstrap' = IF At(h, "bootmark") THEN LegacyName ELSE bootstrap
  BY RestartRef
<1>2. req'[h].pc = "idle" /\ req'[h].pc \notin Between
  BY <1>1 DEF Idle, Between
<1>3. UnflaggedNow' = Nobody
  BY <1>2, PlainNext
<1>4. CASE req[h].pc \notin Between
  <2>1. bootstrap' = bootstrap
    BY <1>1, <1>4 DEF At, Between
  <2> QED
    BY <1>1, <1>2, <1>4, <2>1, PlainStutter
<1>5. CASE req[h].pc \in {"log", "reply"}
  <2>1. bootstrap' = bootstrap
    BY <1>1, <1>5 DEF At
  <2> QED
    BY <1>1, <1>5, <2>1, AnswerPromise
<1>6. CASE req[h].pc = "rotate"
  <2>1. /\ bootstrap' = bootstrap
        /\ req[h].op \in {"changerole", "changepw", "reset"}
    BY <1>1, <1>6 DEF At, RefInv, RefOf, ChangeRef
  <2>2. CASE req[h].op = "reset"
    BY <1>1, <1>6, <2>1, <2>2, ResetPromise
  <2>3. CASE req[h].op # "reset"
    BY <1>1, <1>2, <1>3, <1>6, <2>1, <2>3, ChangePromise
  <2> QED
    BY <2>2, <2>3
<1>7. CASE req[h].pc \in {"bootmark", "mustread", "mustwrite"} /\ req[h].op # "changepw"
  <2>1. RootNow' = bootstrap'
    BY <1>2, PlainNext
  <2>2. RootNow = bootstrap'
    <3>1. req[h].pc = "bootmark" => req[h].id = LegacyName
      BY DEF SerialInv, Fresh, FreshOf
    <3> QED
      BY <1>1, <3>1, ShownNow DEF At
  <2> QED
    BY <1>1, <1>7, <2>1, <2>2, LostFlag
<1>8. CASE req[h].pc \in {"mustread", "mustwrite"} /\ req[h].op = "changepw"
  <2>1. /\ \A x : Shown(x) = users[x]
        /\ SessionsNow = sess /\ RootNow = bootstrap /\ UnflaggedNow = Nobody
    BY <1>8, ShownNow DEF SessionsNow
  <2>2. /\ \A x : Shown(x)' = users'[x]
        /\ SessionsNow' = sess' /\ RootNow' = bootstrap' /\ UnflaggedNow' = Nobody
    BY <1>2, PlainNext
  <2>3. bootstrap' = bootstrap
    BY <1>1, <1>8 DEF At
  <2> QED
    BY <1>1, <2>1, <2>2, <2>3, Stutter
<1>9. req[h].pc = "bootmark" => req[h].op # "changepw"
  BY DEF IInv, InFlight, InFlightOf, LoginOnly
<1> QED
  BY <1>4, <1>5, <1>6, <1>7, <1>8, <1>9 DEF Between

LEMMA StepPromise ==
  ASSUME NEW only, Handlers = {only}
  PROVE  IInv /\ SerialInv /\ RefInv /\ [Next]_vars
           => [Promised!Next]_(Promised!promise)
<1> SUFFICES ASSUME IInv, SerialInv, RefInv, [Next]_vars
             PROVE  Promised!Next \/ UNCHANGED Promised!promise
  OBVIOUS
<1>1. ASSUME LoginReplyApi(only) \/ LoginReplyGui(only)
      PROVE  Promised!Next
  <2>1. /\ handed' = handed \cup {[name |-> req[only].name, pw |-> req[only].pw,
                                   token |-> req[only].token]}
        /\ UNCHANGED <<exists, users, sess, bootstrap, minted>>
        /\ req[only].pc = "reply" /\ req'[only] = Idle
    BY <1>1, ReplyHands
  <2> QED
    BY <2>1, AnswerPromise
<1>2. CASE Login(only)
  <2>1. ASSUME NEW n \in Names, NEW p \in Passwords, LoginStart(only, n, p)
        PROVE  UNCHANGED Promised!promise
    BY <2>1, LoginStartPromise
  <2> QED
    BY <1>1, <1>2, <2>1, LooksPromise, BootAddPromise, BootMarkPromise,
       SessionCreatePromise, LoginLogPromise, Zenon
    DEF Login
<1>3. CASE ChangePW(only)
  <2>1. ASSUME NEW s \in sess, NEW id \in Ids, NEW old \in Passwords,
               NEW new \in Passwords,
               ChangePWStart(only, s, old, new) \/ ResetPWStart(only, s, id, new)
        PROVE  UNCHANGED Promised!promise
    BY <2>1, StartPromise, UsersAssumption DEF Roles
  <2> QED
    BY <1>3, <2>1, LooksPromise, WritePromise, UsersAssumption DEF ChangePW, Ids
<1>4. CASE ChangeRole(only)
  <2>1. ASSUME NEW s \in sess, NEW id \in Ids, NEW r \in Roles,
               ChangeRoleStart(only, s, id, r)
        PROVE  UNCHANGED Promised!promise
    BY <2>1, StartPromise, UsersAssumption
  <2> QED
    BY <1>4, <2>1, LooksPromise, WritePromise DEF ChangeRole
<1>5. CASE Create(only)
  <2>1. ASSUME NEW s \in sess, NEW n \in Names, NEW p \in Passwords, NEW r \in Roles,
               CreateStart(only, s, n, p, r)
        PROVE  UNCHANGED Promised!promise
    BY <2>1, StartPromise DEF Ids
  <2> QED
    BY <1>5, <2>1, LooksPromise, CreateAddPromise DEF Create
<1>6. CASE MustRead(only) \/ MustWrite(only) \/ Rotate(only)
  BY <1>6, MustReadPromise, MustWritePromise, RotatePromise
<1>7. ASSUME NEW s \in sess, SessionDelete(only, s)
      PROVE  Promised!Next
  BY <1>7, SessionDeletePromise
<1>8. CASE Restart
  BY <1>8, RestartPromise
<1>9. CASE UNCHANGED vars
  BY <1>9
  DEF vars, Promised!promise, Shown, Answered, Unsettled, Holds, At
<1> QED
  BY <1>2, <1>3, <1>4, <1>5, <1>6, <1>7, <1>8, <1>9, Zenon DEF Next

\* With one handler, and a store that started empty, the user store keeps the
\* promise: every login, change and creation happens as a whole, on accounts as
\* they are, and a stop costs no more than Accounts says.
THEOREM SerialImplementsAccounts ==
  ASSUME NEW only, Handlers = {only}, Seeded = {}
  PROVE  Spec => AccountsSpec
<1>1. Init => Promised!Init
  <2> SUFFICES ASSUME Init PROVE Promised!Init
    OBVIOUS
  <2>1. req[only].pc \notin Between
    BY DEF Init, Idle, Between
  <2>2. /\ exists = {} /\ sess = {} /\ handed = {} /\ bootstrap = Nobody
    BY UsersAssumption DEF Init
  <2>3. SessionsNow = {} /\ RootNow = Nobody /\ UnflaggedNow = Nobody
    BY <2>1, <2>2, PlainNow
  <2>4. AccountsNow = [id \in {} |-> Nobody]
    BY <2>2 DEF AccountsNow
  <2> QED
    BY <2>2, <2>3, <2>4
    DEF Promised!Init, AccountsNow, SessionsNow, RootNow, UnflaggedNow
<1> QED
  BY <1>1, StepPromise, RefInvariant, PTL DEF Spec, AccountsSpec, Promised!Spec
=============================================================================
