--------------------------- MODULE Access_proofs ---------------------------
(***************************************************************************)
(* Why the guards hold for any number of browsers, accounts, tokens and     *)
(* requests at once.  A token has one session, and none once it has ended    *)
(* (Tokened, Leaving); an admin session belongs to an account that is        *)
(* trusted, and requests in progress know all that are (Privileged).         *)
(***************************************************************************)
EXTENDS Access, TLAPS

Tokened ==
  /\ \A s, t \in sess : s.token = t.token => s = t
  /\ \A s \in sess : s.token \in minted \ ended
  /\ ended \subseteq minted
  /\ \A c \in Clients : jar[c] \in minted \cup {None} /\ known[c] \subseteq minted
  /\ \A h \in Handlers : req[h] # None =>
       req[h].header \in minted \cup {None} /\ req[h].token \in minted \cup {None}

\* A token about to be given up has no session any more, or one that the
\* rotation at hand deletes.
Leaving ==
  \A h \in Handlers :
    /\ At(h, "leave") => \A s \in sess : s.token # req[h].token
    /\ At(h, "rotate") /\ req[h].route = "changepw" =>
         \A s \in sess : s.token = req[h].token => s.id = req[h].target

AdminSessions == {s \in sess : s.role = "admin"}

\* A request that may still act.
Acting(h) == (At(h, "handle") \/ At(h, "write")) /\ req[h].route \in AdminRoutes

Privileged ==
  /\ \A s \in AdminSessions : s.id \in Trusted
  /\ \A h \in Handlers : Acting(h) =>
       /\ Admins \subseteq req[h].trusted
       /\ \A s \in AdminSessions : s.id \in req[h].trusted
       /\ req[h].header = None \/ req[h].route \notin Api
            => req[h].id \in req[h].trusted
  /\ \A h \in Handlers : At(h, "write") => req[h].route \in Accounts
  /\ \A h \in Handlers : At(h, "login") => req[h].route = "login"

IInv ==
  TypeOK /\ Tokened /\ Leaving /\ Privileged /\ PrivilegeCurrent /\ RevokedNeverServed

-----------------------------------------------------------------------------
LEMMA InitIInv == Init => IInv
BY AccessAssumption
DEF Init, IInv, TypeOK, Tokened, Leaving, Privileged, Acting, AdminSessions, At,
    PrivilegeCurrent, RevokedNeverServed

LEMMA LoginKeeps ==
  ASSUME IInv, NEW h \in Handlers, NEW c \in Clients, NEW id \in Ids, Login(h, c, id)
  PROVE  IInv'
<1> USE AccessAssumption DEF IInv, Login, Goto
<1> DEFINE r == [pc |-> "login", client |-> c, route |-> "login", header |-> None,
                 token |-> None, id |-> id, target |-> id, role |-> users[id],
                 trusted |-> {}]
<1>1. r \in Requests
  BY DEF Requests, TypeOK
<1>2. TypeOK'
  BY <1>1 DEF TypeOK
<1>3. Tokened'
  BY DEF TypeOK, Tokened
<1>4. Leaving'
  BY DEF TypeOK, Leaving, At
<1>5. Demoting' = Demoting
  <2>1. \A g \in Handlers : At(g, "rotate")' <=> At(g, "rotate")
    BY <1>1 DEF TypeOK, At
  <2>2. \A g \in Handlers : At(g, "rotate") => req'[g] = req[g]
    BY DEF TypeOK, At
  <2> QED BY <2>1, <2>2 DEF Demoting
<1>6. Privileged'
  <2>1. /\ AdminSessions' = AdminSessions /\ Admins' = Admins
        /\ Trusted' = Trusted
    BY <1>5 DEF AdminSessions, Admins, Trusted, Demoting
  <2>2. \A g \in Handlers : g # h => req'[g] = req[g]
    BY DEF TypeOK
  <2>3. /\ ~Acting(h)' /\ ~At(h, "write")' /\ req'[h].route = "login"
    BY DEF TypeOK, Acting, At
  <2> QED BY <2>1, <2>2, <2>3 DEF Privileged, Acting, At
<1>7. PrivilegeCurrent' /\ RevokedNeverServed'
  BY DEF PrivilegeCurrent, RevokedNeverServed
<1> QED BY <1>2, <1>3, <1>4, <1>6, <1>7

\* The session opened may carry a role read earlier: the account is trusted then
\* until it changes again.
LEMMA AdminInKeeps ==
  ASSUME IInv, NEW h \in Handlers, AdminIn(h)
  PROVE  IInv'
<1> USE AccessAssumption DEF IInv
<1>1. PICK r \in Requests : r = req[h]
  BY DEF AdminIn, At, TypeOK
<1>2. PICK t \in Tokens \ minted :
        /\ minted' = minted \cup {t}
        /\ sess' = sess \cup {[token |-> t, id |-> r.id, role |-> r.role]}
        /\ jar' = [jar EXCEPT ![r.client] = t]
        /\ known' = [known EXCEPT ![r.client] = @ \cup {t}]
  BY <1>1 DEF AdminIn
<1>3. /\ r.pc = "login" /\ r.route = "login" /\ r.id \in Ids /\ r.role \in Roles
      /\ r.client \in Clients
  BY <1>1 DEF AdminIn, At, Requests, Privileged
<1>4. /\ UNCHANGED <<users, userdb, overstepped, late, ended>>
      /\ IF r.role = "admin" /\ users[r.id] # "admin"
           THEN stale' = stale \cup {r.id} /\ Trust(h, None, r.id)
           ELSE UNCHANGED stale /\ Done(h)
  BY <1>1 DEF AdminIn
<1>5. \A g \in Handlers \ {h} : req[g] = None => req'[g] = None
  BY <1>4 DEF Trust, Done, TypeOK
<1>6. \A g \in Handlers \ {h} : req[g] # None =>
        \E T \in {req[g].trusted, req[g].trusted \cup {r.id}} :
          /\ req'[g] = [req[g] EXCEPT !.trusted = T]
          /\ (r.role = "admin" /\ users[r.id] # "admin") => r.id \in T
  <2> TAKE g \in Handlers \ {h}
  <2> HAVE req[g] # None
  <2>1. req[g] \in Requests
    BY DEF TypeOK
  <2>2. req[g] = [req[g] EXCEPT !.trusted = req[g].trusted]
    BY <2>1 DEF Requests
  <2>3. CASE r.role = "admin" /\ users[r.id] # "admin"
    BY <1>4, <2>3, SMTT(20) DEF Trust, TypeOK
  <2>4. CASE ~(r.role = "admin" /\ users[r.id] # "admin")
    BY <1>4, <2>2, <2>4 DEF Done, TypeOK
  <2> QED BY <2>3, <2>4
<1>7. req' \in [Handlers -> Requests \cup {None}] /\ req'[h] = None
  <2>1. req' = [g \in Handlers |-> req'[g]]
    BY <1>4 DEF Trust, Done, TypeOK
  <2>2. req'[h] = None
    BY <1>4 DEF Trust, Done, TypeOK
  <2>3. ASSUME NEW g \in Handlers \ {h} PROVE req'[g] \in Requests \cup {None}
    <3>1. CASE req[g] = None
      BY <3>1, <1>5
    <3>2. CASE req[g] # None
      <4>1. PICK T \in {req[g].trusted, req[g].trusted \cup {r.id}} :
              req'[g] = [req[g] EXCEPT !.trusted = T]
        BY <3>2, <1>6
      <4>2. req[g] \in Requests
        BY <3>2 DEF TypeOK
      <4> QED BY <1>3, <4>1, <4>2 DEF Requests
    <3> QED BY <3>1, <3>2
  <2> QED BY <2>1, <2>2, <2>3
<1>8. TypeOK'
  BY <1>2, <1>3, <1>4, <1>7 DEF TypeOK, Sessions
<1>9. \A g \in Handlers \ {h} : req[g] # None =>
        /\ req'[g] # None /\ req'[g].pc = req[g].pc /\ req'[g].route = req[g].route
        /\ req'[g].header = req[g].header /\ req'[g].token = req[g].token
        /\ req'[g].id = req[g].id /\ req'[g].target = req[g].target
        /\ req'[g].role = req[g].role
        /\ req[g].trusted \subseteq req'[g].trusted
        /\ (r.role = "admin" /\ users[r.id] # "admin") => r.id \in req'[g].trusted
  <2> TAKE g \in Handlers \ {h}
  <2> HAVE req[g] # None
  <2>1. req[g] \in Requests
    BY DEF TypeOK
  <2>2. PICK T \in {req[g].trusted, req[g].trusted \cup {r.id}} :
          /\ req'[g] = [req[g] EXCEPT !.trusted = T]
          /\ (r.role = "admin" /\ users[r.id] # "admin") => r.id \in T
    BY <1>6
  <2>3. [req[g] EXCEPT !.trusted = T] \in Requests
    BY <2>1, <1>3 DEF Requests
  <2> QED BY <2>1, <2>2, <2>3 DEF Requests
<1>10. Tokened'
  BY <1>1, <1>2, <1>3, <1>4, <1>5, <1>7, <1>9 DEF TypeOK, Tokened, Sessions
<1>11. Leaving'
  BY <1>1, <1>2, <1>3, <1>4, <1>5, <1>7, <1>9 DEF TypeOK, Leaving, Tokened, At, Sessions
<1>12. \A g \in Handlers : At(g, "rotate") => At(g, "rotate")' /\ req'[g].target = req[g].target
                  /\ (g \in Demoting => g \in Demoting')
  BY <1>1, <1>3, <1>9 DEF At, Demoting
<1>13. Trusted \subseteq Trusted'
  BY <1>4, <1>12 DEF Trusted, Admins, Demoting
<1>14. Privileged'
  <2>1. \A s \in AdminSessions' : s \in AdminSessions \/ (s.id = r.id /\ r.role = "admin")
    BY <1>2 DEF AdminSessions
  <2>2. r.role = "admin" => r.id \in Admins \/ (users[r.id] # "admin" /\ r.id \in stale')
    BY <1>3, <1>4 DEF Admins
  <2>3. \A s \in AdminSessions' : s.id \in Trusted'
    BY <1>4, <1>13, <2>1, <2>2 DEF Trusted, Admins, Privileged
  <2>4. \A g \in Handlers : Acting(g)' => g # h /\ Acting(g)
    BY <1>5, <1>7, <1>9 DEF Acting, At
  <2>5. ASSUME NEW g \in Handlers, Acting(g)'
        PROVE  /\ Admins' \subseteq req'[g].trusted
               /\ \A s \in AdminSessions' : s.id \in req'[g].trusted
               /\ req'[g].header = None \/ req'[g].route \notin Api
                    => req'[g].id \in req'[g].trusted
    <3>1. g # h /\ Acting(g) /\ req[g] # None
      BY <2>4, <2>5 DEF Acting, At
    <3>2. /\ Admins \subseteq req[g].trusted
          /\ \A s \in AdminSessions : s.id \in req[g].trusted
          /\ req[g].header = None \/ req[g].route \notin Api
               => req[g].id \in req[g].trusted
      BY <3>1 DEF Privileged
    <3>3. req[g].trusted \subseteq req'[g].trusted
      BY <1>9, <3>1
    <3>4. Admins' = Admins
      BY <1>4 DEF Admins
    <3>5. r.role = "admin" => r.id \in req'[g].trusted
      BY <1>9, <2>2, <3>1, <3>2, <3>3
    <3>6. \A s \in AdminSessions' : s.id \in req'[g].trusted
      BY <2>1, <3>2, <3>3, <3>5
    <3> QED BY <1>9, <3>1, <3>2, <3>3, <3>4, <3>6
  <2>6. \A g \in Handlers : /\ At(g, "write")' => req'[g].route \in Accounts
                            /\ At(g, "login")' => req'[g].route = "login"
    BY <1>5, <1>7, <1>9 DEF Privileged, At
  <2> QED BY <2>3, <2>5, <2>6 DEF Privileged
<1>15. PrivilegeCurrent' /\ RevokedNeverServed'
  BY <1>4 DEF PrivilegeCurrent, RevokedNeverServed
<1> QED BY <1>8, <1>10, <1>11, <1>14, <1>15
\* What a step changes that only moves handler h on to the request r, or lets it
\* finish, and ends the sessions not in S.
OnlyMoves(h, r, S) ==
  /\ req' = [req EXCEPT ![h] = r]
  /\ sess' = S
  /\ UNCHANGED <<users, minted, userdb, known, late>>

\* Such a step keeps who is trusted, if it answers no demotion, and forgets no
\* account with old sessions that still has some.
LEMMA MovesKeepTrust ==
  ASSUME IInv, NEW h \in Handlers, NEW r \in Requests \cup {None}, NEW S \in SUBSET sess,
         OnlyMoves(h, r, S), stale \subseteq Ids, stale' = stale, h \notin Demoting,
         r # None => /\ r.pc = "handle" =>
                          /\ r.route \in AdminRoutes =>
                               /\ Trusted \subseteq r.trusted
                               /\ r.header = None \/ r.route \notin Api => r.id \in r.trusted
                     /\ r.pc = "write" => /\ r.route \in Accounts /\ Acting(h)
                                          /\ r.trusted = req[h].trusted
                                          /\ r.id \in r.trusted
                     /\ r.pc # "login"
  PROVE  Privileged'
<1> USE AccessAssumption DEF IInv, OnlyMoves
<1>1. /\ \A g \in Handlers \ {h} : req'[g] = req[g]
      /\ req'[h] = r
  BY DEF TypeOK
<1>2. Demoting \subseteq Demoting'
  BY <1>1 DEF Demoting, At
<1>3. \A g \in Demoting : req'[g].target = req[g].target
  BY <1>1 DEF Demoting
<1>4. Trusted \subseteq Trusted'
  BY <1>2, <1>3 DEF Trusted, Admins
<1>5. AdminSessions' \subseteq AdminSessions /\ Admins' = Admins
  BY DEF AdminSessions, Admins
<1>6. \A s \in AdminSessions' : s.id \in Trusted'
  BY <1>4, <1>5 DEF Privileged
<1>7. Admins \subseteq Trusted
  BY DEF Trusted
<1>8. ASSUME NEW g \in Handlers, Acting(g)'
      PROVE  /\ Admins \subseteq req'[g].trusted
             /\ \A s \in AdminSessions : s.id \in req'[g].trusted
             /\ req'[g].header = None \/ req'[g].route \notin Api
                  => req'[g].id \in req'[g].trusted
  <2>1. CASE g # h
    BY <1>1, <1>8, <2>1 DEF Acting, At, Privileged
  <2>2. CASE g = h /\ r.pc = "handle"
    BY <1>1, <1>7, <1>8, <2>2 DEF Acting, At, Privileged
  <2>3. CASE g = h /\ r.pc = "write"
    BY <1>1, <1>8, <2>3 DEF Acting, At, Privileged
  <2> QED BY <1>1, <1>8, <2>1, <2>2, <2>3 DEF Acting, At
<1>9. \A g \in Handlers : /\ At(g, "write")' => req'[g].route \in Accounts
                          /\ At(g, "login")' => req'[g].route = "login"
  BY <1>1 DEF Privileged, At
<1> QED BY <1>5, <1>6, <1>8, <1>9 DEF Privileged

LEMMA ReceiveKeeps ==
  ASSUME IInv, NEW h \in Handlers, NEW c \in Clients, NEW route \in Routes,
         NEW header \in known[c] \cup {None}, NEW target \in Ids, NEW role \in Roles,
         Receive(h, c, route, header, target, role)
  PROVE  IInv'
<1> USE AccessAssumption DEF IInv
<1> DEFINE r0 == [pc |-> "handle", client |-> c, route |-> route, header |-> header,
                  token |-> None, id |-> target, target |-> target, role |-> role,
                  trusted |-> IF route \in AdminRoutes THEN Trusted ELSE {}]
<1>1. PICK s \in ResolveSession(Presented(r0)) :
        /\ Admits(r0, s)
        /\ req' = [req EXCEPT ![h] = [r0 EXCEPT !.id = s.id]]
        /\ late' = (late \/ s.token \in ended)
  BY DEF Receive, Goto
<1> DEFINE r == [r0 EXCEPT !.id = s.id]
<1>2. s \in sess /\ s.id \in Ids /\ s.token \notin ended
  BY <1>1 DEF ResolveSession, TypeOK, Sessions, Tokened
<1>3. header \in Tokens \cup {None} /\ header \in minted \cup {None} /\ Trusted \subseteq Ids
  BY DEF TypeOK, Tokened, Trusted, Admins, Demoting, At, Requests
<1>4. r \in Requests /\ r # None
  BY <1>2, <1>3 DEF Requests
<1>5. /\ UNCHANGED <<users, sess, minted, userdb, jar, known, overstepped, ended, stale>>
      /\ req[h] = None
  BY DEF Receive
<1>6. late' = late
  BY <1>1, <1>2 DEF TypeOK
<1>7. OnlyMoves(h, r, sess)
  BY <1>1, <1>5, <1>6 DEF OnlyMoves
<1>8. TypeOK'
  BY <1>1, <1>4, <1>5, <1>6 DEF TypeOK
<1>9. Tokened' /\ Leaving'
  BY <1>1, <1>3, <1>4, <1>5 DEF TypeOK, Tokened, Leaving, At
<1>10. route \in AdminRoutes /\ (header = None \/ route \notin Api) => s.id \in Trusted
  BY <1>1, <1>2 DEF Admits, Privileged, AdminSessions
<1>11. h \notin Demoting
  BY <1>5 DEF Demoting, At
<1>12. Privileged'
  BY <1>4, <1>5, <1>7, <1>10, <1>11, MovesKeepTrust DEF TypeOK
<1>13. PrivilegeCurrent' /\ RevokedNeverServed'
  BY <1>5, <1>6 DEF PrivilegeCurrent, RevokedNeverServed
<1> QED BY <1>8, <1>9, <1>12, <1>13
\* Nobody oversteps: the account a request acts as has been known to be trusted.
LEMMA ActKeeps ==
  ASSUME IInv, NEW h \in Handlers, NEW id, Act(h, id),
         Acting(h) \/ req[h].route \in Self,
         id = req[h].id \/ req[h].route \in Self
  PROVE  PrivilegeCurrent' /\ overstepped' \in BOOLEAN
<1>1. CASE req[h].route \in Self
  BY <1>1 DEF IInv, TypeOK, Act, PrivilegeCurrent, Self, AdminRoutes, Api, Pages, Accounts
<1>2. CASE Acting(h) /\ id = req[h].id
  BY <1>2 DEF IInv, TypeOK, Act, PrivilegeCurrent, Privileged, Acting
<1> QED BY <1>1, <1>2

LEMMA ServeKeeps ==
  ASSUME IInv, NEW h \in Handlers, Serve(h)
  PROVE  IInv'
<1> USE AccessAssumption DEF IInv
<1>1. /\ UNCHANGED <<users, sess, minted, userdb, jar, known, late, ended, stale>>
      /\ req' = [req EXCEPT ![h] = None]
      /\ Acting(h) /\ h \notin Demoting
  BY DEF Serve, Done, Acting, At, Demoting, AdminRoutes
<1>2. PrivilegeCurrent' /\ overstepped' \in BOOLEAN
  BY <1>1, ActKeeps DEF Serve
<1>3. TypeOK'
  BY <1>1, <1>2 DEF TypeOK
<1>4. Tokened' /\ Leaving'
  BY <1>1 DEF TypeOK, Tokened, Leaving, At
<1>5. OnlyMoves(h, None, sess)
  BY <1>1 DEF OnlyMoves
<1>6. Privileged'
  BY <1>1, <1>5, MovesKeepTrust DEF TypeOK
<1> QED BY <1>1, <1>2, <1>3, <1>4, <1>6 DEF RevokedNeverServed

LEMMA RecheckKeeps ==
  ASSUME IInv, NEW h \in Handlers, Recheck(h)
  PROVE  IInv'
<1> USE AccessAssumption DEF IInv
<1>1. /\ UNCHANGED <<users, sess, minted, userdb, jar, known, overstepped, late, ended, stale>>
      /\ Acting(h) /\ h \notin Demoting /\ req[h] \in Requests /\ req[h].route \in Accounts
  BY DEF Recheck, Acting, At, Demoting, AdminRoutes, TypeOK
<1>2. PICK r \in Requests \cup {None} :
        /\ req' = [req EXCEPT ![h] = r]
        /\ r = None \/ \E s \in AdminSessions : r = [req[h] EXCEPT !.pc = "write", !.id = s.id]
  <2>1. CASE req' = [req EXCEPT ![h] = None]
    BY <2>1
  <2>2. ASSUME NEW s \in AdminSessions,
               req' = [req EXCEPT ![h] = [req[h] EXCEPT !.pc = "write", !.id = s.id]]
        PROVE  \E r \in Requests \cup {None} :
                 /\ req' = [req EXCEPT ![h] = r]
                 /\ \E x \in AdminSessions : r = [req[h] EXCEPT !.pc = "write", !.id = x.id]
    <3>1. s.id \in Ids
      BY DEF AdminSessions, TypeOK, Sessions
    <3>2. [req[h] EXCEPT !.pc = "write", !.id = s.id] \in Requests
      BY <1>1, <3>1 DEF Requests
    <3> QED BY <2>2, <3>2
  <2> QED BY <2>1, <2>2 DEF Recheck, Goto, Done, ResolveSession, AdminSessions
<1>3. r # None => /\ r.pc = "write" /\ r.route = req[h].route /\ r.trusted = req[h].trusted
                  /\ r.header = req[h].header /\ r.token = req[h].token
                  /\ r.id \in r.trusted
  <2> HAVE r # None
  <2>1. PICK s \in AdminSessions : r = [req[h] EXCEPT !.pc = "write", !.id = s.id]
    BY <1>2
  <2>2. s.id \in req[h].trusted
    BY <1>1 DEF Privileged
  <2> QED BY <1>1, <2>1, <2>2 DEF Requests
<1>4. TypeOK'
  BY <1>1, <1>2 DEF TypeOK
<1>5. Tokened' /\ Leaving'
  BY <1>1, <1>2, <1>3 DEF TypeOK, Tokened, Leaving, At, Acting
<1>6. OnlyMoves(h, r, sess)
  BY <1>1, <1>2 DEF OnlyMoves
<1>7. Privileged'
  BY <1>1, <1>2, <1>3, <1>6, MovesKeepTrust DEF TypeOK
<1> QED BY <1>1, <1>4, <1>5, <1>7 DEF PrivilegeCurrent, RevokedNeverServed

\* The old password is right, or not.
LEMMA ChangeOwnPWKeeps ==
  ASSUME IInv, NEW h \in Handlers, ChangeOwnPW(h)
  PROVE  IInv'
<1> USE AccessAssumption DEF IInv
<1>1. /\ UNCHANGED <<users, sess, minted, userdb, jar, known, late, ended, stale>>
      /\ req[h] \in Requests /\ req[h].pc = "handle" /\ req[h].route = "changepw"
      /\ h \notin Demoting
  BY DEF ChangeOwnPW, At, Demoting, TypeOK
<1>2. PICK r \in Requests \cup {None} :
        /\ req' = [req EXCEPT ![h] = r]
        /\ r = None \/ \E s \in sess : r = [req[h] EXCEPT !.pc = "rotate", !.token = s.token,
                                           !.id = s.id, !.target = s.id]
  <2>1. CASE req' = [req EXCEPT ![h] = None]
    BY <2>1
  <2>2. ASSUME NEW s \in sess,
               req' = [req EXCEPT ![h] = [req[h] EXCEPT !.pc = "rotate", !.token = s.token,
                                                        !.id = s.id, !.target = s.id]]
        PROVE  \E r \in Requests \cup {None} :
                 /\ req' = [req EXCEPT ![h] = r]
                 /\ \E x \in sess : r = [req[h] EXCEPT !.pc = "rotate", !.token = x.token,
                                                       !.id = x.id, !.target = x.id]
    <3>1. s.id \in Ids /\ s.token \in Tokens
      BY DEF TypeOK, Sessions
    <3>2. [req[h] EXCEPT !.pc = "rotate", !.token = s.token, !.id = s.id, !.target = s.id]
             \in Requests
      BY <1>1, <3>1 DEF Requests
    <3> QED BY <2>2, <3>2
  <2> QED BY <2>1, <2>2 DEF ChangeOwnPW, Goto, Done, ResolveSession
<1>3. r # None => /\ r.pc = "rotate" /\ r.route = "changepw" /\ r.header = req[h].header
                  /\ \E s \in sess : r.token = s.token /\ r.target = s.id
  <2> HAVE r # None
  <2>1. PICK s \in sess : r = [req[h] EXCEPT !.pc = "rotate", !.token = s.token,
                                             !.id = s.id, !.target = s.id]
    BY <1>2
  <2> QED BY <1>1, <2>1 DEF Requests
<1>4. PrivilegeCurrent' /\ overstepped' \in BOOLEAN
  <2>1. (\E id : Act(h, id)) \/ UNCHANGED overstepped
    BY DEF ChangeOwnPW
  <2> QED BY <1>1, <2>1, ActKeeps DEF Self, PrivilegeCurrent, TypeOK
<1>5. TypeOK'
  BY <1>1, <1>2, <1>4 DEF TypeOK
<1>6. Tokened'
  BY <1>1, <1>2, <1>3 DEF TypeOK, Tokened
<1>7. Leaving'
  <2>1. r # None => \A x \in sess : x.token = r.token => x.id = r.target
    BY <1>3 DEF Tokened
  <2>2. req'[h] = r /\ \A g \in Handlers \ {h} : req'[g] = req[g]
    BY <1>2 DEF TypeOK
  <2> QED BY <1>1, <1>3, <2>1, <2>2 DEF Leaving, At
<1>8. OnlyMoves(h, r, sess)
  BY <1>1, <1>2 DEF OnlyMoves
<1>9. Privileged'
  BY <1>1, <1>2, <1>3, <1>8, MovesKeepTrust DEF TypeOK
<1> QED BY <1>1, <1>4, <1>5, <1>6, <1>7, <1>9 DEF RevokedNeverServed

LEMMA LogoutKeeps ==
  ASSUME IInv, NEW h \in Handlers, Logout(h)
  PROVE  IInv'
<1> USE AccessAssumption DEF IInv
<1> DEFINE gone == Presented(req[h])
           r == [req[h] EXCEPT !.pc = "leave", !.token = gone]
           S == {s \in sess : s.token # gone}
<1>1. /\ UNCHANGED <<users, minted, userdb, jar, known, late, ended, stale>>
      /\ req[h] \in Requests /\ req[h] # None /\ req[h].pc = "handle"
      /\ req[h].route = "logout" /\ h \notin Demoting
      /\ sess' = S /\ req' = [req EXCEPT ![h] = r]
  BY DEF Logout, Goto, At, Demoting, TypeOK
<1>2. gone \in Tokens \cup {None} /\ gone \in minted \cup {None}
  BY <1>1 DEF Presented, TypeOK, Tokened, Requests
<1>3. r \in Requests /\ r.pc = "leave" /\ r.token = gone /\ r.header = req[h].header
  BY <1>1, <1>2 DEF Requests
<1>4. PrivilegeCurrent' /\ overstepped' \in BOOLEAN
  BY <1>1, ActKeeps DEF Logout, Self
<1>5. TypeOK'
  BY <1>1, <1>3, <1>4 DEF TypeOK
<1>6. Tokened'
  BY <1>1, <1>2, <1>3 DEF TypeOK, Tokened
<1>7. Leaving'
  BY <1>1, <1>3 DEF TypeOK, Leaving, At
<1>8. OnlyMoves(h, r, S)
  BY <1>1 DEF OnlyMoves
<1>9. Privileged'
  <2>1. S \in SUBSET sess /\ stale \subseteq Ids
    BY DEF TypeOK
  <2> HIDE DEF r, S
  <2> QED BY <1>1, <1>3, <1>8, <2>1, MovesKeepTrust
<1> QED BY <1>1, <1>4, <1>5, <1>6, <1>7, <1>9 DEF RevokedNeverServed

LEMMA AdminOutKeeps ==
  ASSUME IInv, NEW h \in Handlers, AdminOut(h)
  PROVE  IInv'
<1> USE AccessAssumption DEF IInv
<1>1. /\ UNCHANGED <<users, sess, minted, userdb, known, overstepped, late, stale>>
      /\ req[h] \in Requests /\ req[h] # None /\ req[h].pc = "leave" /\ h \notin Demoting
      /\ jar' = [jar EXCEPT ![req[h].client] = None]
      /\ ended' = (ended \cup {req[h].token}) \ {None}
      /\ req' = [req EXCEPT ![h] = None]
  BY DEF AdminOut, Done, At, Demoting, TypeOK
<1>2. /\ req[h].token \in (minted \cap Tokens) \cup {None}
      /\ \A s \in sess : s.token # req[h].token
  BY <1>1 DEF Requests, Tokened, Leaving, At
<1>3. TypeOK'
  BY <1>1, <1>2 DEF TypeOK
<1>4. Tokened' /\ Leaving'
  BY <1>1, <1>2 DEF TypeOK, Tokened, Leaving, At
<1>5. OnlyMoves(h, None, sess)
  BY <1>1 DEF OnlyMoves
<1>6. Privileged'
  BY <1>1, <1>5, MovesKeepTrust DEF TypeOK
<1> QED BY <1>1, <1>3, <1>4, <1>6 DEF PrivilegeCurrent, RevokedNeverServed
\* What two steps leave out that only take sessions away.
LEMMA FewerSessions ==
  ASSUME IInv, NEW S \in SUBSET sess, sess' = S,
         UNCHANGED <<minted, known, req>>, jar' = jar, ended' \subseteq minted,
         \A s \in S : s.token \notin ended'
  PROVE  Tokened' /\ Leaving'
BY DEF IInv, TypeOK, Tokened, Leaving, At

\* SessionDeleteForUser: the account has no session then, of any role.
LEMMA RotateKeeps ==
  ASSUME IInv, NEW h \in Handlers, Rotate(h)
  PROVE  IInv'
<1> USE AccessAssumption DEF IInv
<1>1. /\ UNCHANGED <<users, minted, userdb, jar, known, overstepped, late>>
      /\ req[h] \in Requests /\ req[h] # None /\ req[h].pc = "rotate"
      /\ sess' = {s \in sess : s.id # req[h].target}
      /\ ended' = ended \cup {s.token : s \in sess \ sess'}
      /\ stale' = stale \ {req[h].target}
  BY DEF Rotate, At, TypeOK
<1>2. PICK r \in Requests \cup {None} :
        /\ req' = [req EXCEPT ![h] = r]
        /\ r # None => /\ r = [req[h] EXCEPT !.pc = "leave"]
                       /\ req[h].route = "changepw"
  <2>1. [req[h] EXCEPT !.pc = "leave"] \in Requests
    BY <1>1 DEF Requests
  <2> QED BY <2>1 DEF Rotate, Goto, Done
<1>3. /\ \A g \in Handlers \ {h} : req'[g] = req[g]
      /\ req'[h] = r
      /\ r # None => /\ r.pc = "leave" /\ r.token = req[h].token /\ r.header = req[h].header
  BY <1>1, <1>2 DEF TypeOK, Requests
<1>4. TypeOK'
  BY <1>1, <1>2 DEF TypeOK, Sessions
<1>5. Tokened'
  BY <1>1, <1>3 DEF TypeOK, Tokened
<1>6. Leaving'
  BY <1>1, <1>2, <1>3 DEF Leaving, At
<1>7. Privileged'
  <2>1. AdminSessions' \subseteq AdminSessions /\ Admins' = Admins
    BY <1>1 DEF AdminSessions, Admins
  <2>2. \A g \in Demoting \ {h} : g \in Demoting' /\ req'[g].target = req[g].target
    BY <1>3 DEF Demoting, At
  <2>3. \A id \in Trusted \ {req[h].target} : id \in Trusted'
    BY <1>1, <2>1, <2>2 DEF Trusted
  <2>4. \A s \in AdminSessions' : s.id \in Trusted'
    BY <1>1, <2>1, <2>3 DEF Privileged, AdminSessions
  <2>5. \A g \in Handlers : /\ Acting(g)' => g # h /\ Acting(g)
                            /\ At(g, "write")' => g # h /\ At(g, "write")
                            /\ At(g, "login")' => g # h /\ At(g, "login")
    BY <1>3 DEF Acting, At
  <2> QED BY <1>3, <2>1, <2>4, <2>5 DEF Privileged
<1> QED BY <1>1, <1>4, <1>5, <1>6, <1>7 DEF PrivilegeCurrent, RevokedNeverServed

LEMMA ExpireKeeps ==
  ASSUME IInv, NEW s \in sess, Expire(s)
  PROVE  IInv'
<1> USE DEF IInv, Expire
<1>1. s.token \in minted \cap Tokens
  BY DEF TypeOK, Tokened, Sessions
<1>2. TypeOK'
  BY <1>1 DEF TypeOK
<1>3. Tokened' /\ Leaving'
  <2>1. sess \ {s} \in SUBSET sess /\ ended' \subseteq minted
    BY <1>1 DEF Tokened
  <2>2. \A x \in sess \ {s} : x.token \notin ended'
    BY DEF Tokened
  <2> QED BY <2>1, <2>2, FewerSessions
<1>4. Privileged'
  <2>1. AdminSessions' \subseteq AdminSessions /\ Admins' = Admins /\ Trusted' = Trusted
    BY DEF AdminSessions, Admins, Trusted, Demoting, At
  <2> QED BY <2>1 DEF Privileged, Acting, At
<1> QED BY <1>2, <1>3, <1>4 DEF PrivilegeCurrent, RevokedNeverServed

\* A stop answers no demotion, so the accounts in hand stay under suspicion.
LEMMA RestartKeeps ==
  ASSUME IInv, Restart
  PROVE  IInv'
<1> USE AccessAssumption DEF IInv, Restart
<1>1. \A h \in Handlers : req'[h] = None
  OBVIOUS
<1>2. \A h \in Demoting : req[h].target \in Ids
  BY DEF Demoting, At, TypeOK, Requests
<1>3. TypeOK'
  BY <1>2 DEF TypeOK
<1>4. Tokened' /\ Leaving'
  BY <1>1 DEF TypeOK, Tokened, Leaving, At
<1>5. Trusted \subseteq Trusted' /\ AdminSessions' = AdminSessions
  BY DEF Trusted, Admins, AdminSessions
<1>6. Privileged'
  BY <1>1, <1>5 DEF Privileged, Acting, At
<1> QED BY <1>3, <1>4, <1>6 DEF PrivilegeCurrent, RevokedNeverServed
\* A row written: the requests in progress come to know a new admin, and a
\* former one is trusted until its sessions are gone.
LEMMA WriteKeeps ==
  ASSUME IInv, NEW h \in Handlers, Write(h)
  PROVE  IInv'
<1> USE AccessAssumption DEF IInv
<1>1. PICK r \in Requests : r = req[h] /\ r # None /\ r.pc = "write" /\ r.route \in Accounts
  BY DEF Write, At, TypeOK, Privileged
<1>2. Acting(h) /\ h \notin Demoting /\ r.target \in Ids /\ r.role \in Roles
  BY <1>1 DEF Acting, At, AdminRoutes, Demoting, Requests
<1>3. UNCHANGED <<sess, minted, userdb, jar, known, late, ended, stale>>
  BY DEF Write
<1> DEFINE w == [r EXCEPT !.pc = "rotate"]
<1>4. /\ w \in Requests /\ w # None /\ w.pc = "rotate" /\ w.route = r.route
      /\ w.role = r.role /\ w.target = r.target /\ w.token = r.token
      /\ w.header = r.header
  BY <1>1 DEF Requests
<1>5. CASE Done(h) /\ UNCHANGED <<users, overstepped>>
  <2>1. TypeOK' /\ Tokened' /\ Leaving'
    BY <1>3, <1>5 DEF Done, TypeOK, Tokened, Leaving, At
  <2>2. OnlyMoves(h, None, sess)
    BY <1>3, <1>5 DEF OnlyMoves, Done
  <2>3. Privileged'
    BY <1>2, <1>3, <2>2, MovesKeepTrust DEF TypeOK
  <2> QED BY <1>3, <1>5, <2>1, <2>3 DEF PrivilegeCurrent, RevokedNeverServed
<1>6. CASE /\ users' = IF r.route = "changerole"
                         THEN [users EXCEPT ![r.target] = r.role] ELSE users
           /\ IF users'[r.target] = "admin" THEN Trust(h, w, r.target) ELSE Goto(h, w)
           /\ Act(h, r.id)
  <2>1. PrivilegeCurrent' /\ overstepped' \in BOOLEAN
    BY <1>1, <1>2, <1>6, ActKeeps
  <2>2. users' \in [Ids -> Roles]
    BY <1>2, <1>6 DEF TypeOK
  <2>3. req' = [g \in Handlers |-> req'[g]] /\ req'[h] = w
    BY <1>6 DEF Trust, Goto, TypeOK
  <2>4. \A g \in Handlers \ {h} : req[g] = None => req'[g] = None
    BY <1>6 DEF Trust, Goto, TypeOK
  <2>5. \A g \in Handlers \ {h} : req[g] # None =>
          /\ req'[g] \in Requests /\ req'[g] # None
          /\ req'[g].pc = req[g].pc /\ req'[g].route = req[g].route
          /\ req'[g].header = req[g].header /\ req'[g].token = req[g].token
          /\ req'[g].id = req[g].id /\ req'[g].target = req[g].target
          /\ req'[g].role = req[g].role
          /\ req[g].trusted \subseteq req'[g].trusted
          /\ users'[r.target] = "admin" => r.target \in req'[g].trusted
    <3> TAKE g \in Handlers \ {h}
    <3> HAVE req[g] # None
    <3>1. req[g] \in Requests
      BY DEF TypeOK
    <3>2. CASE users'[r.target] = "admin"
      <4>1. req'[g] = [req[g] EXCEPT !.trusted = @ \cup {r.target}]
        BY <1>6, <3>2 DEF Trust, TypeOK
      <4>2. [req[g] EXCEPT !.trusted = @ \cup {r.target}] \in Requests
        BY <1>2, <3>1 DEF Requests
      <4> QED BY <3>1, <4>1, <4>2 DEF Requests
    <3>3. CASE users'[r.target] # "admin"
      BY <1>6, <3>1, <3>3 DEF Goto, TypeOK
    <3> QED BY <3>2, <3>3
  <2>6. TypeOK'
    <3>1. \A g \in Handlers : req'[g] \in Requests \cup {None}
      BY <1>4, <2>3, <2>4, <2>5
    <3> HIDE DEF w
    <3> QED BY <1>3, <2>1, <2>2, <2>3, <3>1 DEF TypeOK
  <2>7. Tokened'
    <3>1. w.header \in minted \cup {None} /\ w.token \in minted \cup {None}
      BY <1>1, <1>4 DEF Tokened
    <3>2. \A g \in Handlers : req'[g] # None =>
            req'[g].header \in minted \cup {None} /\ req'[g].token \in minted \cup {None}
      <4> HIDE DEF w
      <4> QED BY <2>3, <2>4, <2>5, <3>1 DEF Tokened
    <3> QED BY <1>3, <3>2 DEF Tokened
  <2>8. Leaving'
    <3>1. w.route # "changepw"
      BY <1>1, <1>4 DEF Accounts
    <3> HIDE DEF w
    <3> QED BY <1>3, <1>4, <2>3, <2>4, <2>5, <3>1 DEF Leaving, At
  <2>9. \A id \in Admins' : id \in Admins \/ (id = r.target /\ users'[r.target] = "admin")
    BY <1>2, <1>6 DEF Admins, TypeOK
  <2>10. \A id \in Trusted : id \in Trusted'
    <3>1. \A g \in Demoting : g # h /\ g \in Demoting' /\ req'[g].target = req[g].target
      BY <1>2, <2>5 DEF Demoting, At
    <3>2. ASSUME NEW id \in Admins PROVE id \in Trusted'
      <4>1. CASE id \in Admins'
        BY <4>1 DEF Trusted
      <4>2. CASE id \notin Admins'
        <5>1. id = r.target /\ r.route = "changerole" /\ r.role # "admin"
          BY <1>2, <1>6, <4>2 DEF Admins, TypeOK
        <5>2. h \in Demoting'
          <6> HIDE DEF w
          <6> QED BY <1>2, <1>4, <2>3, <5>1 DEF Demoting, At, Roles
        <5>3. req'[h].target = id
          BY <1>4, <2>3, <5>1
        <5> QED BY <5>2, <5>3 DEF Trusted
      <4> QED BY <4>1, <4>2
    <3> QED BY <1>3, <3>1, <3>2 DEF Trusted
  <2>11. AdminSessions' = AdminSessions
    BY <1>3 DEF AdminSessions
  <2>12. \A g \in Handlers : /\ Acting(g)' => g # h /\ Acting(g)
                             /\ At(g, "write")' => g # h /\ At(g, "write")
                             /\ At(g, "login")' => g # h /\ At(g, "login")
    <3> HIDE DEF w
    <3> QED BY <1>4, <2>3, <2>4, <2>5 DEF Acting, At
  <2>13. ASSUME NEW g \in Handlers, Acting(g)'
         PROVE  /\ Admins' \subseteq req'[g].trusted
                /\ \A s \in AdminSessions' : s.id \in req'[g].trusted
                /\ req'[g].header = None \/ req'[g].route \notin Api
                     => req'[g].id \in req'[g].trusted
    <3>1. g # h /\ Acting(g) /\ req[g] # None
      BY <2>12, <2>13 DEF Acting, At
    <3>2. /\ Admins \subseteq req[g].trusted
          /\ \A s \in AdminSessions : s.id \in req[g].trusted
          /\ req[g].header = None \/ req[g].route \notin Api
               => req[g].id \in req[g].trusted
      BY <3>1 DEF Privileged
    <3> QED BY <2>5, <2>9, <2>11, <3>1, <3>2
  <2>14. Privileged'
    <3>1. \A s \in AdminSessions' : s.id \in Trusted'
      BY <2>10, <2>11 DEF Privileged
    <3>2. \A g \in Handlers : /\ At(g, "write")' => req'[g].route \in Accounts
                              /\ At(g, "login")' => req'[g].route = "login"
      BY <2>5, <2>12 DEF Privileged, At
    <3> QED BY <2>13, <3>1, <3>2 DEF Privileged
  <2> QED BY <1>3, <2>1, <2>6, <2>7, <2>8, <2>14 DEF RevokedNeverServed
<1> QED BY <1>1, <1>5, <1>6 DEF Write

LEMMA StepIInv == IInv /\ [Next]_vars => IInv'
<1> SUFFICES ASSUME IInv, [Next]_vars PROVE IInv'
  OBVIOUS
<1>1. CASE UNCHANGED vars
  BY <1>1 DEF vars, IInv, TypeOK, Tokened, Leaving, Privileged, Acting, AdminSessions, At,
              Trusted, Admins, Demoting, PrivilegeCurrent, RevokedNeverServed
<1>2. ASSUME NEW h \in Handlers, NEW c \in Clients, NEW route \in Asked,
             NEW header \in known[c] \cup {None}, NEW target \in Ids, NEW role \in Roles,
             Receive(h, c, route, header, target, role)
      PROVE  IInv'
  BY <1>2, ReceiveKeeps, AccessAssumption
<1>3. ASSUME NEW h \in Handlers, Handle(h) PROVE IInv'
  BY <1>3, AdminInKeeps, ServeKeeps, RecheckKeeps, WriteKeeps, RotateKeeps, ChangeOwnPWKeeps,
     LogoutKeeps, AdminOutKeeps DEF Handle
<1> QED BY <1>1, <1>2, <1>3, LoginKeeps, ExpireKeeps, RestartKeeps DEF Next

\* The sessions, cookies and requests are what the module says they are.
THEOREM TypeCorrect == Spec => []TypeOK
<1>1. IInv => TypeOK
  BY DEF IInv
<1> QED BY <1>1, InitIInv, StepIInv, PTL DEF Spec

\* What only an admin may do is done for nobody else, however many requests,
\* tabs, logins and role changes overlap, but for a login that overlapped the
\* demotion itself.
THEOREM OnlyAdmins == Spec => []PrivilegeCurrent
<1>1. IInv => PrivilegeCurrent
  BY DEF IInv
<1> QED BY <1>1, InitIInv, StepIInv, PTL DEF Spec

\* A token that was given up, rotated or has grown too old opens no door again.
THEOREM EndedIsEnded == Spec => []RevokedNeverServed
<1>1. IInv => RevokedNeverServed
  BY DEF IInv
<1> QED BY <1>1, InitIInv, StepIInv, PTL DEF Spec
=============================================================================
