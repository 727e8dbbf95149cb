------------------------------- MODULE Accounts -------------------------------
(***************************************************************************)
(* What the user store promises about accounts and sessions, told without  *)
(* handlers or transactions: every operation happens at once, on accounts  *)
(* as they are.  What a stop of the server may cost is said here too: the   *)
(* answer to a login, the end of the sessions of the account being changed, *)
(* and the flag of the account whose password somebody else has just set.   *)
(* UserAccounts implements it when handlers run one at a time.              *)
(***************************************************************************)
CONSTANTS Names, Uuids, Passwords, Tokens, LegacyName, LegacyPw,
          Nobody                \* neither an id nor a token

Roles == {"admin", "operator"}

VARIABLES accounts,             \* the row of each id in use
          sessions,             \* the open sessions
          clients,              \* tokens given out, with the credential given for them
          root,                 \* the account the legacy credential made, or Nobody
          unflagged             \* the account whose flag a stop would lose, or Nobody

promise == <<accounts, sessions, clients, root, unflagged>>

Init ==
  /\ accounts = [id \in {} |-> Nobody]
  /\ sessions = {} /\ clients = {}
  /\ root = Nobody /\ unflagged = Nobody

InUse == DOMAIN accounts
ByAdmin == \E s \in sessions : s.role = "admin"
SessionsOfOthers(id) == {s \in sessions : s.id # id}

Put(id, row) ==
  accounts' = [x \in InUse \cup {id} |-> IF x = id THEN row ELSE accounts[x]]

\* The legacy credential opens an empty store, once.
Seed ==
  /\ InUse = {}
  /\ Put(LegacyName, [name |-> LegacyName, pw |-> LegacyPw,
                      role |-> "admin", must |-> TRUE])
  /\ root' = LegacyName
  /\ unflagged' = LegacyName
  /\ UNCHANGED <<sessions, clients>>

\* A token is given for a name and password that are an account's now, and its
\* session has that account's role; or the answer is lost.
Login(id, t) ==
  /\ id \in InUse
  /\ \A x \in sessions \cup clients : x.token # t
  /\ sessions' = sessions \cup {[token |-> t, id |-> id, role |-> accounts[id].role]}
  /\ clients' \in {clients, clients \cup {[name |-> accounts[id].name,
                                           pw |-> accounts[id].pw, token |-> t]}}
  /\ UNCHANGED <<accounts, root, unflagged>>

Logout(s) ==
  /\ sessions' = sessions \ {s}
  /\ UNCHANGED <<accounts, clients, root, unflagged>>

\* A change of the own password, or of a role, ends the account's sessions.
ChangePW(s, p) ==
  /\ Put(s.id, [accounts[s.id] EXCEPT !.pw = p, !.must = FALSE])
  /\ sessions' \in {sessions, SessionsOfOthers(s.id)}
  /\ UNCHANGED <<clients, root, unflagged>>

ChangeRole(id, r) ==
  /\ ByAdmin
  /\ accounts[id].role = "admin" /\ r # "admin" =>
       \E other \in InUse : other # id /\ accounts[other].role = "admin"
  /\ Put(id, [accounts[id] EXCEPT !.role = r])
  /\ sessions' \in {sessions, SessionsOfOthers(id)}
  /\ UNCHANGED <<clients, root, unflagged>>

\* A reset ends the sessions as well, and flags the account; or is cut short.
Reset(id, p) ==
  /\ ByAdmin
  /\ \/ /\ Put(id, [accounts[id] EXCEPT !.pw = p, !.must = TRUE])
        /\ sessions' = SessionsOfOthers(id)
        /\ unflagged' = id
     \/ /\ Put(id, [accounts[id] EXCEPT !.pw = p, !.must = FALSE])
        /\ UNCHANGED <<sessions, unflagged>>
  /\ UNCHANGED <<clients, root>>

Create(id, n, p, r) ==
  /\ ByAdmin
  /\ id \notin InUse
  /\ \A x \in InUse : accounts[x].name # n
  /\ Put(id, [name |-> n, pw |-> p, role |-> r, must |-> TRUE])
  /\ unflagged' = id
  /\ UNCHANGED <<sessions, clients, root>>

\* The flag is safe, or the server stops before it is.
Settle ==
  /\ accounts' \in {accounts, [accounts EXCEPT ![unflagged].must = FALSE]}
  /\ unflagged' = Nobody
  /\ UNCHANGED <<sessions, clients, root>>

Next ==
  IF unflagged # Nobody
    THEN Settle
    ELSE \/ Seed
         \/ \E id \in InUse, t \in Tokens : Login(id, t)
         \/ \E s \in sessions : Logout(s) \/ \E p \in Passwords : ChangePW(s, p)
         \/ \E id \in InUse : \/ \E p \in Passwords : Reset(id, p)
                              \/ \E r \in Roles : ChangeRole(id, r)
         \/ \E id \in Uuids, n \in Names, p \in Passwords, r \in Roles :
              Create(id, n, p, r)

Spec == Init /\ [][Next]_promise
=============================================================================
