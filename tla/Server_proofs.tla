--------------------------- MODULE Server_proofs ---------------------------
(***************************************************************************)
(* Why two servers never disagree about the keys, for any number of servers,*)
(* tools, cards and keys.  The databases opened before the key files let    *)
(* one server at a time near them (Alone); what a server saw of a key file   *)
(* therefore still holds when it fills or reads it (Seen); so a full file    *)
(* stays as it is, and with it every copy of its key.                       *)
(***************************************************************************)
EXTENDS Server, TLAPS

\* Places of a server that holds the first two files, unless they cannot be
\* opened.
PastUserdb == Loaded("appmasterkey") \cup {"appmasterkey"}
PastSession == (PastUserdb \ {"closecard", "closeadmin", "exit"}) \cup {"userdb"}

\* Which places belong to which processes, and when a step counts.
Placed ==
  /\ \A p \in Servers : pc[p] # "filling"
  /\ \A p \in Tools : /\ pc[p] \in {"off", "admin", "carddata", "filling"}
                      /\ mem[p] = NoKeys
  /\ \A p \in Procs : step[p] # "stat" => pc[p] \in KeyFiles

\* One of the first two files can be opened, and who is past it holds it.
Held ==
  /\ ~({"adminsession", "userdb"} \subseteq failing)
  /\ \A p \in Servers :
       /\ pc[p] \in PastSession /\ "adminsession" \notin failing
            => lock["adminsession"] = p
       /\ pc[p] \in PastUserdb /\ "userdb" \notin failing => lock["userdb"] = p

\* What a process found in a key file is still so.
Seen ==
  \A p \in Procs, k \in KeyFiles :
    pc[p] = k => /\ step[p] = "fill" => content[k] \notin KeyValues
                 /\ step[p] = "read" => content[k] \in KeyValues

Holds ==
  \A p \in Servers, k \in KeyFiles :
    pc[p] \in Loaded(k) => mem[p][k] \in KeyValues /\ mem[p][k] = content[k]

IInv == TypeOK /\ Placed /\ Held /\ Seen /\ Holds /\ KeyKept

-----------------------------------------------------------------------------
\* At most one process is at a key file: it holds adminsession or userdb.
LEMMA Alone ==
  ASSUME IInv, NEW p \in Procs, NEW q \in Procs,
         pc[p] \in KeyFiles, pc[q] \in KeyFiles
  PROVE  p = q
BY DEF IInv, Placed, Held, KeyFiles, PastSession, PastUserdb, Loaded, Procs

\* The end of a process leaves everything in order, if the content of the key
\* files is still what it was, but for a key file that only it was filling.
LEMMA GoneKeeps ==
  ASSUME IInv, NEW p \in Procs, Gone(p),
         content' \in [KeyFiles -> {"absent", "empty", "short"} \cup KeyValues],
         \A k \in KeyFiles : content[k] \in KeyValues => content'[k] = content[k],
         \A q \in Procs \ {p}, k \in KeyFiles : pc[q] = k => content'[k] = content[k]
  PROVE  IInv'
<1> USE ServerAssumption DEF IInv, Gone
<1>1. TypeOK'
  BY DEF TypeOK, Unlocked, NoKeys, Places
<1>2. Placed'
  BY DEF TypeOK, Placed, Procs
<1>3. Held'
  BY DEF TypeOK, Held, Unlocked, PastSession, PastUserdb, Loaded, Files, Procs, KeyFiles
<1>4. Seen'
  BY DEF TypeOK, Seen, Procs, KeyFiles
<1>5. Holds'
  BY DEF TypeOK, Holds, Loaded, Procs, KeyFiles
<1>6. KeyKept'
  BY DEF TypeOK, KeyKept, KeyFiles
<1> QED BY <1>1, <1>2, <1>3, <1>4, <1>5, <1>6

LEMMA StartKeeps ==
  ASSUME IInv, NEW p \in Procs, Start(p)
  PROVE  IInv'
<1> USE ServerAssumption DEF IInv, Start, Goto
<1>1. TypeOK'
  BY DEF TypeOK, Places, Files
<1>2. Placed'
  BY DEF TypeOK, Placed, Procs, KeyFiles
<1>3. Held'
  BY DEF TypeOK, Held, PastSession, PastUserdb, Loaded, Procs, KeyFiles
<1>4. Seen' /\ Holds' /\ KeyKept'
  BY DEF TypeOK, Seen, Holds, Loaded, KeyKept, Procs, KeyFiles
<1> QED BY <1>1, <1>2, <1>3, <1>4

\* Files are opened in one order, and a lock that is taken was free.
LEMMA OpenKeeps ==
  ASSUME IInv, NEW p \in Procs, NEW f \in Files,
         Open(p, f) \/ OpenFails(p, f)
  PROVE  IInv'
<1> USE ServerAssumption DEF IInv, Open, OpenFails, Goto, AfterOpen
<1>1. TypeOK'
  BY SMTT(20) DEF TypeOK, Places, Files, KeyFiles
<1>2. Placed'
  BY DEF TypeOK, Placed, Procs, KeyFiles, Files
<1>3. Held'
  <2>1. CASE p \in Servers
    BY <2>1 DEF TypeOK, Held, Placed, PastSession, PastUserdb, Loaded, Procs, KeyFiles, Files
  <2>2. CASE p \in Tools
    BY <2>2 DEF TypeOK, Held, Placed, PastSession, PastUserdb, Loaded, Procs, KeyFiles, Files
  <2> QED BY <2>1, <2>2 DEF Procs
<1>4. Seen'
  BY DEF TypeOK, Placed, Seen, Procs, KeyFiles, Files
<1>5. Holds'
  BY DEF TypeOK, Placed, Holds, Loaded, Procs, KeyFiles, Files
<1>6. KeyKept'
  BY DEF TypeOK, KeyKept, KeyFiles
<1> QED BY <1>1, <1>2, <1>3, <1>4, <1>5, <1>6

\* The stat of a key file: what is seen is so.
LEMMA StatKeeps ==
  ASSUME IInv, NEW p \in Procs, NEW k \in KeyFiles, KeyStat(p, k)
  PROVE  IInv'
<1> USE ServerAssumption DEF IInv, KeyStat, KeyStep
<1>1. TypeOK' /\ Placed' /\ Held'
  BY DEF TypeOK, Placed, Held, Procs
<1>2. Seen'
  BY Alone DEF TypeOK, Seen
<1>3. Holds' /\ KeyKept'
  BY DEF TypeOK, Holds, KeyKept, Procs, KeyFiles
<1> QED BY <1>1, <1>2, <1>3

\* A key drawn or read: it is in the file and in memory, and in no other server,
\* nor on any card, if the file was not full before.
LEMMA LoadKeeps ==
  ASSUME IInv, NEW p \in Procs, NEW k \in KeyFiles,
         KeyFill(p, k) \/ KeyRead(p, k)
  PROVE  IInv'
<1>1. PICK v \in KeyValues :
        /\ pc[p] = k /\ KeyLoaded(p, k, v)
        /\ content' = [content EXCEPT ![k] = v]
        /\ content[k] \in KeyValues => v = content[k]
  BY DEF KeyFill, KeyRead, KeyStep, IInv, TypeOK, Seen
<1> USE <1>1, ServerAssumption DEF IInv, KeyLoaded, AfterKey
<1>2. p \in Servers
  BY DEF Placed, Procs, KeyFiles
<1>3. TypeOK'
  BY DEF TypeOK, Places, KeyFiles, Files
<1>4. Placed'
  BY <1>2 DEF TypeOK, Placed, Procs, KeyFiles
<1>5. Held'
  BY DEF TypeOK, Held, PastSession, PastUserdb, Loaded, Procs, KeyFiles
<1>6. Seen'
  BY Alone DEF TypeOK, Seen, KeyFiles
<1>7. Holds'
  BY DEF TypeOK, Holds, Loaded, Procs, KeyFiles
<1>8. KeyKept'
  BY DEF TypeOK, KeyKept, KeyFiles
<1> QED BY <1>3, <1>4, <1>5, <1>6, <1>7, <1>8

\* cardwrite: the keys of a serving process are those of the files; the tool
\* has none, and leaves the key of a card as it is.
LEMMA WriteKeeps ==
  ASSUME IInv, NEW p \in Procs, NEW u \in Uids,
         CardWrite(p, u) \/ ToolWrite(p, u)
  PROVE  IInv'
<1> USE ServerAssumption DEF IInv
<1>1. /\ UNCHANGED <<pc, step, starts, failing, lock, content, mem>>
      /\ Registers(p, u)
      /\ \E g \in BOOLEAN : WriteCardData(p, u, g)
  BY DEF CardWrite, ToolWrite
<1>2. CASE CardWrite(p, u)
  <2>1. \A k \in KeyFiles : mem[p][k] \in KeyValues /\ mem[p][k] = content[k]
    BY <1>2 DEF CardWrite, Holds, Loaded, KeyFiles, Placed, Procs
  <2>2. TypeOK'
    BY <1>1, <1>2, <2>1 DEF TypeOK, CardWrite, Registers, WriteCardData, KeyFiles
  <2>3. KeyKept'
    BY <1>1, <1>2, <2>1 DEF TypeOK, CardWrite, KeyKept, Registers, WriteCardData, KeyFiles
  <2> QED BY <1>1, <2>2, <2>3 DEF Placed, Held, Seen, Holds
<1>3. CASE ToolWrite(p, u)
  <2>1. cards[u] # None
    BY <1>1, <1>3 DEF ToolWrite, Registers, Placed, Procs, NoKeys, KeyFiles
  <2>2. TypeOK'
    BY <1>1, <1>3, <2>1 DEF TypeOK, ToolWrite, WriteCardData
  <2>3. KeyKept'
    BY <1>1, <1>3, <2>1 DEF TypeOK, ToolWrite, KeyKept, WriteCardData
  <2> QED BY <1>1, <2>2, <2>3 DEF Placed, Held, Seen, Holds
<1> QED BY <1>2, <1>3

\* Listening, a signal, and the steps of Close give up locks no longer needed.
LEMMA CloseKeeps ==
  ASSUME IInv, NEW p \in Procs, ImageDir(p) \/ Stop(p) \/ Close(p)
  PROVE  IInv'
<1> USE ServerAssumption DEF IInv
<1>1. PICK from, to \in Places, F \in SUBSET Files :
        /\ CloseStep(p, from, to, F)
        /\ \/ from = "img" /\ to = "serving" /\ F = {}
           \/ from = "serving" /\ to = "kill" /\ F = {}
           \/ from = "kill" /\ to = "closesession" /\ F = {}
           \/ from = "closesession" /\ to = "closecard" /\ F = {"adminsession"}
           \/ from = "closecard" /\ to = "closeadmin" /\ F = {"carddata"}
           \/ from = "closeadmin" /\ to = "exit" /\ F = {"admin"}
  <2>1. CASE ImageDir(p)
    <3>1. lock = Unlocked(p, {})
      BY DEF Unlocked, TypeOK
    <3> QED BY <2>1, <3>1 DEF ImageDir, CloseStep, Places
  <2>2. CASE Stop(p)
    <3>1. lock = Unlocked(p, {})
      BY DEF Unlocked, TypeOK
    <3> QED BY <2>2, <3>1 DEF Stop, CloseStep, Places
  <2>3. CASE Close(p)
    BY <2>3 DEF Close, Places, Files
  <2> QED BY <2>1, <2>2, <2>3
<1> USE <1>1 DEF CloseStep, Goto
<1>2. TypeOK'
  BY DEF TypeOK, Unlocked
<1>3. Placed'
  BY DEF TypeOK, Placed, Procs, KeyFiles
<1>4. Held'
  BY DEF TypeOK, Held, Unlocked, PastSession, PastUserdb, Loaded, Procs, KeyFiles, Files
<1>5. Seen'
  BY DEF TypeOK, Seen, KeyFiles
<1>6. Holds'
  BY DEF TypeOK, Holds, Loaded, Procs, KeyFiles
<1>7. KeyKept'
  BY DEF KeyKept
<1> QED BY <1>2, <1>3, <1>4, <1>5, <1>6, <1>7

\* However a process ends.
LEMMA EndKeeps ==
  ASSUME IInv, NEW p \in Procs,
         \/ Gone(p) /\ UNCHANGED content
         \/ \E k \in KeyFiles : KeyFillPanics(p, k)
  PROVE  IInv'
<1>1. CASE Gone(p) /\ UNCHANGED content
  BY <1>1, GoneKeeps DEF IInv, TypeOK
<1>2. ASSUME NEW k \in KeyFiles, KeyFillPanics(p, k) PROVE IInv'
  <2>1. /\ Gone(p) /\ pc[p] = k /\ content[k] \notin KeyValues
        /\ \E c \in {content[k], "short"} : content' = [content EXCEPT ![k] = c]
    BY <1>2 DEF KeyFillPanics, KeyStep, IInv, Seen
  <2>2. /\ content' \in [KeyFiles -> {"absent", "empty", "short"} \cup KeyValues]
        /\ \A j \in KeyFiles : content[j] \in KeyValues => content'[j] = content[j]
    BY <2>1 DEF IInv, TypeOK
  <2>3. \A q \in Procs \ {p}, j \in KeyFiles : pc[q] = j => content'[j] = content[j]
    BY <2>1, Alone DEF IInv, TypeOK
  <2> QED BY <2>1, <2>2, <2>3, GoneKeeps
<1> QED BY <1>1, <1>2

-----------------------------------------------------------------------------
LEMMA InitIInv == Init => IInv
BY ServerAssumption DEF Init, IInv, TypeOK, Placed, Held, Seen, Holds, KeyKept, Procs,
       Files, KeyFiles, NoKeys, Places, Loaded, PastSession, PastUserdb

LEMMA StepIInv ==
  ASSUME IInv, [Next]_vars
  PROVE  IInv'
<1>1. CASE UNCHANGED vars
  BY <1>1 DEF vars, IInv, TypeOK, Placed, Held, Seen, Holds, KeyKept
<1>2. ASSUME NEW p \in Procs, Start(p) PROVE IInv'
  BY <1>2, StartKeeps
<1>3. ASSUME NEW p \in Procs, OpenAny(p) PROVE IInv'
  <2>1. ASSUME NEW f \in Files, OpenFatal(p, f) PROVE IInv'
    BY <2>1, EndKeeps DEF OpenFatal
  <2> QED BY <1>3, <2>1, OpenKeeps DEF OpenAny
<1>4. ASSUME NEW p \in Procs, KeyAny(p) PROVE IInv'
  <2>1. ASSUME NEW k \in KeyFiles, KeyPanics(p, k) PROVE IInv'
    BY <2>1, EndKeeps DEF KeyPanics
  <2> QED BY <1>4, <2>1, StatKeeps, LoadKeeps, EndKeeps DEF KeyAny
<1>5. ASSUME NEW p \in Procs, ImageDir(p) \/ Stop(p) \/ Close(p) PROVE IInv'
  BY <1>5, CloseKeeps
<1>6. ASSUME NEW p \in Procs, ImageDirFatal(p) \/ Exit(p) \/ Crash(p) PROVE IInv'
  BY <1>6, EndKeeps DEF ImageDirFatal, Exit, Crash
<1>7. ASSUME NEW p \in Procs, NEW u \in Uids, CardWrite(p, u) \/ ToolWrite(p, u)
      PROVE  IInv'
  BY <1>7, WriteKeeps
<1> QED BY <1>1, <1>2, <1>3, <1>4, <1>5, <1>6, <1>7 DEF Next, Proceed

\* The state of the processes and files is what the module says it is.
THEOREM TypeCorrect == Spec => []TypeOK
<1>1. IInv /\ [Next]_vars => IInv'
  BY StepIInv
<1>2. IInv => TypeOK
  BY DEF IInv
<1> QED BY <1>1, <1>2, InitIInv, PTL DEF Spec

\* A server that has loaded a key has the one that is in the file: the two steps
\* of loadOrCreateAESKey never mix with those of another server.
THEOREM ServersAgree == Spec => []KeysAgree
<1>1. IInv /\ [Next]_vars => IInv'
  BY StepIInv
<1>2. IInv => KeysAgree
  BY DEF IInv, Holds, KeysAgree
<1> QED BY <1>1, <1>2, InitIInv, PTL DEF Spec

\* The keys of registered cards and programmed tags are never replaced, however
\* often servers and tools are started, stopped and killed.
THEOREM KeysKept == Spec => []KeyKept
<1>1. IInv /\ [Next]_vars => IInv'
  BY StepIInv
<1>2. IInv => KeyKept
  BY DEF IInv
<1> QED BY <1>1, <1>2, InitIInv, PTL DEF Spec
-----------------------------------------------------------------------------
(* Locks are taken in one order, and a process keeps none that it will have *)
(* to wait for.                                                             *)

\* Where a process may be that has a file open.
HoldersAt(f) ==
  CASE f = "adminsession" -> PastSession
    [] f = "userdb" -> PastUserdb
    [] f = "admin" -> {"carddata", "img", "serving", "kill", "closesession",
                       "closecard", "closeadmin", "filling"}
    [] f = "carddata" -> {"img", "serving", "kill", "closesession", "closecard",
                          "filling"}

LockOrder ==
  \A f \in Files, p \in Procs :
    lock[f] = p => /\ pc[p] \in HoldersAt(f)
                   /\ p \in Tools => f \in {"admin", "carddata"}

LEMMA LockStep ==
  ASSUME IInv, LockOrder, [Next]_vars
  PROVE  LockOrder'
<1> USE ServerAssumption DEF IInv, TypeOK, LockOrder, HoldersAt, Files, PastSession,
                             PastUserdb, Loaded
<1>1. ASSUME NEW p \in Procs, Gone(p) PROVE LockOrder'
  BY <1>1 DEF Gone, Unlocked
<1>2. ASSUME NEW p \in Procs, Start(p) PROVE LockOrder'
  BY <1>2 DEF Start, Goto
<1>3. ASSUME NEW p \in Procs, NEW f \in Files, Open(p, f) PROVE LockOrder'
  <2>1. p \in Tools => f \in {"admin", "carddata"}
    BY <1>3 DEF Open, Goto, Placed
  <2>2. ASSUME NEW g \in Files, g = f \/ f \in HoldersAt(g),
               p \in Tools => g \in {"admin", "carddata"}
        PROVE  AfterOpen(p, f) \in HoldersAt(g)
    <3>1. CASE p \in Servers
      BY <2>2, <3>1 DEF AfterOpen, KeyFiles
    <3>2. CASE p \in Tools
      BY <2>1, <2>2, <3>2 DEF AfterOpen
    <3> QED BY <3>1, <3>2 DEF Procs
  <2> HIDE DEF HoldersAt
  <2> QED BY <1>3, <2>1, <2>2 DEF Open, Goto
<1>4. ASSUME NEW p \in Procs, NEW f \in Files, OpenFails(p, f) PROVE LockOrder'
  BY <1>4 DEF OpenFails, Goto, AfterOpen, Procs, Placed
<1>5. ASSUME NEW p \in Procs, NEW k \in KeyFiles, KeyStat(p, k) PROVE LockOrder'
  BY <1>5 DEF KeyStat
<1>6. ASSUME NEW p \in Procs, NEW k \in KeyFiles, KeyFill(p, k) \/ KeyRead(p, k)
      PROVE  LockOrder'
  <2>1. pc[p] = k /\ pc' = [pc EXCEPT ![p] = AfterKey(k)] /\ UNCHANGED lock
    BY <1>6 DEF KeyFill, KeyRead, KeyStep, KeyLoaded
  <2>2. ASSUME NEW g \in Files, k \in HoldersAt(g) PROVE AfterKey(k) \in HoldersAt(g)
    BY <2>2 DEF AfterKey, KeyFiles
  <2> HIDE DEF HoldersAt
  <2> QED BY <2>1, <2>2
<1>7. ASSUME NEW p \in Procs, ImageDir(p) \/ Stop(p) PROVE LockOrder'
  BY <1>7 DEF ImageDir, Stop, Goto
<1>8. ASSUME NEW p \in Procs, Close(p) PROVE LockOrder'
  BY <1>8 DEF Close, CloseStep, Goto, Unlocked
<1>9. ASSUME NEW p \in Procs, NEW u \in Uids, CardWrite(p, u) \/ ToolWrite(p, u)
      PROVE  LockOrder'
  BY <1>9 DEF CardWrite, ToolWrite
<1>10. CASE UNCHANGED vars
  BY <1>10 DEF vars
<1> QED
  BY <1>1, <1>2, <1>3, <1>4, <1>5, <1>6, <1>7, <1>8, <1>9, <1>10
  DEF Next, Proceed, OpenAny, OpenFatal, KeyAny, KeyPanics, KeyFillPanics, ImageDirFatal,
      Exit, Crash

\* Who waits for the file that is opened last waits for somebody who waits for
\* nobody; and so on, down the order.
LEMMA OrderNoCircle ==
  ASSUME LockOrder
  PROVE  NoCircle
<1> SUFFICES ASSUME NEW S \in SUBSET Procs, S # {} PROVE \E p \in S : \A q \in S : ~Waits(p, q)
  BY DEF NoCircle
<1> USE DEF Waits, LockOrder, HoldersAt, Files, PastSession, PastUserdb, Loaded
<1>1. ASSUME NEW p \in S, NEW q \in S, pc[p] = "carddata", Waits(p, q)
      PROVE  \A r \in S : ~Waits(q, r)
  BY <1>1
<1>2. ASSUME NEW p \in S, NEW q \in S, pc[p] = "admin", Waits(p, q)
      PROVE  pc[q] = "carddata" \/ \A r \in S : ~Waits(q, r)
  BY <1>2
<1>3. ASSUME NEW p \in S, NEW q \in S, pc[p] = "userdb", Waits(p, q)
      PROVE  pc[q] \in {"admin", "carddata"} \/ \A r \in S : ~Waits(q, r)
  BY <1>3
<1>4. ASSUME NEW p \in S, NEW q \in S, pc[p] = "adminsession", Waits(p, q)
      PROVE  pc[q] \in {"userdb", "admin", "carddata"} \/ \A r \in S : ~Waits(q, r)
  BY <1>4
<1> SUFFICES ASSUME \A p \in S : \E q \in S : Waits(p, q) PROVE FALSE
  OBVIOUS
<1>5. \A p \in S : pc[p] # "carddata"
  BY <1>1
<1>6. \A p \in S : pc[p] # "admin"
  BY <1>2, <1>5
<1>7. \A p \in S : pc[p] # "userdb"
  BY <1>3, <1>5, <1>6
<1>8. \A p \in S : pc[p] # "adminsession"
  BY <1>4, <1>5, <1>6, <1>7
<1> QED
  BY <1>5, <1>6, <1>7, <1>8

\* However many servers and tools are started, stopped and killed, no circle of
\* them waits for each other's files.
THEOREM NobodyInACircle == Spec => []NoCircle
<1>1. Init => LockOrder
  BY ServerAssumption DEF Init, LockOrder
<1>2. IInv /\ LockOrder /\ [Next]_vars => IInv' /\ LockOrder'
  BY StepIInv, LockStep
<1>3. LockOrder => NoCircle
  BY OrderNoCircle
<1> QED
  BY <1>1, <1>2, <1>3, InitIInv, PTL DEF Spec
=============================================================================
