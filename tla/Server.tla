------------------------------- MODULE Server -------------------------------
(***************************************************************************)
(* Processes that work in one data directory: servers, from ServerMain to  *)
(* exit, and the tool filltestcards.  They meet in the locks bbolt holds   *)
(* on its files and in the two key files, which are not locked.            *)
(*                                                                         *)
(* bbolt.Open without a timeout waits for the lock for ever.  Opening a    *)
(* file, the creation and stat of a key file, and the write or the read of *)
(* its 16 bytes are actions; a process may die, or be killed, at any of    *)
(* them, which frees its locks and loses its memory.                       *)
(***************************************************************************)
EXTENDS Naturals, FiniteSets

CONSTANTS Servers, Tools,
          Uids,            \* cards
          KeyValues,       \* keys that may be drawn (bound)
          MaxStarts,       \* starts of each process (bound)
          None

Procs == Servers \cup Tools
Files == {"adminsession", "userdb", "admin", "carddata"}
KeyFiles == {"appmasterkey", "metakey"}

ASSUME ServerAssumption ==
  /\ Servers \cap Tools = {} /\ None \notin Procs \cup KeyValues
  /\ {"absent", "empty", "short"} \cap KeyValues = {}
  /\ MaxStarts \in Nat

VARIABLES pc,              \* where a process is
          step,            \* in a key file: about to stat, to fill or to read it
          starts,
          failing,         \* files that cannot be opened, for good
          lock,            \* lock[f]: the process that has f open, or None
          content,         \* content[k]: of a key file
          mem,             \* mem[p][k]: AppMasterKey and SdmMetaKey
          cards,           \* cards[u]: the key its file key is derived from, and
                           \* whether its signature is the tag's
          tags             \* pairs of keys handed out for tags to be programmed

vars == <<pc, step, starts, failing, lock, content, mem, cards, tags>>

\* Where a process may be: about to open a file, in a key file, about to make
\* the image directory and to listen, serving, or on its way out.
Places == {"off"} \cup Files \cup KeyFiles \cup
          {"img", "serving", "kill", "closesession", "closecard", "closeadmin",
           "exit", "filling"}

NoKeys == [k \in KeyFiles |-> None]

TypeOK ==
  /\ pc \in [Procs -> Places]
  /\ step \in [Procs -> {"stat", "fill", "read"}]
  /\ starts \in [Procs -> 0..MaxStarts]
  /\ failing \subseteq Files
  /\ lock \in [Files -> Procs \cup {None}]
  /\ content \in [KeyFiles -> {"absent", "empty", "short"} \cup KeyValues]
  /\ mem \in [Procs -> [KeyFiles -> KeyValues \cup {None}]]
  /\ cards \in [Uids -> [key : KeyValues, genuine : BOOLEAN] \cup {None}]
  /\ tags \subseteq [app : KeyValues, meta : KeyValues]

\* At least one of the two files that are opened before the key files can be
\* opened, and so keeps a second server from them.
Init ==
  /\ pc = [p \in Procs |-> "off"]
  /\ step = [p \in Procs |-> "stat"]
  /\ starts = [p \in Procs |-> 0]
  /\ failing \in {F \in SUBSET Files : ~({"adminsession", "userdb"} \subseteq F)}
  /\ lock = [f \in Files |-> None]
  /\ content = [k \in KeyFiles |-> "absent"]
  /\ mem = [p \in Procs |-> NoKeys]
  /\ cards = [u \in Uids |-> None]
  /\ tags = {}

-----------------------------------------------------------------------------
Goto(p, from, to) ==
  /\ pc[p] = from
  /\ pc' = [pc EXCEPT ![p] = to]

Unlocked(p, F) == [f \in Files |-> IF f \in F /\ lock[f] = p THEN None ELSE lock[f]]

\* The process ends, however it comes to it.
Gone(p) ==
  /\ pc' = [pc EXCEPT ![p] = "off"]
  /\ step' = [step EXCEPT ![p] = "stat"]
  /\ lock' = Unlocked(p, Files)
  /\ mem' = [mem EXCEPT ![p] = NoKeys]
  /\ UNCHANGED <<starts, failing, cards, tags>>

Start(p) ==
  /\ starts[p] < MaxStarts
  /\ Goto(p, "off", IF p \in Servers THEN "adminsession" ELSE "admin")
  /\ starts' = [starts EXCEPT ![p] = @ + 1]
  /\ UNCHANGED <<step, failing, lock, content, mem, cards, tags>>

AfterOpenTwice(p, f) ==            \* mutant: the tool opens its databases twice
  CASE f = "adminsession" -> "userdb"
    [] f = "userdb" -> "appmasterkey"
    [] f = "admin" -> "carddata"
    [] f = "carddata" -> IF p \in Servers THEN "img" ELSE "admin"

AfterOpenKeysFirst(p, f) ==        \* mutant: the key files before the databases
  CASE f = "adminsession" -> "appmasterkey"
    [] f = "userdb" -> "appmasterkey"
    [] f = "admin" -> "carddata"
    [] f = "carddata" -> IF p \in Servers THEN "img" ELSE "filling"

\* What follows the file f.
AfterOpen(p, f) ==
  CASE f = "adminsession" -> "userdb"
    [] f = "userdb" -> "appmasterkey"
    [] f = "admin" -> "carddata"
    [] f = "carddata" -> IF p \in Servers THEN "img" ELSE "filling"

\* createSessionDB, CreateUserDB and makeDB: the file is locked for good.
Open(p, f) ==
  /\ f \notin failing /\ lock[f] = None
  /\ Goto(p, f, AfterOpen(p, f))
  /\ lock' = [lock EXCEPT ![f] = p]
  /\ UNCHANGED <<step, starts, failing, content, mem, cards, tags>>

\* Sessions are then kept in memory, and logins take the legacy path.
OpenFails(p, f) ==
  /\ f \in failing \cap {"adminsession", "userdb"}
  /\ Goto(p, f, AfterOpen(p, f))
  /\ UNCHANGED <<step, starts, failing, lock, content, mem, cards, tags>>

\* LogFatalf, and the exit of the tool.
OpenFatal(p, f) ==
  /\ pc[p] = f /\ f \in failing \cap {"admin", "carddata"}
  /\ Gone(p)
  /\ UNCHANGED content

-----------------------------------------------------------------------------
(* loadOrCreateAESKey.                                                     *)

AfterKey(k) == IF k = "appmasterkey" THEN "metakey" ELSE "admin"

KeyStep(p, k, from) == pc[p] = k /\ step[p] = from

KeyStatFills(p, k) ==              \* mutant: a full file is taken for an empty one
  /\ KeyStep(p, k, "stat")
  /\ content' = [content EXCEPT ![k] = IF @ = "absent" THEN "empty" ELSE @]
  /\ step' = [step EXCEPT ![p] = "fill"]
  /\ UNCHANGED <<pc, starts, failing, lock, mem, cards, tags>>

\* The file is created if it is not there, and its size looked at.
KeyStat(p, k) ==
  /\ KeyStep(p, k, "stat") /\ content[k] # "short"
  /\ content' = [content EXCEPT ![k] = IF @ = "absent" THEN "empty" ELSE @]
  /\ step' = [step EXCEPT ![p] = IF content[k] \in KeyValues THEN "read" ELSE "fill"]
  /\ UNCHANGED <<pc, starts, failing, lock, mem, cards, tags>>

\* "key file format error", or a file that has become short since.
KeyPanics(p, k) ==
  /\ \/ KeyStep(p, k, "stat") /\ content[k] = "short"
     \/ KeyStep(p, k, "read") /\ content[k] \notin KeyValues
  /\ Gone(p)
  /\ UNCHANGED content

\* The key is in memory, and the process goes on.
KeyLoaded(p, k, v) ==
  /\ pc' = [pc EXCEPT ![p] = AfterKey(k)]
  /\ step' = [step EXCEPT ![p] = "stat"]
  /\ mem' = [mem EXCEPT ![p][k] = v]
  /\ UNCHANGED <<starts, failing, lock, cards, tags>>

KeyFill(p, k) ==
  /\ KeyStep(p, k, "fill")
  /\ \E v \in KeyValues : /\ content' = [content EXCEPT ![k] = v]
                          /\ KeyLoaded(p, k, v)

\* No random key, or a write cut short, by a full disk or by the end of the
\* process.
KeyFillPanics(p, k) ==
  /\ KeyStep(p, k, "fill")
  /\ \E c \in {content[k], "short"} : content' = [content EXCEPT ![k] = c]
  /\ Gone(p)

KeyRead(p, k) ==
  /\ KeyStep(p, k, "read")
  /\ content[k] \in KeyValues
  /\ KeyLoaded(p, k, content[k])
  /\ UNCHANGED content

-----------------------------------------------------------------------------
(* Serving, closing, dying.                                                *)

ImageDir(p) ==
  /\ Goto(p, "img", "serving")
  /\ UNCHANGED <<step, starts, failing, lock, content, mem, cards, tags>>

\* A path in the way of the image directory: LogFatalf.
ImageDirFatal(p) ==
  /\ pc[p] = "img"
  /\ Gone(p)
  /\ UNCHANGED content

\* WriteCardData: a card that is there keeps its file key, a new one is given
\* one derived from AppMasterKey, without which there is an error.
Registers(p, u) == cards[u] # None \/ mem[p]["appmasterkey"] # None
WriteCardData(p, u, genuine) ==
  cards' = [cards EXCEPT ![u] =
              [key |-> IF @ = None THEN mem[p]["appmasterkey"] ELSE @.key,
               genuine |-> genuine]]

\* cardwrite, by a request that may outlive the listener; the two keys go to
\* the app, which programs the tag with them.
CardWrite(p, u) ==
  /\ pc[p] \in {"serving", "kill", "closesession", "closecard"}
  /\ Registers(p, u)
  /\ WriteCardData(p, u, TRUE)
  /\ tags' = tags \cup {[app |-> mem[p]["appmasterkey"], meta |-> mem[p]["metakey"]]}
  /\ UNCHANGED <<pc, step, starts, failing, lock, content, mem>>

\* filltestcards, one card of its loop.
ToolWrite(p, u) ==
  /\ pc[p] = "filling"
  /\ Registers(p, u)
  /\ WriteCardData(p, u, FALSE)
  /\ UNCHANGED <<pc, step, starts, failing, lock, content, mem, tags>>

\* A signal, or a listener that cannot be had.
Stop(p) ==
  /\ Goto(p, "serving", "kill")
  /\ UNCHANGED <<step, starts, failing, lock, content, mem, cards, tags>>

\* Close: Kill returns (module AppSession), then CloseDB and the card database;
\* userdb is not closed.
CloseStep(p, from, to, F) ==
  /\ Goto(p, from, to)
  /\ lock' = Unlocked(p, F)
  /\ UNCHANGED <<step, starts, failing, content, mem, cards, tags>>

Close(p) ==
  \/ CloseStep(p, "kill", "closesession", {})
  \/ CloseStep(p, "closesession", "closecard", {"adminsession"})
  \/ CloseStep(p, "closecard", "closeadmin", {"carddata"})
  \/ CloseStep(p, "closeadmin", "exit", {"admin"})

\* main returns, of the server or of the tool.
Exit(p) ==
  /\ pc[p] \in {"exit", "filling"}
  /\ Gone(p)
  /\ UNCHANGED content

Crash(p) ==
  /\ pc[p] # "off"
  /\ Gone(p)
  /\ UNCHANGED content

OpenAny(p) == \E f \in Files : Open(p, f) \/ OpenFails(p, f) \/ OpenFatal(p, f)
KeyAny(p) ==
  \E k \in KeyFiles : \/ KeyStat(p, k) \/ KeyRead(p, k) \/ KeyPanics(p, k)
                      \/ KeyFill(p, k) \/ KeyFillPanics(p, k)

\* What a process does by itself, until it serves or has stopped.
Proceed(p) == OpenAny(p) \/ KeyAny(p) \/ ImageDir(p) \/ ImageDirFatal(p) \/ Close(p) \/ Exit(p)

Next ==
  \E p \in Procs :
    \/ Start(p) \/ Proceed(p) \/ Stop(p) \/ Crash(p)
    \/ \E u \in Uids : CardWrite(p, u) \/ ToolWrite(p, u)

\* A process is scheduled, and bbolt tries a lock again and again.  Nobody need
\* start, stop or kill one, and no request need come.
Fairness == \A p \in Procs : WF_vars(Proceed(p))

Spec == Init /\ [][Next]_vars /\ Fairness

-----------------------------------------------------------------------------
\* The places of a server that has loaded this key.
Loaded(k) ==
  {"admin", "carddata", "img", "serving", "kill", "closesession", "closecard",
   "closeadmin", "exit"} \cup
  (IF k = "appmasterkey" THEN {"metakey"} ELSE {})

\* Two servers started together, stopped or killed anywhere, never hold keys
\* other than those of the files, though they look at a key file and fill it in
\* two steps: the databases opened before keep one of them waiting.
KeysAgree ==
  \A p \in Servers, k \in KeyFiles :
    pc[p] \in Loaded(k) => mem[p][k] = content[k]

\* Whatever is started, killed and started again: the keys by which a card was
\* registered or a tag programmed are those the next server will load.
KeyKept ==
  /\ \A u \in Uids : cards[u] # None => cards[u].key = content["appmasterkey"]
  /\ \A t \in tags : t = [app |-> content["appmasterkey"], meta |-> content["metakey"]]

\* bbolt.Open waits without a timeout for whoever has the file open.
Waits(p, q) == \E f \in Files : pc[p] = f /\ lock[f] = q

\* Of any processes, however they were started and stopped, one waits for none
\* of the others nor for itself: what they wait for is not each other.
NoCircle ==
  \A S \in SUBSET Procs : S # {} => \E p \in S : \A q \in S : ~Waits(p, q)

\* A process that was started comes to serve or ends, unless another server
\* serves meanwhile: nobody waits for a lock in a circle.
StartSettles ==
  \A p \in Procs :
    pc[p] \in Files ~> \/ pc[p] \in {"serving", "off"}
                       \/ \E q \in Servers : pc[q] = "serving"
=============================================================================
