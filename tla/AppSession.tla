------------------------------ MODULE AppSession ------------------------------
(***************************************************************************)
(* The in-memory table of API tokens (AppSession) and the goroutine that   *)
(* copies it to bucket admin-record on every tick, prunes it, and ends when *)
(* it is empty or killed.                                                  *)
(*                                                                         *)
(* Update runs in request goroutines under the mutex, but starts the loop  *)
(* with "go" before started is set, so a second request may start a second *)
(* loop; the loop and Kill read the map, started, ticker and Ch without    *)
(* the mutex.  Each unlocked read and each locked section is an action of  *)
(* its own.  A nil map and an empty one behave alike and are one value.    *)
(***************************************************************************)
EXTENDS Naturals, FiniteSets

CONSTANTS Tokens,          \* session tokens
          Loops,           \* loop goroutines ever started (bound)
          None,            \* a nil ticker or channel
          Kills            \* whether the server is shut down

ASSUME LoopsAssumption == None \notin Loops /\ Kills \in BOOLEAN

VARIABLES session,         \* the tokens in the map
          started,
          ticker, ch,      \* the loop that made the ticker, and the channel
          sent,            \* channels whose buffer of one holds a message
          pc,              \* pc[l]: where the loop goroutine l is
          held,            \* held[l]: the tokens l read, or None
          out,             \* out[l]: the channel l sends on
          killer, killch,  \* where Kill is, and the channel it receives from
          expired,         \* tokens older than removeTime
          record,          \* tokens with an entry in bucket admin-record
          late,            \* tokens whose request was served during Kill
          overlapped       \* history: a loop was started beside a running one

mem == <<session, started, ticker, ch, sent>>
vars == <<session, started, ticker, ch, sent, pc, held, out, killer, killch,
          expired, record, late, overlapped>>

Iterating == {l \in Loops : pc[l] \in {"sync", "prune"}}
Running == {l \in Loops : pc[l] \notin {"new", "ended"}}
Up == killer \notin {"done", "dead"}

\* Where a loop goroutine may be.
Places == {"new", "start", "range", "wait", "sync", "prune", "check", "teardown",
           "out", "send", "ended"}

TypeOK ==
  /\ session \subseteq Tokens /\ expired \subseteq Tokens /\ record \subseteq Tokens
  /\ late \subseteq Tokens
  /\ started \in BOOLEAN /\ overlapped \in BOOLEAN
  /\ {ticker, ch, killch} \subseteq Loops \cup {None}
  /\ sent \subseteq Loops
  /\ pc \in [Loops -> Places]
  /\ held \in [Loops -> SUBSET Tokens]
  /\ out \in [Loops -> Loops \cup {None}]
  /\ killer \in {"idle", "stop", "reset", "channel", "receive", "done", "dead"}

Init ==
  /\ session = {} /\ started = FALSE /\ ticker = None /\ ch = None /\ sent = {}
  /\ pc = [l \in Loops |-> "new"]
  /\ held = [l \in Loops |-> {}] /\ out = [l \in Loops |-> None]
  /\ killer = "idle" /\ killch = None
  /\ expired = {} /\ record = {} /\ late = {} /\ overlapped = FALSE

\* The process dies, with its memory: an unrecovered panic, or the runtime
\* finding the map written while it is iterated.
Crash ==
  /\ session' = {} /\ started' = FALSE /\ ticker' = None /\ ch' = None /\ sent' = {}
  /\ pc' = [l \in Loops |-> "ended"]
  /\ killer' = "dead"
  /\ UNCHANGED <<held, out, killch, expired, record, late, overlapped>>

-----------------------------------------------------------------------------
StartsLoop == ~started

\* Update, under the mutex.  The map may be under iteration: then the runtime
\* kills the process, or does not notice.  Close runs after the listener is
\* closed, so that only requests in progress are served beside Kill: one with
\* each token (bound).
Update(t) ==
  /\ Up
  /\ killer # "idle" => t \notin late
  /\ StartsLoop => \E l \in Loops : pc[l] = "new"
  /\ \/ /\ session' = session \cup {t}
        /\ IF StartsLoop
             THEN /\ \E l \in Loops : /\ pc[l] = "new"
                                      /\ pc' = [pc EXCEPT ![l] = "start"]
                  /\ overlapped' = (overlapped \/ Running # {})
             ELSE UNCHANGED <<pc, overlapped>>
        /\ late' = IF killer = "idle" THEN late ELSE late \cup {t}
        /\ UNCHANGED <<started, ticker, ch, sent, held, out, killer, killch,
                       expired, record>>
     \/ /\ Iterating # {}
        /\ Crash

\* A token grows older than removeTime.
Expire(t) ==
  /\ Up
  /\ t \notin expired
  /\ expired' = expired \cup {t}
  /\ UNCHANGED <<mem, pc, held, out, killer, killch, record, late, overlapped>>

-----------------------------------------------------------------------------
(* The loop goroutine.                                                     *)

Step(l, from, to) ==
  /\ Up
  /\ pc[l] = from
  /\ pc' = [pc EXCEPT ![l] = to]

LoopStart(l) ==
  /\ Step(l, "start", "range")
  /\ started' = TRUE /\ ticker' = l /\ ch' = l
  /\ UNCHANGED <<session, sent, held, out, killer, killch, expired, record, late, overlapped>>

\* "range u.ticker.C" reads the field: nil if another loop has just ended.
LoopRange(l) ==
  \/ /\ ticker # None
     /\ Step(l, "range", "wait")
     /\ UNCHANGED <<mem, held, out, killer, killch, expired, record, late, overlapped>>
  \/ /\ ticker = None
     /\ Up /\ pc[l] = "range"
     /\ Crash

\* A tick: OnLoginUpdate begins to read the map.
LoopTick(l) ==
  /\ Step(l, "wait", "sync")
  /\ held' = [held EXCEPT ![l] = session]
  /\ UNCHANGED <<mem, out, killer, killch, expired, record, late, overlapped>>

\* OnLoginUpdate commits what it read: of the tokens put in or taken out
\* meanwhile, any.
LoopSync(l) ==
  /\ Step(l, "sync", "prune")
  /\ \E s \in SUBSET (held[l] \cup session) :
       /\ held[l] \cap session \subseteq s
       /\ record' = record \cup s
  /\ held' = [held EXCEPT ![l] = {}]
  /\ UNCHANGED <<mem, out, killer, killch, expired, late, overlapped>>

LoopPruneNone(l) ==                \* mutant: nothing is pruned
  /\ Step(l, "prune", "check")
  /\ UNCHANGED <<mem, held, out, killer, killch, expired, record, late, overlapped>>

\* Deleting while another loop iterates is a race as in Update.
LoopPrune(l) ==
  \/ /\ Step(l, "prune", "check")
     /\ session' = session \ expired
     /\ UNCHANGED <<started, ticker, ch, sent, held, out, killer, killch,
                    expired, record, late, overlapped>>
  \/ /\ Up /\ pc[l] = "prune"
     /\ Iterating # {l} /\ session \cap expired # {}
     /\ Crash

\* started and the length of the map are read without the mutex.
LoopCheck(l) ==
  /\ Step(l, "check", IF ~started \/ session = {} THEN "teardown" ELSE "wait")
  /\ UNCHANGED <<mem, held, out, killer, killch, expired, record, late, overlapped>>

LoopTeardownSilent(l) ==           \* mutant: nothing is sent to Kill
  /\ Step(l, "teardown", "ended")
  /\ session' = {} /\ ticker' = None /\ started' = FALSE
  /\ UNCHANGED <<ch, sent, held, out, killer, killch, expired, record, late, overlapped>>

LoopTeardownLeave(l) ==            \* mutant: the table is not emptied
  /\ Step(l, "teardown", "out")
  /\ ticker' = None /\ started' = FALSE
  /\ UNCHANGED <<session, ch, sent, held, out, killer, killch, expired, record, late, overlapped>>

LoopTeardown(l) ==
  /\ Step(l, "teardown", "out")
  /\ session' = {} /\ ticker' = None /\ started' = FALSE
  /\ UNCHANGED <<ch, sent, held, out, killer, killch, expired, record, late, overlapped>>

\* "u.Ch <- true" reads the field, then waits for room in that channel.
LoopOut(l) ==
  /\ Step(l, "out", "send")
  /\ out' = [out EXCEPT ![l] = ch]
  /\ UNCHANGED <<mem, held, killer, killch, expired, record, late, overlapped>>

LoopSend(l) ==
  /\ Step(l, "send", "ended")
  /\ out[l] \notin sent
  /\ sent' = sent \cup {out[l]}
  /\ UNCHANGED <<session, started, ticker, ch, held, out, killer, killch,
                 expired, record, late, overlapped>>

-----------------------------------------------------------------------------
(* Kill, called by Close when the server stops; then the process ends.     *)

Kill(from, to) ==
  /\ killer = from
  /\ killer' = to
  /\ UNCHANGED <<pc, held, out, expired, record, late, overlapped>>

KillStart ==
  /\ Kills
  /\ started /\ ticker # None
  /\ Kill("idle", "stop")
  /\ UNCHANGED <<mem, killch>>

KillStop ==
  /\ Kill("stop", "reset")
  /\ started' = FALSE
  /\ UNCHANGED <<session, ticker, ch, sent, killch>>

\* ticker.Reset makes the ticks come at once, which are possible at any time
\* here; the field may be nil by now.
KillReset ==
  \/ /\ ticker # None
     /\ Kill("reset", "channel")
     /\ UNCHANGED <<mem, killch>>
  \/ /\ ticker = None
     /\ killer = "reset"
     /\ Crash

KillChannel ==
  /\ Kill("channel", "receive")
  /\ killch' = ch
  /\ UNCHANGED mem

KillReceive ==
  /\ killch \in sent
  /\ Kill("receive", "done")
  /\ sent' = sent \ {killch}
  /\ session' = {}
  /\ UNCHANGED <<started, ticker, ch, killch>>

Loop(l) == \/ LoopStart(l) \/ LoopRange(l) \/ LoopTick(l) \/ LoopSync(l)
           \/ LoopPrune(l) \/ LoopCheck(l) \/ LoopTeardown(l)
           \/ LoopOut(l) \/ LoopSend(l)
Killer == KillStart \/ KillStop \/ KillReset \/ KillChannel \/ KillReceive

Next ==
  \/ \E t \in Tokens : Update(t) \/ Expire(t)
  \/ \E l \in Loops : Loop(l)
  \/ Killer

\* Goroutines are scheduled, tickers tick and time passes; requests need not
\* come, and the server need not be stopped.
Fairness ==
  /\ \A l \in Loops : WF_vars(Loop(l))
  /\ \A t \in Tokens : WF_vars(Expire(t))
  /\ WF_vars(KillStop \/ KillReset \/ KillChannel \/ KillReceive)

Spec == Init /\ [][Next]_vars /\ Fairness

-----------------------------------------------------------------------------
\* A token in the table has a loop that is yet to look at it, also when Kill has
\* reset started and a late request has put the token in: none is left behind
\* by the loop that goes, to stay until somebody logs in again.
TokenHasLoop ==
  session # {} => \E l \in Loops :
    pc[l] \in {"start", "range", "wait", "sync", "prune", "check", "teardown"}

\* While Kill waits on a channel there is a message in it, or a loop that will
\* send one there: it does not wait on the channel of a loop whose message went
\* to another one, unless loops have overlapped.
KillAwaited ==
  killer = "receive" /\ ~overlapped =>
    \/ killch \in sent
    \/ \E l \in Loops :
         \/ pc[l] \in {"range", "wait", "sync", "prune", "check", "teardown", "out"}
            /\ ch = killch
         \/ pc[l] = "send" /\ out[l] = killch

\* No token stays in memory for ever, however loops overlap, end and start.
TokenForgotten == \A t \in Tokens : t \in session ~> t \notin session

\* As long as loops do not overlap, Kill returns (or dies of the nil ticker
\* of a loop that ended by itself), though a request still served may start
\* another loop: at the latest when that one has forgotten its tokens.
KillReturns == killer = "stop" ~> ~Up \/ overlapped

\* The documented sync: a token in the table gets its entry in admin-record.  The
\* code does not keep it: a loop that ends drops what Update has added since its
\* last tick.
TokenSynced == \A t \in Tokens : t \in session ~> t \in record \/ ~Up
=============================================================================
