--------------------------- MODULE ModelStore_proofs ---------------------------
(***************************************************************************)
(* For any number of handlers: links and the clean-up, whatever overlaps;   *)
(* images and edits until two requests overlap, because what a request read  *)
(* in one transaction is still true in its next one (StillTrue).            *)
(***************************************************************************)
EXTENDS ModelStore, TLAPS

\* Steps other than a deletion take no model away.
LEMMA ModelsKept ==
  ASSUME [Next]_vars, ~\E h \in Handlers, m \in Models : ModelDelLink(h, m)
  PROVE  models \subseteq models'
<1>1. CASE UNCHANGED vars
  BY <1>1 DEF vars
<1>2. CASE Restart
  BY <1>2 DEF Restart, db
<1>3. ASSUME NEW h \in Handlers,
             \/ \E m \in Models \cup {Blank, Malformed}, f \in Rows : Submit(h, m, f)
             \/ StoreFail(h) \/ ModelNew(h) \/ ModelEdit(h)
      PROVE  models \subseteq models'
  BY <1>3 DEF Submit, StoreFail, ModelNew, ModelEdit, db
<1>4. ASSUME NEW h \in Handlers,
             \/ EditLookup(h) \/ ModelAddLink(h)
             \/ CleanList(h) \/ CleanScan(h) \/ CleanDone(h)
             \/ \E i \in Images : CleanRemove(h, i)
      PROVE  models \subseteq models'
  BY <1>4 DEF EditLookup, ModelAddLink, CleanList, CleanScan, CleanDone, CleanRemove, db
<1>5. ASSUME NEW h \in Handlers, NEW c \in Cards,
             \/ CardDel(h, c)
             \/ \E l \in Models \cup {Blank} : CardWrite(h, c, l) \/ UpdateCardLink(h, c, l)
      PROVE  models \subseteq models'
  BY <1>5 DEF CardDel, CardWrite, UpdateCardLink
<1> QED
  BY <1>1, <1>2, <1>3, <1>4, <1>5 DEF Next, Step

\* The transaction of ModelDelLink looks at every card, so that no interleaving
\* of any number of edits, deletions and cards breaks a link that resolved.
THEOREM LinksKept == Spec => NoLinkBroken
<1> DEFINE Kept == \A c \in cards \cap cards' :
                     link[c] \in models /\ link'[c] = link[c] => link[c] \in models'
<1>1. ASSUME [Next]_vars PROVE Kept
  <2>1. CASE \E h \in Handlers, m \in Models : ModelDelLink(h, m)
    BY <2>1 DEF ModelDelLink, Linked
  <2>2. CASE ~\E h \in Handlers, m \in Models : ModelDelLink(h, m)
    BY <1>1, <2>2, ModelsKept
  <2> QED
    BY <2>1, <2>2
<1>2. [Next]_vars => [Kept]_vars
  BY <1>1
<1> QED
  BY <1>2, PTL DEF Spec, NoLinkBroken
-----------------------------------------------------------------------------
(* Types, for any number of handlers.  An id in flight is known, or           *)
(* ModelAddLink could store a row under an id that NewV4 may yet return.     *)

Known(r) == /\ r.id \in Models => r.id \in known
            /\ r.pc \in {"lookup", "put"} => r.id \in Models

KnownIds == \A h \in Handlers : Known(req[h])

Typed == TypeOK /\ KnownIds

LEMMA IdleType == Idle \in Requests /\ Known(Idle) /\ Known(Idle)'
BY BlankAssumption DEF Idle, BlankRow, Requests, Rows, Known

LEMMA MergeType ==
  ASSUME NEW f \in Rows, NEW old \in Rows
  PROVE  Merge(f, old) \in Rows
BY DEF Merge, Rows

\* What stays of TypeOK and KnownIds when one request changes.
LEMMA RequestTyped ==
  ASSUME Typed, NEW h \in Handlers, NEW r \in Requests,
         req' = [req EXCEPT ![h] = r],
         r.id \in Models => r.id \in known', r.pc \in {"lookup", "put"} => r.id \in Models,
         known \subseteq known'
  PROVE  req' \in [Handlers -> Requests] /\ KnownIds'
BY DEF Typed, TypeOK, KnownIds, Known

LEMMA PutTyped ==
  ASSUME Typed, NEW h \in Handlers, NEW m \in known', known' \subseteq Models, NEW r \in Rows,
         Put(h, m, r), known \subseteq known'
  PROVE  req' \in [Handlers -> Requests] /\ KnownIds'
<1> DEFINE p == [req[h] EXCEPT !.pc = "put", !.id = m, !.open = {}, !.row = r]
<1>1. p \in Requests /\ p.id = m
  BY DEF Typed, TypeOK, Requests
<1> HIDE DEF p
<1>2. req' = [req EXCEPT ![h] = p]
  BY DEF Put, p
<1> QED
  BY <1>1, <1>2, RequestTyped

LEMMA ModelWriteTyped ==
  ASSUME Typed, inUse' \in [Handlers -> SUBSET Images], overlapped' \in BOOLEAN,
         NEW h \in Handlers,
         \/ \E m \in Models \cup {Blank, Malformed}, f \in Rows : Submit(h, m, f)
         \/ StoreFail(h) \/ ModelNew(h) \/ ModelEdit(h)
         \/ EditLookup(h) \/ ModelAddLink(h)
  PROVE  Typed'
<1>1. ASSUME NEW m \in Models \cup {Blank, Malformed}, NEW f \in Rows, Submit(h, m, f)
      PROVE  Typed'
  <2>1. ToWrite(f) \subseteq Images
    BY DEF ToWrite, Rows
  <2> DEFINE r == [Idle EXCEPT !.pc = "store", !.id = m, !.form = f, !.open = ToWrite(f)]
  <2>2. r \in Requests /\ r.pc = "store" /\ r.id = m
    BY <2>1, IdleType DEF Requests
  <2> HIDE DEF r
  <2>3. /\ req' = [req EXCEPT ![h] = r] /\ known \subseteq known'
        /\ m \in Models => m \in known'
    BY <1>1 DEF Submit, r
  <2>4. req' \in [Handlers -> Requests] /\ KnownIds'
    BY <2>2, <2>3, RequestTyped
  <2> QED
    BY <1>1, <2>1, <2>4 DEF Submit, Typed, TypeOK, db
<1>2. ASSUME Finish(h), known' = known
      PROVE  req' \in [Handlers -> Requests] /\ KnownIds'
  BY <1>2, IdleType, RequestTyped DEF Finish, Known
<1>3. CASE StoreFail(h)
  BY <1>2, <1>3 DEF StoreFail, Typed, TypeOK, db, dir
<1>4. ASSUME StoreImage(h)
      PROVE  damaged' \subseteq files' /\ files' \subseteq Images
  BY <1>4 DEF StoreImage, Typed, TypeOK
<1>5. req[h] \in Requests /\ req[h].form \in Rows
  BY DEF Typed, TypeOK, Requests
<1>6. CASE ModelNew(h)
  <2>1. CASE Finish(h) /\ known' = known
    BY <1>2, <1>4, <1>6, <2>1 DEF ModelNew, Typed, TypeOK, db
  <2>2. ASSUME NEW m \in Models \ known, known' = known \cup {m}, Put(h, m, req[h].form)
        PROVE  Typed'
    <3>1. req' \in [Handlers -> Requests] /\ KnownIds'
      BY <1>5, <2>2, PutTyped DEF Typed, TypeOK
    <3> QED
      BY <1>4, <1>6, <2>2, <3>1 DEF ModelNew, Typed, TypeOK, db
  <2> QED
    BY <1>6, <2>1, <2>2 DEF ModelNew
<1>7. CASE ModelEdit(h)
  <2> DEFINE r == [req[h] EXCEPT !.pc = "lookup", !.open = {}]
  <2>1. r \in Requests /\ r.id = req[h].id /\ r.id \in Models
    BY <1>5, <1>7 DEF ModelEdit, Requests
  <2>2. req[h].id \in known
    BY <1>7 DEF ModelEdit, Typed, KnownIds, Known
  <2> HIDE DEF r
  <2>3. req' = [req EXCEPT ![h] = r] /\ known' = known
    BY <1>7 DEF ModelEdit, r
  <2>4. req' \in [Handlers -> Requests] /\ KnownIds'
    BY <2>1, <2>2, <2>3, RequestTyped
  <2> QED
    BY <1>4, <1>7, <2>4 DEF ModelEdit, Typed, TypeOK, db
<1>8. CASE EditLookup(h)
  <2> DEFINE new == IF req[h].id \in models THEN Merge(req[h].form, row[req[h].id])
                                            ELSE req[h].form
  <2>1. new \in Rows
    BY <1>5, MergeType DEF Typed, TypeOK
  <2>2. req[h].id \in known /\ known' = known
    BY <1>8 DEF EditLookup, At, Typed, KnownIds, Known
  <2> HIDE DEF new
  <2>3. Put(h, req[h].id, new)
    BY <1>8 DEF EditLookup, new
  <2>4. req' \in [Handlers -> Requests] /\ KnownIds'
    BY <2>1, <2>2, <2>3, PutTyped DEF Typed, TypeOK
  <2> QED
    BY <1>8, <2>4 DEF EditLookup, Typed, TypeOK, db, dir
<1>9. CASE ModelAddLink(h)
  <2>1. req[h].id \in known /\ req[h].row \in Rows
    BY <1>5, <1>9 DEF ModelAddLink, At, Typed, KnownIds, Known, Requests
  <2> QED
    BY <1>2, <1>9, <2>1 DEF ModelAddLink, Typed, TypeOK, dir
<1> QED
  BY <1>1, <1>3, <1>6, <1>7, <1>8, <1>9

LEMMA CleanTyped ==
  ASSUME Typed, inUse' \in [Handlers -> SUBSET Images], overlapped' \in BOOLEAN,
         NEW h \in Handlers,
         \/ CleanList(h) \/ CleanScan(h) \/ CleanDone(h)
         \/ \E i \in Images : CleanRemove(h, i)
  PROVE  Typed'
<1> USE IdleType DEF Typed, TypeOK, KnownIds, Known
<1>1. CASE CleanList(h)
  <2>1. [Idle EXCEPT !.pc = "scan", !.todo = files] \in Requests
    BY DEF Requests
  <2>2. [Idle EXCEPT !.pc = "scan", !.todo = files].pc = "scan"
    BY DEF Idle
  <2> QED
    BY <1>1, <2>1, <2>2 DEF CleanList, db, dir
<1>2. CASE CleanScan(h)
  BY <1>2 DEF CleanScan, RemainImages, Requests, db, dir
<1>3. CASE CleanDone(h)
  BY <1>3 DEF CleanDone, Finish, Idle, db, dir
<1>4. ASSUME NEW i \in Images, CleanRemove(h, i)
      PROVE  Typed'
  <2> DEFINE done == [req EXCEPT ![h].todo = @ \ {i}]
  <2>1. /\ done \in [Handlers -> Requests]
        /\ \A g \in Handlers : done[g].pc = req[g].pc /\ done[g].id = req[g].id
    BY DEF Requests
  <2> HIDE DEF done
  <2>2. CASE req' = done /\ UNCHANGED dir
    BY <1>4, <2>1, <2>2 DEF CleanRemove, db, dir
  <2>3. CASE /\ req' = [g \in Handlers |-> [done[g] EXCEPT !.open = @ \ {i}]]
             /\ files' = files \ {i} /\ damaged' = damaged \ {i}
    <3>1. \A g \in Handlers : /\ [done[g] EXCEPT !.open = @ \ {i}] \in Requests
                              /\ [done[g] EXCEPT !.open = @ \ {i}].pc = req[g].pc
                              /\ [done[g] EXCEPT !.open = @ \ {i}].id = req[g].id
      BY <2>1 DEF Requests
    <3>2. req' \in [Handlers -> Requests]
      BY <2>3, <3>1
    <3>3. \A g \in Handlers : req'[g].pc = req[g].pc /\ req'[g].id = req[g].id
      BY <2>3, <3>1
    <3>4. UNCHANGED <<models, row, cards, link, known>>
      BY <1>4 DEF CleanRemove, db
    <3> QED
      BY <2>3, <3>2, <3>3, <3>4
  <2> QED
    BY <1>4, <2>2, <2>3 DEF CleanRemove, done
<1> QED
  BY <1>1, <1>2, <1>3, <1>4

LEMMA ReferencedImages ==
  ASSUME TypeOK
  PROVE  Referenced \subseteq Images
BY DEF Referenced, TypeOK, Rows

LEMMA WatchTyped ==
  ASSUME TypeOK, Watch
  PROVE  inUse' \in [Handlers -> SUBSET Images]
BY ReferencedImages DEF Watch, TypeOK

LEMMA OverlapTyped ==
  ASSUME TypeOK, NEW h \in Handlers, Overlap(h)
  PROVE  overlapped' \in BOOLEAN
<1> DEFINE now == overlapped \/ \E g \in Handlers \ {h} : ~At(g, "idle")
<1>1. now \in BOOLEAN
  OBVIOUS
<1>2. overlapped' = now
  BY DEF Overlap
<1> QED
  BY <1>1, <1>2

LEMMA StepTyped == Typed /\ [Next]_vars => Typed'
<1> SUFFICES ASSUME Typed, [Next]_vars PROVE Typed'
  OBVIOUS
<1>1. CASE UNCHANGED vars
  BY <1>1 DEF vars, Typed, TypeOK, KnownIds, Known
<1>2. CASE Next
  <2>a. overlapped' \in BOOLEAN
    BY <1>2, OverlapTyped DEF Next, Typed, TypeOK
  <2>b. inUse' \in [Handlers -> SUBSET Images]
    BY <1>2, WatchTyped DEF Next, Typed
  <2>1. inUse' \in [Handlers -> SUBSET Images] /\ overlapped' \in BOOLEAN
    BY <2>a, <2>b
  <2>2. ASSUME NEW h \in Handlers, NEW m \in Models, ModelDelLink(h, m)
        PROVE  Typed'
    BY <2>1, <2>2 DEF ModelDelLink, BlankRow, Rows, dir, Typed, TypeOK, KnownIds, Known
  <2>3. ASSUME NEW h \in Handlers, NEW c \in Cards,
               \/ CardDel(h, c)
               \/ \E l \in Models \cup {Blank} : CardWrite(h, c, l) \/ UpdateCardLink(h, c, l)
        PROVE  Typed'
    BY <2>1, <2>3 DEF CardDel, CardWrite, UpdateCardLink, dir, Typed, TypeOK, KnownIds, Known
  <2>4. CASE Restart
    BY <2>1, <2>4, IdleType DEF Restart, Idle, db, dir, Typed, TypeOK, KnownIds, Known
  <2> QED
    BY <1>2, <2>1, <2>2, <2>3, <2>4, ModelWriteTyped, CleanTyped DEF Next, Step
<1> QED
  BY <1>1, <1>2

LEMMA InitTyped == Init => Typed
<1>1. Init => overlapped \in BOOLEAN
  BY Zenon DEF Init
<1> QED
  BY <1>1, IdleType DEF Init, Typed, TypeOK, KnownIds, BlankRow, Rows

LEMMA TypedInvariant == Spec => []Typed
BY InitTyped, StepTyped, PTL DEF Spec

\* Every reachable state is well-typed; in particular a row is stored only under
\* an id that NewV4 will not return again.
THEOREM TypeCorrect == Spec => []TypeOK
<1>1. Typed => TypeOK
  BY DEF Typed
<1> QED
  BY <1>1, TypedInvariant, PTL
-----------------------------------------------------------------------------
(* What the cleaner is about to remove, for any number of handlers.          *)

SparedOf(h) ==
  /\ inUse[h] \subseteq Referenced
  /\ req[h].pc = "remove" => inUse[h] \cap req[h].todo = {}

Spared == \A h \in Handlers : SparedOf(h)

\* A request that cleans works through its list and adds nothing to it, unless
\* it has just listed the files or scanned the rows.
LEMMA PhaseStep ==
  ASSUME Typed, Next, NEW h \in Handlers, req'[h].pc \in {"scan", "remove"}
  PROVE  \/ req'[h].pc = req[h].pc /\ req'[h].todo \subseteq req[h].todo
         \/ req'[h].pc = "scan" /\ At(h, "idle") /\ UNCHANGED <<models, row>>
         \/ req[h].pc = "scan" /\ req'[h].todo \cap Referenced = {}
<1> DEFINE Kept == req'[h].pc = req[h].pc /\ req'[h].todo \subseteq req[h].todo
           Lists == req'[h].pc = "scan" /\ At(h, "idle") /\ UNCHANGED <<models, row>>
           Scans == req[h].pc = "scan" /\ req'[h].todo \cap Referenced = {}
<1> USE DEF Typed, TypeOK
<1>0. req \in [Handlers -> Requests] /\ req[h] \in Requests
  OBVIOUS
<1>1. ASSUME req' = req
      PROVE  Kept
  BY <1>1
<1>2. ASSUME NEW g \in Handlers, NEW r, req' = [req EXCEPT ![g] = r],
             r.pc \notin {"scan", "remove"}
      PROVE  Kept
  BY <1>0, <1>2
<1>3. ASSUME NEW g \in Handlers, NEW m \in Models \cup {Blank, Malformed}, NEW f \in Rows,
             Submit(g, m, f)
      PROVE  Kept
  BY <1>2, <1>3 DEF Submit, Idle
<1>4. ASSUME NEW g \in Handlers, Finish(g)
      PROVE  Kept
  BY <1>2, <1>4 DEF Finish, Idle
<1>5. ASSUME NEW g \in Handlers, NEW m, NEW r, Put(g, m, r)
      PROVE  Kept
  <2>1. [req[g] EXCEPT !.pc = "put", !.id = m, !.open = {}, !.row = r].pc = "put"
    BY <1>0 DEF Requests
  <2> QED
    BY <1>2, <1>5, <2>1 DEF Put
<1>6. ASSUME NEW g \in Handlers, ModelEdit(g)
      PROVE  Kept
  <2>1. [req[g] EXCEPT !.pc = "lookup", !.open = {}].pc = "lookup"
    BY <1>0 DEF Requests
  <2> QED
    BY <1>2, <1>6, <2>1 DEF ModelEdit
<1>7. ASSUME NEW g \in Handlers, CleanList(g)
      PROVE  Kept \/ Lists
  <2>1. [Idle EXCEPT !.pc = "scan", !.todo = files].pc = "scan"
    BY DEF Idle
  <2> QED
    BY <1>0, <1>7, <2>1 DEF CleanList, At, db
<1>8. ASSUME NEW g \in Handlers, CleanScan(g)
      PROVE  Kept \/ Scans
  BY <1>0, <1>8 DEF CleanScan, At, RemainImages, Requests, db
<1>9. ASSUME NEW g \in Handlers, NEW i \in Images, CleanRemove(g, i)
      PROVE  Kept
  <2> DEFINE done == [req EXCEPT ![g].todo = @ \ {i}]
  <2>1. done[h] \in Requests /\ done[h].pc = req[h].pc /\ done[h].todo \subseteq req[h].todo
    BY <1>0 DEF Requests
  <2> HIDE DEF done
  <2>2. \/ req'[h] = done[h]
        \/ req'[h] = [done[h] EXCEPT !.open = @ \ {i}]
    BY <1>9 DEF CleanRemove, done
  <2>3. req'[h].pc = done[h].pc /\ req'[h].todo = done[h].todo
    BY <2>1, <2>2 DEF Requests
  <2> QED
    BY <2>1, <2>3
<1>10. ASSUME Restart
       PROVE  Kept
  BY <1>10 DEF Restart, Idle
<1> QED
  BY <1>1, <1>3, <1>4, <1>5, <1>6, <1>7, <1>8, <1>9, <1>10
     DEF Next, Step, StoreFail, ModelNew, EditLookup, ModelAddLink, ModelDelLink, CleanDone,
         CardDel, CardWrite, UpdateCardLink

LEMMA StepSpared == Typed /\ Spared /\ [Next]_vars => Spared'
<1> SUFFICES ASSUME Typed, Spared, [Next]_vars, NEW h \in Handlers PROVE SparedOf(h)'
  BY DEF Spared
<1>1. CASE UNCHANGED vars
  BY <1>1 DEF vars, Spared, SparedOf, Referenced
<1>2. CASE Next
  <2>1. /\ req'[h].pc \notin {"scan", "remove"} => inUse'[h] = {}
        /\ req'[h].pc \in {"scan", "remove"} /\ At(h, "idle") => inUse'[h] = Referenced
        /\ req'[h].pc \in {"scan", "remove"} /\ ~At(h, "idle")
             => inUse'[h] = inUse[h] \cap Referenced'
    BY <1>2 DEF Next, Watch
  <2>2. CASE req'[h].pc \notin {"scan", "remove"}
    <3>1. inUse'[h] = {}
      BY <2>1, <2>2
    <3> QED
      BY <2>2, <3>1 DEF SparedOf
  <2>3. CASE req'[h].pc \in {"scan", "remove"} /\ ~At(h, "idle")
    <3>1. inUse'[h] = inUse[h] \cap Referenced'
      BY <2>1, <2>3
    <3>2. CASE req'[h].pc = "remove"
      <4>1. CASE req[h].pc = "remove" /\ req'[h].todo \subseteq req[h].todo
        BY <3>1, <4>1 DEF Spared, SparedOf
      <4>2. CASE req'[h].todo \cap Referenced = {}
        BY <3>1, <4>2 DEF Spared, SparedOf
      <4> QED
        BY <1>2, <3>2, <4>1, <4>2, PhaseStep DEF Next
    <3> QED
      BY <2>3, <3>1, <3>2 DEF SparedOf
  <2>4. CASE req'[h].pc \in {"scan", "remove"} /\ At(h, "idle")
    <3>1. req'[h].pc = "scan" /\ UNCHANGED <<models, row>>
      BY <1>2, <2>4, PhaseStep DEF Next, At
    <3>2. inUse'[h] = Referenced /\ Referenced' = Referenced
      BY <2>1, <2>4, <3>1 DEF Referenced
    <3> QED
      BY <3>1, <3>2 DEF SparedOf
  <2> QED
    BY <2>2, <2>3, <2>4
<1> QED
  BY <1>1, <1>2

\* However many uploads, edits and clean-ups overlap, none removes an image that
\* has been in use all through the clean-up.
THEOREM CleanIsSafe == Spec => CleanSparesInUse
<1> DEFINE Safe == \A h \in Handlers, i \in Images : CleanRemove(h, i) => i \notin inUse[h]
<1>1. Init => Spared
  BY DEF Init, Idle, Spared, SparedOf
<1>2. Spared /\ [Next]_vars => [Safe]_vars
  BY DEF Spared, SparedOf, CleanRemove, At
<1> QED
  BY <1>1, <1>2, InitTyped, StepTyped, StepSpared, PTL DEF Spec, CleanSparesInUse
-----------------------------------------------------------------------------
(* Until two requests overlap; any of them may be cut short.  An overlap      *)
(* breaks every part of this: an image goes between upload and row, and the   *)
(* row an edit read is out of date.                                         *)

StillTrueOf(h) ==
  LET r == req[h]
  IN /\ r.pc = "store" => r.open = ToWrite(r.form) /\ r.open \subseteq files
     /\ r.pc = "lookup" => ToWrite(r.form) \subseteq files \ damaged
     /\ r.pc = "put" =>
          /\ ToWrite(r.row) \subseteq Referenced \cup (files \ damaged)
          /\ r.id \in models =>
               /\ r.form.name = Blank => r.row.name = row[r.id].name
               /\ r.form.image = Blank => r.row.image = row[r.id].image
     /\ r.pc = "remove" => r.todo \cap Referenced = {}

StillTrue == \A h \in Handlers : StillTrueOf(h)

\* At most one handler is busy.
OneBusy == \A g, h \in Handlers : ~At(g, "idle") /\ ~At(h, "idle") => g = h

Undisturbed == RowsHaveImages /\ StillTrue /\ OneBusy

SerialInv == Typed /\ (~overlapped => Undisturbed)

\* A step of one handler leaves the others where they are.
LEMMA OthersWait ==
  ASSUME Typed, NEW h \in Handlers, Step(h), NEW g \in Handlers \ {h}
  PROVE  req'[g].pc = req[g].pc
<1> USE DEF Typed, TypeOK
<1>1. ASSUME NEW i \in Images, CleanRemove(h, i)
      PROVE  req'[g].pc = req[g].pc
  BY <1>1 DEF CleanRemove, Requests
<1>2. CASE StoreFail(h) \/ ModelNew(h) \/ ModelEdit(h) \/ EditLookup(h) \/ ModelAddLink(h)
  BY <1>2 DEF StoreFail, ModelNew, ModelEdit, EditLookup, ModelAddLink, Finish, Put
<1> QED
  BY <1>1, <1>2 DEF Step, Submit, ModelDelLink, CleanList, CleanScan, CleanDone, Finish,
     CardDel, CardWrite, UpdateCardLink

LEMMA UploadKeepsSerial ==
  ASSUME NEW h \in Handlers, Typed, Undisturbed,
         \/ \E m \in Models \cup {Blank, Malformed}, f \in Rows : Submit(h, m, f)
         \/ StoreFail(h) \/ ModelNew(h) \/ ModelEdit(h)
  PROVE  RowsHaveImages' /\ StillTrueOf(h)'
<1> USE DEF Undisturbed, Typed, TypeOK, RowsHaveImages, StillTrue
<1>a. UNCHANGED <<models, row>>
  BY DEF Submit, StoreFail, ModelNew, ModelEdit, db
<1>0. Referenced' = Referenced /\ req[h] \in Requests /\ models' = models
  BY <1>a DEF Referenced
<1>1. ASSUME NEW m \in Models \cup {Blank, Malformed}, NEW f \in Rows, Submit(h, m, f)
      PROVE  RowsHaveImages' /\ StillTrueOf(h)'
  <2>1. files' = files \cup ToWrite(f)
    BY <1>1 DEF Submit
  <2>2. req'[h].pc = "store" /\ req'[h].form = f /\ req'[h].open = ToWrite(f)
    BY <1>1 DEF Submit, Idle
  <2>3. StillTrueOf(h)'
    BY <2>1, <2>2 DEF StillTrueOf, ToWrite
  <2> QED
    BY <1>0, <2>1, <2>3
<1>2. ASSUME Finish(h), files' = files
      PROVE  RowsHaveImages' /\ StillTrueOf(h)'
  BY <1>0, <1>2 DEF Finish, Idle, StillTrueOf
<1>3. CASE StoreFail(h)
  BY <1>2, <1>3 DEF StoreFail, dir
<1>4. ASSUME StoreImage(h)
      PROVE  files' = files /\ ToWrite(req[h].form) \subseteq files' \ damaged'
  BY <1>4 DEF StoreImage, At, StillTrueOf
<1>5. CASE ModelNew(h)
  <2>1. ASSUME NEW m \in Models \ known, Put(h, m, req[h].form)
        PROVE  RowsHaveImages' /\ StillTrueOf(h)'
    <3>1. /\ req'[h].pc = "put" /\ req'[h].id = m /\ req'[h].row = req[h].form
      BY <1>0, <2>1 DEF Put, Requests
    <3>2. m \notin models'
      BY <1>0
    <3>3. StillTrueOf(h)'
      BY <1>4, <1>5, <3>1, <3>2 DEF ModelNew, StillTrueOf
    <3> QED
      BY <1>0, <1>4, <1>5, <3>3 DEF ModelNew
  <2> QED
    BY <1>2, <1>4, <1>5, <2>1 DEF ModelNew
<1>6. CASE ModelEdit(h)
  <2>1. req'[h].pc = "lookup" /\ req'[h].form = req[h].form
    BY <1>0, <1>6 DEF ModelEdit, Requests
  <2>2. StillTrueOf(h)'
    BY <1>4, <1>6, <2>1 DEF ModelEdit, StillTrueOf
  <2> QED
    BY <1>0, <1>4, <1>6, <2>2 DEF ModelEdit
<1> QED
  BY <1>1, <1>3, <1>5, <1>6

LEMMA EditKeepsSerial ==
  ASSUME NEW h \in Handlers, Typed, Undisturbed, EditLookup(h) \/ ModelAddLink(h)
  PROVE  RowsHaveImages' /\ StillTrueOf(h)'
<1> USE DEF Undisturbed, Typed, TypeOK, RowsHaveImages, StillTrue
<1>1. CASE EditLookup(h)
  <2> DEFINE r == req[h]
             new == IF r.id \in models THEN Merge(r.form, row[r.id]) ELSE r.form
  <2>1. /\ r \in Requests /\ r.pc = "lookup"
        /\ UNCHANGED <<models, row, files, damaged>> /\ Referenced' = Referenced
    BY <1>1 DEF EditLookup, At, db, dir, Referenced
  <2>2. /\ req'[h].pc = "put" /\ req'[h].id = r.id
        /\ req'[h].form = r.form /\ req'[h].row = new
    BY <1>1, <2>1 DEF EditLookup, Put, Requests
  <2>3. ToWrite(r.form) \subseteq files \ damaged
    BY <2>1 DEF StillTrueOf
  <2>4. CASE r.id \in models
    <3>1. /\ new.name = IF r.form.name = Blank THEN row[r.id].name ELSE r.form.name
          /\ new.image = IF r.form.image = Blank THEN row[r.id].image ELSE r.form.image
      BY <2>4 DEF Merge
    <3>2. row[r.id].image = Blank \/ row[r.id].image \in Referenced
      BY <2>4 DEF Referenced
    <3> HIDE DEF new
    <3>3. ToWrite(new) \subseteq Referenced \cup (files \ damaged)
      BY <2>3, <3>1, <3>2 DEF ToWrite
    <3>4. StillTrueOf(h)'
      BY <2>1, <2>2, <3>1, <3>3 DEF StillTrueOf
    <3> QED
      BY <2>1, <3>4
  <2>5. CASE r.id \notin models
    <3>1. StillTrueOf(h)'
      BY <2>1, <2>2, <2>3, <2>5 DEF StillTrueOf
    <3> QED
      BY <2>1, <3>1
  <2> QED
    BY <2>4, <2>5
<1>2. CASE ModelAddLink(h)
  <2>1. /\ ToWrite(req[h].row) \subseteq files
        /\ files' = files /\ req'[h].pc = "idle"
    BY <1>2 DEF ModelAddLink, At, Finish, Idle, StillTrueOf, dir
  <2>2. \A m \in models' : \/ m \in models /\ row'[m].image = row[m].image
                           \/ row'[m].image = req[h].row.image
    BY <1>2 DEF ModelAddLink, At, KnownIds, Known
  <2>3. RowsHaveImages'
    BY <2>1, <2>2 DEF Referenced, ToWrite
  <2>4. StillTrueOf(h)'
    BY <2>1 DEF StillTrueOf
  <2> QED
    BY <2>3, <2>4
<1> QED
  BY <1>1, <1>2

LEMMA CleanKeepsSerial ==
  ASSUME NEW h \in Handlers, Typed, Undisturbed,
         \/ CleanList(h) \/ CleanScan(h) \/ CleanDone(h)
         \/ \E i \in Images : CleanRemove(h, i)
  PROVE  RowsHaveImages' /\ StillTrueOf(h)'
<1> USE DEF Undisturbed, Typed, TypeOK, RowsHaveImages, StillTrue
<1>a. UNCHANGED <<models, row>>
  BY DEF CleanList, CleanScan, CleanDone, CleanRemove, db
<1>0. Referenced' = Referenced
  BY <1>a DEF Referenced
<1>1. CASE CleanList(h)
  BY <1>0, <1>1 DEF CleanList, Idle, StillTrueOf, dir
<1>2. CASE CleanScan(h)
  <2>1. req'[h].pc = "remove" /\ req'[h].todo \cap Referenced = {} /\ files' = files
    BY <1>2 DEF CleanScan, At, RemainImages, Requests, dir
  <2> QED
    BY <1>0, <2>1 DEF StillTrueOf
<1>3. CASE CleanDone(h)
  BY <1>0, <1>3 DEF CleanDone, Finish, Idle, StillTrueOf, dir
<1>4. ASSUME NEW i \in Images, CleanRemove(h, i)
      PROVE  RowsHaveImages' /\ StillTrueOf(h)'
  <2> DEFINE done == [req EXCEPT ![h].todo = @ \ {i}]
  <2>1. req[h].todo \cap Referenced = {} /\ i \in req[h].todo
    BY <1>4 DEF CleanRemove, At, StillTrueOf
  <2>2. done[h] \in Requests /\ done[h].pc = "remove" /\ done[h].todo = req[h].todo \ {i}
    BY <1>4 DEF CleanRemove, At, Requests
  <2> HIDE DEF done
  <2>3. /\ req'[h] = done[h] \/ req'[h] = [done[h] EXCEPT !.open = @ \ {i}]
        /\ files' = files \/ files' = files \ {i}
    BY <1>4 DEF CleanRemove, done, dir
  <2>4. req'[h].pc = "remove" /\ req'[h].todo = req[h].todo \ {i}
    BY <2>2, <2>3 DEF Requests
  <2> QED
    BY <1>0, <2>1, <2>3, <2>4 DEF StillTrueOf
<1> QED
  BY <1>1, <1>2, <1>3, <1>4

LEMMA OtherKeepsSerial ==
  ASSUME NEW h \in Handlers, Typed, Undisturbed,
         \/ \E m \in Models : ModelDelLink(h, m)
         \/ \E c \in Cards : \/ CardDel(h, c)
                             \/ \E l \in Models \cup {Blank} :
                                  CardWrite(h, c, l) \/ UpdateCardLink(h, c, l)
  PROVE  RowsHaveImages' /\ StillTrueOf(h)'
<1>1. ASSUME NEW m \in Models, ModelDelLink(h, m)
      PROVE  /\ req[h].pc = "idle" /\ req' = req /\ files' = files
             /\ Referenced' \subseteq Referenced
  BY <1>1 DEF ModelDelLink, At, Referenced, Typed, TypeOK, dir
<1>2. ASSUME NEW c \in Cards,
             \/ CardDel(h, c)
             \/ \E l \in Models \cup {Blank} : CardWrite(h, c, l) \/ UpdateCardLink(h, c, l)
      PROVE  req[h].pc = "idle" /\ UNCHANGED <<req, files, Referenced>>
  BY <1>2 DEF CardDel, CardWrite, UpdateCardLink, At, Referenced, dir
<1> QED
  BY <1>1, <1>2 DEF Undisturbed, RowsHaveImages, StillTrueOf

LEMMA StepSerial == SerialInv /\ [Next]_vars => SerialInv'
<1> SUFFICES ASSUME SerialInv, [Next]_vars, ~overlapped' PROVE Undisturbed'
  BY StepTyped DEF SerialInv
<1>1. Typed
  BY DEF SerialInv
<1>2. CASE UNCHANGED vars
  BY <1>2 DEF vars, Referenced, SerialInv, Undisturbed, RowsHaveImages, StillTrue,
     StillTrueOf, OneBusy, At
<1>3. CASE Restart /\ UNCHANGED overlapped
  <2>1. Undisturbed /\ \A h \in Handlers : req'[h].pc = "idle"
    BY <1>3 DEF SerialInv, Restart, Idle
  <2>2. UNCHANGED <<files, Referenced>>
    BY <1>3 DEF Restart, Referenced, db, dir
  <2> QED
    BY <2>1, <2>2 DEF Undisturbed, RowsHaveImages, StillTrue, StillTrueOf, OneBusy, At
<1>4. ASSUME NEW h \in Handlers, Step(h), Overlap(h)
      PROVE  Undisturbed'
  <2>1. ~overlapped /\ \A g \in Handlers \ {h} : At(g, "idle")
    BY <1>4 DEF Overlap
  <2>2. Undisturbed
    BY <2>1 DEF SerialInv
  <2>3. RowsHaveImages' /\ StillTrueOf(h)'
    BY <1>1, <1>4, <2>2, UploadKeepsSerial, EditKeepsSerial, CleanKeepsSerial,
       OtherKeepsSerial DEF Step
  <2>4. \A g \in Handlers \ {h} : req'[g].pc = "idle"
    BY <1>1, <1>4, <2>1, OthersWait DEF At
  <2> QED
    BY <2>3, <2>4 DEF Undisturbed, StillTrue, StillTrueOf, OneBusy, At
<1> QED
  BY <1>2, <1>3, <1>4 DEF Next

LEMMA SerialInvariant == Spec => []SerialInv
<1>1. Init => Undisturbed
  BY DEF Init, Idle, RowsHaveImages, Referenced, StillTrue, StillTrueOf, OneBusy, At,
     Undisturbed
<1>2. Init => SerialInv
  BY <1>1, InitTyped DEF SerialInv
<1> QED
  BY <1>2, StepSerial, PTL DEF Spec

\* Until requests overlap, those cut short anywhere leave no row without its
\* image.
THEOREM ImagesKept == Spec => []ImagesPresent
<1>1. SerialInv => ImagesPresent
  BY DEF SerialInv, Undisturbed, ImagesPresent
<1> QED
  BY <1>1, SerialInvariant, PTL

\* Only ModelAddLink makes a model refer to an image.
LEMMA RowsKept ==
  ASSUME TypeOK, Next, \A h \in Handlers : ~ModelAddLink(h)
  PROVE  Referenced' \subseteq Referenced
<1>1. ASSUME UNCHANGED <<models, row>>
      PROVE  Referenced' \subseteq Referenced
  BY <1>1 DEF Referenced
<1>2. ASSUME NEW h \in Handlers, NEW m \in Models, ModelDelLink(h, m)
      PROVE  Referenced' \subseteq Referenced
  BY <1>2 DEF ModelDelLink, Referenced, TypeOK
<1> QED
  BY <1>1, <1>2 DEF Next, Step, Submit, StoreFail, ModelNew, ModelEdit, EditLookup,
     CleanList, CleanScan, CleanDone, CleanRemove, CardDel, CardWrite, UpdateCardLink,
     Restart, db

\* What a step says that does not bring an overlap about.
LEMMA NotYet ==
  ASSUME SerialInv, Next, ~overlapped'
  PROVE  Undisturbed
<1>1. ASSUME NEW h \in Handlers, Overlap(h)
      PROVE  ~overlapped
  BY <1>1 DEF Overlap
<1>2. ~overlapped
  BY <1>1 DEF Next
<1> QED
  BY <1>2 DEF SerialInv

\* Until requests overlap, a model comes to refer to an image only when the whole
\* of it is there, whatever uploads were cut short before.
THEOREM WholeImages == Spec => ReferredWhole
<1> DEFINE Whole == ~overlapped' => \A i \in Referenced' \ Referenced : i \in files' \ damaged'
<1>1. SerialInv /\ [Next]_vars => [Whole]_vars
  <2> SUFFICES ASSUME SerialInv, Next, ~overlapped', NEW i \in Referenced', i \notin Referenced
               PROVE  i \in files' \ damaged'
    OBVIOUS
  <2>1. ASSUME NEW h \in Handlers, ModelAddLink(h)
        PROVE  i \in files' \ damaged'
    <3>1. i = req[h].row.image /\ i # Blank
      BY <2>1 DEF ModelAddLink, Referenced, SerialInv, Typed, TypeOK, KnownIds, Known, At
    <3>2. ToWrite(req[h].row) \subseteq Referenced \cup (files \ damaged)
      BY <2>1, NotYet DEF ModelAddLink, At, Undisturbed, StillTrue, StillTrueOf
    <3> QED
      BY <2>1, <3>1, <3>2 DEF ModelAddLink, ToWrite, dir
  <2>2. CASE \A h \in Handlers : ~ModelAddLink(h)
    <3>1. Referenced' \subseteq Referenced
      BY <2>2, RowsKept DEF SerialInv, Typed
    <3> QED
      BY <3>1
  <2> QED
    BY <2>1, <2>2
<1> QED
  BY <1>1, SerialInvariant, PTL DEF ReferredWhole, Spec

\* Until requests overlap, an edit changes no field the form left empty.
THEOREM EditsMerge == Spec => EditKeepsRest
<1> DEFINE Kept == \A h \in Handlers, m \in models, fld \in {"name", "image"} :
                     ~overlapped' /\ ModelAddLink(h) /\ m = req[h].id /\ req[h].form[fld] = Blank
                       => row'[m][fld] = row[m][fld]
<1>1. SerialInv /\ [Next]_vars => [Kept]_vars
  <2> SUFFICES ASSUME SerialInv, Next, NEW h \in Handlers, req[h].id \in models,
                      NEW fld \in {"name", "image"}, ~overlapped',
                      ModelAddLink(h), req[h].form[fld] = Blank
               PROVE  row'[req[h].id][fld] = row[req[h].id][fld]
    OBVIOUS
  <2>1. row'[req[h].id] = req[h].row
    BY DEF ModelAddLink, SerialInv, Typed, TypeOK
  <2>2. req[h].row[fld] = row[req[h].id][fld]
    BY NotYet DEF ModelAddLink, At, Undisturbed, StillTrue, StillTrueOf
  <2> QED
    BY <2>1, <2>2
<1> QED
  BY <1>1, SerialInvariant, PTL DEF EditKeepsRest, Spec
=============================================================================
