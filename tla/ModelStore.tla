------------------------------ MODULE ModelStore ------------------------------
(***************************************************************************)
(* The models that cards link to, and their image files: modelwrite (new,  *)
(* edit, delete), modelimgclean, and the link field of the card records    *)
(* (cardwrite, cardlinkset, carddel).                                      *)
(*                                                                         *)
(* Models and cards live in one bbolt file; images are files named by the  *)
(* hash of their content, outside any transaction.  modelwrite truncates   *)
(* and fills the image file, reads the row, then writes it; modelimgclean  *)
(* lists the files, reads the rows, then removes files one by one.  Each   *)
(* of these steps is an action, and another handler or a restart may come  *)
(* in between.  A row is abstracted to its name and image; desc is treated *)
(* as name is.                                                             *)
(***************************************************************************)
EXTENDS Naturals, FiniteSets

CONSTANTS Models,          \* model ids (UUIDs) that may ever be used (bound)
          ModelNames,      \* names a form may carry
          Images,          \* image contents, standing for their hashes
          Cards,           \* card uids
          Handlers,        \* requests in progress at once (bound)
          Blank,           \* an empty form field; also a link to no model
          Malformed        \* an id that has not the length of a UUID

ASSUME BlankAssumption ==
  /\ Blank \notin Models \cup ModelNames \cup Images
  /\ Malformed \notin Models \cup {Blank}

VARIABLES models,          \* the keys of bucket link-data
          row,             \* and their rows
          cards, link,     \* the keys of the card bucket and their link field
          files, damaged,  \* the files of the image directory, and those cut short
          known,           \* ids NewV4 has returned or a request has named
          req,             \* req[h]: the request handler h is serving
          inUse,           \* history: images in use all through the clean-up of h
          overlapped       \* history: a handler has moved while another was busy

db == <<models, row, cards, link>>
dir == <<files, damaged>>
vars == <<models, row, cards, link, files, damaged, known, req, inUse, overlapped>>

Rows == [name : ModelNames \cup {Blank}, image : Images \cup {Blank}]
BlankRow == [name |-> Blank, image |-> Blank]

\* The id a handler works on, the form it was sent, the file of the directory
\* it is writing, the row it is to write and the files it is to remove.
Requests == [pc : {"idle", "store", "lookup", "put", "scan", "remove"},
             id : Models \cup {Blank, Malformed}, form : Rows,
             open : SUBSET Images, row : Rows, todo : SUBSET Images]
Idle == [pc |-> "idle", id |-> Blank, form |-> BlankRow, open |-> {},
         row |-> BlankRow, todo |-> {}]

TypeOK ==
  /\ models \subseteq known /\ known \subseteq Models
  /\ row \in [Models -> Rows]
  /\ cards \subseteq Cards
  /\ link \in [Cards -> Models \cup {Blank}]
  /\ damaged \subseteq files /\ files \subseteq Images
  /\ req \in [Handlers -> Requests]
  /\ inUse \in [Handlers -> SUBSET Images]
  /\ overlapped \in BOOLEAN

Init ==
  /\ models = {} /\ known = {} /\ row = [m \in Models |-> BlankRow]
  /\ cards = {} /\ link = [c \in Cards |-> Blank]
  /\ files = {} /\ damaged = {}
  /\ req = [h \in Handlers |-> Idle]
  /\ inUse = [h \in Handlers |-> {}]
  /\ overlapped = FALSE

At(h, pc) == req[h].pc = pc
Finish(h) == req' = [req EXCEPT ![h] = Idle]

Referenced == {row[m].image : m \in models} \ {Blank}
Linked(m) == \E c \in cards : link[c] = m

-----------------------------------------------------------------------------
(* modelWrite.  The image of the form is stored before anything is checked.*)

\* mutants: an image is not stored, or not if there is a file of its name
ToWriteNone(f) == {}
ToWriteNew(f) == {f.image} \ (files \cup {Blank})

ToWrite(f) == {f.image} \ {Blank}

\* os.WriteFile creates the file or truncates the one there is.  An id may be
\* that of a model, of one that is gone or never was, or none.
Submit(h, m, f) ==
  /\ At(h, "idle")
  /\ files' = files \cup ToWrite(f)
  /\ damaged' = damaged \cup ToWrite(f)
  /\ known' = known \cup ({m} \cap Models)
  /\ req' = [req EXCEPT ![h] = [Idle EXCEPT !.pc = "store", !.id = m, !.form = f,
                                             !.open = ToWrite(f)]]
  /\ UNCHANGED db

\* The write that follows fails (the disk is full): the request does, too.
StoreFail(h) ==
  /\ At(h, "store")
  /\ req[h].form.image # Blank
  /\ Finish(h)
  /\ UNCHANGED <<db, dir, known>>

\* The file is filled, whether or not it is still in the directory.
StoreImage(h) ==
  /\ At(h, "store")
  /\ damaged' = damaged \ req[h].open
  /\ UNCHANGED files

Put(h, m, r) ==
  req' = [req EXCEPT ![h] = [@ EXCEPT !.pc = "put", !.id = m, !.open = {}, !.row = r]]

\* A form without an id makes a new model, if it has a name; so does one with an
\* id that is none, whatever its name.  NewV4 may fail.  (One with an id of the
\* right length that is no UUID is refused, as one without id and name.)
ModelNew(h) ==
  /\ req[h].id \in {Blank, Malformed}
  /\ StoreImage(h)
  /\ \/ /\ Finish(h)
        /\ UNCHANGED known
     \/ /\ req[h].id = Malformed \/ req[h].form.name # Blank
        /\ \E m \in Models \ known :
             /\ known' = known \cup {m}
             /\ Put(h, m, req[h].form)
  /\ UNCHANGED db

\* A form with an id edits that model, which may be gone by now, or never was.
ModelEdit(h) ==
  /\ req[h].id \in Models
  /\ StoreImage(h)
  /\ req' = [req EXCEPT ![h] = [@ EXCEPT !.pc = "lookup", !.open = {}]]
  /\ UNCHANGED <<db, known>>

MergeForm(f, old) == f             \* mutant: blank fields are written

\* A blank field keeps the value of the row.
Merge(f, old) == [name  |-> IF f.name = Blank THEN old.name ELSE f.name,
                  image |-> IF f.image = Blank THEN old.image ELSE f.image]

EditLookup(h) ==
  /\ At(h, "lookup")
  /\ Put(h, req[h].id, IF req[h].id \in models
                         THEN Merge(req[h].form, row[req[h].id]) ELSE req[h].form)
  /\ UNCHANGED <<db, dir, known>>

\* ModelAddLink writes the row, whether or not the model is still there.
ModelAddLink(h) ==
  /\ At(h, "put")
  /\ models' = models \cup {req[h].id}
  /\ row' = [row EXCEPT ![req[h].id] = req[h].row]
  /\ Finish(h)
  /\ UNCHANGED <<cards, link, dir, known>>

ModelDelLinkAny(h, m) ==           \* mutant: the cards are not looked at
  /\ At(h, "idle")
  /\ m \in models
  /\ models' = models \ {m}
  /\ row' = [row EXCEPT ![m] = BlankRow]
  /\ UNCHANGED <<cards, link, dir, known, req>>

\* ModelDelLink: refused while a card links to the model.
ModelDelLink(h, m) ==
  /\ At(h, "idle")
  /\ m \in models
  /\ ~Linked(m)
  /\ models' = models \ {m}
  /\ row' = [row EXCEPT ![m] = BlankRow]
  /\ UNCHANGED <<cards, link, dir, known, req>>

-----------------------------------------------------------------------------
(* modelImgClean.                                                          *)

CleanList(h) ==
  /\ At(h, "idle")
  /\ req' = [req EXCEPT ![h] = [Idle EXCEPT !.pc = "scan", !.todo = files]]
  /\ UNCHANGED <<db, dir, known>>

RemainImagesAll(s) == s            \* mutant: no image is spared

\* ModelGetRemainImages: the images no model refers to.
RemainImages(s) == s \ Referenced

CleanScan(h) ==
  /\ At(h, "scan")
  /\ req' = [req EXCEPT ![h].pc = "remove", ![h].todo = RemainImages(@)]
  /\ UNCHANGED <<db, dir, known>>

\* os.Remove may fail, and its error is dropped.  Who has the file open writes
\* on, to a file that has no name any more.
CleanRemove(h, i) ==
  /\ At(h, "remove")
  /\ i \in req[h].todo
  /\ LET done == [req EXCEPT ![h].todo = @ \ {i}]
     IN \/ /\ files' = files \ {i} /\ damaged' = damaged \ {i}
           /\ req' = [g \in Handlers |-> [done[g] EXCEPT !.open = @ \ {i}]]
        \/ /\ req' = done
           /\ UNCHANGED dir
  /\ UNCHANGED <<db, known>>

CleanDone(h) ==
  /\ At(h, "remove")
  /\ req[h].todo = {}
  /\ Finish(h)
  /\ UNCHANGED <<db, dir, known>>

-----------------------------------------------------------------------------
(* The link of a card.                                                     *)

\* WriteCardData takes any link; cardlinkset only that of a model.
CardWrite(h, c, l) ==
  /\ At(h, "idle")
  /\ cards' = cards \cup {c}
  /\ link' = [link EXCEPT ![c] = l]
  /\ known' = known \cup ({l} \ {Blank})
  /\ UNCHANGED <<models, row, dir, req>>

UpdateCardLink(h, c, l) ==
  /\ At(h, "idle")
  /\ c \in cards
  /\ l \in models
  /\ link' = [link EXCEPT ![c] = l]
  /\ UNCHANGED <<models, row, cards, dir, known, req>>

CardDel(h, c) ==
  /\ At(h, "idle")
  /\ c \in cards
  /\ cards' = cards \ {c}
  /\ link' = [link EXCEPT ![c] = Blank]
  /\ UNCHANGED <<models, row, dir, known, req>>

Restart ==
  /\ \E h \in Handlers : ~At(h, "idle")
  /\ req' = [h \in Handlers |-> Idle]
  /\ UNCHANGED <<db, dir, known>>

\* Whatever the step, what is still in use of what was when a clean-up began.
Watch ==
  inUse' = [h \in Handlers |->
    IF req'[h].pc \in {"scan", "remove"}
      THEN IF At(h, "idle") THEN Referenced ELSE inUse[h] \cap Referenced'
      ELSE {}]

Overlap(h) == overlapped' = (overlapped \/ \E g \in Handlers \ {h} : ~At(g, "idle"))

Step(h) ==
  \/ \E m \in Models \cup {Blank, Malformed}, f \in Rows : Submit(h, m, f)
  \/ StoreFail(h) \/ ModelNew(h) \/ ModelEdit(h)
  \/ EditLookup(h) \/ ModelAddLink(h)
  \/ \E m \in Models : ModelDelLink(h, m)
  \/ CleanList(h) \/ CleanScan(h) \/ CleanDone(h)
  \/ \E i \in Images : CleanRemove(h, i)
  \/ \E c \in Cards : \/ CardDel(h, c)
                      \/ \E l \in Models \cup {Blank} :
                           CardWrite(h, c, l) \/ UpdateCardLink(h, c, l)

Next ==
  /\ \/ \E h \in Handlers : Step(h) /\ Overlap(h)
     \/ Restart /\ UNCHANGED overlapped
  /\ Watch

Spec == Init /\ [][Next]_vars

-----------------------------------------------------------------------------
(* Hold whatever the interleaving.                                         *)

\* A link that resolves goes on resolving until the card is given another or
\* is deleted: no deletion, no late edit of modelwrite takes the model away.
NoLinkBroken ==
  [][\A c \in cards \cap cards' :
       link[c] \in models /\ link'[c] = link[c] => link[c] \in models']_vars

\* modelimgclean works on a list of files and on rows that may both be out of
\* date when it removes a file.  One it removes was out of use at some moment
\* since it began, whatever is uploaded, edited and cleaned meanwhile.
CleanSparesInUse ==
  [][\A h \in Handlers, i \in Images : CleanRemove(h, i) => i \notin inUse[h]]_vars

(* Hold until two requests first overlap; requests may be cut short.        *)

RowsHaveImages == Referenced \subseteq files

\* Every image a model refers to is there.
ImagesPresent == ~overlapped => RowsHaveImages

\* A model comes to refer to an image only when it is there as a whole: an upload
\* cut short leaves a file of the right name, and the next upload of that image
\* must not take it for stored.
ReferredWhole ==
  [][~overlapped' => \A i \in Referenced' \ Referenced : i \in files' \ damaged']_vars

\* "Empty input will not change", says the page: when the edit is written, a
\* field the form left empty is as it is in the row at that moment.
EditKeepsRest ==
  [][\A h \in Handlers, m \in models, fld \in {"name", "image"} :
       ~overlapped' /\ ModelAddLink(h) /\ m = req[h].id /\ req[h].form[fld] = Blank
         => row'[m][fld] = row[m][fld]]_vars

\* Not kept: an image in use that is uploaded again is truncated first, and stays
\* so if the server stops or the write fails.
ImagesWhole == Referenced \cap damaged = {}
=============================================================================
