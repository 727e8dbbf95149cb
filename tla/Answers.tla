-------------------------------- MODULE Answers --------------------------------
(***************************************************************************)
(* What the answers that are functions of what a request reads come to:    *)
(* pages, searches, counters, submitted pictures, and what LRP makes of a  *)
(* key.  A behaviour is one such request, or the requests of one walk      *)
(* through the pages, with everything they read; nothing else happens in it. *)
(***************************************************************************)
EXTENDS Listing, AncientAuth, Lrp, FiniteSets

CONSTANTS Walks,           \* the tables a client's page requests found, in turn
          Searches,        \* a table, its rows that match, links that resolve
          Counters,        \* the bytes of a stored counter
          Submissions,     \* an object, its references on disk, num, the parts
          Macs,            \* a key, and the data to be authenticated with it
          Ciphers          \* a key, a counter, and blocks that a tag encrypts

ASSUME InputsAssumption ==
  /\ \A w \in Walks :
       /\ w.kind = "walk"
       /\ Len(w.tables) \in Nat \ {0} /\ \A i \in 1..Len(w.tables) : w.tables[i] \in Tables
  /\ \A s \in Searches : s.kind = "search" /\ s.table \in Tables
  /\ \A c \in Counters : c.kind = "counter" /\ c.bytes \in Bytes3
  /\ \A s \in Submissions :
       /\ s.kind = "submit" /\ s.num \in Int /\ s.parts \in Seq(Parts)
       /\ s.disk \in [Objects -> [1..2 -> {"none", "ok", "bad"}]]
  /\ \A m \in Macs : m.kind = "mac" /\ m.key \in Block /\ m.data \in Seq(Bit)
  /\ \A c \in Ciphers :
       c.kind = "cipher" /\ c.key \in Block /\ c.r \in Seq(Bit) /\ c.data \in Seq(Block)

VARIABLE in

Inputs == Walks \cup Searches \cup Counters \cup Submissions \cup Macs \cup Ciphers

Init == in \in Inputs
Next == UNCHANGED in
Spec == Init /\ [][Next]_in

-----------------------------------------------------------------------------
\* A client that turns every page of a table that others change meanwhile
\* (each request is a transaction of its own): if nothing is taken away, it is
\* shown every row that was there from the start, and if nothing is added, no
\* row twice.
WalkFaithful ==
  in.kind = "walk" =>
    LET t == in.tables
        Until == Asked(t)
        Grows == \A p \in Until : p > 0 => Keys(t[p]) \subseteq Keys(t[p + 1])
        Shrinks == \A p \in Until : p > 0 => Keys(t[p + 1]) \subseteq Keys(t[p])
    IN /\ WalkDone(t) /\ Grows =>
            Keys(t[1]) \subseteq UNION {Shown(t, p) : p \in Until}
       /\ Shrinks => \A p, q \in Until : p # q => Shown(t, p) \cap Shown(t, q) = {}

\* A search shows the first SearchMax rows that match, in the order of the
\* table, whatever does not match between them.  A search for cards shows none
\* at all exactly if one of those has a link that does not resolve, where the
\* list leaves out the name of the one row.
SearchAnswers ==
  in.kind = "search" =>
    LET found == CardSearchJSON(in.table, in.matches)
        wanted == {i \in 1..Len(in.table) : in.table[i] \in in.matches}
        before(i) == {j \in wanted : j < i}
        first == {in.table[i] : i \in {i \in wanted :
                                  Cardinality(before(i)) < SearchMax}}
        answer == CardSearch(in.table, in.matches, [k \in Keys(in.table) |-> k],
                             [i \in 1..SearchMax |-> in.resolve])
    IN /\ Keys(found) = first
       /\ \A i \in 1..Len(found) - 1 : found[i] < found[i + 1]
       /\ answer = IF first \subseteq in.resolve
                     THEN [msg |-> "OK", rows |-> found]
                     ELSE [msg |-> "FAIL", rows |-> <<>>]
       /\ ModelSearch(in.table, in.matches).items = Cardinality(first)
       /\ LET page(p) == CardData(in.table, p, [k \in Keys(in.table) |-> k],
                                  [i \in 1..ListMax |-> in.resolve])
              named(p) == {page(p).rows[i].id :
                             i \in {i \in 1..Len(page(p).rows) : page(p).rows[i].named}}
          IN /\ UNION {named(p) : p \in 0..page(0).maxpage} =
                  Keys(in.table) \cap in.resolve
             /\ \A p \in 0..page(0).maxpage : page(p).msg = "OK"

\* The pages of the list and the search disagree on the stored read counter as
\* soon as it reaches half a byte's range (128): the list shows it, the search
\* something less.
CounterShown ==
  in.kind = "counter" =>
    LET v == (in.bytes[3] * Byte + in.bytes[2]) * Byte + in.bytes[1]
    IN /\ LittleEndian(in.bytes) = v
       /\ IF v < Byte \div 2 THEN Uvarint(in.bytes) = v ELSE Uvarint(in.bytes) < v

\* Pictures are scored only if each of them could be read and has a reference,
\* and then the answer lies between what the best and the worst of them would
\* get alone.  A picture can be scored if there are references to show.  The
\* pictures stay on the disk exactly if one was stored and the
\* request failed afterwards.
SubmitAnswers ==
  in.kind = "submit" =>
    LET refs == References(in.disk, in.object)
        answer == authSubmit(in.disk, in.object, in.num, in.parts)
        asked == 1..in.num
        ready == in.num <= Len(in.parts) /\ in.num <= Len(refs) /\
                 \A i \in asked : in.parts[i].kind = "picture"
        alone(i) == Final(<<AuthDemo(refs, i, in.parts[i])>>)
        stored == in.num > 0 /\ in.parts # <<>> /\ in.parts[1].kind # "none"
    IN IF in.object \notin Objects \/ in.num = 0 THEN answer.msg # "OK" /\ ~answer.left
       ELSE /\ answer.msg = "OK" <=> ready
            /\ answer.left <=> stored /\ ~ready
            /\ authRef(in.disk, in.object) = "OK" <=>
                 authSubmit(in.disk, in.object, 1,
                            <<[kind |-> "picture", distance |-> 0]>>).msg = "OK"
            /\ ready /\ in.num > 0 =>
                 /\ \E i \in asked : answer.score >= alone(i)
                 /\ \E i \in asked : answer.score <= alone(i)

\* The CMAC is that of its definition, with its subkeys doubled in the field of
\* the polynomial, exactly when the subkey it uses has no leading byte of zeros;
\* else it is one value for all data (xor gives nil), the evaluation of nothing,
\* and the MAC of a SUN does not depend on its counter.
LrpAsSpecified ==
  in.kind = "mac" =>
    LET l == NewLRP(in.key)
        expected(m, x) ==
          IF \A i \in 1..ByteBits : Mask(m, x)[i] = 0
            THEN evalLRP(m, <<>>) ELSE Reference(m, x)
        session == expected(l, in.data)
    IN /\ cmac(l, in.data) = session
       /\ calculateSdmMac(in.key, in.data) = finBytes(expected(NewLRP(session), <<>>))

\* What a tag encrypted is decrypted: always if it is one block, which is all a
\* SUN has, and if it is more, as long as the counter has four bytes.
LrpDecrypts ==
  in.kind = "cipher" /\ (Len(in.data) <= 1 \/ Len(in.r) = CounterBits) =>
    LET l == NewLRP(in.key)
    IN Decrypt(l, in.r, Encrypt(l, in.r, in.data)) = in.data
=============================================================================
