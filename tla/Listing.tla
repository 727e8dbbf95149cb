------------------------------- MODULE Listing -------------------------------
(***************************************************************************)
(* The read-only pages of the card and model tables: GetCardList and       *)
(* ModelLinkListJSON (a page), CardSearchJSON and ModelSearchJSON (a       *)
(* search), with the handlers that call them, and the two ways a stored    *)
(* read counter is decoded.                                                *)
(*                                                                         *)
(* A table is the strictly increasing sequence of its keys, the order in   *)
(* which bbolt's ForEach visits them.  A listing is one read transaction;  *)
(* the names beside it are read in a transaction per row, so the models    *)
(* may differ from row to row.  These are functions of what they read.     *)
(***************************************************************************)
EXTENDS Integers, Sequences

CONSTANTS ListMax,         \* rows of a page (50 in the code)
          SearchMax,       \* rows of a search (50 in the code)
          Byte             \* values of a byte (256 in the code)

ASSUME ListingAssumption ==
  /\ ListMax \in Nat \ {0} /\ SearchMax \in Nat
  /\ Byte \in Nat \ {0, 1} /\ Byte % 2 = 0

Tables == {s \in Seq(Int) : \A i, j \in 1..Len(s) : i < j => s[i] < s[j]}

Keys(table) == {table[i] : i \in 1..Len(table)}

-----------------------------------------------------------------------------
(* Pages.  count is the number of rows visited before this one.             *)

\* mutant: one row too many
WindowInclusive(count, page) ==
  ~(count < page * ListMax \/ count > page * ListMax + ListMax)

InWindow(count, page) ==
  ~(count < page * ListMax \/ count > page * ListMax + ListMax - 1)

\* The rows of one page, in key order.
GetCardList(table, page) ==
  LET visit[n \in 0..Len(table)] ==
        IF n = 0 THEN <<>>
        ELSE IF InWindow(n - 1, page) THEN Append(visit[n - 1], table[n])
             ELSE visit[n - 1]
  IN visit[Len(table)]

\* The same loop, over the models.
ModelLinkListJSON(table, page) == GetCardList(table, page)

\* maxpage of an answer: the rows divided by ListMax, rounded up.
NumPage(table) == (Len(table) + ListMax - 1) \div ListMax

\* cardData: past the last row there is no maxpage in the answer; a link that
\* does not resolve (in the models read for that row) has no name.
CardData(table, page, link, models) ==
  LET rows == GetCardList(table, page)
  IN IF rows = <<>> THEN [msg |-> "OK", rows |-> <<>>, maxpage |-> 0]
     ELSE [msg |-> "OK", maxpage |-> NumPage(table),
           rows |-> [i \in 1..Len(rows) |->
                      [id |-> rows[i],
                       named |-> link[rows[i]] \in models[i]]]]

\* modelList: past the last row it fails.
ModelList(table, page) ==
  LET rows == ModelLinkListJSON(table, page)
  IN IF rows = <<>> THEN [msg |-> "FAIL", rows |-> <<>>, maxpage |-> 0]
     ELSE [msg |-> "OK", rows |-> rows, maxpage |-> NumPage(table)]

\* A client that turns the pages from the first to the last: request p finds
\* the table as it is then, tables[p + 1], and is made as long as the answer
\* before it announced a further page.
Asked(tables) ==
  {p \in 0..Len(tables) - 1 :
     \A q \in 0..p - 1 : q + 1 < ModelList(tables[q + 1], q).maxpage}
Shown(tables, p) == Keys(ModelList(tables[p + 1], p).rows)

\* The walk over these tables is over: the last answer announced no more.
WalkDone(tables) ==
  LET last == Len(tables) - 1
  IN /\ Asked(tables) = 0..last
     /\ last + 1 >= ModelList(tables[last + 1], last).maxpage

-----------------------------------------------------------------------------
(* Searches.                                                               *)

\* mutant: the limit counts the rows visited, not those found
SearchVisitedLimit(table, matches) ==
  [n \in 0..Len(table) |->
     SelectSeq(SubSeq(table, 1, IF n < SearchMax THEN n ELSE SearchMax),
               LAMBDA k : k \in matches)]

\* A search after n rows: the first SearchMax of them that match, which for a
\* card is to have an id that contains the key, for a model such a name.
SearchVisit(table, matches) ==
  LET visit[n \in 0..Len(table)] ==
        IF n = 0 THEN <<>>
        ELSE IF Len(visit[n - 1]) >= SearchMax \/ table[n] \notin matches
             THEN visit[n - 1]
             ELSE Append(visit[n - 1], table[n])
  IN visit

CardSearchJSON(table, matches) == SearchVisit(table, matches)[Len(table)]
ModelSearchJSON(table, matches) == SearchVisit(table, matches)[Len(table)]

\* modelSearch answers with the rows as they are stored, without their keys.
ModelSearch(table, matches) ==
  [msg |-> "OK", items |-> Len(ModelSearchJSON(table, matches))]

\* cardSearch by key: the first link that does not resolve ends it.
CardSearch(table, matches, link, models) ==
  LET rows == CardSearchJSON(table, matches)
  IN IF \E i \in 1..Len(rows) : link[rows[i]] \notin models[i]
     THEN [msg |-> "FAIL", rows |-> <<>>]
     ELSE [msg |-> "OK", rows |-> rows]

-----------------------------------------------------------------------------
(* The read counter, three bytes as the tag sends them.                    *)

Bytes3 == [1..3 -> 0..Byte - 1]

\* mutant: the bytes read the other way round
BigEndian(b) == b[3] + Byte * b[2] + Byte * Byte * b[1]

\* GetCardList: 24 bits, the least significant byte first.
LittleEndian(b) == b[1] + Byte * b[2] + Byte * Byte * b[3]

\* CardSearchJSON: binary.Uvarint, digits of half a byte's range, the last one
\* marked by a clear top bit; 0 when none is.
Uvarint(b) ==
  LET half == Byte \div 2
      digit(i) == b[i] % half
  IN CASE b[1] < half -> b[1]
       [] b[1] >= half /\ b[2] < half -> digit(1) + half * b[2]
       [] b[1] >= half /\ b[2] >= half /\ b[3] < half ->
            digit(1) + half * digit(2) + half * half * b[3]
       [] OTHER -> 0
=============================================================================
