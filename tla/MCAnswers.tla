------------------------------ MODULE MCAnswers ------------------------------
(* Small inputs of Answers.                                                   *)
EXTENDS Answers, SequencesExt

RowKeys == 1..4
SmallTables == {SetToSortSeq(S, <) : S \in SUBSET RowKeys}

MCWalks == [kind : {"walk"}, tables : UNION {[1..n -> SmallTables] : n \in 1..3}]
MCSearches ==
  [kind : {"search"}, table : SmallTables, matches : SUBSET RowKeys,
   resolve : SUBSET RowKeys]
MCCounters == [kind : {"counter"}, bytes : Bytes3]

SomeParts == {[kind |-> "none", distance |-> 0], [kind |-> "bad", distance |-> 0]} \cup
             [kind : {"picture"}, distance : {0, 270, 330, 400}]
MCSubmissions ==
  [kind : {"submit"}, object : Objects \cup {"unknown"}, num : -1..3,
   disk : [Objects -> [1..2 -> {"none", "ok", "bad"}]],
   parts : UNION {[1..n -> SomeParts] : n \in 0..2}]

\* A block of four bits: x^4 + x + 1, and a permutation for each key.
MCReduction == <<0, 0, 1, 1>>
BlockNumber(b) == 8 * b[1] + 4 * b[2] + 2 * b[3] + b[4]
BlockFrom(n) == <<n \div 8, (n \div 4) % 2, (n \div 2) % 2, n % 2>>
MCEnc == [k \in Block |-> [v \in Block |->
            BlockFrom(((2 * BlockNumber(k) + 1) * BlockNumber(v)
                         + 7 * BlockNumber(k) + 3) % 16)]]

Strings(n) == [1..n -> Bit]
MCMacs == [kind : {"mac"}, key : Block,
           data : UNION {Strings(2 * n) : n \in 0..3} \cup
                  {s \in Strings(10) : /\ s[1] = s[4] /\ s[2] = s[5] /\ s[3] = s[7]
                                       /\ s[6] = s[8]}]
MCCiphers ==
  [kind : {"cipher"}, key : Block,
   r : {<<0, 0, 0, 0, 0, 0, 0, 0>>, <<1, 1, 1, 1, 1, 1, 1, 1>>,
        <<0, 1, 1, 0, 1, 1, 0, 0, 1, 1, 0, 1>>, <<0, 0, 0, 0, 1, 1, 1, 1, 1, 1, 1, 1>>},
   data : UNION {[1..n -> Block] : n \in 0..2}]
=============================================================================
