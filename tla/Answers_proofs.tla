---------------------------- MODULE Answers_proofs ----------------------------
(* The answers are right for every table, page size, key, byte and picture.  *)
(* What a loop computes is proved by induction over the rows it has visited: *)
(* the set of row numbers up to which a fact holds contains 0 and with each  *)
(* number the next one (lemma Induction, from the least element of a set of  *)
(* naturals), and the function the loop is written as exists (lemma Loop).   *)
(* LRP, at the end, is right for every width of its blocks, every reduction  *)
(* polynomial that starts with a zero bit and every keyed permutation.       *)
EXTENDS Answers, FiniteSetTheorems, SequenceTheorems, TLAPS

\* A set of naturals that is not empty has a least element.
LEMMA Least ==
  ASSUME NEW T, T \subseteq Nat, T # {}
  PROVE  \E m \in T : \A n \in T : m <= n
<1>1. IsWellFoundedOn(OpToRel(<, Nat), Nat)
  BY NatLessThanWellFounded
<1>2. PICK m \in T : \A n \in T : ~(<<n, m>> \in OpToRel(<, Nat))
  BY <1>1, WFMin
<1>3. ASSUME NEW n \in T, n < m
      PROVE  <<n, m>> \in OpToRel(<, Nat)
  BY <1>3 DEF OpToRel
<1>4. \A n \in T : ~(n < m)
  BY <1>2, <1>3
<1> QED
  BY <1>4

\* A set with 0 and with the successor of each natural in it holds them all.
LEMMA Induction ==
  ASSUME NEW S, 0 \in S, \A n \in Nat : n \in S => n + 1 \in S
  PROVE  Nat \subseteq S
<1> SUFFICES ASSUME NEW k \in Nat, k \notin S
             PROVE  FALSE
  OBVIOUS
<1>1. PICK m \in Nat \ S : \A n \in Nat \ S : m <= n
  BY Least
<1>2. m - 1 \in Nat /\ m - 1 \notin S
  BY <1>1
<1> QED
  BY <1>1, <1>2

\* f[n] is what a loop that starts from base has computed after n rounds; the
\* round n computes step[n] of what was there before.
Rounds(f, N, S, base, step) ==
  /\ f \in [0..N -> S]
  /\ f[0] = base
  /\ \A n \in 1..N : f[n] = step[n][f[n - 1]]

LEMMA Loop ==
  ASSUME NEW N \in Nat, NEW S, NEW base \in S, NEW step \in [1..N -> [S -> S]]
  PROVE  \E f : Rounds(f, N, S, base, step)
<1> DEFINE M == {m \in Nat : m <= N => \E f : Rounds(f, m, S, base, step)}
<1>1. 0 \in M
  <2>1. Rounds([n \in 0..0 |-> base], 0, S, base, step)
    BY DEF Rounds
  <2> QED
    BY <2>1
<1>2. ASSUME NEW m \in Nat, m \in M
      PROVE  m + 1 \in M
  <2> SUFFICES ASSUME m + 1 <= N
               PROVE  \E f : Rounds(f, m + 1, S, base, step)
    OBVIOUS
  <2>1. PICK f : Rounds(f, m, S, base, step)
    BY <1>2
  <2> HIDE DEF M
  <2>2. /\ f \in [0..m -> S] /\ f[0] = base
        /\ \A n \in 1..m : f[n] = step[n][f[n - 1]]
    BY <2>1 DEF Rounds
  <2>3. f[m] \in S /\ step[m + 1] \in [S -> S]
    BY <2>2
  <2>4. step[m + 1][f[m]] \in S
    BY <2>3
  <2> DEFINE g == [n \in 0..m + 1 |-> IF n = m + 1 THEN step[m + 1][f[m]] ELSE f[n]]
  <2>5. g \in [0..m + 1 -> S] /\ g[0] = base
    BY <2>2, <2>4
  <2>6. ASSUME NEW n \in 1..m + 1
        PROVE  g[n] = step[n][g[n - 1]]
    <3>1. g[n - 1] = f[n - 1]
      OBVIOUS
    <3>2. CASE n = m + 1
      BY <3>1, <3>2
    <3>3. CASE n # m + 1
      BY <3>1, <3>3, <2>2
    <3> QED
      BY <3>2, <3>3
  <2> HIDE DEF g
  <2> QED
    BY <2>5, <2>6 DEF Rounds
<1> HIDE DEF M
<1>3. Nat \subseteq M
  BY <1>1, <1>2, Induction
<1> QED
  BY <1>3 DEF M

\* ... and there is only one such function.
Follows(g, f, N, base, step) ==
  /\ g = [n \in 0..N |-> g[n]]
  /\ g[0] = base
  /\ \A n \in 1..N : f[n - 1] = g[n - 1] => g[n] = step[n][f[n - 1]]

LEMMA LoopUnique ==
  ASSUME NEW N \in Nat, NEW S, NEW base, NEW step,
         NEW f, Rounds(f, N, S, base, step), NEW g, Follows(g, f, N, base, step)
  PROVE  g = f
<1> DEFINE M == {m \in Nat : m <= N => f[m] = g[m]}
<1>1. 0 \in M
  BY DEF Rounds, Follows
<1>2. ASSUME NEW m \in Nat, m \in M
      PROVE  m + 1 \in M
  <2> SUFFICES ASSUME m + 1 <= N
               PROVE  f[m + 1] = g[m + 1]
    OBVIOUS
  <2>1. m + 1 \in 1..N /\ (m + 1) - 1 = m /\ f[m] = g[m]
    BY <1>2
  <2>2. f[m + 1] = step[m + 1][f[(m + 1) - 1]]
    BY <2>1 DEF Rounds
  <2> QED
    BY <2>1, <2>2 DEF Follows
<1> HIDE DEF M
<1>3. Nat \subseteq M
  BY <1>1, <1>2, Induction
<1>4. \A m \in 0..N : f[m] = g[m]
  BY <1>3 DEF M
<1> QED
  BY <1>4 DEF Rounds, Follows

-----------------------------------------------------------------------------
(* The loops of the code are such rounds.                                  *)

\* Sum adds the scores up.
LEMMA SumLoop ==
  ASSUME NEW s \in Seq(Int)
  PROVE  \E f \in [0..Len(s) -> Int] :
           /\ f[0] = 0 /\ \A n \in 1..Len(s) : f[n] = f[n - 1] + s[n]
           /\ Sum(s) = f[Len(s)]
<1> DEFINE N == Len(s)
           step == [n \in 1..N |-> [x \in Int |-> x + s[n]]]
           Is(f) == f = [n \in 0..N |-> IF n = 0 THEN 0 ELSE f[n - 1] + s[n]]
           sum == CHOOSE f : Is(f)
<1>0. N \in Nat /\ s \in [1..N -> Int]
  OBVIOUS
<1>1. step \in [1..N -> [Int -> Int]]
  <2> HIDE DEF N
  <2>1. \A n \in 1..N : s[n] \in Int
    BY <1>0
  <2>2. \A n \in 1..N : [x \in Int |-> x + s[n]] \in [Int -> Int]
    BY <2>1
  <2> QED
    BY <2>2
<1>2. PICK f : Rounds(f, N, Int, 0, step)
  <2>1. 0 \in Int
    OBVIOUS
  <2> HIDE DEF step
  <2> QED
    BY <1>0, <1>1, <2>1, Loop
<1> HIDE DEF N
<1>3. /\ f \in [0..N -> Int] /\ f[0] = 0
      /\ \A n \in 1..N : f[n] = f[n - 1] + s[n]
  <2>1. \A n \in 1..N : n - 1 \in 0..N
    BY <1>0
  <2> QED
    BY <1>2, <2>1 DEF Rounds
<1>4. Is(f)
  BY <1>0, <1>3
<1>5. Is(sum)
  BY <1>4
<1> HIDE DEF sum
<1>6. sum = f
  <2>1. /\ sum = [n \in 0..N |-> sum[n]] /\ sum[0] = 0
        /\ \A n \in 1..N : sum[n] = sum[n - 1] + s[n]
    BY <1>0, <1>5
  <2>2. \A n \in 1..N : f[n - 1] = sum[n - 1] => sum[n] = step[n][f[n - 1]]
    <3>1. \A n \in 1..N : n - 1 \in 0..N
      BY <1>0
    <3> QED
      BY <1>3, <2>1, <3>1
  <2>3. Follows(sum, f, N, 0, step)
    BY <2>1, <2>2 DEF Follows
  <2> HIDE DEF step
  <2> QED
    BY <1>0, <1>2, <2>3, LoopUnique
<1> QED
  BY <1>3, <1>6 DEF Sum, sum, N

\* GetCardList appends the rows in the window of the page.
LEMMA PageLoop ==
  ASSUME NEW table \in Seq(Int), NEW page \in Nat
  PROVE  \E f \in [0..Len(table) -> Seq(Int)] :
           /\ f[0] = <<>>
           /\ \A n \in 1..Len(table) :
                f[n] = IF InWindow(n - 1, page) THEN Append(f[n - 1], table[n]) ELSE f[n - 1]
           /\ GetCardList(table, page) = f[Len(table)]
<1> DEFINE N == Len(table)
           next(n, x) == IF InWindow(n - 1, page) THEN Append(x, table[n]) ELSE x
           step == [n \in 1..N |-> [x \in Seq(Int) |-> next(n, x)]]
           Is(f) == f = [n \in 0..N |-> IF n = 0 THEN <<>> ELSE next(n, f[n - 1])]
           visit == CHOOSE f : Is(f)
<1>0. N \in Nat /\ \A n \in 1..N : table[n] \in Int
  OBVIOUS
<1> HIDE DEF N
<1>1. step \in [1..N -> [Seq(Int) -> Seq(Int)]]
  <2>1. \A n \in 1..N, x \in Seq(Int) : next(n, x) \in Seq(Int)
    BY <1>0
  <2> HIDE DEF next
  <2>2. \A n \in 1..N : [x \in Seq(Int) |-> next(n, x)] \in [Seq(Int) -> Seq(Int)]
    BY <2>1
  <2> QED
    BY <2>2
<1>2. PICK f : Rounds(f, N, Seq(Int), <<>>, step)
  <2>1. <<>> \in Seq(Int)
    OBVIOUS
  <2> HIDE DEF step
  <2> QED
    BY <1>0, <1>1, <2>1, Loop
<1> HIDE DEF next
<1>3. /\ f \in [0..N -> Seq(Int)] /\ f[0] = <<>>
      /\ \A n \in 1..N : f[n] = next(n, f[n - 1])
  <2>1. \A n \in 1..N : n - 1 \in 0..N
    BY <1>0
  <2> QED
    BY <1>2, <2>1 DEF Rounds
<1>4. Is(f)
  BY <1>0, <1>3
<1>5. Is(visit)
  BY <1>4
<1> HIDE DEF visit
<1>6. visit = f
  <2>1. /\ visit = [n \in 0..N |-> visit[n]] /\ visit[0] = <<>>
        /\ \A n \in 1..N : visit[n] = next(n, visit[n - 1])
    <3>1. \A n \in 0..N : visit[n] = IF n = 0 THEN <<>> ELSE next(n, visit[n - 1])
      BY <1>5
    <3>2. visit = [n \in 0..N |-> visit[n]]
      BY <1>5
    <3>3. 0 \in 0..N /\ \A n \in 1..N : n \in 0..N /\ n # 0
      BY <1>0
    <3> QED
      BY <3>1, <3>2, <3>3
  <2>2. \A n \in 1..N : f[n - 1] = visit[n - 1] => visit[n] = step[n][f[n - 1]]
    <3>1. \A n \in 1..N : n - 1 \in 0..N
      BY <1>0
    <3> QED
      BY <1>3, <2>1, <3>1
  <2>3. Follows(visit, f, N, <<>>, step)
    BY <2>1, <2>2 DEF Follows
  <2> HIDE DEF step
  <2> QED
    BY <1>0, <1>2, <2>3, LoopUnique
<1> QED
  BY <1>3, <1>6 DEF GetCardList, visit, next, N

\* SearchVisit appends the rows that match, as long as there are fewer than
\* SearchMax.
LEMMA SearchLoop ==
  ASSUME NEW table \in Seq(Int), NEW matches
  PROVE  /\ SearchVisit(table, matches) \in [0..Len(table) -> Seq(Int)]
         /\ SearchVisit(table, matches)[0] = <<>>
         /\ \A n \in 1..Len(table) :
              SearchVisit(table, matches)[n] =
                IF Len(SearchVisit(table, matches)[n - 1]) >= SearchMax \/ table[n] \notin matches
                  THEN SearchVisit(table, matches)[n - 1]
                  ELSE Append(SearchVisit(table, matches)[n - 1], table[n])
<1> DEFINE N == Len(table)
           next(n, x) == IF Len(x) >= SearchMax \/ table[n] \notin matches
                           THEN x ELSE Append(x, table[n])
           step == [n \in 1..N |-> [x \in Seq(Int) |-> next(n, x)]]
           Is(f) == f = [n \in 0..N |-> IF n = 0 THEN <<>> ELSE next(n, f[n - 1])]
           visit == CHOOSE f : Is(f)
<1>0. N \in Nat /\ \A n \in 1..N : table[n] \in Int
  OBVIOUS
<1> HIDE DEF N
<1>1. step \in [1..N -> [Seq(Int) -> Seq(Int)]]
  <2>1. \A n \in 1..N, x \in Seq(Int) : next(n, x) \in Seq(Int)
    BY <1>0
  <2> HIDE DEF next
  <2>2. \A n \in 1..N : [x \in Seq(Int) |-> next(n, x)] \in [Seq(Int) -> Seq(Int)]
    BY <2>1
  <2> QED
    BY <2>2
<1>2. PICK f : Rounds(f, N, Seq(Int), <<>>, step)
  <2>1. <<>> \in Seq(Int)
    OBVIOUS
  <2> HIDE DEF step
  <2> QED
    BY <1>0, <1>1, <2>1, Loop
<1> HIDE DEF next
<1>3. /\ f \in [0..N -> Seq(Int)] /\ f[0] = <<>>
      /\ \A n \in 1..N : f[n] = next(n, f[n - 1])
  <2>1. \A n \in 1..N : n - 1 \in 0..N
    BY <1>0
  <2> QED
    BY <1>2, <2>1 DEF Rounds
<1>4. Is(f)
  BY <1>0, <1>3
<1>5. Is(visit)
  BY <1>4
<1> HIDE DEF visit
<1>6. visit = f
  <2>1. /\ visit = [n \in 0..N |-> visit[n]] /\ visit[0] = <<>>
        /\ \A n \in 1..N : visit[n] = next(n, visit[n - 1])
    <3>1. \A n \in 0..N : visit[n] = IF n = 0 THEN <<>> ELSE next(n, visit[n - 1])
      BY <1>5
    <3>2. visit = [n \in 0..N |-> visit[n]]
      BY <1>5
    <3>3. 0 \in 0..N /\ \A n \in 1..N : n \in 0..N /\ n # 0
      BY <1>0
    <3> QED
      BY <3>1, <3>2, <3>3
  <2>2. \A n \in 1..N : f[n - 1] = visit[n - 1] => visit[n] = step[n][f[n - 1]]
    <3>1. \A n \in 1..N : n - 1 \in 0..N
      BY <1>0
    <3> QED
      BY <1>3, <2>1, <3>1
  <2>3. Follows(visit, f, N, <<>>, step)
    BY <2>1, <2>2 DEF Follows
  <2> HIDE DEF step
  <2> QED
    BY <1>0, <1>2, <2>3, LoopUnique
<1>7. SearchVisit(table, matches) = visit
  BY DEF SearchVisit, visit, next, N
<1> QED
  BY <1>3, <1>6, <1>7 DEF next, N

-----------------------------------------------------------------------------
(* Arithmetic.                                                             *)

LEMMA ProductNat ==
  ASSUME NEW x \in Nat, NEW y \in Nat
  PROVE  x * y \in Nat
OBVIOUS

LEMMA ProductMonotone ==
  ASSUME NEW x \in Nat, NEW y \in Nat, NEW z \in Nat, x < y
  PROVE  x * z + z <= y * z
<1>1. PICK gap \in Nat : y = x + 1 + gap
  <2>1. y - x - 1 \in Nat /\ y = x + 1 + (y - x - 1)
    OBVIOUS
  <2> QED
    BY <2>1
<1>2. y * z = x * z + z + gap * z
  BY <1>1
<1>3. gap * z \in Nat /\ x * z \in Nat
  BY ProductNat
<1> QED
  BY <1>2, <1>3

-----------------------------------------------------------------------------
(* Pages.                                                                  *)

\* A count is in the window of the page it divides into ...
LEMMA SomePage ==
  ASSUME NEW count \in Nat
  PROVE  \E page \in Nat : InWindow(count, page)
<1>1. ListMax \in Nat /\ ListMax > 0
  BY ListingAssumption
<1> DEFINE page == count \div ListMax
           rest == count % ListMax
<1>2. /\ page \in Nat /\ rest \in 0..ListMax - 1
      /\ count = ListMax * page + rest
  BY <1>1
<1> HIDE DEF page, rest
<1>3. ListMax * page = page * ListMax /\ page * ListMax \in Nat
  BY <1>1, <1>2, ProductNat
<1>4. InWindow(count, page)
  BY <1>1, <1>2, <1>3 DEF InWindow
<1> QED
  BY <1>2, <1>4

\* ... and in no other: GetCardList and ModelLinkListJSON show the row visited at
\* that count on exactly one page, so that the pages of one table neither repeat
\* nor lose a row.
THEOREM OnePage ==
  \A count \in Nat :
    \E page \in Nat : /\ InWindow(count, page)
                      /\ \A other \in Nat : InWindow(count, other) => other = page
<1> SUFFICES ASSUME NEW count \in Nat
             PROVE  \E page \in Nat :
                      /\ InWindow(count, page)
                      /\ \A other \in Nat : InWindow(count, other) => other = page
  OBVIOUS
<1>1. ASSUME NEW p \in Nat, NEW q \in Nat, InWindow(count, p), InWindow(count, q), p < q
      PROVE  FALSE
  <2>1. ListMax \in Nat
    BY ListingAssumption
  <2>2. p * ListMax + ListMax <= q * ListMax
    BY <1>1, <2>1, ProductMonotone
  <2>3. p * ListMax \in Nat /\ q * ListMax \in Nat
    BY <2>1, ProductNat
  <2> QED
    BY <1>1, <2>1, <2>2, <2>3 DEF InWindow
<1> QED
  BY <1>1, SomePage

LEMMA AppendAt ==
  ASSUME NEW s \in Seq(Int), NEW x \in Int
  PROVE  /\ Append(s, x) \in Seq(Int) /\ Len(s) \in Nat
         /\ Len(Append(s, x)) = Len(s) + 1
         /\ \A i \in 1..Len(s) : Append(s, x)[i] = s[i]
         /\ Append(s, x)[Len(s) + 1] = x
OBVIOUS

\* The rows on the pages before this one.
Before(page) == page * ListMax

LEMMA BeforeNat ==
  ASSUME NEW page \in Nat
  PROVE  Before(page) \in Nat /\ Before(0) = 0 /\ Before(page + 1) = Before(page) + ListMax
<1>1. ListMax \in Nat
  BY ListingAssumption
<1> QED
  BY <1>1, ProductNat DEF Before

LEMMA BeforeMonotone ==
  ASSUME NEW p \in Nat, NEW q \in Nat, p < q
  PROVE  Before(p) + ListMax <= Before(q)
BY ListingAssumption, ProductMonotone DEF Before

\* There are enough pages.
LEMMA PagesCover ==
  ASSUME NEW t \in Tables
  PROVE  NumPage(t) \in Nat /\ Len(t) <= Before(NumPage(t))
<1>1. Len(t) \in Nat /\ ListMax \in Nat /\ ListMax > 0
  BY ListingAssumption DEF Tables
<1> DEFINE q == NumPage(t)
           r == (Len(t) + ListMax - 1) % ListMax
<1>2. /\ q \in Nat /\ r \in 0..ListMax - 1
      /\ Len(t) + ListMax - 1 = ListMax * q + r
  BY <1>1 DEF NumPage
<1> HIDE DEF q, r
<1>3. ListMax * q = Before(q) /\ Before(q) \in Nat
  BY <1>1, <1>2, BeforeNat DEF Before
<1>4. Len(t) <= Before(q)
  BY <1>1, <1>2, <1>3
<1> QED
  BY <1>2, <1>4 DEF q

\* A page has the rows after the ListMax * page first ones, ListMax of them or
\* what is left of the table.
LEMMA PageRows ==
  ASSUME NEW table \in Seq(Int), NEW page \in Nat
  PROVE  /\ GetCardList(table, page) \in Seq(Int)
         /\ Len(GetCardList(table, page)) =
              IF Len(table) <= Before(page) THEN 0
              ELSE IF Len(table) <= Before(page) + ListMax THEN Len(table) - Before(page) ELSE ListMax
         /\ \A i \in 1..Len(GetCardList(table, page)) :
              GetCardList(table, page)[i] = table[Before(page) + i]
<1> DEFINE N == Len(table)
           start == Before(page)
           clip(n) == IF n <= start THEN 0
                      ELSE IF n <= start + ListMax THEN n - start ELSE ListMax
<1>0. N \in Nat /\ \A n \in 1..N : table[n] \in Int
  OBVIOUS
<1>1. PICK f \in [0..N -> Seq(Int)] :
        /\ f[0] = <<>>
        /\ \A n \in 1..N :
             f[n] = IF InWindow(n - 1, page) THEN Append(f[n - 1], table[n]) ELSE f[n - 1]
        /\ GetCardList(table, page) = f[N]
  BY PageLoop
<1> HIDE DEF N, start
<1>2. start \in Nat /\ ListMax \in Nat /\ ListMax > 0
  <2>1. Before(page) \in Nat
    BY BeforeNat
  <2> QED
    BY <2>1, ListingAssumption DEF start
<1> DEFINE Good(n) == /\ Len(f[n]) = clip(n)
                      /\ \A i \in 1..Len(f[n]) : f[n][i] = table[start + i]
           M == {n \in Nat : n <= N => Good(n)}
<1>3. 0 \in M
  BY <1>1, <1>2
<1>4. ASSUME NEW n \in Nat, n \in M
      PROVE  n + 1 \in M
  <2> SUFFICES ASSUME n + 1 <= N
               PROVE  Good(n + 1)
    OBVIOUS
  <2>1. Good(n) /\ f[n] \in Seq(Int) /\ table[n + 1] \in Int
    BY <1>0, <1>4
  <2>2. f[n + 1] = IF start <= n /\ n <= start + ListMax - 1
                     THEN Append(f[n], table[n + 1]) ELSE f[n]
    <3>1. n + 1 \in 1..N /\ (n + 1) - 1 = n
      BY <1>0
    <3>2. InWindow(n, page) <=> start <= n /\ n <= start + ListMax - 1
      <4>1. start = page * ListMax
        BY DEF start, Before
      <4> QED
        BY <1>2, <4>1 DEF InWindow
    <3> QED
      BY <1>1, <3>1, <3>2
  <2>3. CASE start <= n /\ n <= start + ListMax - 1
    <3>1. f[n + 1] = Append(f[n], table[n + 1])
      BY <2>2, <2>3
    <3>2. clip(n) = n - start /\ clip(n + 1) = n + 1 - start
      BY <1>2, <2>3
    <3>3. Len(f[n + 1]) = clip(n + 1)
      BY <1>2, <2>1, <3>1, <3>2
    <3>4. \A i \in 1..Len(f[n + 1]) : f[n + 1][i] = table[start + i]
      <4> SUFFICES ASSUME NEW i \in 1..n + 1 - start
                   PROVE  f[n + 1][i] = table[start + i]
        BY <3>2, <3>3
      <4>1. /\ Len(f[n]) = n - start
            /\ \A j \in 1..n - start : f[n][j] = table[start + j]
        BY <2>1, <3>2
      <4> HIDE DEF clip
      <4>2. /\ \A j \in 1..n - start : f[n + 1][j] = f[n][j]
            /\ f[n + 1][n - start + 1] = table[n + 1]
        BY <2>1, <3>1, <4>1, AppendAt
      <4>3. start + (n - start + 1) = n + 1
        BY <1>2
      <4>4. CASE i = n - start + 1
        BY <4>2, <4>3, <4>4
      <4>5. CASE i \in 1..n - start
        BY <4>1, <4>2, <4>5
      <4> QED
        BY <1>2, <4>4, <4>5
    <3> QED
      BY <3>3, <3>4
  <2>4. CASE ~(start <= n /\ n <= start + ListMax - 1)
    <3>1. f[n + 1] = f[n]
      BY <2>2, <2>4
    <3>2. clip(n + 1) = clip(n)
      BY <1>2, <2>4
    <3> HIDE DEF clip
    <3> QED
      BY <2>1, <3>1, <3>2
  <2> QED
    BY <2>3, <2>4
<1> HIDE DEF M
<1>5. Nat \subseteq M
  BY <1>3, <1>4, Induction
<1>6. Good(N)
  <2>1. N \in M /\ N <= N
    BY <1>0, <1>5
  <2> QED
    BY <2>1 DEF M
<1> QED
  BY <1>0, <1>1, <1>2, <1>6 DEF N, start

LEMMA WindowKeys ==
  ASSUME NEW table \in Seq(Int), NEW rows \in Seq(Int), NEW start \in Nat, NEW max \in Nat,
         Len(rows) = IF Len(table) <= start THEN 0
                     ELSE IF Len(table) <= start + max THEN Len(table) - start ELSE max,
         \A i \in 1..Len(rows) : rows[i] = table[start + i]
  PROVE  \A k : k \in Keys(rows) <=>
           \E i \in 1..Len(table) : table[i] = k /\ start < i /\ i <= start + max
<1>1. Len(table) \in Nat
  OBVIOUS
<1>2. ASSUME NEW k, k \in Keys(rows)
      PROVE  \E i \in 1..Len(table) : table[i] = k /\ start < i /\ i <= start + max
  <2>1. PICK j \in 1..Len(rows) : rows[j] = k
    BY <1>2 DEF Keys
  <2>2. j \in Nat /\ 1 <= j /\ j <= Len(rows) /\ table[start + j] = k
    <3>1. Len(rows) \in Nat
      OBVIOUS
    <3>2. rows[j] = table[start + j]
      BY <2>1
    <3> QED
      BY <2>1, <3>1, <3>2
  <2>3. Len(table) > start
    BY <1>1, <2>2
  <2>4. Len(rows) = IF Len(table) <= start + max THEN Len(table) - start ELSE max
    BY <1>1, <2>3
  <2>5. j <= max /\ start + j <= Len(table)
    BY <1>1, <2>2, <2>3, <2>4
  <2>6. start + j \in 1..Len(table) /\ start < start + j /\ start + j <= start + max
    BY <1>1, <2>2, <2>5
  <2> QED
    BY <2>2, <2>6
<1>3. ASSUME NEW i \in 1..Len(table), start < i, i <= start + max
      PROVE  table[i] \in Keys(rows)
  <2>0. i - start \in Nat /\ 1 <= i - start /\ i - start <= max /\ i <= Len(table)
    BY <1>1, <1>3
  <2>1. i - start \in 1..Len(rows)
    BY <1>1, <1>3, <2>0
  <2>2. start + (i - start) = i
    BY <1>3
  <2> QED
    BY <2>1, <2>2 DEF Keys
<1>4. ASSUME NEW k, NEW i \in 1..Len(table), table[i] = k, start < i, i <= start + max
      PROVE  k \in Keys(rows)
  BY <1>3, <1>4
<1> QED
  BY <1>2, <1>4

\* A row is shown on a page if its place in the table is in the page's window.
LEMMA ShownRows ==
  ASSUME NEW table \in Seq(Int), NEW page \in Nat
  PROVE  \A k : k \in Keys(GetCardList(table, page)) <=>
           \E i \in 1..Len(table) :
             table[i] = k /\ Before(page) < i /\ i <= Before(page) + ListMax
<1> DEFINE rows == GetCardList(table, page)
<1>1. /\ rows \in Seq(Int)
      /\ Len(rows) = IF Len(table) <= Before(page) THEN 0
                     ELSE IF Len(table) <= Before(page) + ListMax THEN Len(table) - Before(page) ELSE ListMax
      /\ \A i \in 1..Len(rows) : rows[i] = table[Before(page) + i]
  BY PageRows
<1>2. ListMax \in Nat /\ Before(page) \in Nat
  BY ListingAssumption, BeforeNat
<1> HIDE DEF rows
<1>3. \A k : k \in Keys(rows) <=>
        \E i \in 1..Len(table) : table[i] = k /\ Before(page) < i /\ i <= Before(page) + ListMax
  BY <1>1, <1>2, WindowKeys
<1> QED
  BY <1>3 DEF rows

-----------------------------------------------------------------------------
(* A walk through the pages.                                               *)

\* In a table with more keys, a key has no earlier place.
LEMMA Places ==
  ASSUME NEW s \in Tables, NEW t \in Tables, Keys(s) \subseteq Keys(t),
         NEW i \in 1..Len(s), NEW j \in 1..Len(t), s[i] = t[j]
  PROVE  i <= j
<1> DEFINE M == {n \in Nat : n + 1 <= Len(s) =>
                   \A m \in 1..Len(t) : s[n + 1] = t[m] => n + 1 <= m}
<1>0. /\ Len(s) \in Nat /\ Len(t) \in Nat
      /\ \A n \in 1..Len(s) : s[n] \in Int
      /\ \A n \in 1..Len(t) : t[n] \in Int
      /\ \A n, m \in 1..Len(s) : n < m => s[n] < s[m]
      /\ \A n, m \in 1..Len(t) : n < m => t[n] < t[m]
  BY DEF Tables
<1>1. 0 \in M
  OBVIOUS
<1>2. ASSUME NEW n \in Nat, n \in M
      PROVE  n + 1 \in M
  <2> SUFFICES ASSUME (n + 1) + 1 <= Len(s), NEW m \in 1..Len(t), s[(n + 1) + 1] = t[m]
               PROVE  (n + 1) + 1 <= m
    OBVIOUS
  <2>1. n + 1 \in 1..Len(s) /\ (n + 1) + 1 \in 1..Len(s) /\ s[n + 1] < t[m]
    BY <1>0
  <2>2. PICK k \in 1..Len(t) : s[n + 1] = t[k]
    BY <2>1 DEF Keys
  <2>3. k < m
    BY <1>0, <2>1, <2>2
  <2>4. n + 1 <= k
    BY <1>0, <1>2, <2>2
  <2> QED
    BY <1>0, <2>3, <2>4
<1> HIDE DEF M
<1>3. Nat \subseteq M
  BY <1>1, <1>2, Induction
<1>4. i - 1 \in Nat /\ (i - 1) + 1 = i /\ i <= Len(s)
  BY <1>0
<1>5. i - 1 \in M
  BY <1>3, <1>4
<1> QED
  BY <1>4, <1>5 DEF M

\* What a page shows of the table its request found.
LEMMA ShownOf ==
  ASSUME NEW tables, NEW p \in Nat, tables[p + 1] \in Tables
  PROVE  \A k : k \in Shown(tables, p) <=>
           \E i \in 1..Len(tables[p + 1]) :
             tables[p + 1][i] = k /\ Before(p) < i /\ i <= Before(p) + ListMax
<1> DEFINE t == tables[p + 1]
<1>1. t \in Seq(Int)
  BY DEF Tables
<1>2. Shown(tables, p) = Keys(GetCardList(t, p))
  <2>1. ModelList(t, p).rows = GetCardList(t, p)
    BY DEF ModelList, ModelLinkListJSON
  <2> QED
    BY <2>1 DEF Shown
<1> HIDE DEF t
<1>3. \A k : k \in Keys(GetCardList(t, p)) <=>
        \E i \in 1..Len(t) : t[i] = k /\ Before(p) < i /\ i <= Before(p) + ListMax
  BY <1>1, ShownRows
<1> QED
  BY <1>2, <1>3 DEF t

\* The answer that announces no page after p has the last rows of its table.
LEMMA LastPage ==
  ASSUME NEW t \in Tables, NEW p \in Nat, p + 1 >= ModelList(t, p).maxpage
  PROVE  Len(t) <= Before(p) + ListMax
<1>1. t \in Seq(Int) /\ Len(t) \in Nat
  BY DEF Tables
<1>2. ListMax \in Nat /\ ListMax > 0 /\ Before(p) \in Nat
  BY ListingAssumption, BeforeNat
<1>3. CASE GetCardList(t, p) = <<>>
  <2>1. Len(GetCardList(t, p)) = 0
    BY <1>3
  <2>2. Len(GetCardList(t, p)) =
              IF Len(t) <= Before(p) THEN 0
              ELSE IF Len(t) <= Before(p) + ListMax THEN Len(t) - Before(p) ELSE ListMax
    BY <1>1, PageRows
  <2> QED
    BY <1>1, <1>2, <2>1, <2>2
<1>4. CASE GetCardList(t, p) # <<>>
  <2>1. ModelList(t, p).maxpage = NumPage(t)
    BY <1>4 DEF ModelList, ModelLinkListJSON
  <2> DEFINE q == NumPage(t)
  <2>2. q \in Nat /\ Len(t) <= Before(q) /\ q <= p + 1
    BY <2>1, PagesCover
  <2> HIDE DEF q
  <2>3. Before(p + 1) = Before(p) + ListMax /\ Before(q) \in Nat
    BY <2>2, BeforeNat
  <2>4. CASE q = p + 1
    BY <2>2, <2>3, <2>4
  <2>5. CASE q < p + 1
    <3>1. Before(q) + ListMax <= Before(p + 1)
      BY <2>2, <2>5, BeforeMonotone
    <3> QED
      BY <1>1, <1>2, <2>2, <2>3, <3>1
  <2> QED
    BY <2>2, <2>4, <2>5
<1> QED
  BY <1>3, <1>4

\* A row that was there from the start has not been passed: after each request
\* it has been shown or its place is past the page.
LEMMA WalkShowsAll ==
  ASSUME NEW t, Len(t) \in Nat \ {0}, \A i \in 1..Len(t) : t[i] \in Tables,
         WalkDone(t), \A p \in Asked(t) : p > 0 => Keys(t[p]) \subseteq Keys(t[p + 1])
  PROVE  Keys(t[1]) \subseteq UNION {Shown(t, p) : p \in Asked(t)}
<1> DEFINE last == Len(t) - 1
<1>1. /\ last \in Nat /\ Asked(t) = 0..last
      /\ last + 1 >= ModelList(t[last + 1], last).maxpage
  BY DEF WalkDone
<1>2. \A p \in 0..last : t[p + 1] \in Tables
  OBVIOUS
<1> HIDE DEF last
<1> SUFFICES ASSUME NEW k \in Keys(t[1])
             PROVE  \E p \in 0..last : k \in Shown(t, p)
  BY <1>1
<1>3. ListMax \in Nat
  BY ListingAssumption
<1> DEFINE past(p) == \E i \in 1..Len(t[p + 1]) :
                        t[p + 1][i] = k /\ Before(p) + ListMax < i
           M == {p \in Nat : p <= last => past(p) \/ \E q \in 0..p : k \in Shown(t, q)}
<1>4. ASSUME NEW p \in 0..last, NEW i \in 1..Len(t[p + 1]), t[p + 1][i] = k, Before(p) < i
      PROVE  past(p) \/ k \in Shown(t, p)
  <2>1. p \in Nat /\ t[p + 1] \in Tables
    BY <1>1, <1>2
  <2>2. k \in Shown(t, p) <=>
          \E j \in 1..Len(t[p + 1]) :
            t[p + 1][j] = k /\ Before(p) < j /\ j <= Before(p) + ListMax
    BY <2>1, ShownOf
  <2>3. Before(p) \in Nat
    BY <2>1, BeforeNat
  <2>4. i \in Int
    BY <1>4
  <2>5. i <= Before(p) + ListMax \/ Before(p) + ListMax < i
    BY <1>3, <2>3, <2>4
  <2> QED
    BY <1>4, <2>2, <2>5
<1> HIDE DEF past
<1>5. 0 \in M
  <2>1. PICK i \in 1..Len(t[1]) : t[1][i] = k
    BY DEF Keys
  <2>2. Before(0) = 0 /\ 0 + 1 = 1 /\ i > 0 /\ 0 \in 0..last
    BY <1>1, BeforeNat
  <2>3. past(0) \/ k \in Shown(t, 0)
    BY <1>4, <2>1, <2>2
  <2> QED
    BY <2>2, <2>3
<1>6. ASSUME NEW p \in Nat, p \in M
      PROVE  p + 1 \in M
  <2> SUFFICES ASSUME p + 1 <= last
               PROVE  past(p + 1) \/ \E q \in 0..p + 1 : k \in Shown(t, q)
    OBVIOUS
  <2>0. p \in 0..last /\ p + 1 \in 0..last /\ p <= last
    BY <1>1
  <2>1. CASE \E q \in 0..p : k \in Shown(t, q)
    BY <2>1
  <2>2. CASE past(p)
    <3>1. PICK i \in 1..Len(t[p + 1]) : t[p + 1][i] = k /\ Before(p) + ListMax < i
      BY <2>2 DEF past
    <3>2. Keys(t[p + 1]) \subseteq Keys(t[p + 1 + 1])
      <4>1. p + 1 \in Asked(t) /\ p + 1 > 0
        BY <1>1, <2>0
      <4> QED
        BY <4>1
    <3>3. PICK j \in 1..Len(t[p + 1 + 1]) : t[p + 1 + 1][j] = k
      BY <3>1, <3>2 DEF Keys
    <3>4. i <= j
      BY <1>2, <2>0, <3>1, <3>2, <3>3, Places
    <3>5. Before(p + 1) = Before(p) + ListMax /\ Before(p) \in Nat
      BY BeforeNat
    <3>6. i \in Int /\ j \in Int
      OBVIOUS
    <3>7. Before(p + 1) < j
      BY <1>3, <3>1, <3>4, <3>5, <3>6
    <3>8. past(p + 1) \/ k \in Shown(t, p + 1)
      BY <1>4, <2>0, <3>3, <3>7
    <3> QED
      BY <3>8
  <2> QED
    BY <1>6, <2>0, <2>1, <2>2
<1> HIDE DEF M
<1>7. Nat \subseteq M
  BY <1>5, <1>6, Induction
<1>8. past(last) \/ \E q \in 0..last : k \in Shown(t, q)
  <2>1. last \in M /\ last <= last
    BY <1>1, <1>7
  <2> QED
    BY <2>1 DEF M
<1>9. ~past(last)
  <2>1. last \in 0..last /\ t[last + 1] \in Tables
    BY <1>1, <1>2
  <2>2. Len(t[last + 1]) <= Before(last) + ListMax
    BY <1>1, <2>1, LastPage
  <2>3. Before(last) \in Nat
    BY <1>1, BeforeNat
  <2>4. Len(t[last + 1]) \in Nat
    BY <2>1 DEF Tables
  <2> QED
    BY <1>3, <2>2, <2>3, <2>4 DEF past
<1> QED
  BY <1>8, <1>9

\* A row that was on an earlier page has a place no later than the end of it.
LEMMA WalkShowsOnce ==
  ASSUME NEW t, Len(t) \in Nat \ {0}, \A i \in 1..Len(t) : t[i] \in Tables,
         \A p \in Asked(t) : p > 0 => Keys(t[p + 1]) \subseteq Keys(t[p]),
         NEW p \in Asked(t), NEW q \in Asked(t), p < q
  PROVE  Shown(t, p) \cap Shown(t, q) = {}
<1> SUFFICES ASSUME NEW k, k \in Shown(t, p), k \in Shown(t, q)
             PROVE  FALSE
  OBVIOUS
<1>1. /\ p \in Nat /\ q \in Nat /\ q <= Len(t) - 1
      /\ \A r \in 0..q : r \in Asked(t)
  BY DEF Asked
<1>2. t[p + 1] \in Tables /\ t[q + 1] \in Tables
  BY <1>1
<1>3. Keys(t[q + 1]) \subseteq Keys(t[p + 1])
  <2> DEFINE M == {gap \in Nat : p + gap <= q => Keys(t[p + gap + 1]) \subseteq Keys(t[p + 1])}
  <2>1. 0 \in M
    BY <1>1
  <2>2. ASSUME NEW gap \in Nat, gap \in M
        PROVE  gap + 1 \in M
    <3> SUFFICES ASSUME p + (gap + 1) <= q
                 PROVE  Keys(t[p + (gap + 1) + 1]) \subseteq Keys(t[p + 1])
      OBVIOUS
    <3>1. p + (gap + 1) \in Asked(t) /\ p + (gap + 1) > 0 /\ p + (gap + 1) = p + gap + 1
      BY <1>1
    <3>2. Keys(t[p + (gap + 1) + 1]) \subseteq Keys(t[p + gap + 1])
      BY <3>1
    <3>3. Keys(t[p + gap + 1]) \subseteq Keys(t[p + 1])
      BY <1>1, <2>2
    <3> QED
      BY <3>2, <3>3
  <2> HIDE DEF M
  <2>3. Nat \subseteq M
    BY <2>1, <2>2, Induction
  <2>4. q - p \in Nat /\ p + (q - p) = q /\ q <= q
    BY <1>1
  <2>5. q - p \in M
    BY <2>3, <2>4
  <2> QED
    BY <2>4, <2>5 DEF M
<1>4. PICK i \in 1..Len(t[p + 1]) :
        t[p + 1][i] = k /\ Before(p) < i /\ i <= Before(p) + ListMax
  BY <1>1, <1>2, ShownOf
<1>5. PICK j \in 1..Len(t[q + 1]) :
        t[q + 1][j] = k /\ Before(q) < j /\ j <= Before(q) + ListMax
  BY <1>1, <1>2, ShownOf
<1>6. j <= i
  BY <1>2, <1>3, <1>4, <1>5, Places
<1>7. Before(p) + ListMax <= Before(q)
  BY <1>1, BeforeMonotone
<1>8. i \in Int /\ j \in Int /\ Before(p) \in Nat /\ Before(q) \in Nat /\ ListMax \in Nat
  BY <1>1, BeforeNat, ListingAssumption
<1> QED
  BY <1>4, <1>5, <1>6, <1>7, <1>8

\* An input of each kind is one of those assumed.
LEMMA InputsKept == Spec => [](in \in Inputs)
<1>1. Init => in \in Inputs
  BY DEF Init
<1>2. in \in Inputs /\ [Next]_in => (in \in Inputs)'
  BY DEF Next, Inputs
<1> QED
  BY <1>1, <1>2, PTL DEF Spec

\* Whoever changes the table while a client turns the pages (GetCardList and
\* ModelLinkListJSON are a transaction per page): if no row is taken away, the
\* client is shown every row there was at the start, and if none is added, no
\* row twice.
THEOREM WalksAreFaithful == Spec => []WalkFaithful
<1>1. in \in Inputs => WalkFaithful
  <2> SUFFICES ASSUME in \in Inputs, in.kind = "walk"
               PROVE  WalkFaithful
    BY DEF WalkFaithful
  <2>1. in \in Walks
    BY InputsAssumption DEF Inputs
  <2> DEFINE t == in.tables
  <2>2. Len(t) \in Nat \ {0} /\ \A i \in 1..Len(t) : t[i] \in Tables
    BY <2>1, InputsAssumption
  <2> HIDE DEF t
  <2> DEFINE grows == \A p \in Asked(t) : p > 0 => Keys(t[p]) \subseteq Keys(t[p + 1])
             shrinks == \A p \in Asked(t) : p > 0 => Keys(t[p + 1]) \subseteq Keys(t[p])
  <2>3. WalkDone(t) /\ grows => Keys(t[1]) \subseteq UNION {Shown(t, p) : p \in Asked(t)}
    BY <2>2, WalkShowsAll
  <2>4. ASSUME shrinks, NEW p \in Asked(t), NEW q \in Asked(t), p # q
        PROVE  Shown(t, p) \cap Shown(t, q) = {}
    <3>1. p \in Int /\ q \in Int
      BY DEF Asked
    <3>2. CASE p < q
      BY <2>2, <2>4, <3>2, WalkShowsOnce
    <3>3. CASE q < p
      <4>1. Shown(t, q) \cap Shown(t, p) = {}
        BY <2>2, <2>4, <3>3, WalkShowsOnce
      <4> QED
        BY <4>1
    <3> QED
      BY <2>4, <3>1, <3>2, <3>3
  <2> QED
    BY <2>3, <2>4 DEF WalkFaithful, t
<1> QED
  BY <1>1, InputsKept, PTL

-----------------------------------------------------------------------------
(* Searches.                                                               *)

\* The places up to n of the rows that match.
Upto(table, matches, n) == {i \in 1..Len(table) : table[i] \in matches /\ i <= n}

LEMMA UptoFinite ==
  ASSUME NEW table \in Seq(Int), NEW matches, NEW n \in Nat
  PROVE  /\ IsFiniteSet(Upto(table, matches, n))
         /\ Cardinality(Upto(table, matches, n)) \in Nat
<1>1. Len(table) \in Nat
  OBVIOUS
<1>2. IsFiniteSet(1..Len(table))
  BY <1>1, FS_Interval
<1>3. Upto(table, matches, n) \in SUBSET (1..Len(table))
  BY DEF Upto
<1>4. IsFiniteSet(Upto(table, matches, n))
  BY <1>2, <1>3, FS_Subset
<1> QED
  BY <1>4, FS_CardinalityType

\* Of the rows up to n that match, those before which fewer than SearchMax do.
Wanted(table, matches, n) ==
  {table[i] : i \in {i \in Upto(table, matches, n) :
                       Cardinality(Upto(table, matches, i - 1)) < SearchMax}}

\* The search has found those, in the order of the table.
LEMMA SearchRows ==
  ASSUME NEW table \in Tables, NEW matches, NEW found,
         found = SearchVisit(table, matches)[Len(table)]
  PROVE  /\ found \in Tables /\ Len(found) <= SearchMax
         /\ Keys(found) = Wanted(table, matches, Len(table))
<1> DEFINE N == Len(table)
           v == SearchVisit(table, matches)
           count(n) == Cardinality(Upto(table, matches, n))
           Good(n) == /\ v[n] \in Tables
                      /\ Len(v[n]) = IF count(n) <= SearchMax THEN count(n) ELSE SearchMax
                      /\ Keys(v[n]) = Wanted(table, matches, n)
           M == {n \in Nat : n <= N => Good(n)}
<1>1. /\ table \in Seq(Int) /\ N \in Nat /\ \A n \in 1..N : table[n] \in Int
      /\ \A i, j \in 1..N : i < j => table[i] < table[j]
  BY DEF Tables
<1>2. /\ v \in [0..N -> Seq(Int)] /\ v[0] = <<>>
      /\ \A n \in 1..N : v[n] = IF Len(v[n - 1]) >= SearchMax \/ table[n] \notin matches
                                  THEN v[n - 1] ELSE Append(v[n - 1], table[n])
  BY <1>1, SearchLoop
<1>3. SearchMax \in Nat
  BY ListingAssumption
<1>4. \A n \in Nat : count(n) \in Nat
  BY <1>1, UptoFinite
<1> HIDE DEF v
<1>5. 0 \in M
  <2>1. Upto(table, matches, 0) = {}
    BY <1>1 DEF Upto
  <2>2. Wanted(table, matches, 0) = {}
    BY <2>1 DEF Wanted
  <2>3. count(0) = 0
    BY <2>1, FS_EmptySet
  <2>4. v[0] \in Tables /\ Len(v[0]) = 0 /\ Keys(v[0]) = {}
    BY <1>2 DEF Tables, Keys
  <2> HIDE DEF count
  <2>5. Good(0)
    BY <1>3, <2>2, <2>3, <2>4
  <2> QED
    BY <2>5
<1>6. ASSUME NEW n \in Nat, n \in M
      PROVE  n + 1 \in M
  <2> SUFFICES ASSUME n + 1 <= N
               PROVE  Good(n + 1)
    OBVIOUS
  <2>1. Good(n) /\ n + 1 \in 1..N /\ n \in 0..N /\ n <= N
    BY <1>1, <1>6
  <2>2. v[n + 1] = IF Len(v[n]) >= SearchMax \/ table[n + 1] \notin matches
                     THEN v[n] ELSE Append(v[n], table[n + 1])
    BY <1>2, <2>1
  <2>3. CASE table[n + 1] \notin matches
    <3>1. v[n + 1] = v[n]
      BY <2>2, <2>3
    <3>2. Upto(table, matches, n + 1) = Upto(table, matches, n)
      BY <1>1, <2>3 DEF Upto
    <3> QED
      BY <2>1, <3>1, <3>2 DEF Wanted
  <2>4. CASE table[n + 1] \in matches
    <3>1. /\ Upto(table, matches, n + 1) = Upto(table, matches, n) \cup {n + 1}
          /\ count(n + 1) = count(n) + 1
      <4> DEFINE upto == Upto(table, matches, n)
      <4>1. Upto(table, matches, n + 1) = upto \cup {n + 1}
        BY <2>1, <2>4 DEF Upto
      <4>2. n + 1 \notin upto
        BY DEF Upto
      <4>3. IsFiniteSet(upto)
        BY <1>1, UptoFinite
      <4> HIDE DEF upto
      <4>4. Cardinality(upto \cup {n + 1}) = Cardinality(upto) + 1
        BY <4>2, <4>3, FS_AddElement
      <4> QED
        BY <4>1, <4>4 DEF upto
    <3>2. Wanted(table, matches, n + 1) =
            Wanted(table, matches, n) \cup
              (IF count(n) < SearchMax THEN {table[n + 1]} ELSE {})
      <4>1. (n + 1) - 1 = n
        OBVIOUS
      <4> QED
        BY <3>1, <4>1 DEF Wanted
    <3>3. count(n) \in Nat
      BY <1>4
    <3> HIDE DEF count
    <3>4. CASE count(n) >= SearchMax
      <4>0. Len(v[n]) = SearchMax
        BY <1>3, <2>1, <3>3, <3>4
      <4>1. v[n + 1] = v[n]
        BY <1>3, <2>2, <4>0
      <4>2. Wanted(table, matches, n + 1) = Wanted(table, matches, n)
        <5>1. ~(count(n) < SearchMax)
          BY <1>3, <3>3, <3>4
        <5> QED
          BY <3>2, <5>1
      <4>3. ~(count(n + 1) <= SearchMax)
        BY <1>3, <3>1, <3>3, <3>4
      <4> QED
        BY <2>1, <4>0, <4>1, <4>2, <4>3
    <3>5. CASE count(n) < SearchMax
      <4>1. v[n + 1] = Append(v[n], table[n + 1]) /\ Len(v[n]) = count(n)
        BY <1>3, <2>1, <2>2, <2>4, <3>3, <3>5
      <4>2. /\ v[n + 1] \in Seq(Int) /\ Len(v[n]) \in Nat
            /\ Len(v[n + 1]) = Len(v[n]) + 1
            /\ \A i \in 1..Len(v[n]) : v[n + 1][i] = v[n][i]
            /\ v[n + 1][Len(v[n]) + 1] = table[n + 1]
        <5>1. v[n] \in Seq(Int) /\ table[n + 1] \in Int
          BY <1>1, <1>2, <2>1
        <5> QED
          BY <4>1, <5>1, AppendAt
      <4>3. \A i \in 1..Len(v[n]) : v[n][i] < table[n + 1]
        <5> SUFFICES ASSUME NEW i \in 1..Len(v[n])
                     PROVE  v[n][i] < table[n + 1]
          OBVIOUS
        <5>1. v[n][i] \in Wanted(table, matches, n)
          BY <2>1 DEF Keys
        <5>2. PICK j \in 1..N : j <= n /\ v[n][i] = table[j]
          BY <5>1 DEF Wanted, Upto
        <5>3. j < n + 1
          BY <5>2
        <5> QED
          BY <1>1, <2>1, <5>2, <5>3
      <4>4. v[n + 1] \in Tables
        <5> SUFFICES ASSUME NEW i \in 1..Len(v[n + 1]), NEW j \in 1..Len(v[n + 1]), i < j
                     PROVE  v[n + 1][i] < v[n + 1][j]
          BY <4>2 DEF Tables
        <5>1. i \in 1..Len(v[n])
          BY <4>2
        <5>2. CASE j \in 1..Len(v[n])
          BY <2>1, <4>2, <5>1, <5>2 DEF Tables
        <5>3. CASE j = Len(v[n]) + 1
          BY <4>2, <4>3, <5>1, <5>3
        <5>4. j \in 1..Len(v[n]) \/ j = Len(v[n]) + 1
          BY <4>2
        <5> QED
          BY <5>2, <5>3, <5>4
      <4>5. Keys(v[n + 1]) = Keys(v[n]) \cup {table[n + 1]}
        <5>1. 1..Len(v[n + 1]) = 1..Len(v[n]) \cup {Len(v[n]) + 1}
          BY <4>2
        <5> QED
          BY <4>2, <5>1 DEF Keys
      <4>6. Keys(v[n + 1]) = Wanted(table, matches, n + 1)
        BY <2>1, <3>2, <3>5, <4>5
      <4>7. Len(v[n + 1]) = count(n + 1) /\ count(n + 1) <= SearchMax
        BY <1>3, <3>1, <3>3, <3>5, <4>1, <4>2
      <4> QED
        BY <4>4, <4>6, <4>7
    <3> QED
      BY <1>3, <3>3, <3>4, <3>5
  <2> QED
    BY <2>3, <2>4
<1> HIDE DEF M
<1>7. Nat \subseteq M
  BY <1>5, <1>6, Induction
<1>8. N \in M /\ N <= N /\ count(N) \in Nat
  BY <1>1, <1>4, <1>7
<1>9. Good(N)
  BY <1>8 DEF M
<1>10. found = v[N]
  BY DEF v
<1> HIDE DEF count
<1> QED
  BY <1>3, <1>8, <1>9, <1>10

\* A table has as many keys as rows.
LEMMA KeysCount ==
  ASSUME NEW s \in Tables
  PROVE  Cardinality(Keys(s)) = Len(s)
<1>1. /\ Len(s) \in Nat /\ s \in [1..Len(s) -> Int]
      /\ \A i, j \in 1..Len(s) : i < j => s[i] < s[j]
  BY DEF Tables
<1>2. s \in [1..Len(s) -> Keys(s)]
  BY <1>1 DEF Keys
<1>3. \A i, j \in 1..Len(s) : s[i] = s[j] => i = j
  BY <1>1
<1>4. s \in Surjection(1..Len(s), Keys(s))
  BY <1>2 DEF Surjection, Keys
<1>5. IsFiniteSet(1..Len(s)) /\ Cardinality(1..Len(s)) = Len(s)
  BY <1>1, FS_Interval
<1>6. s \in Injection(1..Len(s), Keys(s))
  BY <1>2, <1>3 DEF Injection, IsInjective
<1>7. Cardinality(Keys(s)) = Cardinality(1..Len(s)) <=> s \in Injection(1..Len(s), Keys(s))
  BY <1>4, <1>5, FS_Surjection
<1> QED
  BY <1>5, <1>6, <1>7

\* Every row is on a page of the list, and on none past its last one.
LEMMA RowOnPage ==
  ASSUME NEW table \in Tables, NEW k \in Keys(table)
  PROVE  /\ GetCardList(table, 0) # <<>>
         /\ \E p \in 0..NumPage(table) : k \in Keys(GetCardList(table, p))
<1>1. table \in Seq(Int) /\ Len(table) \in Nat
  BY DEF Tables
<1>2. ListMax \in Nat /\ ListMax > 0
  BY ListingAssumption
<1>3. PICK i \in 1..Len(table) : table[i] = k
  BY DEF Keys
<1>4. i - 1 \in Nat
  BY <1>1
<1>5. PICK p \in Nat : InWindow(i - 1, p)
  BY <1>4, SomePage
<1>6. Before(p) < i /\ i <= Before(p) + ListMax
  <2>1. Before(p) \in Nat
    BY BeforeNat
  <2>2. ~(i - 1 < Before(p) \/ i - 1 > Before(p) + ListMax - 1)
    BY <1>5 DEF InWindow, Before
  <2> QED
    BY <1>1, <1>2, <2>1, <2>2
<1>7. k \in Keys(GetCardList(table, p))
  BY <1>1, <1>3, <1>6, ShownRows
<1> DEFINE q == NumPage(table)
<1>8. q \in Nat /\ Len(table) <= Before(q)
  BY PagesCover
<1> HIDE DEF q
<1>9. Before(q) \in Nat
  BY <1>8, BeforeNat
<1>10. p <= q
  <2> SUFFICES ASSUME q < p
               PROVE  FALSE
    BY <1>8
  <2>1. Before(q) + ListMax <= Before(p) /\ Before(p) \in Nat
    BY <1>8, BeforeMonotone, BeforeNat
  <2> QED
    BY <1>1, <1>2, <1>6, <1>8, <1>9, <2>1
<1>11. Len(GetCardList(table, 0)) # 0
  <2>1. Len(GetCardList(table, 0)) =
          IF Len(table) <= Before(0) THEN 0
          ELSE IF Len(table) <= Before(0) + ListMax THEN Len(table) - Before(0) ELSE ListMax
    BY <1>1, PageRows
  <2>2. Before(0) = 0
    BY BeforeNat
  <2> QED
    BY <1>1, <1>2, <2>1, <2>2
<1> QED
  BY <1>7, <1>8, <1>10, <1>11 DEF q

\* The list names the rows of a page whose links resolve.
Linked(table) == [k \in Keys(table) |-> k]
Page(table, resolve, p) == CardData(table, p, Linked(table), [i \in 1..ListMax |-> resolve])

LEMMA PageNames ==
  ASSUME NEW table \in Tables, NEW resolve, NEW p \in Nat
  PROVE  /\ Page(table, resolve, p).msg = "OK"
         /\ Page(table, resolve, p).maxpage =
              IF GetCardList(table, p) = <<>> THEN 0 ELSE NumPage(table)
         /\ {Page(table, resolve, p).rows[i].id :
               i \in {i \in 1..Len(Page(table, resolve, p).rows) :
                        Page(table, resolve, p).rows[i].named}} =
              Keys(GetCardList(table, p)) \cap resolve
<1> DEFINE rows == GetCardList(table, p)
           shown == Page(table, resolve, p).rows
<1>1. /\ rows \in Seq(Int) /\ Len(rows) \in Nat /\ Len(rows) <= ListMax
  <2>1. table \in Seq(Int) /\ Len(table) \in Nat
    BY DEF Tables
  <2>2. /\ rows \in Seq(Int)
        /\ Len(rows) = IF Len(table) <= Before(p) THEN 0
                       ELSE IF Len(table) <= Before(p) + ListMax THEN Len(table) - Before(p)
                       ELSE ListMax
    BY <2>1, PageRows
  <2>3. Before(p) \in Nat /\ ListMax \in Nat
    BY BeforeNat, ListingAssumption
  <2> HIDE DEF rows
  <2> QED
    BY <2>1, <2>2, <2>3
<1>2. Keys(rows) \subseteq Keys(table)
  <2>1. table \in Seq(Int)
    BY DEF Tables
  <2>2. \A k : k \in Keys(rows) <=>
          \E i \in 1..Len(table) : table[i] = k /\ Before(p) < i /\ i <= Before(p) + ListMax
    BY <2>1, ShownRows
  <2> HIDE DEF rows
  <2> QED
    BY <2>2 DEF Keys
<1>3. /\ Page(table, resolve, p).msg = "OK"
      /\ Page(table, resolve, p).maxpage = IF rows = <<>> THEN 0 ELSE NumPage(table)
      /\ shown = IF rows = <<>> THEN <<>>
                 ELSE [i \in 1..Len(rows) |->
                        [id |-> rows[i],
                         named |-> Linked(table)[rows[i]] \in [j \in 1..ListMax |-> resolve][i]]]
  <2> HIDE DEF rows
  <2> QED
    BY DEF Page, CardData, rows
<1> HIDE DEF rows, shown
<1>4. Len(shown) = Len(rows)
  <2>1. CASE rows = <<>>
    BY <1>3, <2>1
  <2>2. CASE rows # <<>>
    BY <1>1, <1>3, <2>2
  <2> QED
    BY <2>1, <2>2
<1>5. ASSUME NEW i \in 1..Len(rows)
      PROVE  shown[i].id = rows[i] /\ (shown[i].named <=> rows[i] \in resolve)
  <2>1. rows # <<>> /\ i \in 1..ListMax /\ rows[i] \in Keys(table)
    <3>1. rows # <<>>
      BY <1>1, <1>5
    <3>2. i \in 1..ListMax
      BY <1>1, ListingAssumption
    <3>3. rows[i] \in Keys(table)
      BY <1>2, <1>5 DEF Keys
    <3> QED
      BY <3>1, <3>2, <3>3
  <2>2. Linked(table)[rows[i]] = rows[i] /\ [j \in 1..ListMax |-> resolve][i] = resolve
    BY <2>1 DEF Linked
  <2>3. shown[i] = [id |-> rows[i],
                    named |-> Linked(table)[rows[i]] \in [j \in 1..ListMax |-> resolve][i]]
    BY <1>3, <1>5, <2>1
  <2> DEFINE resolves == Linked(table)[rows[i]] \in [j \in 1..ListMax |-> resolve][i]
  <2>4. resolves <=> rows[i] \in resolve
    BY <2>2, Zenon
  <2> HIDE DEF resolves
  <2>5. shown[i] = [id |-> rows[i], named |-> resolves]
    BY <2>3 DEF resolves
  <2>6. CASE rows[i] \in resolve
    <3>1. shown[i] = [id |-> rows[i], named |-> TRUE]
      <4>1. resolves = TRUE
        BY <2>4, <2>6 DEF resolves
      <4> QED
        BY <2>5, <4>1
    <3> QED
      BY <2>6, <3>1
  <2>7. CASE rows[i] \notin resolve
    <3>1. shown[i] = [id |-> rows[i], named |-> FALSE]
      <4>1. resolves = FALSE
        BY <2>4, <2>7 DEF resolves
      <4> QED
        BY <2>5, <4>1
    <3> QED
      BY <2>7, <3>1
  <2> QED
    BY <2>6, <2>7
<1>6. {shown[i].id : i \in {i \in 1..Len(shown) : shown[i].named}} = Keys(rows) \cap resolve
  <2>1. {i \in 1..Len(shown) : shown[i].named} = {i \in 1..Len(rows) : rows[i] \in resolve}
    BY <1>4, <1>5, Zenon
  <2>2. \A i \in 1..Len(rows) : shown[i].id = rows[i]
    BY <1>5
  <2>3. {shown[i].id : i \in {i \in 1..Len(rows) : rows[i] \in resolve}} = Keys(rows) \cap resolve
    BY <2>2 DEF Keys
  <2> QED
    BY <2>1, <2>3, Zenon
<1> QED
  BY <1>3, <1>6 DEF rows, shown

\* What a search finds, in the words of the property.
Matching(table, matches) == {i \in 1..Len(table) : table[i] \in matches}
First(table, matches) ==
  {table[i] : i \in {i \in Matching(table, matches) :
                       Cardinality({j \in Matching(table, matches) : j < i}) < SearchMax}}

SearchShows(table, matches, resolve) ==
  /\ Keys(CardSearchJSON(table, matches)) = First(table, matches)
  /\ \A i \in 1..Len(CardSearchJSON(table, matches)) - 1 :
       CardSearchJSON(table, matches)[i] < CardSearchJSON(table, matches)[i + 1]
  /\ CardSearch(table, matches, Linked(table), [i \in 1..SearchMax |-> resolve]) =
       IF First(table, matches) \subseteq resolve
         THEN [msg |-> "OK", rows |-> CardSearchJSON(table, matches)]
         ELSE [msg |-> "FAIL", rows |-> <<>>]
  /\ ModelSearch(table, matches).items = Cardinality(First(table, matches))

LEMMA SearchFinds ==
  ASSUME NEW table \in Tables, NEW matches, NEW resolve
  PROVE  SearchShows(table, matches, resolve)
<1> DEFINE found == CardSearchJSON(table, matches)
           wanted == Matching(table, matches)
           first == First(table, matches)
<1>1. found = SearchVisit(table, matches)[Len(table)]
  BY DEF CardSearchJSON
<1>2. Len(table) \in Nat
  BY DEF Tables
<1> HIDE DEF found, wanted, first
<1>3. found \in Tables /\ Len(found) <= SearchMax /\ Keys(found) = Wanted(table, matches, Len(table))
  BY <1>1, SearchRows
<1>4. Wanted(table, matches, Len(table)) = first
  <2>1. Upto(table, matches, Len(table)) = wanted
    BY <1>2 DEF Upto, Matching, wanted
  <2>2. \A i \in wanted : Upto(table, matches, i - 1) = {j \in wanted : j < i}
    BY <1>2 DEF Upto, Matching, wanted
  <2>3. {i \in wanted : Cardinality(Upto(table, matches, i - 1)) < SearchMax} =
          {i \in wanted : Cardinality({j \in wanted : j < i}) < SearchMax}
    BY <2>2
  <2> QED
    BY <2>1, <2>3 DEF Wanted, First, first, wanted
<1>5. Keys(found) = first
  BY <1>3, <1>4
<1>6. first \subseteq Keys(table)
  BY DEF Keys, First, Matching, first
<1>7. Len(found) \in Nat /\ \A i \in 1..Len(found) - 1 : found[i] < found[i + 1]
  BY <1>3 DEF Tables
<1>8. (\E i \in 1..Len(found) : Linked(table)[found[i]] \notin [j \in 1..SearchMax |-> resolve][i])
        <=> ~(first \subseteq resolve)
  <2>1. ASSUME NEW i \in 1..Len(found)
        PROVE  /\ Linked(table)[found[i]] = found[i]
               /\ [j \in 1..SearchMax |-> resolve][i] = resolve
    <3>1. found[i] \in Keys(table)
      BY <1>5, <1>6 DEF Keys
    <3>2. i \in 1..SearchMax
      BY <1>3, <1>7, ListingAssumption
    <3> QED
      BY <3>1, <3>2 DEF Linked
  <2>2. ~(first \subseteq resolve) <=> \E i \in 1..Len(found) : found[i] \notin resolve
    BY <1>5 DEF Keys
  <2> QED
    BY <2>1, <2>2
<1>9. CardSearch(table, matches, Linked(table), [i \in 1..SearchMax |-> resolve]) =
        IF first \subseteq resolve THEN [msg |-> "OK", rows |-> found]
                                   ELSE [msg |-> "FAIL", rows |-> <<>>]
  BY <1>8 DEF CardSearch, found
<1>10. ModelSearch(table, matches).items = Cardinality(first)
  <2>1. ModelSearch(table, matches).items = Len(found)
    BY <1>1 DEF ModelSearch, ModelSearchJSON
  <2> QED
    BY <1>3, <1>5, <2>1, KeysCount
<1> QED
  BY <1>5, <1>7, <1>9, <1>10 DEF SearchShows, found, first

\* The pages up to the last name the rows whose links resolve, all of them.
LEMMA PagesName ==
  ASSUME NEW table \in Tables, NEW resolve
  PROVE  /\ UNION {Keys(GetCardList(table, p)) \cap resolve :
                     p \in 0..Page(table, resolve, 0).maxpage} = Keys(table) \cap resolve
         /\ Page(table, resolve, 0).maxpage \in Nat
<1> DEFINE max == Page(table, resolve, 0).maxpage
<1>1. max = IF GetCardList(table, 0) = <<>> THEN 0 ELSE NumPage(table)
  BY PageNames
<1>2. max \in Nat
  <2>1. Len(table) \in Nat /\ ListMax \in Nat \ {0}
    BY ListingAssumption DEF Tables
  <2>2. NumPage(table) \in Nat
    BY <2>1 DEF NumPage
  <2> HIDE DEF max
  <2> QED
    BY <1>1, <2>2
<1> HIDE DEF max
<1>3. \A p \in 0..max : Keys(GetCardList(table, p)) \subseteq Keys(table)
  <2> SUFFICES ASSUME NEW p \in 0..max
               PROVE  Keys(GetCardList(table, p)) \subseteq Keys(table)
    OBVIOUS
  <2>1. table \in Seq(Int) /\ p \in Nat
    BY <1>2 DEF Tables
  <2>2. \A k : k \in Keys(GetCardList(table, p)) <=>
          \E i \in 1..Len(table) : table[i] = k /\ Before(p) < i /\ i <= Before(p) + ListMax
    BY <2>1, ShownRows
  <2> QED
    BY <2>2 DEF Keys
<1>4. \A k \in Keys(table) : \E p \in 0..max : k \in Keys(GetCardList(table, p))
  BY <1>1, RowOnPage
<1>5. UNION {Keys(GetCardList(table, p)) \cap resolve : p \in 0..max} = Keys(table) \cap resolve
  BY <1>3, <1>4
<1> QED
  BY <1>2, <1>5 DEF max

\* A search shows the first SearchMax rows that match, in the order of the table
\* (CardSearchJSON, ModelSearchJSON), or, for cards, nothing if a link of those
\* does not resolve, while the pages together name exactly the rows whose links
\* do (cardData).
THEOREM SearchesAreAnswered == Spec => []SearchAnswers
<1>1. in \in Inputs => SearchAnswers
  <2> SUFFICES ASSUME in \in Inputs, in.kind = "search"
               PROVE  SearchAnswers
    BY DEF SearchAnswers
  <2> DEFINE table == in.table
             matches == in.matches
             resolve == in.resolve
             found == CardSearchJSON(table, matches)
             wanted == {i \in 1..Len(table) : table[i] \in matches}
             before(i) == {j \in wanted : j < i}
             first == {table[i] : i \in {i \in wanted : Cardinality(before(i)) < SearchMax}}
             page(p) == Page(table, resolve, p)
             named(p) == {page(p).rows[i].id :
                            i \in {i \in 1..Len(page(p).rows) : page(p).rows[i].named}}
  <2>1. table \in Tables
    BY InputsAssumption DEF Inputs
  <2> HIDE DEF table, matches, resolve
  <2>2. first = First(table, matches)
    BY DEF First, Matching
  <2> HIDE DEF wanted, first
  <2> HIDE DEF found
  <2>3. /\ Keys(found) = first
        /\ \A i \in 1..Len(found) - 1 : found[i] < found[i + 1]
        /\ CardSearch(table, matches, Linked(table), [i \in 1..SearchMax |-> resolve]) =
             IF first \subseteq resolve THEN [msg |-> "OK", rows |-> found]
                                           ELSE [msg |-> "FAIL", rows |-> <<>>]
        /\ ModelSearch(table, matches).items = Cardinality(first)
    <3>1. SearchShows(table, matches, resolve)
      BY <2>1, SearchFinds
    <3> QED
      BY <2>2, <3>1 DEF SearchShows, found
  <2>4. page(0).maxpage \in Nat
    BY <2>1, PagesName
  <2>5. \A p \in 0..page(0).maxpage : p \in Nat
    BY <2>4
  <2>6. \A p \in 0..page(0).maxpage :
          page(p).msg = "OK" /\ named(p) = Keys(GetCardList(table, p)) \cap resolve
    BY <2>1, <2>5, PageNames
  <2>7. UNION {Keys(GetCardList(table, p)) \cap resolve : p \in 0..page(0).maxpage} =
          Keys(table) \cap resolve
    BY <2>1, PagesName
  <2> HIDE DEF page
  <2>8. /\ UNION {named(p) : p \in 0..page(0).maxpage} = Keys(table) \cap resolve
        /\ \A p \in 0..page(0).maxpage : page(p).msg = "OK"
    BY <2>6, <2>7
  <2> QED
    BY <2>3, <2>8 DEF SearchAnswers, found, page, Page, Linked, wanted, first, table, matches, resolve
<1> QED
  BY <1>1, InputsKept, PTL

-----------------------------------------------------------------------------
(* The read counter.                                                       *)

\* The search (binary.Uvarint) and the list (three bytes, the lowest first) agree
\* on a stored read counter below half a byte's range; from there on the search
\* shows less.
LEMMA SearchCounterFallsShort ==
  ASSUME NEW b \in Bytes3
  PROVE  IF LittleEndian(b) < Byte \div 2
           THEN Uvarint(b) = LittleEndian(b)
           ELSE Uvarint(b) < LittleEndian(b)
<1> DEFINE H == Byte \div 2
<1>1. H \in Nat /\ H > 0 /\ Byte = H + H
  BY ListingAssumption
<1>2. /\ b[1] \in Nat /\ b[2] \in Nat /\ b[3] \in Nat
      /\ b[1] < H + H /\ b[2] < H + H /\ b[3] < H + H
  BY <1>1, ListingAssumption DEF Bytes3
<1> HIDE DEF H
<1>3. PICK x \in Nat, y \in Nat : x = H * b[2] /\ y = H * H * b[3]
  BY <1>1, <1>2, ProductNat
<1>4. LittleEndian(b) = b[1] + (x + x) + (y + y + y + y)
  <2>1. Byte * b[2] = x + x
    BY <1>1, <1>2, <1>3
  <2>2. Byte * Byte * b[3] = y + y + y + y
    BY <1>1, <1>2, <1>3
  <2> QED
    BY <2>1, <2>2 DEF LittleEndian
<1>5. b[2] # 0 => x >= H
  BY <1>1, <1>2, <1>3
<1>6. \A n \in Nat : n < H + H => /\ n < H => n % H = n
                                  /\ n >= H => n % H = n - H
  BY <1>1
<1>7. CASE b[1] < H
  <2>1. Uvarint(b) = b[1]
    BY <1>1, <1>2, <1>7 DEF Uvarint, H
  <2>2. b[3] # 0 => y >= H
    BY <1>1, <1>2, <1>3
  <2>3. /\ b[2] = 0 => x = 0
        /\ b[3] = 0 => y = 0
    BY <1>1, <1>3
  <2>4. x \in Nat /\ y \in Nat
    BY <1>3
  <2>5. CASE b[2] = 0 /\ b[3] = 0
    <3>1. LittleEndian(b) = b[1]
      BY <1>2, <1>4, <2>3, <2>5
    <3> QED
      BY <1>7, <2>1, <3>1 DEF H
  <2>6. CASE b[2] # 0 \/ b[3] # 0
    <3>1. x + y >= H
      BY <1>1, <1>5, <2>2, <2>4, <2>6
    <3>2. LittleEndian(b) >= H /\ LittleEndian(b) \in Nat
      BY <1>1, <1>2, <1>4, <2>4, <3>1
    <3> QED
      BY <1>1, <1>2, <1>7, <2>1, <3>2 DEF H
  <2> QED
    BY <2>5, <2>6
<1>8. CASE b[1] >= H /\ b[2] < H
  <2>0. ~(b[1] < H) /\ ~(b[2] >= H)
    BY <1>1, <1>2, <1>8
  <2>1. Uvarint(b) = (b[1] % H) + H * b[2]
    BY <1>8, <2>0, Zenon DEF Uvarint, H
  <2>2. Uvarint(b) = (b[1] - H) + x
    BY <1>1, <1>2, <1>3, <1>6, <1>8, <2>1
  <2> QED
    BY <1>1, <1>2, <1>4, <1>8, <2>2 DEF H
<1>9. CASE b[1] >= H /\ b[2] >= H /\ b[3] < H
  <2>1. Uvarint(b) = (b[1] % H) + H * (b[2] % H) + H * H * b[3]
    BY <1>1, <1>2, <1>9 DEF Uvarint, H
  <2>2. PICK z \in Nat : z = H * (b[2] - H) /\ z <= x
    <3>1. H * (b[2] - H) = x - H * H /\ H * H \in Nat
      BY <1>1, <1>2, <1>3
    <3>2. b[2] - H \in Nat
      BY <1>1, <1>2, <1>9
    <3>3. H * (b[2] - H) \in Nat
      BY <1>1, <3>2, ProductNat
    <3> QED
      BY <1>3, <3>1, <3>3
  <2>3. Uvarint(b) = (b[1] - H) + z + y
    BY <1>1, <1>2, <1>3, <1>6, <1>9, <2>1, <2>2
  <2> QED
    BY <1>1, <1>2, <1>4, <1>9, <2>2, <2>3 DEF H
<1>10. CASE b[1] >= H /\ b[2] >= H /\ b[3] >= H
  <2>1. Uvarint(b) = 0
    BY <1>1, <1>2, <1>10 DEF Uvarint, H
  <2> QED
    BY <1>1, <1>2, <1>4, <1>10, <2>1 DEF H
<1> QED
  BY <1>1, <1>2, <1>7, <1>8, <1>9, <1>10

\* GetCardList decodes the three bytes of a stored counter as the number the tag
\* wrote, CardSearchJSON only below half a byte's range.
THEOREM CountersAreShown == Spec => []CounterShown
<1>1. in \in Inputs => CounterShown
  <2> SUFFICES ASSUME in \in Inputs, in.kind = "counter"
               PROVE  CounterShown
    BY DEF CounterShown
  <2> DEFINE b == in.bytes
  <2>1. b \in Bytes3
    BY InputsAssumption DEF Inputs
  <2> HIDE DEF b
  <2>2. LittleEndian(b) = (b[3] * Byte + b[2]) * Byte + b[1]
    <3>1. Byte \in Nat /\ b[1] \in Nat /\ b[2] \in Nat /\ b[3] \in Nat
      BY <2>1, ListingAssumption DEF Bytes3
    <3> QED
      BY <3>1 DEF LittleEndian
  <2>3. IF LittleEndian(b) < Byte \div 2
          THEN Uvarint(b) = LittleEndian(b)
          ELSE Uvarint(b) < LittleEndian(b)
    BY <2>1, SearchCounterFallsShort
  <2> DEFINE v == (b[3] * Byte + b[2]) * Byte + b[1]
  <2>4. v = LittleEndian(b)
    BY <2>2
  <2> HIDE DEF v
  <2>5. LittleEndian(b) = v /\ IF v < Byte \div 2 THEN Uvarint(b) = v ELSE Uvarint(b) < v
    BY <2>3, <2>4
  <2> QED
    BY <2>5 DEF CounterShown, v, b
<1> QED
  BY <1>1, InputsKept, PTL

-----------------------------------------------------------------------------
(* Submitted pictures.                                                     *)

\* A sum of scores is not above c times their number unless one of them is above
\* c; likewise below.
LEMMA SumBounds ==
  ASSUME NEW s \in Seq(Int), NEW c \in Int
  PROVE  /\ Sum(s) \in Int
         /\ Sum(s) > Len(s) * c => \E i \in 1..Len(s) : s[i] > c
         /\ Sum(s) < Len(s) * c => \E i \in 1..Len(s) : s[i] < c
<1> DEFINE N == Len(s)
           above == {i \in 1..N : s[i] > c}
           below == {i \in 1..N : s[i] < c}
           times == [n \in Nat |-> n * c]
<1>1. N \in Nat /\ \A i \in 1..N : s[i] \in Int
  OBVIOUS
<1>2. PICK f \in [0..N -> Int] :
        /\ f[0] = 0 /\ \A n \in 1..N : f[n] = f[n - 1] + s[n]
        /\ Sum(s) = f[N]
  BY SumLoop
<1> HIDE DEF N
<1> DEFINE M == {n \in Nat : n <= N =>
                   /\ f[n] <= times[n] \/ above # {}
                   /\ f[n] >= times[n] \/ below # {}}
<1>3. /\ times[0] = 0
      /\ \A n \in Nat : times[n] \in Int /\ times[n + 1] = times[n] + c
  OBVIOUS
<1> HIDE DEF times
<1>4. 0 \in M
  BY <1>2, <1>3
<1>5. ASSUME NEW n \in Nat, n \in M
      PROVE  n + 1 \in M
  <2> SUFFICES ASSUME n + 1 <= N
               PROVE  /\ f[n + 1] <= times[n + 1] \/ above # {}
                      /\ f[n + 1] >= times[n + 1] \/ below # {}
    OBVIOUS
  <2>1. n + 1 \in 1..N /\ n <= N /\ n \in 0..N
    BY <1>1
  <2>2. f[n + 1] = f[n] + s[n + 1] /\ f[n] \in Int /\ s[n + 1] \in Int
    BY <1>1, <1>2, <2>1
  <2>3. /\ s[n + 1] <= c \/ above # {}
        /\ s[n + 1] >= c \/ below # {}
    <3>1. n + 1 \in 1..N /\ s[n + 1] \in Int
      BY <2>1, <2>2
    <3>2. s[n + 1] <= c \/ s[n + 1] > c
      BY <3>1
    <3>3. s[n + 1] >= c \/ s[n + 1] < c
      BY <3>1
    <3> QED
      BY <3>1, <3>2, <3>3
  <2> HIDE DEF above, below
  <2>4. /\ f[n] <= times[n] \/ above # {}
        /\ f[n] >= times[n] \/ below # {}
    BY <1>5, <2>1
  <2>5. times[n] \in Int /\ times[n + 1] = times[n] + c
    BY <1>3
  <2>6. f[n + 1] <= times[n + 1] \/ above # {}
    BY <2>2, <2>3, <2>4, <2>5
  <2>7. f[n + 1] >= times[n + 1] \/ below # {}
    BY <2>2, <2>3, <2>4, <2>5
  <2> QED
    BY <2>6, <2>7
<1> HIDE DEF M
<1>6. Nat \subseteq M
  BY <1>4, <1>5, Induction
<1>7. N \in M /\ N <= N /\ f[N] \in Int /\ times[N] \in Int
  BY <1>1, <1>2, <1>3, <1>6
<1>8. /\ f[N] <= times[N] \/ above # {}
      /\ f[N] >= times[N] \/ below # {}
  <2> HIDE DEF above, below
  <2> QED
    BY <1>7 DEF M
<1> QED
  BY <1>2, <1>7, <1>8 DEF N, times

\* The score of several pictures lies between those of the best and of the worst
\* of them alone.
LEMMA FinalBetween ==
  ASSUME NEW s \in Seq(Int), s # <<>>
  PROVE  /\ \E i \in 1..Len(s) : Final(s) >= Final(<<s[i]>>)
         /\ \E i \in 1..Len(s) : Final(s) <= Final(<<s[i]>>)
<1> DEFINE N == Len(s)
           mean == Sum(s) \div N
           clip(f) == IF f < 0 THEN 0 ELSE IF f > 100 THEN 100 ELSE f
<1>1. N \in Nat /\ N > 0 /\ \A i \in 1..N : s[i] \in Int
  OBVIOUS
<1>2. Sum(s) \in Int
  BY SumBounds
<1>3. Final(s) = clip(100 - mean)
  BY <1>1 DEF Final
<1>4. ASSUME NEW i \in 1..N
      PROVE  Final(<<s[i]>>) = clip(100 - s[i])
  <2>1. s[i] \in Int
    BY <1>1
  <2>2. Sum(<<s[i]>>) = s[i]
    <3> DEFINE one == <<s[i]>>
    <3>1. one \in Seq(Int) /\ Len(one) = 1 /\ one[1] = s[i]
      BY <2>1
    <3> HIDE DEF one
    <3>2. /\ Sum(one) \in Int
          /\ Sum(one) > Len(one) * s[i] => \E j \in 1..Len(one) : one[j] > s[i]
          /\ Sum(one) < Len(one) * s[i] => \E j \in 1..Len(one) : one[j] < s[i]
      BY <2>1, <3>1, SumBounds
    <3>3. Sum(one) <= s[i] /\ Sum(one) >= s[i] /\ Sum(one) \in Int
      BY <2>1, <3>1, <3>2
    <3> QED
      BY <2>1, <3>3 DEF one
  <2>3. Len(<<s[i]>>) = 1 /\ <<s[i]>> # <<>>
    OBVIOUS
  <2>4. s[i] \div 1 = s[i]
    BY <2>1
  <2> QED
    BY <2>2, <2>3, <2>4 DEF Final
<1> HIDE DEF N
<1>5. /\ mean \in Int
      /\ N * mean <= Sum(s) /\ Sum(s) < N * mean + N
  <2> DEFINE x == Sum(s)
  <2>1. x \in Int
    BY <1>2
  <2> HIDE DEF x
  <2> DEFINE q == x \div N
             r == x % N
  <2>2. q \in Int /\ r \in 0..N - 1 /\ x = N * q + r
    BY <1>1, <2>1
  <2> HIDE DEF q, r
  <2>3. PICK y \in Int : y = N * q
    BY <1>1, <2>2
  <2>4. y <= x /\ x < y + N
    BY <1>1, <2>2, <2>3
  <2> QED
    BY <2>2, <2>3, <2>4 DEF x, q
<1> HIDE DEF mean
<1>6. \E i \in 1..N : s[i] >= mean
  <2> SUFFICES ASSUME \A i \in 1..N : ~(s[i] >= mean)
               PROVE  FALSE
    OBVIOUS
  <2>1. \A i \in 1..N : s[i] <= mean - 1
    BY <1>1, <1>5
  <2>2. Sum(s) <= N * (mean - 1)
    <3>1. mean - 1 \in Int /\ \A i \in 1..Len(s) : s[i] <= mean - 1
      BY <1>5, <2>1 DEF N
    <3>2. /\ Sum(s) > Len(s) * (mean - 1) =>
               \E i \in 1..Len(s) : s[i] > mean - 1
          /\ Len(s) * (mean - 1) \in Int
      BY <1>1, <3>1, SumBounds DEF N
    <3>3. ~ \E i \in 1..Len(s) : s[i] > mean - 1
      BY <1>1, <1>5, <3>1 DEF N
    <3> QED
      BY <1>2, <3>2, <3>3 DEF N
  <2>3. N * (mean - 1) = N * mean - N /\ N * mean \in Int
    BY <1>1, <1>5
  <2> QED
    BY <1>1, <1>2, <1>5, <2>2, <2>3
<1>7. \E i \in 1..N : s[i] <= mean
  <2> SUFFICES ASSUME \A i \in 1..N : ~(s[i] <= mean)
               PROVE  FALSE
    OBVIOUS
  <2>1. \A i \in 1..N : s[i] >= mean + 1
    BY <1>1, <1>5
  <2>2. Sum(s) >= N * (mean + 1)
    <3>1. mean + 1 \in Int /\ \A i \in 1..Len(s) : s[i] >= mean + 1
      BY <1>5, <2>1 DEF N
    <3>2. /\ Sum(s) < Len(s) * (mean + 1) =>
               \E i \in 1..Len(s) : s[i] < mean + 1
          /\ Len(s) * (mean + 1) \in Int
      BY <1>1, <3>1, SumBounds DEF N
    <3>3. ~ \E i \in 1..Len(s) : s[i] < mean + 1
      BY <1>1, <1>5, <3>1 DEF N
    <3> QED
      BY <1>2, <3>2, <3>3 DEF N
  <2>3. N * (mean + 1) = N * mean + N /\ N * mean \in Int
    BY <1>1, <1>5
  <2> QED
    BY <1>1, <1>2, <1>5, <2>2, <2>3
<1>8. \A x, y \in Int : x <= y => clip(100 - x) >= clip(100 - y)
  OBVIOUS
<1> HIDE DEF clip
<1>9. \E i \in 1..N : Final(s) >= Final(<<s[i]>>)
  BY <1>1, <1>3, <1>4, <1>5, <1>6, <1>8
<1>10. \E i \in 1..N : Final(s) <= Final(<<s[i]>>)
  <2>1. PICK i \in 1..N : s[i] <= mean
    BY <1>7
  <2>2. clip(100 - s[i]) >= clip(100 - mean)
    BY <1>1, <1>5, <1>8, <2>1
  <2>3. clip(100 - s[i]) \in Int /\ clip(100 - mean) \in Int
    BY <1>1, <1>5 DEF clip
  <2> QED
    BY <1>3, <1>4, <2>2, <2>3
<1> QED
  BY <1>9, <1>10 DEF N

Disks == [Objects -> [1..2 -> {"none", "ok", "bad"}]]

LEMMA ReferencesType ==
  ASSUME NEW disk \in Disks, NEW o \in Objects
  PROVE  References(disk, o) \in Seq({"ok", "bad"}) /\ Len(References(disk, o)) \in Nat
<1> DEFINE added(f) == IF f = "none" THEN <<>> ELSE <<f>>
<1>1. ASSUME NEW f \in {"none", "ok", "bad"}
      PROVE  added(f) \in Seq({"ok", "bad"})
  <2>1. CASE f = "none"
    BY <2>1
  <2>2. CASE f \in {"ok", "bad"}
    <3>1. <<f>> \in Seq({"ok", "bad"})
      BY <2>2
    <3>2. f # "none"
      BY <2>2
    <3> QED
      BY <3>1, <3>2
  <2> QED
    BY <2>1, <2>2
<1>2. disk[o][1] \in {"none", "ok", "bad"} /\ disk[o][2] \in {"none", "ok", "bad"}
  BY DEF Disks
<1>3. added(disk[o][1]) \o added(disk[o][2]) \in Seq({"ok", "bad"})
  <2> HIDE DEF added
  <2>1. added(disk[o][1]) \in Seq({"ok", "bad"}) /\ added(disk[o][2]) \in Seq({"ok", "bad"})
    BY <1>1, <1>2
  <2> QED
    BY <2>1
<1>4. <<>> \in Seq({"ok", "bad"})
  OBVIOUS
<1>5. References(disk, o) \in Seq({"ok", "bad"})
  BY <1>3, <1>4 DEF References
<1> QED
  BY <1>5

\* Every picture asked for is there, can be read and has a reference.
Ready(refs, num, parts) ==
  /\ num <= Len(parts) /\ num <= Len(refs)
  /\ \A i \in 1..num : parts[i].kind = "picture"

Stored(num, parts) == num > 0 /\ parts # <<>> /\ parts[1].kind # "none"

\* authSubmit scores the pictures if all of them are ready; else it ends at the
\* first that is not, and leaves the earlier ones and, unless it is missing, this.
LEMMA SubmitCases ==
  ASSUME NEW disk \in Disks, NEW o \in Objects, NEW num \in Int, num # 0,
         NEW parts \in Seq(Parts)
  PROVE  /\ Ready(References(disk, o), num, parts) =>
              authSubmit(disk, o, num, parts) =
                Reply("OK", Final([i \in 1..(IF num < 0 THEN 0 ELSE num) |->
                                    AuthDemo(References(disk, o), i, parts[i])]), FALSE)
         /\ ~Ready(References(disk, o), num, parts) =>
              /\ authSubmit(disk, o, num, parts).msg # "OK"
              /\ authSubmit(disk, o, num, parts).left <=> Stored(num, parts)
<1> DEFINE refs == References(disk, o)
           taken == IF num < 0 THEN 0 ELSE num
           part(i) == IF i <= Len(parts) THEN parts[i] ELSE [kind |-> "none"]
           result(i) == testResult(refs, i, part(i))
           bad == {i \in 1..taken : result(i) # "scored"}
           first == CHOOSE i \in bad : \A j \in bad : i <= j
           score == Final([i \in 1..taken |-> AuthDemo(refs, i, part(i))])
           answer == authSubmit(disk, o, num, parts)
<1>1. Len(refs) \in Nat /\ taken \in Nat /\ Len(parts) \in Nat
  BY ReferencesType
<1>2. answer = IF bad # {}
                 THEN Reply(result(first), 0, first > 1 \/ result(first) # "missing")
                 ELSE Reply("OK", score, FALSE)
  BY DEF authSubmit
<1> HIDE DEF refs, answer
<1>3. \A i \in 1..taken : part(i).kind \in {"none", "bad", "picture"}
  <2>1. \A i \in 1..Len(parts) : parts[i] \in Parts
    OBVIOUS
  <2>2. \A x \in Parts : x.kind \in {"none", "bad", "picture"}
    BY DEF Parts
  <2> QED
    BY <1>1, <2>1, <2>2
<1>4. \A i \in 1..taken :
        /\ result(i) = "scored" <=> part(i).kind = "picture" /\ i <= Len(refs)
        /\ result(i) = "missing" <=> part(i).kind = "none"
        /\ result(i) # "OK"
  <2> SUFFICES ASSUME NEW i \in 1..taken
               PROVE  /\ result(i) = "scored" <=> part(i).kind = "picture" /\ i <= Len(refs)
                      /\ result(i) = "missing" <=> part(i).kind = "none"
                      /\ result(i) # "OK"
    OBVIOUS
  <2>1. part(i).kind \in {"none", "bad", "picture"} /\ i \in Int
    BY <1>3
  <2> HIDE DEF part
  <2> QED
    BY <1>1, <2>1 DEF testResult
<1>5. \A i \in 1..taken :
        /\ part(i).kind = "picture" <=> i <= Len(parts) /\ parts[i].kind = "picture"
        /\ part(i).kind = "none" <=> (i <= Len(parts) => parts[i].kind = "none")
  OBVIOUS
<1> HIDE DEF result, part
<1>6. bad = {} <=> Ready(refs, num, parts)
  <2>1. ASSUME bad = {}
        PROVE  Ready(refs, num, parts)
    <3>1. \A i \in 1..taken : i <= Len(refs) /\ i <= Len(parts) /\ parts[i].kind = "picture"
      BY <1>4, <1>5, <2>1
    <3>2. CASE num < 0
      BY <1>1, <3>2 DEF Ready
    <3>3. CASE num > 0
      <4>1. num \in 1..taken /\ taken = num
        BY <3>3
      <4> QED
        BY <3>1, <4>1 DEF Ready
    <3> QED
      BY <3>2, <3>3
  <2>2. ASSUME Ready(refs, num, parts), NEW i \in 1..taken
        PROVE  result(i) = "scored"
    <3>1. num > 0 /\ taken = num /\ i \in 1..num
      OBVIOUS
    <3>2. i <= Len(parts) /\ i <= Len(refs) /\ parts[i].kind = "picture"
      BY <1>1, <2>2, <3>1 DEF Ready
    <3> QED
      BY <1>4, <1>5, <3>2
  <2> QED
    BY <2>1, <2>2
<1>7. ASSUME Ready(refs, num, parts)
      PROVE  answer = Reply("OK", Final([i \in 1..taken |-> AuthDemo(refs, i, parts[i])]), FALSE)
  <2>1. \A i \in 1..taken : part(i) = parts[i]
    BY <1>1, <1>7 DEF Ready, part
  <2>2. [i \in 1..taken |-> AuthDemo(refs, i, part(i))] =
        [i \in 1..taken |-> AuthDemo(refs, i, parts[i])]
    BY <2>1
  <2>3. bad = {}
    BY <1>6, <1>7
  <2>4. answer = Reply("OK", score, FALSE)
    BY <1>2, <2>3
  <2> QED
    BY <2>2, <2>4
<1>8. ASSUME ~Ready(refs, num, parts)
      PROVE  answer.msg # "OK" /\ (answer.left <=> Stored(num, parts))
  <2>1. bad # {} /\ bad \subseteq Nat /\ bad \subseteq 1..taken
    BY <1>1, <1>6, <1>8
  <2>2. \E i \in bad : \A j \in bad : i <= j
    <3> HIDE DEF bad
    <3> QED
      BY <2>1, Least
  <2>3. first \in bad /\ \A j \in bad : first <= j
    BY <2>2
  <2> HIDE DEF first
  <2>4. answer = Reply(result(first), 0, first > 1 \/ result(first) # "missing")
    <3> HIDE DEF bad
    <3> QED
      BY <1>2, <2>1
  <2>5. first \in 1..taken /\ num > 0 /\ 1 \in 1..taken
    BY <2>1, <2>3
  <2>6. answer.msg # "OK"
    BY <1>4, <2>4, <2>5 DEF Reply
  <2>7. answer.left <=> first > 1 \/ result(first) # "missing"
    BY <2>4 DEF Reply
  <2>8. parts # <<>> <=> 1 <= Len(parts)
    OBVIOUS
  <2>9. Stored(num, parts) <=> part(1).kind # "none"
    BY <1>5, <2>5, <2>8 DEF Stored
  <2>10. CASE first = 1
    <3>1. ~(first > 1)
      BY <2>10
    <3>2. result(first) # "missing" <=> part(1).kind # "none"
      BY <1>4, <2>5, <2>10
    <3> QED
      BY <2>6, <2>7, <2>9, <3>1, <3>2, Zenon
  <2>11. CASE first > 1
    <3>1. 1 \notin bad
      BY <2>3, <2>5, <2>11
    <3>2. result(1) = "scored"
      BY <2>5, <3>1
    <3>3. part(1).kind = "picture"
      BY <1>4, <2>5, <3>2
    <3>4. part(1).kind # "none"
      BY <3>3
    <3> QED
      BY <2>6, <2>7, <2>9, <2>11, <3>4, Zenon
  <2> QED
    BY <2>5, <2>6, <2>10, <2>11
<1> QED
  BY <1>7, <1>8 DEF refs, answer

\* authSubmit answers with a score exactly when every picture is there, can be
\* read and has a reference (of which authRef has some to show), the score is one
\* between those of the best and the worst picture, and the pictures are left in
\* ./uploadtmp exactly when one was stored and the request failed.
THEOREM SubmissionsAreAnswered == Spec => []SubmitAnswers
<1>1. in \in Inputs => SubmitAnswers
  <2> SUFFICES ASSUME in \in Inputs, in.kind = "submit"
               PROVE  SubmitAnswers
    BY DEF SubmitAnswers
  <2> DEFINE disk == in.disk
             o == in.object
             num == in.num
             parts == in.parts
             refs == References(disk, o)
             answer == authSubmit(disk, o, num, parts)
  <2>1. disk \in Disks /\ num \in Int /\ parts \in Seq(Parts)
    BY InputsAssumption DEF Inputs, Disks
  <2> HIDE DEF disk, o, num, parts
  <2>2. ASSUME o \notin Objects \/ num = 0
        PROVE  answer.msg # "OK" /\ ~answer.left
    BY <2>2 DEF authSubmit, Reply
  <2>3. ASSUME o \in Objects, num # 0
        PROVE  /\ answer.msg = "OK" <=> Ready(refs, num, parts)
               /\ answer.left <=> Stored(num, parts) /\ ~Ready(refs, num, parts)
    <3>1. /\ Ready(refs, num, parts) =>
               answer = Reply("OK", Final([i \in 1..(IF num < 0 THEN 0 ELSE num) |->
                                            AuthDemo(refs, i, parts[i])]), FALSE)
          /\ ~Ready(refs, num, parts) =>
               answer.msg # "OK" /\ (answer.left <=> Stored(num, parts))
      BY <2>1, <2>3, SubmitCases
    <3> HIDE DEF answer, refs
    <3>2. CASE Ready(refs, num, parts)
      <4>1. answer.msg = "OK" /\ answer.left = FALSE
        BY <3>1, <3>2 DEF Reply
      <4> QED
        BY <3>2, <4>1
    <3>3. CASE ~Ready(refs, num, parts)
      BY <3>1, <3>3, Zenon
    <3> QED
      BY <3>2, <3>3
  <2>4. ASSUME o \in Objects
        PROVE  authRef(disk, o) = "OK" <=>
                 authSubmit(disk, o, 1, <<[kind |-> "picture", distance |-> 0]>>).msg = "OK"
    <3> DEFINE one == <<[kind |-> "picture", distance |-> 0]>>
    <3>1. one \in Seq(Parts) /\ Len(one) = 1 /\ one[1].kind = "picture"
      BY DEF Parts
    <3> HIDE DEF one
    <3>2. refs \in Seq({"ok", "bad"}) /\ Len(refs) \in Nat
      BY <2>1, <2>4, ReferencesType
    <3>3. authRef(disk, o) = "OK" <=> refs # <<>>
      BY <2>4, ObjectsAssumption DEF authRef
    <3> HIDE DEF refs
    <3>4. refs # <<>> <=> 1 <= Len(refs)
      BY <3>2
    <3>5. Ready(refs, 1, one) <=> 1 <= Len(refs)
      BY <3>1, <3>2 DEF Ready
    <3>6. authSubmit(disk, o, 1, one).msg = "OK" <=> Ready(refs, 1, one)
      <4>1. 1 \in Int /\ 1 # 0
        OBVIOUS
      <4>2. /\ Ready(refs, 1, one) =>
                 authSubmit(disk, o, 1, one) =
                   Reply("OK", Final([i \in 1..(IF 1 < 0 THEN 0 ELSE 1) |->
                                       AuthDemo(refs, i, one[i])]), FALSE)
            /\ ~Ready(refs, 1, one) =>
                 /\ authSubmit(disk, o, 1, one).msg # "OK"
                 /\ authSubmit(disk, o, 1, one).left <=> Stored(1, one)
        BY <2>1, <2>4, <3>1, <4>1, SubmitCases DEF refs
      <4> QED
        BY <4>2 DEF Reply
    <3> QED
      BY <3>3, <3>4, <3>5, <3>6 DEF one
  <2>5. ASSUME o \in Objects, num > 0, Ready(refs, num, parts)
        PROVE  /\ \E i \in 1..num : answer.score >= Final(<<AuthDemo(refs, i, parts[i])>>)
               /\ \E i \in 1..num : answer.score <= Final(<<AuthDemo(refs, i, parts[i])>>)
    <3> DEFINE scores == [i \in 1..num |-> AuthDemo(refs, i, parts[i])]
    <3>1. answer.score = Final(scores)
      BY <2>1, <2>5, SubmitCases DEF Reply
    <3>2. \A i \in 1..num : AuthDemo(refs, i, parts[i]) \in Int
      <4>1. num <= Len(parts) /\ Len(parts) \in Nat
        BY <2>1, <2>5 DEF Ready
      <4>2. \A i \in 1..num : parts[i].distance \in Int
        <5>1. \A i \in 1..Len(parts) : parts[i] \in Parts
          BY <2>1
        <5>2. \A x \in Parts : x.distance \in Int
          BY DEF Parts
        <5> QED
          BY <2>1, <4>1, <5>1, <5>2
      <4> QED
        BY <4>2 DEF AuthDemo, NotCompared, ScoreBase
    <3>3. scores \in Seq(Int) /\ Len(scores) = num /\ scores # <<>>
      <4> HIDE DEF refs
      <4> QED
        BY <2>1, <2>5, <3>2
    <3>4. \A i \in 1..num : scores[i] = AuthDemo(refs, i, parts[i])
      OBVIOUS
    <3> HIDE DEF scores, refs, answer
    <3>5. /\ \E i \in 1..num : Final(scores) >= Final(<<scores[i]>>)
          /\ \E i \in 1..num : Final(scores) <= Final(<<scores[i]>>)
      BY <3>3, FinalBetween
    <3> QED
      BY <3>1, <3>4, <3>5
  <2> QED
    BY <2>1, <2>2, <2>3, <2>4, <2>5
       DEF SubmitAnswers, Ready, Stored, disk, o, num, parts
<1> QED
  BY <1>1, InputsKept, PTL

-----------------------------------------------------------------------------
(* LRP: what its operators return.                                         *)

LEMMA Sizes ==
  /\ NibbleBits \in Nat /\ NibbleBits >= 1
  /\ ByteBits \in Nat /\ ByteBits >= 2
  /\ BlockBits \in Nat /\ BlockBits >= ByteBits
<1>1. NibbleBits \in Nat /\ NibbleBits >= 1 /\ BlockLen \in Nat /\ BlockLen >= 1
  BY LrpAssumption
<1>2. ByteBits \in Nat /\ ByteBits >= 2
  BY <1>1 DEF ByteBits
<1>3. PICK more \in Nat : BlockLen = 1 + more
  <2>1. BlockLen - 1 \in Nat /\ BlockLen = 1 + (BlockLen - 1)
    BY <1>1
  <2> QED
    BY <2>1
<1>4. more * ByteBits \in Nat
  BY <1>2, ProductNat
<1>5. BlockBits = ByteBits + more * ByteBits
  <2> HIDE DEF ByteBits
  <2> QED
    BY <1>2, <1>3 DEF BlockBits
<1> QED
  BY <1>1, <1>2, <1>4, <1>5

\* A string of n bits is a sequence of length n.
LEMMA Strings ==
  ASSUME NEW n \in Nat, NEW x \in [1..n -> Bit]
  PROVE  x \in Seq(Bit) /\ Len(x) = n
OBVIOUS

LEMMA BlockString ==
  ASSUME NEW x \in Block
  PROVE  /\ x \in Seq(Bit) /\ Len(x) = BlockBits
         /\ \A i \in 1..BlockBits : x[i] \in Bit
BY Sizes, Strings DEF Block

LEMMA Constants == Zero \in Block /\ Low \in Block /\ High \in Block
<1>1. \A i \in 1..BlockBits : 0 \in Bit /\ (i + 1) % 2 \in Bit /\ i % 2 \in Bit
  <2>1. BlockBits \in Nat
    BY Sizes
  <2> HIDE DEF BlockBits
  <2> QED
    BY <2>1 DEF Bit
<1> QED
  BY <1>1 DEF Zero, Low, High, Block

LEMMA Encrypts ==
  ASSUME NEW k \in Block, NEW v \in Block
  PROVE  e(k, v) \in Block
BY LrpAssumption DEF e

\* xor of two strings of the same length is one, bit by bit.
LEMMA Xors ==
  ASSUME NEW n \in Nat, NEW a \in [1..n -> Bit], NEW b \in [1..n -> Bit]
  PROVE  /\ xor(a, b) \in [1..n -> Bit]
         /\ \A i \in 1..n : xor(a, b)[i] = IF a[i] = b[i] THEN 0 ELSE 1
<1>1. Len(a) = n /\ Len(b) = n
  BY Strings
<1>2. xor(a, b) = [i \in 1..n |-> IF a[i] = b[i] THEN 0 ELSE 1]
  BY <1>1 DEF xor
<1> QED
  BY <1>2 DEF Bit

LEMMA XorBlock ==
  ASSUME NEW a \in Block, NEW b \in Block
  PROVE  xor(a, b) \in Block
BY Sizes, Xors DEF Block

\* The value of half a byte is a natural number.
LEMMA NumberNat ==
  ASSUME NEW x \in Nibble
  PROVE  Number(x) \in Nat
<1> DEFINE N == NibbleBits
           next(n, v) == 2 * v + x[n]
           step == [n \in 1..N |-> [v \in Nat |-> next(n, v)]]
           Is(f) == f = [n \in 0..N |-> IF n = 0 THEN 0 ELSE next(n, f[n - 1])]
           value == CHOOSE f : Is(f)
<1>0. N \in Nat /\ \A n \in 1..N : x[n] \in Nat
  BY Sizes DEF Nibble, Bit
<1> HIDE DEF N
<1>1. step \in [1..N -> [Nat -> Nat]]
  <2>1. \A n \in 1..N, v \in Nat : next(n, v) \in Nat
    BY <1>0
  <2> HIDE DEF next
  <2>2. \A n \in 1..N : [v \in Nat |-> next(n, v)] \in [Nat -> Nat]
    BY <2>1
  <2> QED
    BY <2>2
<1>2. PICK f : Rounds(f, N, Nat, 0, step)
  <2> HIDE DEF step
  <2> QED
    BY <1>0, <1>1, Loop
<1> HIDE DEF next
<1>3. /\ f \in [0..N -> Nat] /\ f[0] = 0
      /\ \A n \in 1..N : f[n] = next(n, f[n - 1])
  <2>1. \A n \in 1..N : n - 1 \in 0..N
    BY <1>0
  <2> QED
    BY <1>2, <2>1 DEF Rounds
<1>4. Is(f)
  BY <1>0, <1>3
<1>5. Is(value)
  BY <1>4
<1> HIDE DEF value
<1>6. value = f
  <2>1. /\ value = [n \in 0..N |-> value[n]] /\ value[0] = 0
        /\ \A n \in 1..N : value[n] = next(n, value[n - 1])
    <3>1. \A n \in 0..N : value[n] = IF n = 0 THEN 0 ELSE next(n, value[n - 1])
      BY <1>5
    <3>2. value = [n \in 0..N |-> value[n]]
      BY <1>5
    <3>3. 0 \in 0..N /\ \A n \in 1..N : n \in 0..N /\ n # 0
      BY <1>0
    <3> QED
      BY <3>1, <3>2, <3>3
  <2>2. \A n \in 1..N : f[n - 1] = value[n - 1] => value[n] = step[n][f[n - 1]]
    <3>1. \A n \in 1..N : n - 1 \in 0..N
      BY <1>0
    <3> QED
      BY <1>3, <2>1, <3>1
  <2>3. Follows(value, f, N, 0, step)
    BY <2>1, <2>2 DEF Follows
  <2> HIDE DEF step
  <2> QED
    BY <1>0, <1>2, <2>3, LoopUnique
<1>7. Number(x) = value[N]
  BY DEF Number, value, next, N
<1> QED
  BY <1>0, <1>3, <1>6, <1>7

LEMMA ChainBlock ==
  ASSUME NEW h \in Block, NEW m \in Nat
  PROVE  Chain(h, m) \in Block
<1> DEFINE N == m
           next(n, v) == e(v, Low)
           step == [n \in 1..N |-> [v \in Block |-> next(n, v)]]
           Is(f) == f = [n \in 0..N |-> IF n = 0 THEN h ELSE next(n, f[n - 1])]
           key == CHOOSE f : Is(f)
<1>0. N \in Nat /\ h \in Block /\ \A v \in Block : e(v, Low) \in Block
  BY Constants, Encrypts
<1> HIDE DEF N
<1>1. step \in [1..N -> [Block -> Block]]
  <2>1. \A n \in 1..N, v \in Block : next(n, v) \in Block
    BY <1>0
  <2> HIDE DEF next
  <2>2. \A n \in 1..N : [v \in Block |-> next(n, v)] \in [Block -> Block]
    BY <2>1
  <2> QED
    BY <2>2
<1>2. PICK f : Rounds(f, N, Block, h, step)
  <2> HIDE DEF step
  <2> QED
    BY <1>0, <1>1, Loop
<1> HIDE DEF next
<1>3. /\ f \in [0..N -> Block] /\ f[0] = h
      /\ \A n \in 1..N : f[n] = next(n, f[n - 1])
  <2>1. \A n \in 1..N : n - 1 \in 0..N
    BY <1>0
  <2> QED
    BY <1>2, <2>1 DEF Rounds
<1>4. Is(f)
  BY <1>0, <1>3
<1>5. Is(key)
  BY <1>4
<1> HIDE DEF key
<1>6. key = f
  <2>1. /\ key = [n \in 0..N |-> key[n]] /\ key[0] = h
        /\ \A n \in 1..N : key[n] = next(n, key[n - 1])
    <3>1. \A n \in 0..N : key[n] = IF n = 0 THEN h ELSE next(n, key[n - 1])
      BY <1>5
    <3>2. key = [n \in 0..N |-> key[n]]
      BY <1>5
    <3>3. 0 \in 0..N /\ \A n \in 1..N : n \in 0..N /\ n # 0
      BY <1>0
    <3> QED
      BY <3>1, <3>2, <3>3
  <2>2. \A n \in 1..N : f[n - 1] = key[n - 1] => key[n] = step[n][f[n - 1]]
    <3>1. \A n \in 1..N : n - 1 \in 0..N
      BY <1>0
    <3> QED
      BY <1>3, <2>1, <3>1
  <2>3. Follows(key, f, N, h, step)
    BY <2>1, <2>2 DEF Follows
  <2> HIDE DEF step
  <2> QED
    BY <1>0, <1>2, <2>3, LoopUnique
<1>7. Chain(h, m) = key[N]
  BY DEF Chain, key, next, N
<1> QED
  BY <1>0, <1>3, <1>6, <1>7

Keyed == [p : [Nibble -> Block], kp : Block]

LEMMA NewLRPKeyed ==
  ASSUME NEW key \in Block
  PROVE  NewLRP(key) \in Keyed
<1>1. e(key, Low) \in Block
  BY Constants, Encrypts
<1>2. ASSUME NEW x \in Nibble
      PROVE  e(Chain(e(key, Low), Number(x)), High) \in Block
  BY <1>1, NumberNat, ChainBlock, Constants, Encrypts
<1>3. generatePlaintexts(key) \in [Nibble -> Block]
  BY <1>2 DEF generatePlaintexts
<1>4. UpdateKey(key) \in Block
  BY Constants, Encrypts DEF UpdateKey
<1> QED
  BY <1>3, <1>4 DEF NewLRP, Keyed

LEMMA NibblesOf ==
  ASSUME NEW x \in Seq(Bit)
  PROVE  \E n \in Nat : /\ nibbles(x) \in [1..n -> Nibble]
                        /\ Len(nibbles(x)) = n
<1> DEFINE n == Len(x) \div NibbleBits
<1>1. NibbleBits \in Nat /\ NibbleBits >= 1 /\ Len(x) \in Nat
  BY Sizes
<1>2. n \in Nat /\ NibbleBits * n <= Len(x)
  BY <1>1
<1> HIDE DEF n
<1>3. ASSUME NEW i \in 1..n, NEW j \in 1..NibbleBits
      PROVE  x[NibbleBits * (i - 1) + j] \in Bit
  <2>1. i - 1 \in Nat /\ i - 1 < n
    BY <1>2
  <2>2. (i - 1) * NibbleBits + NibbleBits <= n * NibbleBits
    BY <1>1, <1>2, <2>1, ProductMonotone
  <2>3. (i - 1) * NibbleBits \in Nat /\ n * NibbleBits = NibbleBits * n
    BY <1>1, <1>2, <2>1, ProductNat
  <2>4. NibbleBits * (i - 1) = (i - 1) * NibbleBits
    BY <1>1, <2>1
  <2>5. (i - 1) * NibbleBits + j \in 1..Len(x)
    <3> DEFINE a == (i - 1) * NibbleBits
               b == n * NibbleBits
    <3> HIDE DEF a, b
    <3> QED
      BY <1>1, <1>2, <2>2, <2>3 DEF a, b
  <2> QED
    BY <2>4, <2>5, ElementOfSeq
<1>4. nibbles(x) = [i \in 1..n |-> [j \in 1..NibbleBits |-> x[NibbleBits * (i - 1) + j]]]
  BY DEF nibbles, n
<1>5. nibbles(x) \in [1..n -> Nibble]
  BY <1>3, <1>4 DEF Nibble
<1>6. Len(nibbles(x)) = n
  BY <1>2, <1>5
<1> QED
  BY <1>2, <1>5, <1>6

\* Whatever is evaluated, the result is a block.
LEMMA EvalBlock ==
  ASSUME NEW l \in Keyed, NEW x \in Seq(Bit)
  PROVE  evalLRP(l, x) \in Block
<1> DEFINE N == Len(nibbles(x))
           next(n, v) == e(v, l.p[nibbles(x)[n]])
           step == [n \in 1..N |-> [v \in Block |-> next(n, v)]]
           Is(f) == f = [n \in 0..N |-> IF n = 0 THEN l.kp ELSE next(n, f[n - 1])]
           y == CHOOSE f : Is(f)
<1>0. /\ N \in Nat /\ l.kp \in Block
      /\ \A n \in 1..N, v \in Block : e(v, l.p[nibbles(x)[n]]) \in Block
  <2>1. N \in Nat /\ nibbles(x) \in [1..N -> Nibble]
    BY NibblesOf
  <2>2. l.p \in [Nibble -> Block] /\ l.kp \in Block
    BY DEF Keyed
  <2> HIDE DEF N
  <2>3. \A n \in 1..N : l.p[nibbles(x)[n]] \in Block
    BY <2>1, <2>2
  <2> QED
    BY <2>1, <2>2, <2>3, Encrypts
<1> HIDE DEF N
<1>1. step \in [1..N -> [Block -> Block]]
  <2>1. \A n \in 1..N, v \in Block : next(n, v) \in Block
    BY <1>0
  <2> HIDE DEF next
  <2>2. \A n \in 1..N : [v \in Block |-> next(n, v)] \in [Block -> Block]
    BY <2>1
  <2> QED
    BY <2>2
<1>2. PICK f : Rounds(f, N, Block, l.kp, step)
  <2> HIDE DEF step
  <2> QED
    BY <1>0, <1>1, Loop
<1> HIDE DEF next
<1>3. /\ f \in [0..N -> Block] /\ f[0] = l.kp
      /\ \A n \in 1..N : f[n] = next(n, f[n - 1])
  <2>1. \A n \in 1..N : n - 1 \in 0..N
    BY <1>0
  <2> QED
    BY <1>2, <2>1 DEF Rounds
<1>4. Is(f)
  BY <1>0, <1>3
<1>5. Is(y)
  BY <1>4
<1> HIDE DEF y
<1>6. y = f
  <2>1. /\ y = [n \in 0..N |-> y[n]] /\ y[0] = l.kp
        /\ \A n \in 1..N : y[n] = next(n, y[n - 1])
    <3>1. \A n \in 0..N : y[n] = IF n = 0 THEN l.kp ELSE next(n, y[n - 1])
      BY <1>5
    <3>2. y = [n \in 0..N |-> y[n]]
      BY <1>5
    <3>3. 0 \in 0..N /\ \A n \in 1..N : n \in 0..N /\ n # 0
      BY <1>0
    <3> QED
      BY <3>1, <3>2, <3>3
  <2>2. \A n \in 1..N : f[n - 1] = y[n - 1] => y[n] = step[n][f[n - 1]]
    <3>1. \A n \in 1..N : n - 1 \in 0..N
      BY <1>0
    <3> QED
      BY <1>3, <2>1, <3>1
  <2>3. Follows(y, f, N, l.kp, step)
    BY <2>1, <2>2 DEF Follows
  <2> HIDE DEF step
  <2> QED
    BY <1>0, <1>2, <2>3, LoopUnique
<1>7. evalLRP(l, x) = e(y[N], Zero)
  BY DEF evalLRP, y, next, N
<1>8. y[N] \in Block
  BY <1>0, <1>3, <1>6
<1> QED
  BY <1>7, <1>8, Constants, Encrypts

-----------------------------------------------------------------------------
(* The subkeys.  Numbers of one byte more than a block:                    *)

Wide == [1..BlockBits + ByteBits -> Bit]

LEMMA Shifts ==
  ASSUME NEW b \in Block, NEW s \in Nat
  PROVE  /\ Shift(b, s) \in Wide
         /\ \A i \in 1..BlockBits + ByteBits :
              Shift(b, s)[i] = IF i + s - ByteBits \in 1..BlockBits
                                 THEN b[i + s - ByteBits] ELSE 0
BY BlockString DEF Shift, Wide, Bit

\* The leading byte of the polynomial has its leading term, and nothing else.
LEMMA PolynomialWide ==
  ASSUME NEW s \in {0, 1}
  PROVE  /\ polynomial(s) \in Wide
         /\ \A i \in 1..ByteBits : polynomial(s)[i] = IF i = ByteBits - s THEN 1 ELSE 0
         /\ \A i \in 1..BlockBits :
              polynomial(s)[ByteBits + i] = IF i + s <= BlockBits THEN Reduction[i + s] ELSE 0
<1>1. /\ ByteBits \in Nat /\ ByteBits >= 2 /\ BlockBits \in Nat /\ BlockBits >= ByteBits
      /\ Reduction \in Block /\ Reduction[1] = 0
  BY Sizes, LrpAssumption
<1>2. /\ Shift(Reduction, s) \in Wide
      /\ \A i \in 1..BlockBits + ByteBits :
           Shift(Reduction, s)[i] = IF i + s - ByteBits \in 1..BlockBits
                                      THEN Reduction[i + s - ByteBits] ELSE 0
  <2>1. s \in Nat
    OBVIOUS
  <2> QED
    BY <1>1, <2>1, Shifts
<1> HIDE DEF ByteBits, BlockBits, Wide
<1>3. polynomial(s) \in Wide
  BY <1>1, <1>2 DEF polynomial, Wide, Bit
<1>4. \A i \in 1..BlockBits + ByteBits :
        polynomial(s)[i] = IF i = ByteBits - s THEN 1 ELSE Shift(Reduction, s)[i]
  BY <1>1, <1>2 DEF polynomial, Wide
<1>5. ASSUME NEW i \in 1..ByteBits
      PROVE  polynomial(s)[i] = IF i = ByteBits - s THEN 1 ELSE 0
  <2>1. i \in 1..BlockBits + ByteBits
    BY <1>1
  <2>2. CASE i + s - ByteBits \in 1..BlockBits /\ i # ByteBits - s
    <3>1. i = ByteBits /\ s = 1
      BY <1>1, <2>2
    <3>2. Shift(Reduction, s)[i] = Reduction[1]
      BY <1>1, <1>2, <2>1, <3>1
    <3> QED
      BY <1>1, <1>4, <2>1, <2>2, <3>2
  <2>3. CASE ~(i + s - ByteBits \in 1..BlockBits)
    BY <1>2, <1>4, <2>1, <2>3
  <2>4. CASE i = ByteBits - s
    BY <1>4, <2>1, <2>4
  <2> QED
    BY <2>2, <2>3, <2>4
<1>6. ASSUME NEW i \in 1..BlockBits
      PROVE  polynomial(s)[ByteBits + i] = IF i + s <= BlockBits THEN Reduction[i + s] ELSE 0
  <2>1. ByteBits + i \in 1..BlockBits + ByteBits /\ (ByteBits + i) + s - ByteBits = i + s
    BY <1>1
  <2> QED
    BY <1>1, <1>2, <1>4, <2>1
<1> QED
  BY <1>3, <1>5, <1>6

\* Bytes drops the leading bytes that are zero: a number of them, and not more.
LEMMA BytesDrops ==
  ASSUME NEW x \in Wide
  PROVE  \E m \in Nat :
           /\ m * ByteBits <= Len(x)
           /\ \A i \in 1..m * ByteBits : x[i] = 0
           /\ Bytes(x) = SubSeq(x, m * ByteBits + 1, Len(x))
           /\ \A n \in Nat : n * ByteBits <= Len(x) /\ (\A i \in 1..n * ByteBits : x[i] = 0)
                               => n <= m
<1> DEFINE zeros == {n \in 0..Len(x) : /\ n * ByteBits <= Len(x)
                                       /\ \A i \in 1..n * ByteBits : x[i] = 0}
           most == CHOOSE n \in zeros : \A m \in zeros : m <= n
           T == {k \in Nat : Len(x) - k \in zeros}
<1>1. ByteBits \in Nat /\ ByteBits >= 2 /\ BlockBits \in Nat
  BY Sizes
<1>2. x \in Seq(Bit) /\ Len(x) = BlockBits + ByteBits /\ Len(x) \in Nat
  BY <1>1, Strings DEF Wide
<1> HIDE DEF ByteBits, BlockBits
<1>3. 0 * ByteBits = 0
  BY <1>1
<1>4. 0 \in zeros
  BY <1>2, <1>3
<1>5. \A n \in zeros : n \in Nat /\ n <= Len(x)
  BY <1>2
<1>6. T # {} /\ T \subseteq Nat
  <2> HIDE DEF zeros
  <2>1. Len(x) \in T
    BY <1>2, <1>4
  <2> QED
    BY <2>1
<1>7. \E n \in zeros : \A m \in zeros : m <= n
  <2>1. PICK k \in T : \A j \in T : k <= j
    BY <1>6, Least
  <2> HIDE DEF zeros
  <2>2. ASSUME NEW m \in zeros
        PROVE  m <= Len(x) - k
    <3>1. Len(x) - m \in Nat /\ Len(x) - (Len(x) - m) = m
      BY <1>2, <1>5
    <3>2. Len(x) - m \in T
      BY <3>1
    <3> QED
      BY <1>2, <1>5, <2>1, <3>1, <3>2
  <2> QED
    BY <2>1, <2>2
<1>8. most \in zeros /\ \A m \in zeros : m <= most
  BY <1>7
<1>9. Bytes(x) = SubSeq(x, most * ByteBits + 1, Len(x))
  BY DEF Bytes
<1> HIDE DEF most
<1>10. ASSUME NEW n \in Nat, n * ByteBits <= Len(x), \A i \in 1..n * ByteBits : x[i] = 0
       PROVE  n <= most
  <2>1. n <= n * ByteBits
    BY <1>1
  <2>2. n * ByteBits \in Nat
    BY <1>1, ProductNat
  <2>3. n \in zeros
    BY <1>2, <1>10, <2>1, <2>2
  <2> QED
    BY <1>8, <2>3
<1> QED
  BY <1>5, <1>8, <1>9, <1>10

\* A subkey that is D, or shorter than a block if D has a leading byte of zeros.
IsSubkey(k, D) ==
  IF \A i \in 1..ByteBits : D[i] = 0 THEN k \in Seq(Bit) /\ Len(k) < BlockBits ELSE k = D

LEMMA BytesFull ==
  ASSUME NEW x \in Wide, NEW i \in 1..ByteBits, x[i] # 0
  PROVE  Bytes(x) = x
<1>1. ByteBits \in Nat /\ ByteBits >= 2 /\ BlockBits \in Nat
  BY Sizes
<1>2. x \in Seq(Bit) /\ Len(x) \in Nat
  BY <1>1, Strings DEF Wide
<1>3. PICK m \in Nat : /\ \A j \in 1..m * ByteBits : x[j] = 0
                       /\ Bytes(x) = SubSeq(x, m * ByteBits + 1, Len(x))
  BY BytesDrops
<1> HIDE DEF ByteBits, BlockBits
<1>4. m = 0
  <2> SUFFICES ASSUME m # 0
               PROVE  FALSE
    OBVIOUS
  <2>1. 0 * ByteBits + ByteBits <= m * ByteBits
    BY <1>1, ProductMonotone
  <2>2. m * ByteBits \in Nat
    BY <1>1, ProductNat
  <2>3. i \in 1..m * ByteBits
    BY <1>1, <2>1, <2>2
  <2> QED
    BY <1>3, <2>3
<1>5. 0 * ByteBits + 1 = 1
  BY <1>1
<1>6. Bytes(x) = SubSeq(x, 1, Len(x))
  BY <1>3, <1>4, <1>5
<1> QED
  BY <1>2, <1>6, SubSeqFull

LEMMA BytesLow ==
  ASSUME NEW x \in Wide, \A i \in 1..ByteBits : x[i] = 0,
         NEW D \in Block, \A i \in 1..BlockBits : x[ByteBits + i] = D[i]
  PROVE  IsSubkey(Bytes(x), D) /\ Len(Bytes(x)) <= BlockBits
<1>1. /\ ByteBits \in Nat /\ ByteBits >= 2
      /\ BlockBits \in Nat /\ BlockBits >= ByteBits
  BY Sizes
<1>2. x \in Seq(Bit) /\ Len(x) = BlockBits + ByteBits
  BY <1>1, Strings DEF Wide
<1>3. PICK m \in Nat :
        /\ m * ByteBits <= Len(x)
        /\ \A i \in 1..m * ByteBits : x[i] = 0
        /\ Bytes(x) = SubSeq(x, m * ByteBits + 1, Len(x))
        /\ \A n \in Nat : n * ByteBits <= Len(x) /\ (\A i \in 1..n * ByteBits : x[i] = 0)
                            => n <= m
  BY BytesDrops
<1>4. D \in Seq(Bit) /\ Len(D) = BlockBits
  BY BlockString
<1> HIDE DEF ByteBits, BlockBits
<1>5. m >= 1
  <2>1. 1 * ByteBits = ByteBits
    BY <1>1
  <2>2. 1 * ByteBits <= Len(x) /\ \A i \in 1..1 * ByteBits : x[i] = 0
    BY <1>1, <1>2, <2>1
  <2>3. 1 <= m
    BY <1>3, <2>2
  <2> QED
    BY <2>3
<1>6. CASE m = 1
  <2>1. 1 * ByteBits = ByteBits
    BY <1>1
  <2>2. Bytes(x) = SubSeq(x, ByteBits + 1, BlockBits + ByteBits)
    BY <1>2, <1>3, <1>6, <2>1
  <2>3. \A i \in ByteBits + 1..BlockBits + ByteBits : x[i] \in Bit
    BY <1>1, <1>2, ElementOfSeq
  <2>4. /\ Bytes(x) \in Seq(Bit) /\ Len(Bytes(x)) = BlockBits
        /\ \A i \in 1..BlockBits : Bytes(x)[i] = x[ByteBits + 1 + i - 1]
    <3>1. /\ ByteBits + 1 \in Int /\ BlockBits + ByteBits \in Int
          /\ BlockBits + ByteBits - (ByteBits + 1) + 1 = BlockBits
          /\ ByteBits + 1 <= BlockBits + ByteBits
      BY <1>1
    <3> DEFINE lo == ByteBits + 1
               hi == BlockBits + ByteBits
    <3>2. \A i \in lo..hi : x[i] \in Bit
      BY <2>3
    <3> HIDE DEF lo, hi
    <3>3. /\ SubSeq(x, lo, hi) \in Seq(Bit)
          /\ Len(SubSeq(x, lo, hi)) = IF lo <= hi THEN hi - lo + 1 ELSE 0
          /\ \A i \in 1..hi - lo + 1 : SubSeq(x, lo, hi)[i] = x[lo + i - 1]
      BY <3>1, <3>2, SubSeqProperties DEF lo, hi
    <3>4. Bytes(x) = SubSeq(x, lo, hi)
      BY <2>2 DEF lo, hi
    <3>5. lo <= hi /\ hi - lo + 1 = BlockBits
      BY <1>1 DEF lo, hi
    <3>6. /\ Bytes(x) \in Seq(Bit) /\ Len(Bytes(x)) = BlockBits
          /\ \A i \in 1..BlockBits : Bytes(x)[i] = x[lo + i - 1]
      BY <3>3, <3>4, <3>5
    <3> QED
      BY <3>6 DEF lo
  <2>5. \A i \in 1..BlockBits : ByteBits + 1 + i - 1 = ByteBits + i
    BY <1>1
  <2>6. Bytes(x) = D
    BY <1>4, <2>4, <2>5, SeqEqual
  <2>7. ASSUME \A i \in 1..ByteBits : D[i] = 0
        PROVE  FALSE
    <3>1. 2 * ByteBits = ByteBits + ByteBits
      BY <1>1
    <3>2. ASSUME NEW i \in 1..ByteBits + ByteBits
          PROVE  x[i] = 0
      <4>1. CASE i \in 1..ByteBits
        BY <4>1
      <4>2. CASE i \notin 1..ByteBits
        <5>1. i - ByteBits \in 1..ByteBits /\ i - ByteBits \in 1..BlockBits
              /\ ByteBits + (i - ByteBits) = i
          BY <1>1, <4>2
        <5> QED
          BY <2>7, <5>1
      <4> QED
        BY <4>1, <4>2
    <3>3. 2 * ByteBits <= Len(x) /\ \A i \in 1..2 * ByteBits : x[i] = 0
      BY <1>1, <1>2, <3>1, <3>2
    <3>4. 2 <= m
      BY <1>3, <3>3
    <3> QED
      BY <1>6, <3>4
  <2> QED
    BY <1>1, <2>4, <2>6, <2>7 DEF IsSubkey
<1>7. CASE m > 1
  <2>1. 1 * ByteBits + ByteBits <= m * ByteBits /\ m * ByteBits \in Nat
    BY <1>1, <1>7, ProductMonotone, ProductNat
  <2>2. 1 * ByteBits = ByteBits
    BY <1>1
  <2> DEFINE k == m * ByteBits
  <2>3. /\ k \in Nat /\ k <= BlockBits + ByteBits /\ ByteBits + ByteBits <= k
        /\ Bytes(x) = SubSeq(x, k + 1, BlockBits + ByteBits)
        /\ \A i \in 1..k : x[i] = 0
    BY <1>2, <1>3, <2>1, <2>2
  <2> HIDE DEF k
  <2>4. \A i \in k + 1..BlockBits + ByteBits : x[i] \in Bit
    BY <1>1, <1>2, <2>3, ElementOfSeq
  <2>5. /\ Bytes(x) \in Seq(Bit)
        /\ Len(Bytes(x)) = IF k + 1 <= BlockBits + ByteBits
                             THEN BlockBits + ByteBits - (k + 1) + 1 ELSE 0
    <3> DEFINE lo == k + 1
               hi == BlockBits + ByteBits
    <3>1. lo \in Int /\ hi \in Int /\ \A i \in lo..hi : x[i] \in Bit
      BY <1>1, <2>3, <2>4
    <3> HIDE DEF lo, hi
    <3>2. /\ SubSeq(x, lo, hi) \in Seq(Bit)
          /\ Len(SubSeq(x, lo, hi)) = IF lo <= hi THEN hi - lo + 1 ELSE 0
      BY <3>1, SubSeqProperties
    <3>3. /\ Bytes(x) \in Seq(Bit)
          /\ Len(Bytes(x)) = IF lo <= hi THEN hi - lo + 1 ELSE 0
      <4>1. Bytes(x) = SubSeq(x, lo, hi)
        BY <2>3 DEF lo, hi
      <4> QED
        BY <3>2, <4>1
    <3> QED
      BY <1>1, <2>3, <3>3 DEF lo, hi
  <2>6. Len(Bytes(x)) < BlockBits
    BY <1>1, <2>3, <2>5
  <2>7. ASSUME NEW i \in 1..ByteBits
        PROVE  D[i] = 0
    <3>1. ByteBits + i \in 1..k /\ i \in 1..BlockBits
      BY <1>1, <2>3
    <3> QED
      BY <2>3, <3>1
  <2> QED
    BY <1>1, <2>5, <2>6, <2>7 DEF IsSubkey
<1> QED
  BY <1>5, <1>6, <1>7

\* Doubling, bit by bit.
LEMMA Doubles ==
  ASSUME NEW v \in Block
  PROVE  /\ Double(v) \in Block
         /\ \A i \in 1..BlockBits :
              LET next == IF i + 1 <= BlockBits THEN v[i + 1] ELSE 0
              IN Double(v)[i] = IF v[1] = 0 \/ Reduction[i] = 0 THEN next ELSE 1 - next
<1>1. /\ BlockBits \in Nat /\ BlockBits >= 2
      /\ Reduction \in Block /\ \A i \in 1..BlockBits : v[i] \in Bit
  BY Sizes, LrpAssumption, BlockString
<1> DEFINE s == [i \in 1..BlockBits |-> IF i = BlockBits THEN 0 ELSE v[i + 1]]
<1>2. Double(v) = IF v[1] = 0 THEN s ELSE xor(s, Reduction)
  BY DEF Double
<1> HIDE DEF BlockBits
<1>3. /\ s \in Block
      /\ \A i \in 1..BlockBits : s[i] = IF i + 1 <= BlockBits THEN v[i + 1] ELSE 0
  <2>1. \A i \in 1..BlockBits : i = BlockBits \/ i + 1 \in 1..BlockBits
    BY <1>1
  <2>2. s \in Block
    BY <1>1, <2>1 DEF Block, Bit
  <2> QED
    BY <1>1, <2>2
<1> HIDE DEF s
<1>4. /\ xor(s, Reduction) \in Block
      /\ \A i \in 1..BlockBits : xor(s, Reduction)[i] = IF s[i] = Reduction[i] THEN 0 ELSE 1
  BY <1>1, <1>3, Xors DEF Block
<1>5. \A i \in 1..BlockBits : s[i] \in Bit /\ Reduction[i] \in Bit
  BY <1>1, <1>3 DEF Block
<1>6. CASE v[1] = 0
  BY <1>2, <1>3, <1>6
<1>7. CASE v[1] # 0
  <2>1. Double(v) = xor(s, Reduction)
    BY <1>2, <1>7
  <2>2. ASSUME NEW i \in 1..BlockBits
        PROVE  Double(v)[i] = IF Reduction[i] = 0 THEN s[i] ELSE 1 - s[i]
    BY <1>4, <1>5, <2>1 DEF Bit
  <2> QED
    BY <1>3, <1>4, <1>7, <2>1, <2>2
<1> QED
  BY <1>6, <1>7

\* A number that is not longer than a block is left as it is.
LEMMA RoundShort ==
  ASSUME NEW f, NEW s, Len(f) <= BlockBits
  PROVE  MulRound(f, s) = f
BY DEF MulRound

\* Of a longer one the bit at the polynomial's leading term decides.
LEMMA RoundWide ==
  ASSUME NEW f \in Wide, NEW s \in {0, 1}
  PROVE  MulRound(f, s) = IF f[ByteBits - s] = 0 THEN f ELSE Bytes(xor(f, polynomial(s)))
<1>1. ByteBits \in Nat /\ ByteBits >= 2 /\ BlockBits \in Nat
  BY Sizes
<1>2. Len(f) = BlockBits + ByteBits
  BY <1>1, Strings DEF Wide
<1>3. \A i \in 1..ByteBits : polynomial(s)[i] = IF i = ByteBits - s THEN 1 ELSE 0
  BY PolynomialWide
<1> HIDE DEF ByteBits, BlockBits
<1>4. ByteBits - s \in 1..ByteBits
  BY <1>1
<1>5. (\A i \in 1..ByteBits : polynomial(s)[i] = 0 \/ f[i] = 0) <=> f[ByteBits - s] = 0
  BY <1>3, <1>4
<1>6. ~(Len(f) <= BlockBits)
  BY <1>1, <1>2
<1> QED
  BY <1>5, <1>6 DEF MulRound

\* f minus the polynomial, shifted by s, bit by bit.
LEMMA Subtracts ==
  ASSUME NEW f \in Wide, NEW s \in {0, 1}
  PROVE  /\ xor(f, polynomial(s)) \in Wide
         /\ \A i \in 1..ByteBits :
              xor(f, polynomial(s))[i] = IF i = ByteBits - s THEN 1 - f[i] ELSE f[i]
         /\ \A i \in 1..BlockBits :
              xor(f, polynomial(s))[ByteBits + i] =
                IF i + s <= BlockBits /\ Reduction[i + s] = 1
                  THEN 1 - f[ByteBits + i] ELSE f[ByteBits + i]
<1>1. /\ ByteBits \in Nat /\ ByteBits >= 2 /\ BlockBits \in Nat /\ s \in Nat
      /\ Reduction \in Block
  BY Sizes, LrpAssumption
<1>2. /\ polynomial(s) \in Wide
      /\ \A i \in 1..ByteBits : polynomial(s)[i] = IF i = ByteBits - s THEN 1 ELSE 0
      /\ \A i \in 1..BlockBits :
           polynomial(s)[ByteBits + i] = IF i + s <= BlockBits THEN Reduction[i + s] ELSE 0
  BY PolynomialWide
<1> HIDE DEF ByteBits, BlockBits
<1>3. /\ xor(f, polynomial(s)) \in Wide
      /\ \A i \in 1..BlockBits + ByteBits :
           xor(f, polynomial(s))[i] = IF f[i] = polynomial(s)[i] THEN 0 ELSE 1
  BY <1>1, <1>2, Xors DEF Wide
<1>4. \A i \in 1..BlockBits + ByteBits : f[i] \in Bit
  BY DEF Wide
<1>5. ASSUME NEW i \in 1..ByteBits
      PROVE  xor(f, polynomial(s))[i] = IF i = ByteBits - s THEN 1 - f[i] ELSE f[i]
  <2>1. i \in 1..BlockBits + ByteBits
    BY <1>1
  <2> QED
    BY <1>2, <1>3, <1>4, <2>1 DEF Bit
<1>6. ASSUME NEW i \in 1..BlockBits
      PROVE  xor(f, polynomial(s))[ByteBits + i] =
               IF i + s <= BlockBits /\ Reduction[i + s] = 1
                 THEN 1 - f[ByteBits + i] ELSE f[ByteBits + i]
  <2>1. ByteBits + i \in 1..BlockBits + ByteBits
    BY <1>1
  <2>2. i + s <= BlockBits => Reduction[i + s] \in Bit
    BY <1>1 DEF Block
  <2> QED
    BY <1>2, <1>3, <1>4, <2>1, <2>2 DEF Bit
<1> QED
  BY <1>3, <1>5, <1>6

\* A block, shifted by one or two bits: the leading byte has what was shifted out.
LEMMA ShiftsOut ==
  ASSUME NEW b \in Block, NEW s \in {1, 2}
  PROVE  /\ Shift(b, s) \in Wide
         /\ \A i \in 1..ByteBits :
              Shift(b, s)[i] = IF i = ByteBits THEN b[s]
                               ELSE IF s = 2 /\ i = ByteBits - 1 THEN b[1] ELSE 0
         /\ \A i \in 1..BlockBits :
              Shift(b, s)[ByteBits + i] = IF i + s <= BlockBits THEN b[i + s] ELSE 0
<1>1. ByteBits \in Nat /\ ByteBits >= 2 /\ BlockBits \in Nat /\ BlockBits >= ByteBits
  BY Sizes
<1>2. /\ Shift(b, s) \in Wide
      /\ \A i \in 1..BlockBits + ByteBits :
           Shift(b, s)[i] = IF i + s - ByteBits \in 1..BlockBits
                              THEN b[i + s - ByteBits] ELSE 0
  <2>1. s \in Nat
    OBVIOUS
  <2> QED
    BY <2>1, Shifts
<1> HIDE DEF ByteBits, BlockBits
<1>3. ASSUME NEW i \in 1..ByteBits
      PROVE  Shift(b, s)[i] = IF i = ByteBits THEN b[s]
                              ELSE IF s = 2 /\ i = ByteBits - 1 THEN b[1] ELSE 0
  <2>1. i \in 1..BlockBits + ByteBits
    BY <1>1
  <2>2. CASE i = ByteBits
    <3>1. i + s - ByteBits = s /\ s \in 1..BlockBits
      BY <1>1, <2>2
    <3> QED
      BY <1>2, <2>1, <2>2, <3>1
  <2>3. CASE i # ByteBits /\ s = 2 /\ i = ByteBits - 1
    <3>1. i + s - ByteBits = 1 /\ 1 \in 1..BlockBits
      BY <1>1, <2>3
    <3> QED
      BY <1>2, <2>1, <2>3, <3>1
  <2>4. CASE i # ByteBits /\ ~(s = 2 /\ i = ByteBits - 1)
    <3>1. i + s - ByteBits \notin 1..BlockBits
      BY <1>1, <2>4
    <3> QED
      BY <1>2, <2>1, <2>4, <3>1
  <2> QED
    BY <2>2, <2>3, <2>4
<1>4. ASSUME NEW i \in 1..BlockBits
      PROVE  Shift(b, s)[ByteBits + i] = IF i + s <= BlockBits THEN b[i + s] ELSE 0
  <2>1. ByteBits + i \in 1..BlockBits + ByteBits /\ (ByteBits + i) + s - ByteBits = i + s
    BY <1>1
  <2> QED
    BY <1>1, <1>2, <2>1
<1> QED
  BY <1>2, <1>3, <1>4

\* The first subkey is the encryption of zero, doubled.
LEMMA Subkey1Doubles ==
  ASSUME NEW b \in Block
  PROVE  IsSubkey(Subkey1(b), Double(b))
<1> DEFINE F == Shift(b, 1)
           G == xor(F, polynomial(0))
           D == Double(b)
<1>1. /\ ByteBits \in Nat /\ ByteBits >= 2 /\ BlockBits \in Nat /\ BlockBits >= ByteBits
      /\ \A i \in 1..BlockBits : b[i] \in Bit /\ Reduction[i] \in Bit
  BY Sizes, BlockString, LrpAssumption
<1>2. /\ F \in Wide
      /\ \A i \in 1..ByteBits : F[i] = IF i = ByteBits THEN b[1] ELSE 0
      /\ \A i \in 1..BlockBits : F[ByteBits + i] = IF i + 1 <= BlockBits THEN b[i + 1] ELSE 0
  BY ShiftsOut
<1>3. /\ G \in Wide
      /\ \A i \in 1..ByteBits : G[i] = IF i = ByteBits - 0 THEN 1 - F[i] ELSE F[i]
      /\ \A i \in 1..BlockBits :
           G[ByteBits + i] = IF i + 0 <= BlockBits /\ Reduction[i + 0] = 1
                               THEN 1 - F[ByteBits + i] ELSE F[ByteBits + i]
  BY <1>2, Subtracts
<1>4. /\ D \in Block
      /\ \A i \in 1..BlockBits :
           D[i] = IF b[1] = 0 \/ Reduction[i] = 0
                    THEN IF i + 1 <= BlockBits THEN b[i + 1] ELSE 0
                    ELSE 1 - (IF i + 1 <= BlockBits THEN b[i + 1] ELSE 0)
  BY Doubles
<1>5. MulRound(F, 0) = IF F[ByteBits - 0] = 0 THEN F ELSE Bytes(G)
  BY <1>2, RoundWide
<1>6. Subkey1(b) = MulRound(MulRound(Bytes(F), 0), 1)
  BY DEF Subkey1, mulPoly
<1> HIDE DEF F, G, D, ByteBits, BlockBits
<1>7. CASE b[1] = 0
  <2>1. (\A i \in 1..ByteBits : F[i] = 0) /\ \A i \in 1..BlockBits : F[ByteBits + i] = D[i]
    BY <1>1, <1>2, <1>4, <1>7
  <2>2. IsSubkey(Bytes(F), D) /\ Len(Bytes(F)) <= BlockBits
    BY <1>2, <1>4, <2>1, BytesLow
  <2>3. Subkey1(b) = Bytes(F)
    BY <1>6, <2>2, RoundShort
  <2> QED
    BY <2>2, <2>3 DEF D
<1>8. CASE b[1] # 0
  <2>1. b[1] = 1 /\ ByteBits \in 1..ByteBits /\ F[ByteBits] = 1 /\ ByteBits - 0 = ByteBits
    BY <1>1, <1>2, <1>8 DEF Bit
  <2>2. Bytes(F) = F
    BY <1>2, <2>1, BytesFull
  <2>3. MulRound(F, 0) = Bytes(G)
    BY <1>5, <2>1
  <2>4. \A i \in 1..ByteBits : G[i] = 0
    BY <1>1, <1>2, <1>3, <2>1
  <2>5. ASSUME NEW i \in 1..BlockBits
        PROVE  G[ByteBits + i] = D[i]
    <3>1. i + 0 = i /\ i <= BlockBits /\ (Reduction[i] = 0 \/ Reduction[i] = 1)
      BY <1>1 DEF Bit
    <3>2. G[ByteBits + i] = IF Reduction[i] = 1 THEN 1 - F[ByteBits + i] ELSE F[ByteBits + i]
      BY <1>3, <3>1
    <3> QED
      BY <1>2, <1>4, <1>8, <3>1, <3>2
  <2>6. IsSubkey(Bytes(G), D) /\ Len(Bytes(G)) <= BlockBits
    BY <1>3, <1>4, <2>4, <2>5, BytesLow
  <2>7. Subkey1(b) = Bytes(G)
    BY <1>6, <2>2, <2>3, <2>6, RoundShort
  <2> QED
    BY <2>6, <2>7 DEF D
<1> QED
  BY <1>7, <1>8

\* The second one is that doubled again, whichever of the two bits that are
\* shifted out is set.
LEMMA Subkey2Doubles ==
  ASSUME NEW b \in Block
  PROVE  IsSubkey(Subkey2(b), Double(Double(b)))
<1> DEFINE F == Shift(b, 2)
           G(f, s) == xor(f, polynomial(s))
           C == Double(b)
           D == Double(C)
           R(i) == IF i + 1 <= BlockBits THEN Reduction[i + 1] ELSE 0
           low(i) == IF i + 2 <= BlockBits THEN b[i + 2] ELSE 0
           flip(c, v) == IF c = 1 THEN 1 - v ELSE v
<1>1. /\ ByteBits \in Nat /\ ByteBits >= 2 /\ BlockBits \in Nat /\ BlockBits >= ByteBits
      /\ Reduction[1] = 0
      /\ \A i \in 1..BlockBits : b[i] \in Bit /\ Reduction[i] \in Bit
  BY Sizes, BlockString, LrpAssumption
<1>2. /\ F \in Wide
      /\ \A i \in 1..ByteBits : F[i] = IF i = ByteBits THEN b[2]
                                       ELSE IF i = ByteBits - 1 THEN b[1] ELSE 0
      /\ \A i \in 1..BlockBits : F[ByteBits + i] = low(i)
  BY ShiftsOut
<1>3. ASSUME NEW f \in Wide
      PROVE  /\ G(f, 0) \in Wide
             /\ \A i \in 1..ByteBits : G(f, 0)[i] = IF i = ByteBits THEN 1 - f[i] ELSE f[i]
             /\ \A i \in 1..BlockBits : G(f, 0)[ByteBits + i] = flip(Reduction[i], f[ByteBits + i])
  <2>1. /\ G(f, 0) \in Wide
        /\ \A i \in 1..ByteBits : G(f, 0)[i] = IF i = ByteBits - 0 THEN 1 - f[i] ELSE f[i]
        /\ \A i \in 1..BlockBits :
             G(f, 0)[ByteBits + i] = IF i + 0 <= BlockBits /\ Reduction[i + 0] = 1
                                       THEN 1 - f[ByteBits + i] ELSE f[ByteBits + i]
    BY Subtracts
  <2>2. ByteBits - 0 = ByteBits /\ \A i \in 1..BlockBits : i + 0 = i /\ i <= BlockBits
    BY <1>1
  <2> HIDE DEF G, ByteBits, BlockBits
  <2> QED
    BY <2>1, <2>2
<1>4. ASSUME NEW f \in Wide
      PROVE  /\ G(f, 1) \in Wide
             /\ \A i \in 1..ByteBits :
                  G(f, 1)[i] = IF i = ByteBits - 1 THEN 1 - f[i] ELSE f[i]
             /\ \A i \in 1..BlockBits : G(f, 1)[ByteBits + i] = flip(R(i), f[ByteBits + i])
  <2>1. /\ G(f, 1) \in Wide
        /\ \A i \in 1..ByteBits : G(f, 1)[i] = IF i = ByteBits - 1 THEN 1 - f[i] ELSE f[i]
        /\ \A i \in 1..BlockBits :
             G(f, 1)[ByteBits + i] = IF i + 1 <= BlockBits /\ Reduction[i + 1] = 1
                                       THEN 1 - f[ByteBits + i] ELSE f[ByteBits + i]
    BY Subtracts
  <2> HIDE DEF G, ByteBits, BlockBits
  <2> QED
    BY <2>1
<1>5. /\ C \in Block
      /\ \A i \in 1..BlockBits :
           C[i] = IF b[1] = 0 \/ Reduction[i] = 0
                    THEN IF i + 1 <= BlockBits THEN b[i + 1] ELSE 0
                    ELSE 1 - (IF i + 1 <= BlockBits THEN b[i + 1] ELSE 0)
  BY Doubles
<1>6. /\ D \in Block
      /\ \A i \in 1..BlockBits :
           D[i] = IF C[1] = 0 \/ Reduction[i] = 0
                    THEN IF i + 1 <= BlockBits THEN C[i + 1] ELSE 0
                    ELSE 1 - (IF i + 1 <= BlockBits THEN C[i + 1] ELSE 0)
  BY <1>5, Doubles
<1>7. /\ \A f \in Wide : MulRound(f, 0) = IF f[ByteBits] = 0 THEN f ELSE Bytes(G(f, 0))
      /\ \A f \in Wide : MulRound(f, 1) = IF f[ByteBits - 1] = 0 THEN f ELSE Bytes(G(f, 1))
  <2>1. ByteBits - 0 = ByteBits
    BY <1>1
  <2>2. \A f \in Wide : MulRound(f, 0) = IF f[ByteBits - 0] = 0 THEN f ELSE Bytes(G(f, 0))
    BY RoundWide
  <2>3. \A f \in Wide : MulRound(f, 1) = IF f[ByteBits - 1] = 0 THEN f ELSE Bytes(G(f, 1))
    BY RoundWide
  <2> HIDE DEF G, ByteBits
  <2> QED
    BY <2>1, <2>2, <2>3
<1>8. Subkey2(b) = MulRound(MulRound(Bytes(F), 0), 1)
  BY DEF Subkey2, mulPoly
<1> HIDE DEF F, G, C, D, ByteBits, BlockBits
<1>9. /\ b[1] = 0 \/ b[1] = 1
      /\ b[2] = 0 \/ b[2] = 1
  <2>1. 1 \in 1..BlockBits /\ 2 \in 1..BlockBits
    BY <1>1
  <2> QED
    BY <1>1, <2>1 DEF Bit
\* The bits of the quadruple.
<1>10. ASSUME NEW i \in 1..BlockBits
       PROVE  /\ D[i] = flip(b[1] * R(i), flip(b[2] * Reduction[i], low(i)))
              /\ low(i) \in {0, 1} /\ R(i) \in {0, 1} /\ Reduction[i] \in {0, 1}
  <2>1. C[1] = b[2]
    <3>1. 1 \in 1..BlockBits /\ 1 + 1 = 2 /\ 2 <= BlockBits
      BY <1>1
    <3> QED
      BY <1>1, <1>5, <3>1
  <2>2. low(i) \in {0, 1} /\ R(i) \in {0, 1} /\ Reduction[i] \in {0, 1}
    <3>1. (i + 2 <= BlockBits => i + 2 \in 1..BlockBits)
          /\ (i + 1 <= BlockBits => i + 1 \in 1..BlockBits)
      BY <1>1
    <3> QED
      BY <1>1, <3>1 DEF Bit
  <2>3. (IF i + 1 <= BlockBits THEN C[i + 1] ELSE 0) = flip(b[1] * R(i), low(i))
    <3>1. CASE i + 1 <= BlockBits
      <4>1. i + 1 \in 1..BlockBits /\ (i + 1) + 1 = i + 2
        BY <1>1, <3>1
      <4>2. C[i + 1] = IF b[1] = 0 \/ Reduction[i + 1] = 0 THEN low(i) ELSE 1 - low(i)
        BY <1>5, <4>1
      <4> QED
        BY <1>9, <2>2, <3>1, <4>2
    <3>2. CASE ~(i + 1 <= BlockBits)
      <4>1. R(i) = 0 /\ low(i) = 0
        BY <1>1, <3>2
      <4> QED
        BY <1>9, <3>2, <4>1
    <3> QED
      BY <3>1, <3>2
  <2>4. D[i] = IF b[2] = 0 \/ Reduction[i] = 0 THEN flip(b[1] * R(i), low(i))
               ELSE 1 - flip(b[1] * R(i), low(i))
    BY <1>6, <2>1, <2>3
  <2> HIDE DEF low, R
  <2> QED
    BY <1>9, <2>2, <2>4
<1> HIDE DEF low, R
\* After the rounds that subtract the polynomial there is no leading byte left.
<1>11. ASSUME NEW x \in Wide, \A i \in 1..ByteBits : x[i] = 0,
              \A i \in 1..BlockBits : x[ByteBits + i] = D[i]
       PROVE  IsSubkey(Bytes(x), D) /\ MulRound(Bytes(x), 1) = Bytes(x)
                /\ MulRound(Bytes(x), 0) = Bytes(x)
  BY <1>6, <1>11, BytesLow, RoundShort
<1>12. ByteBits \in 1..ByteBits /\ ByteBits - 1 \in 1..ByteBits /\ ByteBits - 1 # ByteBits
  BY <1>1
<1>13. CASE b[1] = 0 /\ b[2] = 0
  <2>1. \A i \in 1..ByteBits : F[i] = 0
    BY <1>2, <1>13
  <2>2. \A i \in 1..BlockBits : F[ByteBits + i] = D[i]
    BY <1>2, <1>10, <1>13
  <2> QED
    BY <1>2, <1>8, <1>11, <2>1, <2>2 DEF D, C
<1>14. CASE b[1] = 0 /\ b[2] = 1
  <2>1. Bytes(F) = F
    BY <1>2, <1>12, <1>14, BytesFull
  <2>2. MulRound(F, 0) = Bytes(G(F, 0))
    BY <1>2, <1>7, <1>12, <1>14
  <2>3. \A i \in 1..ByteBits : G(F, 0)[i] = 0
    BY <1>2, <1>3, <1>14
  <2>4. \A i \in 1..BlockBits : G(F, 0)[ByteBits + i] = D[i]
    BY <1>2, <1>3, <1>10, <1>14
  <2>5. G(F, 0) \in Wide
    BY <1>2, <1>3
  <2> QED
    BY <1>8, <1>11, <2>1, <2>2, <2>3, <2>4, <2>5 DEF D, C
<1>15. CASE b[1] = 1 /\ b[2] = 0
  <2>1. Bytes(F) = F
    BY <1>2, <1>12, <1>15, BytesFull
  <2>2. MulRound(F, 0) = F /\ MulRound(F, 1) = Bytes(G(F, 1))
    BY <1>2, <1>7, <1>12, <1>15
  <2>3. \A i \in 1..ByteBits : G(F, 1)[i] = 0
    BY <1>2, <1>4, <1>12, <1>15
  <2>4. \A i \in 1..BlockBits : G(F, 1)[ByteBits + i] = D[i]
    BY <1>2, <1>4, <1>10, <1>15
  <2>5. G(F, 1) \in Wide
    BY <1>2, <1>4
  <2> QED
    BY <1>8, <1>11, <2>1, <2>2, <2>3, <2>4, <2>5 DEF D, C
<1>16. CASE b[1] = 1 /\ b[2] = 1
  <2> DEFINE H == G(F, 0)
  <2>1. Bytes(F) = F
    BY <1>2, <1>12, <1>16, BytesFull
  <2>2. MulRound(F, 0) = Bytes(H)
    BY <1>2, <1>7, <1>12, <1>16
  <2>3. H \in Wide /\ \A i \in 1..ByteBits : H[i] = IF i = ByteBits - 1 THEN 1 ELSE 0
    BY <1>2, <1>3, <1>12, <1>16
  <2>4. \A i \in 1..BlockBits : H[ByteBits + i] = flip(Reduction[i], low(i))
    BY <1>2, <1>3
  <2> HIDE DEF H
  <2>5. Bytes(H) = H
    BY <1>12, <2>3, BytesFull
  <2>6. MulRound(H, 1) = Bytes(G(H, 1))
    BY <1>7, <1>12, <2>3
  <2>7. \A i \in 1..ByteBits : G(H, 1)[i] = 0
    BY <1>4, <1>12, <2>3
  <2>8. \A i \in 1..BlockBits : G(H, 1)[ByteBits + i] = D[i]
    BY <1>4, <1>10, <1>16, <2>3, <2>4
  <2>9. G(H, 1) \in Wide
    BY <1>4, <2>3
  <2> QED
    BY <1>8, <1>11, <2>1, <2>2, <2>5, <2>6, <2>7, <2>8, <2>9 DEF D, C
<1> QED
  BY <1>9, <1>13, <1>14, <1>15, <1>16

-----------------------------------------------------------------------------
(* The blocks of a string, and what is left of it after i of them.         *)

Left(x, i) == SubSeq(x, BlockBits * i + 1, Len(x))

LEMMA BlocksOf ==
  ASSUME NEW x \in Seq(Bit)
  PROVE  \E m \in Nat : /\ Blocks(x) = m + 1 /\ m <= Len(x)
                        /\ BlockBits * m \in Nat /\ BlockBits * m <= Len(x)
                        /\ m # 0 => BlockBits * m < Len(x)
                        /\ Len(x) <= BlockBits * m + BlockBits
<1>1. BlockBits \in Nat /\ BlockBits >= 2 /\ Len(x) \in Nat /\ (x = <<>> <=> Len(x) = 0)
  BY Sizes
<1> HIDE DEF BlockBits
<1>2. CASE x = <<>>
  <2>1. BlockBits * 0 = 0 /\ 0 \in Nat
    BY <1>1
  <2>2. Blocks(x) = 0 + 1
    BY <1>2 DEF Blocks
  <2> QED
    BY <1>1, <1>2, <2>1, <2>2
<1>3. CASE x # <<>>
  <2> DEFINE m == (Len(x) - 1) \div BlockBits
             rest == (Len(x) - 1) % BlockBits
             n == (Len(x) + BlockBits - 1) \div BlockBits
             over == (Len(x) + BlockBits - 1) % BlockBits
  <2>1. Len(x) >= 1
    BY <1>1, <1>3
  <2>2. m \in Nat /\ rest \in 0..BlockBits - 1 /\ Len(x) - 1 = BlockBits * m + rest
    BY <1>1, <2>1
  <2>3. n \in Nat /\ over \in 0..BlockBits - 1 /\ Len(x) + BlockBits - 1 = BlockBits * n + over
    BY <1>1, <2>1
  <2>4. Blocks(x) = n
    BY <1>3 DEF Blocks
  <2> HIDE DEF m, rest, n, over
  <2>5. m * BlockBits \in Nat /\ n * BlockBits \in Nat
        /\ BlockBits * m = m * BlockBits /\ BlockBits * n = n * BlockBits
    BY <1>1, <2>2, <2>3, ProductNat
  <2>6. ~(m + 1 < n)
    <3> SUFFICES ASSUME m + 1 < n
                 PROVE  FALSE
      OBVIOUS
    <3>1. (m + 1) * BlockBits + BlockBits <= n * BlockBits
      BY <1>1, <2>2, <2>3, ProductMonotone
    <3>2. (m + 1) * BlockBits = m * BlockBits + BlockBits
      BY <1>1, <2>2
    <3> DEFINE a == m * BlockBits
               b == n * BlockBits
    <3>3. /\ a + BlockBits + BlockBits <= b /\ a \in Nat /\ b \in Nat
          /\ Len(x) - 1 = a + rest /\ Len(x) + BlockBits - 1 = b + over
      BY <2>2, <2>3, <2>5, <3>1, <3>2
    <3> HIDE DEF a, b
    <3> QED
      BY <1>1, <2>2, <2>3, <3>3
  <2>7. ~(n < m + 1)
    <3> SUFFICES ASSUME n < m + 1
                 PROVE  FALSE
      OBVIOUS
    <3>1. n * BlockBits + BlockBits <= (m + 1) * BlockBits
      BY <1>1, <2>2, <2>3, ProductMonotone
    <3>2. (m + 1) * BlockBits = m * BlockBits + BlockBits
      BY <1>1, <2>2
    <3> DEFINE a == m * BlockBits
               b == n * BlockBits
    <3>3. /\ b + BlockBits <= a + BlockBits /\ a \in Nat /\ b \in Nat
          /\ Len(x) - 1 = a + rest /\ Len(x) + BlockBits - 1 = b + over
      BY <2>2, <2>3, <2>5, <3>1, <3>2
    <3> HIDE DEF a, b
    <3> QED
      BY <1>1, <2>2, <2>3, <3>3
  <2>8. n = m + 1
    BY <2>2, <2>3, <2>6, <2>7
  <2>9. m <= m * BlockBits
    BY <1>1, <2>2
  <2> DEFINE a == m * BlockBits
  <2>10. a \in Nat /\ m <= a /\ Len(x) - 1 = a + rest
    BY <2>2, <2>5, <2>9
  <2> HIDE DEF a
  <2>11. /\ a \in Nat /\ a <= Len(x) /\ a < Len(x) /\ Len(x) <= a + BlockBits /\ m <= Len(x)
    BY <1>1, <2>2, <2>10
  <2>12. BlockBits * m = a
    BY <2>5 DEF a
  <2> QED
    BY <2>2, <2>4, <2>8, <2>11, <2>12
<1> QED
  BY <1>2, <1>3

LEMMA LeftOver ==
  ASSUME NEW x \in Seq(Bit), NEW i \in 0..Blocks(x) - 1
  PROVE  /\ Left(x, i) \in Seq(Bit)
         /\ Blocks(x) - 1 \in Nat /\ Blocks(x) - 1 <= Len(x)
         /\ i < Blocks(x) - 1 =>
              /\ Len(Left(x, i)) > BlockBits
              /\ SubSeq(Left(x, i), 1, BlockBits) = BlockOf(x, i + 1)
              /\ BlockOf(x, i + 1) \in Block
              /\ SubSeq(Left(x, i), BlockBits + 1, Len(Left(x, i))) = Left(x, i + 1)
         /\ i = Blocks(x) - 1 => Len(Left(x, i)) <= BlockBits /\ Left(x, i) = End(x)
<1>1. PICK m \in Nat : /\ Blocks(x) = m + 1 /\ m <= Len(x)
                       /\ BlockBits * m \in Nat /\ BlockBits * m <= Len(x)
                       /\ m # 0 => BlockBits * m < Len(x)
                       /\ Len(x) <= BlockBits * m + BlockBits
  BY BlocksOf
<1>2. BlockBits \in Nat /\ BlockBits >= 2 /\ Len(x) \in Nat /\ i \in Nat /\ i <= m
  BY <1>1, Sizes
<1>3. \A j \in 1..Len(x) : x[j] \in Bit
  BY ElementOfSeq
<1> HIDE DEF BlockBits
<1> DEFINE a == BlockBits * i
<1>4. /\ i * BlockBits \in Nat /\ a = i * BlockBits /\ m * BlockBits = BlockBits * m
      /\ BlockBits * (i + 1) = a + BlockBits /\ a \in Nat
  BY <1>1, <1>2, ProductNat
<1>5. i < m => a + BlockBits < Len(x)
  <2> SUFFICES ASSUME i < m
               PROVE  a + BlockBits < Len(x)
    OBVIOUS
  <2>1. i * BlockBits + BlockBits <= m * BlockBits
    BY <1>2, ProductMonotone
  <2>2. a + BlockBits <= BlockBits * m /\ BlockBits * m < Len(x)
    BY <1>1, <1>2, <1>4, <2>1
  <2> HIDE DEF a
  <2> QED
    BY <1>1, <1>2, <1>4, <2>2
<1>6. i = m => a <= Len(x) /\ Len(x) <= a + BlockBits
  BY <1>1
<1>7. a <= Len(x)
  <2> HIDE DEF a
  <2> QED
    BY <1>2, <1>4, <1>5, <1>6
<1>8. Left(x, i) = SubSeq(x, a + 1, Len(x))
  BY DEF Left
<1> HIDE DEF a
<1>9. Left(x, i) \in Seq(Bit) /\ Len(Left(x, i)) = Len(x) - a
  <2> DEFINE lo == a + 1
             hi == Len(x)
  <2>1. lo \in Int /\ hi \in Int /\ \A j \in lo..hi : x[j] \in Bit
    BY <1>2, <1>3, <1>4
  <2>2. (lo <= hi => hi - lo + 1 = hi - a) /\ (~(lo <= hi) => hi - a = 0)
    BY <1>2, <1>4, <1>7
  <2> HIDE DEF lo, hi
  <2>3. /\ SubSeq(x, lo, hi) \in Seq(Bit)
        /\ Len(SubSeq(x, lo, hi)) = IF lo <= hi THEN hi - lo + 1 ELSE 0
    BY <2>1, SubSeqProperties
  <2>4. Left(x, i) = SubSeq(x, lo, hi)
    BY <1>8 DEF lo, hi
  <2>5. Len(Left(x, i)) = hi - a
    BY <2>2, <2>3, <2>4
  <2> QED
    BY <2>3, <2>4, <2>5 DEF hi
<1>10. ASSUME i < m
       PROVE  /\ Len(Left(x, i)) > BlockBits
              /\ SubSeq(Left(x, i), 1, BlockBits) = BlockOf(x, i + 1)
              /\ BlockOf(x, i + 1) \in Block
              /\ SubSeq(Left(x, i), BlockBits + 1, Len(Left(x, i))) = Left(x, i + 1)
  <2>1. a + BlockBits < Len(x)
    BY <1>5, <1>10
  <2>2. BlockOf(x, i + 1) = SubSeq(x, a + 1, a + BlockBits)
    <3>1. (i + 1) - 1 = i /\ i + 1 # Blocks(x)
      BY <1>1, <1>2, <1>10
    <3>2. BlockOf(x, i + 1) = SubSeq(x, BlockBits * i + 1, BlockBits * (i + 1))
      BY <3>1 DEF BlockOf
    <3> QED
      BY <1>4, <3>2 DEF a
  <2>3. /\ a + 1 \in 1..Len(x) /\ Len(x) \in 1..Len(x)
        /\ 1 \in 1..Len(x) - (a + 1) + 1 /\ BlockBits \in 1..Len(x) - (a + 1) + 1
        /\ BlockBits + 1 \in 1..Len(x) - (a + 1) + 1
        /\ Len(x) - a \in 1..Len(x) - (a + 1) + 1
    BY <1>2, <1>4, <2>1
  <2>4. SubSeq(SubSeq(x, a + 1, Len(x)), 1, BlockBits) =
          SubSeq(x, a + BlockBits - BlockBits + 1, a + BlockBits)
    <3>1. /\ (a + 1) + 1 - 1 = a + BlockBits - BlockBits + 1
          /\ (a + 1) + BlockBits - 1 = a + BlockBits
      BY <1>2, <1>4
    <3>2. SubSeq(SubSeq(x, a + 1, Len(x)), 1, BlockBits) =
            SubSeq(x, (a + 1) + 1 - 1, (a + 1) + BlockBits - 1)
      BY <2>3, SubSeqOfSubSeq
    <3> QED
      BY <3>1, <3>2
  <2>5. a + BlockBits - BlockBits + 1 = a + 1
    BY <1>2, <1>4
  <2>6. SubSeq(Left(x, i), 1, BlockBits) = BlockOf(x, i + 1)
    BY <1>8, <2>2, <2>4, <2>5
  <2>7. SubSeq(Left(x, i), BlockBits + 1, Len(Left(x, i))) = Left(x, i + 1)
    <3>1. /\ (a + 1) + (BlockBits + 1) - 1 = (a + BlockBits) + 1
          /\ (a + 1) + (Len(x) - a) - 1 = Len(x)
      BY <1>2, <1>4
    <3>2. SubSeq(SubSeq(x, a + 1, Len(x)), BlockBits + 1, Len(x) - a) =
            SubSeq(x, (a + 1) + (BlockBits + 1) - 1, (a + 1) + (Len(x) - a) - 1)
      <4> DEFINE from == BlockBits + 1
                 to == Len(x) - a
                 lo == a + 1
      <4>1. /\ lo \in 1..Len(x) /\ Len(x) \in 1..Len(x)
            /\ from \in 1..Len(x) - lo + 1 /\ to \in 1..Len(x) - lo + 1
        BY <1>2, <1>4, <2>1
      <4> HIDE DEF from, to, lo
      <4>2. SubSeq(SubSeq(x, lo, Len(x)), from, to) = SubSeq(x, lo + from - 1, lo + to - 1)
        BY <4>1, SubSeqOfSubSeq
      <4> QED
        BY <4>2 DEF from, to, lo
    <3>3. Left(x, i + 1) = SubSeq(x, (a + BlockBits) + 1, Len(x))
      BY <1>4 DEF Left
    <3> QED
      BY <1>8, <1>9, <3>1, <3>2, <3>3
  <2>8. BlockOf(x, i + 1) \in Block
    <3> DEFINE lo == a + 1
               hi == a + BlockBits
    <3>1. /\ lo \in Int /\ hi \in Int /\ \A j \in lo..hi : x[j] \in Bit
          /\ lo <= hi /\ hi - lo + 1 = BlockBits
      BY <1>2, <1>3, <1>4, <2>1
    <3>2. BlockOf(x, i + 1) = SubSeq(x, lo, hi)
      BY <2>2
    <3> HIDE DEF lo, hi
    <3>3. /\ SubSeq(x, lo, hi) \in Seq(Bit)
          /\ Len(SubSeq(x, lo, hi)) = IF lo <= hi THEN hi - lo + 1 ELSE 0
      BY <3>1, SubSeqProperties
    <3>4. BlockOf(x, i + 1) \in Seq(Bit) /\ Len(BlockOf(x, i + 1)) = BlockBits
      BY <3>1, <3>2, <3>3
    <3> QED
      BY <3>4, LenProperties DEF Block
  <2> QED
    BY <1>2, <1>4, <1>9, <2>1, <2>6, <2>7, <2>8
<1>11. ASSUME i = m
       PROVE  Len(Left(x, i)) <= BlockBits /\ Left(x, i) = End(x)
  <2>1. Len(Left(x, i)) <= BlockBits
    BY <1>2, <1>4, <1>6, <1>9, <1>11
  <2>2. Blocks(x) - 1 = i
    BY <1>1, <1>2, <1>11
  <2>3. End(x) = SubSeq(x, BlockBits * i + 1, Len(x))
    BY <2>2 DEF End, BlockOf
  <2> QED
    BY <2>1, <2>3 DEF Left
<1>12. Blocks(x) - 1 = m
  BY <1>1
<1> QED
  BY <1>1, <1>9, <1>10, <1>11, <1>12

-----------------------------------------------------------------------------
(* The CMAC.                                                               *)

Whole(x) == IF Len(End(x)) = BlockBits THEN End(x) ELSE Pad(End(x))

\* The reference, as the loop it is.
LEMMA ReferenceLoop ==
  ASSUME NEW l \in Keyed, NEW x \in Seq(Bit)
  PROVE  \E f \in [0..Blocks(x) - 1 -> Block] :
           /\ f[0] = Zero
           /\ \A n \in 1..Blocks(x) - 1 : f[n] = evalLRP(l, xor(BlockOf(x, n), f[n - 1]))
           /\ Reference(l, x) = evalLRP(l, xor(xor(Whole(x), f[Blocks(x) - 1]), Mask(l, x)))
<1> DEFINE N == Blocks(x) - 1
           next(n, v) == evalLRP(l, xor(BlockOf(x, n), v))
           step == [n \in 1..N |-> [v \in Block |-> next(n, v)]]
           Is(f) == f = [n \in 0..N |-> IF n = 0 THEN Zero ELSE next(n, f[n - 1])]
           y == CHOOSE f : Is(f)
<1>0. /\ N \in Nat /\ Zero \in Block
      /\ \A n \in 1..N, v \in Block : evalLRP(l, xor(BlockOf(x, n), v)) \in Block
  <2>1. N \in Nat
    <3>1. PICK m \in Nat : Blocks(x) = m + 1
      BY BlocksOf
    <3> QED
      BY <3>1
  <2>2. ASSUME NEW n \in 1..N
        PROVE  BlockOf(x, n) \in Block
    <3>1. n - 1 \in 0..Blocks(x) - 1 /\ n - 1 < Blocks(x) - 1 /\ (n - 1) + 1 = n
      BY <2>1
    <3> QED
      BY <3>1, LeftOver
  <2> HIDE DEF N
  <2>3. \A n \in 1..N, v \in Block : xor(BlockOf(x, n), v) \in Seq(Bit)
    BY <2>2, XorBlock, BlockString
  <2> QED
    BY <2>1, <2>3, Constants, EvalBlock
<1> HIDE DEF N
<1>1. step \in [1..N -> [Block -> Block]]
  <2>1. \A n \in 1..N, v \in Block : next(n, v) \in Block
    BY <1>0
  <2> HIDE DEF next
  <2>2. \A n \in 1..N : [v \in Block |-> next(n, v)] \in [Block -> Block]
    BY <2>1
  <2> QED
    BY <2>2
<1>2. PICK f : Rounds(f, N, Block, Zero, step)
  <2> HIDE DEF step
  <2> QED
    BY <1>0, <1>1, Loop
<1> HIDE DEF next
<1>3. /\ f \in [0..N -> Block] /\ f[0] = Zero
      /\ \A n \in 1..N : f[n] = next(n, f[n - 1])
  <2>1. \A n \in 1..N : n - 1 \in 0..N
    BY <1>0
  <2> QED
    BY <1>2, <2>1 DEF Rounds
<1>4. Is(f)
  BY <1>0, <1>3
<1>5. Is(y)
  BY <1>4
<1> HIDE DEF y
<1>6. y = f
  <2>1. /\ y = [n \in 0..N |-> y[n]] /\ y[0] = Zero
        /\ \A n \in 1..N : y[n] = next(n, y[n - 1])
    <3>1. \A n \in 0..N : y[n] = IF n = 0 THEN Zero ELSE next(n, y[n - 1])
      BY <1>5
    <3>2. y = [n \in 0..N |-> y[n]]
      BY <1>5
    <3>3. 0 \in 0..N /\ \A n \in 1..N : n \in 0..N /\ n # 0
      BY <1>0
    <3> QED
      BY <3>1, <3>2, <3>3
  <2>2. \A n \in 1..N : f[n - 1] = y[n - 1] => y[n] = step[n][f[n - 1]]
    <3>1. \A n \in 1..N : n - 1 \in 0..N
      BY <1>0
    <3> QED
      BY <1>3, <2>1, <3>1
  <2>3. Follows(y, f, N, Zero, step)
    BY <2>1, <2>2 DEF Follows
  <2> HIDE DEF step
  <2> QED
    BY <1>0, <1>2, <2>3, LoopUnique
<1>7. Reference(l, x) = evalLRP(l, xor(xor(Whole(x), y[N]), Mask(l, x)))
  BY DEF Reference, Whole, y, next, N
<1>8. \A n \in 1..N : f[n] = evalLRP(l, xor(BlockOf(x, n), f[n - 1]))
  BY <1>3 DEF next
<1> QED
  BY <1>3, <1>6, <1>7, <1>8 DEF N

States == [rest : Seq(Bit), y : Block]

\* cmac, as the loop it is.
LEMMA CmacLoop ==
  ASSUME NEW l \in Keyed, NEW x \in Seq(Bit)
  PROVE  \E f \in [0..Len(x) -> States] :
           /\ f[0] = [rest |-> x, y |-> Zero]
           /\ \A n \in 1..Len(x) :
                f[n] = IF Len(f[n - 1].rest) <= BlockBits THEN f[n - 1]
                       ELSE [rest |-> SubSeq(f[n - 1].rest, BlockBits + 1, Len(f[n - 1].rest)),
                             y |-> evalLRP(l, xor(SubSeq(f[n - 1].rest, 1, BlockBits),
                                                  f[n - 1].y))]
           /\ cmac(l, x) =
                evalLRP(l, Masked(f[Len(x)].rest, f[Len(x)].y,
                                  Subkey1(evalLRP(l, Zero)), Subkey2(evalLRP(l, Zero))))
<1> DEFINE base == [rest |-> x, y |-> Zero]
<1> DEFINE N == Len(x)
           next(n, v) == IF Len(v.rest) <= BlockBits THEN v
                         ELSE [rest |-> SubSeq(v.rest, BlockBits + 1, Len(v.rest)),
                               y |-> evalLRP(l, xor(SubSeq(v.rest, 1, BlockBits), v.y))]
           step == [n \in 1..N |-> [v \in States |-> next(n, v)]]
           Is(f) == f = [n \in 0..N |-> IF n = 0 THEN base ELSE next(n, f[n - 1])]
           read == CHOOSE f : Is(f)
<1>0. N \in Nat /\ base \in States /\ \A n \in 1..N, v \in States : next(n, v) \in States
  <2>1. N \in Nat /\ base \in States
    BY Constants DEF States
  <2> HIDE DEF N, base
  <2>2. ASSUME NEW v \in States, ~(Len(v.rest) <= BlockBits)
        PROVE  [rest |-> SubSeq(v.rest, BlockBits + 1, Len(v.rest)),
                y |-> evalLRP(l, xor(SubSeq(v.rest, 1, BlockBits), v.y))] \in States
    <3> DEFINE s == v.rest
               k == Len(s)
    <3>1. /\ s \in Seq(Bit) /\ v.y \in Block /\ k \in Nat /\ k > BlockBits
          /\ BlockBits \in Nat /\ BlockBits >= 2
          /\ \A j \in 1..k : s[j] \in Bit
      BY <2>2, Sizes, ElementOfSeq DEF States
    <3> HIDE DEF s, BlockBits
    <3>2. SubSeq(s, BlockBits + 1, k) \in Seq(Bit)
      <4> DEFINE lo == BlockBits + 1
      <4>1. lo \in Int /\ \A j \in lo..k : s[j] \in Bit
        BY <3>1
      <4> HIDE DEF lo
      <4>2. SubSeq(s, lo, k) \in Seq(Bit)
        BY <3>1, <4>1, SubSeqProperties
      <4> QED
        BY <4>2 DEF lo
    <3>3. SubSeq(s, 1, BlockBits) \in Block
      <4>1. \A j \in 1..BlockBits : s[j] \in Bit
        BY <3>1
      <4>2. /\ SubSeq(s, 1, BlockBits) \in Seq(Bit)
            /\ Len(SubSeq(s, 1, BlockBits)) = IF 1 <= BlockBits THEN BlockBits - 1 + 1 ELSE 0
        BY <3>1, <4>1, SubSeqProperties
      <4>3. Len(SubSeq(s, 1, BlockBits)) = BlockBits
        BY <3>1, <4>2
      <4> QED
        BY <4>2, <4>3, LenProperties DEF Block
    <3>4. xor(SubSeq(s, 1, BlockBits), v.y) \in Seq(Bit)
      BY <3>1, <3>3, XorBlock, BlockString
    <3>5. evalLRP(l, xor(SubSeq(s, 1, BlockBits), v.y)) \in Block
      BY <3>4, EvalBlock
    <3> QED
      BY <3>2, <3>5 DEF States, s
  <2> QED
    BY <2>1, <2>2
<1> HIDE DEF N, base
<1>1. step \in [1..N -> [States -> States]]
  <2>1. \A n \in 1..N, v \in States : next(n, v) \in States
    BY <1>0
  <2> HIDE DEF next
  <2>2. \A n \in 1..N : [v \in States |-> next(n, v)] \in [States -> States]
    BY <2>1
  <2> QED
    BY <2>2
<1>2. PICK f : Rounds(f, N, States, base, step)
  <2> HIDE DEF step
  <2> QED
    BY <1>0, <1>1, Loop
<1> HIDE DEF next
<1>3. /\ f \in [0..N -> States] /\ f[0] = base
      /\ \A n \in 1..N : f[n] = next(n, f[n - 1])
  <2>1. \A n \in 1..N : n - 1 \in 0..N
    BY <1>0
  <2> QED
    BY <1>2, <2>1 DEF Rounds
<1>4. Is(f)
  BY <1>0, <1>3
<1>5. Is(read)
  BY <1>4
<1> HIDE DEF read
<1>6. read = f
  <2>1. /\ read = [n \in 0..N |-> read[n]] /\ read[0] = base
        /\ \A n \in 1..N : read[n] = next(n, read[n - 1])
    <3>1. \A n \in 0..N : read[n] = IF n = 0 THEN base ELSE next(n, read[n - 1])
      BY <1>5
    <3>2. read = [n \in 0..N |-> read[n]]
      BY <1>5
    <3>3. 0 \in 0..N /\ \A n \in 1..N : n \in 0..N /\ n # 0
      BY <1>0
    <3> QED
      BY <3>1, <3>2, <3>3
  <2>2. \A n \in 1..N : f[n - 1] = read[n - 1] => read[n] = step[n][f[n - 1]]
    <3>1. \A n \in 1..N : n - 1 \in 0..N
      BY <1>0
    <3> QED
      BY <1>3, <2>1, <3>1
  <2>3. Follows(read, f, N, base, step)
    BY <2>1, <2>2 DEF Follows
  <2> HIDE DEF step
  <2> QED
    BY <1>0, <1>2, <2>3, LoopUnique
<1>7. cmac(l, x) = evalLRP(l, Masked(read[N].rest, read[N].y,
                               Subkey1(evalLRP(l, Zero)), Subkey2(evalLRP(l, Zero))))
  BY DEF cmac, read, next, N, base
<1> QED
  BY <1>3, <1>6, <1>7 DEF N, base, next

\* They read the same blocks and come to the same value before the last one.
LEMMA SameBlocks ==
  ASSUME NEW l \in Keyed, NEW x \in Seq(Bit)
  PROVE  \E y \in Block :
           /\ Reference(l, x) = evalLRP(l, xor(xor(Whole(x), y), Mask(l, x)))
           /\ cmac(l, x) = evalLRP(l, Masked(End(x), y, Subkey1(evalLRP(l, Zero)),
                                                       Subkey2(evalLRP(l, Zero))))
<1> DEFINE m == Blocks(x) - 1
<1>1. PICK f \in [0..m -> Block] :
        /\ f[0] = Zero
        /\ \A n \in 1..m : f[n] = evalLRP(l, xor(BlockOf(x, n), f[n - 1]))
        /\ Reference(l, x) = evalLRP(l, xor(xor(Whole(x), f[m]), Mask(l, x)))
  BY ReferenceLoop
<1>2. PICK g \in [0..Len(x) -> States] :
        /\ g[0] = [rest |-> x, y |-> Zero]
        /\ \A n \in 1..Len(x) :
             g[n] = IF Len(g[n - 1].rest) <= BlockBits THEN g[n - 1]
                    ELSE [rest |-> SubSeq(g[n - 1].rest, BlockBits + 1, Len(g[n - 1].rest)),
                          y |-> evalLRP(l, xor(SubSeq(g[n - 1].rest, 1, BlockBits),
                                               g[n - 1].y))]
        /\ cmac(l, x) =
             evalLRP(l, Masked(g[Len(x)].rest, g[Len(x)].y,
                               Subkey1(evalLRP(l, Zero)), Subkey2(evalLRP(l, Zero))))
  BY CmacLoop
<1>3. m \in Nat /\ m <= Len(x) /\ Len(x) \in Nat
  <2>1. PICK k \in Nat : Blocks(x) = k + 1 /\ k <= Len(x)
    BY BlocksOf
  <2> QED
    BY <2>1
<1>4. \A i \in 0..m :
        /\ i < m => /\ Len(Left(x, i)) > BlockBits
                    /\ SubSeq(Left(x, i), 1, BlockBits) = BlockOf(x, i + 1)
                    /\ SubSeq(Left(x, i), BlockBits + 1, Len(Left(x, i))) = Left(x, i + 1)
        /\ i = m => Len(Left(x, i)) <= BlockBits /\ Left(x, i) = End(x)
        /\ Left(x, i) \in Seq(Bit)
  BY LeftOver
<1>5. BlockBits \in Nat /\ \A i \in 0..m : Len(Left(x, i)) \in Nat
  BY <1>4, Sizes
<1> HIDE DEF m, BlockBits
<1> DEFINE T == {n \in Nat : n <= m => g[n] = [rest |-> Left(x, n), y |-> f[n]]}
<1>6. 0 \in T
  <2>1. BlockBits * 0 + 1 = 1
    BY <1>5
  <2>2. Left(x, 0) = SubSeq(x, 1, Len(x))
    BY <2>1 DEF Left
  <2>3. Left(x, 0) = x
    BY <2>2, SubSeqFull
  <2> QED
    BY <1>1, <1>2, <2>3
<1>7. ASSUME NEW n \in Nat, n \in T
      PROVE  n + 1 \in T
  <2> SUFFICES ASSUME n + 1 <= m
               PROVE  g[n + 1] = [rest |-> Left(x, n + 1), y |-> f[n + 1]]
    OBVIOUS
  <2>0. n <= m
    BY <1>3
  <2>1. g[n].rest = Left(x, n) /\ g[n].y = f[n]
    BY <1>7, <2>0
  <2>2. /\ n + 1 \in 1..Len(x) /\ n + 1 \in 1..m /\ (n + 1) - 1 = n
        /\ n \in 0..m /\ n < m
    BY <1>3
  <2>3. ~(Len(Left(x, n)) <= BlockBits)
    BY <1>4, <1>5, <2>2
  <2>4. g[n + 1] = [rest |-> SubSeq(Left(x, n), BlockBits + 1, Len(Left(x, n))),
                    y |-> evalLRP(l, xor(SubSeq(Left(x, n), 1, BlockBits), f[n]))]
    BY <1>2, <2>1, <2>2, <2>3
  <2>5. f[n + 1] = evalLRP(l, xor(BlockOf(x, n + 1), f[n]))
    BY <1>1, <2>2
  <2> QED
    BY <1>4, <2>2, <2>4, <2>5
<1> HIDE DEF T
<1>8. Nat \subseteq T
  BY <1>6, <1>7, Induction
<1>9. g[m] = [rest |-> End(x), y |-> f[m]] /\ Len(End(x)) <= BlockBits
  <2>1. m \in T /\ m <= m /\ m \in 0..m
    BY <1>3, <1>8
  <2>2. g[m] = [rest |-> Left(x, m), y |-> f[m]]
    BY <2>1 DEF T
  <2>3. Len(Left(x, m)) <= BlockBits /\ Left(x, m) = End(x)
    BY <1>4, <2>1
  <2> QED
    BY <2>2, <2>3
<1> DEFINE R == {n \in Nat : n >= m /\ n <= Len(x) => g[n] = [rest |-> End(x), y |-> f[m]]}
<1>10. 0 \in R
  BY <1>3, <1>9
<1>11. ASSUME NEW n \in Nat, n \in R
       PROVE  n + 1 \in R
  <2> SUFFICES ASSUME n + 1 >= m, n + 1 <= Len(x)
               PROVE  g[n + 1] = [rest |-> End(x), y |-> f[m]]
    OBVIOUS
  <2>1. CASE n + 1 = m
    BY <1>9, <2>1
  <2>2. CASE n + 1 # m
    <3>1. n >= m /\ n <= Len(x) /\ n + 1 \in 1..Len(x) /\ (n + 1) - 1 = n
      BY <1>3, <2>2
    <3>2. g[n] = [rest |-> End(x), y |-> f[m]]
      BY <1>11, <3>1
    <3>3. g[n + 1] = g[n]
      <4>1. Len(g[n].rest) <= BlockBits
        BY <1>9, <3>2
      <4>2. g[n + 1] = IF Len(g[(n + 1) - 1].rest) <= BlockBits THEN g[(n + 1) - 1]
                       ELSE [rest |-> SubSeq(g[(n + 1) - 1].rest, BlockBits + 1,
                                             Len(g[(n + 1) - 1].rest)),
                             y |-> evalLRP(l, xor(SubSeq(g[(n + 1) - 1].rest, 1, BlockBits),
                                                  g[(n + 1) - 1].y))]
        BY <1>2, <3>1
      <4> QED
        BY <3>1, <4>1, <4>2
    <3> QED
      BY <3>2, <3>3
  <2> QED
    BY <2>1, <2>2
<1> HIDE DEF R
<1>12. Nat \subseteq R
  BY <1>10, <1>11, Induction
<1>13. g[Len(x)].rest = End(x) /\ g[Len(x)].y = f[m]
  BY <1>3, <1>12 DEF R
<1>14. f[m] \in Block
  BY <1>1, <1>3
<1> QED
  BY <1>1, <1>2, <1>13, <1>14

LEMMA PadBlock ==
  ASSUME NEW x \in Seq(Bit)
  PROVE  Pad(x) \in Block
<1>1. \A i \in 1..BlockBits : i <= Len(x) => i \in 1..Len(x)
  BY Sizes
<1>2. \A i \in 1..BlockBits : i <= Len(x) => x[i] \in Bit
  BY <1>1, ElementOfSeq
<1> HIDE DEF BlockBits
<1> QED
  BY <1>2 DEF Pad, Block, Bit

\* xor with a subkey.
LEMMA XorSubkey ==
  ASSUME NEW a \in Block, NEW D \in Block, NEW k, IsSubkey(k, D)
  PROVE  xor(a, k) = IF \A i \in 1..ByteBits : D[i] = 0 THEN <<>> ELSE xor(a, D)
<1>1. Len(a) = BlockBits /\ BlockBits \in Nat
  BY BlockString, Sizes
<1> HIDE DEF BlockBits, ByteBits
<1>2. CASE \A i \in 1..ByteBits : D[i] = 0
  <2>1. k \in Seq(Bit) /\ Len(k) < BlockBits
    BY <1>2 DEF IsSubkey
  <2>2. Len(a) # Len(k)
    BY <1>1, <2>1
  <2> QED
    BY <1>2, <2>2 DEF xor
<1>3. CASE ~(\A i \in 1..ByteBits : D[i] = 0)
  BY <1>3 DEF IsSubkey
<1> QED
  BY <1>2, <1>3

\* What cmac computes, for every key and all data.
LEMMA CmacIs ==
  ASSUME NEW l \in Keyed, NEW x \in Seq(Bit)
  PROVE  /\ cmac(l, x) = IF \A i \in 1..ByteBits : Mask(l, x)[i] = 0
                           THEN evalLRP(l, <<>>) ELSE Reference(l, x)
         /\ cmac(l, x) \in Block
<1> DEFINE k0 == evalLRP(l, Zero)
           E == End(x)
           M == Mask(l, x)
           none == \A i \in 1..ByteBits : M[i] = 0
<1>1. PICK y \in Block :
        /\ Reference(l, x) = evalLRP(l, xor(xor(Whole(x), y), M))
        /\ cmac(l, x) = evalLRP(l, Masked(E, y, Subkey1(k0), Subkey2(k0)))
  BY SameBlocks
<1>2. k0 \in Block
  BY Constants, BlockString, EvalBlock
<1>3. E \in Seq(Bit) /\ Len(E) <= BlockBits
  <2>1. PICK m \in Nat : Blocks(x) = m + 1
    BY BlocksOf
  <2>2. m \in 0..Blocks(x) - 1 /\ m = Blocks(x) - 1
    BY <2>1
  <2> QED
    BY <2>2, LeftOver
<1>4. BlockBits \in Nat /\ Len(E) \in Nat
  BY <1>3, Sizes
<1>5. Double(k0) \in Block /\ Double(Double(k0)) \in Block
  BY <1>2, Doubles
<1>6. IsSubkey(Subkey1(k0), Double(k0)) /\ IsSubkey(Subkey2(k0), Double(Double(k0)))
  BY <1>2, Subkey1Doubles, Subkey2Doubles
<1>7. M = IF Len(E) = BlockBits THEN Double(k0) ELSE Double(Double(k0))
  BY DEF Mask
<1>8. Whole(x) = IF Len(E) = BlockBits THEN E ELSE Pad(E)
  BY DEF Whole
<1> HIDE DEF k0, E, M, BlockBits, ByteBits
<1>9. Whole(x) \in Block
  <2>1. Len(E) = BlockBits => E \in Block
    BY <1>3, LenProperties DEF Block
  <2> QED
    BY <1>3, <1>8, <2>1, PadBlock
<1>10. xor(Whole(x), y) \in Block /\ M \in Block
  BY <1>5, <1>7, <1>9, XorBlock
<1>11. Masked(E, y, Subkey1(k0), Subkey2(k0)) = IF none THEN <<>> ELSE xor(xor(Whole(x), y), M)
  <2>1. CASE Len(E) = BlockBits
    <3>1. Masked(E, y, Subkey1(k0), Subkey2(k0)) = xor(xor(Whole(x), y), Subkey1(k0))
      BY <1>4, <1>8, <2>1 DEF Masked
    <3>2. IsSubkey(Subkey1(k0), M)
      BY <1>6, <1>7, <2>1
    <3> QED
      BY <1>10, <3>1, <3>2, XorSubkey
  <2>2. CASE Len(E) # BlockBits
    <3>1. Masked(E, y, Subkey1(k0), Subkey2(k0)) = xor(xor(Whole(x), y), Subkey2(k0))
      BY <1>3, <1>4, <1>8, <2>2 DEF Masked
    <3>2. IsSubkey(Subkey2(k0), M)
      BY <1>6, <1>7, <2>2
    <3> QED
      BY <1>10, <3>1, <3>2, XorSubkey
  <2> QED
    BY <2>1, <2>2
<1>12. cmac(l, x) = IF none THEN evalLRP(l, <<>>) ELSE Reference(l, x)
  BY <1>1, <1>11
<1>13. cmac(l, x) \in Block
  <2>1. <<>> \in Seq(Bit) /\ xor(xor(Whole(x), y), M) \in Seq(Bit)
    BY <1>10, XorBlock, BlockString
  <2> QED
    BY <1>1, <1>12, <2>1, EvalBlock
<1> QED
  BY <1>12, <1>13 DEF M

\* A MAC of an LRP tag (LRP.cmac, calculateSdmMac) is the CMAC of its definition,
\* except if the subkey it needs has a leading byte of zeros (1 in 256 keys):
\* then it is the same for all data, and the MAC of a SUN says nothing of it.
THEOREM LrpIsAsSpecified == Spec => []LrpAsSpecified
<1>1. in \in Inputs => LrpAsSpecified
  <2> SUFFICES ASSUME in \in Inputs, in.kind = "mac"
               PROVE  LrpAsSpecified
    BY DEF LrpAsSpecified
  <2>1. in.key \in Block /\ in.data \in Seq(Bit)
    BY InputsAssumption DEF Inputs
  <2> DEFINE l == NewLRP(in.key)
             expected(m, x) == IF \A i \in 1..ByteBits : Mask(m, x)[i] = 0
                                 THEN evalLRP(m, <<>>) ELSE Reference(m, x)
             session == expected(l, in.data)
  <2>2. l \in Keyed
    BY <2>1, NewLRPKeyed
  <2>3. cmac(l, in.data) = session /\ session \in Block
    BY <2>1, <2>2, CmacIs
  <2>4. NewLRP(session) \in Keyed /\ <<>> \in Seq(Bit)
    BY <2>3, NewLRPKeyed
  <2>5. cmac(NewLRP(session), <<>>) = expected(NewLRP(session), <<>>)
    BY <2>4, CmacIs
  <2>6. calculateSdmMac(in.key, in.data) = finBytes(expected(NewLRP(session), <<>>))
    BY <2>3, <2>5 DEF calculateSdmMac
  <2> QED
    BY <2>3, <2>6 DEF LrpAsSpecified
<1> QED
  BY <1>1, InputsKept, PTL

-----------------------------------------------------------------------------
(* Decryption.                                                             *)

LEMMA Decrypts ==
  ASSUME NEW k \in Block, NEW v \in Block
  PROVE  d(k, e(k, v)) = v
<1>1. \A x \in Block : e(k, x) = e(k, v) => x = v
  BY LrpAssumption DEF e
<1>2. d(k, e(k, v)) \in Block /\ e(k, d(k, e(k, v))) = e(k, v)
  BY DEF d
<1> QED
  BY <1>1, <1>2

LEMMA Increments ==
  ASSUME NEW c \in Seq(Bit)
  PROVE  Increment(c) \in Seq(Bit) /\ Len(Increment(c)) = Len(c)
<1>1. Len(c) \in Nat /\ \A i \in 1..Len(c) : c[i] \in Bit
  BY ElementOfSeq
<1>2. Increment(c) \in [1..Len(c) -> Bit]
  BY <1>1 DEF Increment, Bit
<1> QED
  BY <1>1, <1>2, Strings

LEMMA IncrCounter ==
  ASSUME NEW c \in Seq(Bit)
  PROVE  /\ incrCounter(c) \in Seq(Bit)
         /\ Len(c) = CounterBits => incrCounter(c) = Increment(c)
<1>1. Len(c) \in Nat /\ CounterBits \in Nat
  BY Sizes DEF CounterBits
<1> HIDE DEF CounterBits
<1>2. CASE Len(c) < CounterBits
  BY <1>1, <1>2 DEF incrCounter
<1>3. CASE ~(Len(c) < CounterBits)
  <2>1. \A i \in 1..CounterBits : c[i] \in Bit
    BY <1>1, <1>3, ElementOfSeq
  <2>2. SubSeq(c, 1, CounterBits) \in Seq(Bit)
    BY <1>1, <2>1, SubSeqProperties
  <2>3. incrCounter(c) = Increment(SubSeq(c, 1, CounterBits))
    BY <1>3 DEF incrCounter
  <2> QED
    BY <2>2, <2>3, Increments, SubSeqFull
<1> QED
  BY <1>2, <1>3

LEMMA EncryptLoop ==
  ASSUME NEW l \in Keyed, NEW r \in Seq(Bit), NEW data \in Seq(Block)
  PROVE  \E f \in [0..Len(data) -> Seq(Bit)] :
           /\ f[0] = r /\ \A n \in 1..Len(data) : f[n] = Increment(f[n - 1])
           /\ Encrypt(l, r, data) = [i \in 1..Len(data) |-> Encrypt(l, r, data)[i]]
           /\ \A i \in 1..Len(data) :
                Encrypt(l, r, data)[i] = e(evalLRP(l, f[i - 1]), data[i])
<1> DEFINE N == Len(data)
           next(n, v) == Increment(v)
           step == [n \in 1..N |-> [v \in Seq(Bit) |-> next(n, v)]]
           Is(f) == f = [n \in 0..N |-> IF n = 0 THEN r ELSE next(n, f[n - 1])]
           at == CHOOSE f : Is(f)
<1>0. N \in Nat /\ \A v \in Seq(Bit) : Increment(v) \in Seq(Bit)
  BY Increments
<1> HIDE DEF N
<1>1. step \in [1..N -> [Seq(Bit) -> Seq(Bit)]]
  <2>1. \A n \in 1..N, v \in Seq(Bit) : next(n, v) \in Seq(Bit)
    BY <1>0
  <2> HIDE DEF next
  <2>2. \A n \in 1..N : [v \in Seq(Bit) |-> next(n, v)] \in [Seq(Bit) -> Seq(Bit)]
    BY <2>1
  <2> QED
    BY <2>2
<1>2. PICK f : Rounds(f, N, Seq(Bit), r, step)
  <2> HIDE DEF step
  <2> QED
    BY <1>0, <1>1, Loop
<1> HIDE DEF next
<1>3. /\ f \in [0..N -> Seq(Bit)] /\ f[0] = r
      /\ \A n \in 1..N : f[n] = next(n, f[n - 1])
  <2>1. \A n \in 1..N : n - 1 \in 0..N
    BY <1>0
  <2> QED
    BY <1>2, <2>1 DEF Rounds
<1>4. Is(f)
  BY <1>0, <1>3
<1>5. Is(at)
  BY <1>4
<1> HIDE DEF at
<1>6. at = f
  <2>1. /\ at = [n \in 0..N |-> at[n]] /\ at[0] = r
        /\ \A n \in 1..N : at[n] = next(n, at[n - 1])
    <3>1. \A n \in 0..N : at[n] = IF n = 0 THEN r ELSE next(n, at[n - 1])
      BY <1>5
    <3>2. at = [n \in 0..N |-> at[n]]
      BY <1>5
    <3>3. 0 \in 0..N /\ \A n \in 1..N : n \in 0..N /\ n # 0
      BY <1>0
    <3> QED
      BY <3>1, <3>2, <3>3
  <2>2. \A n \in 1..N : f[n - 1] = at[n - 1] => at[n] = step[n][f[n - 1]]
    <3>1. \A n \in 1..N : n - 1 \in 0..N
      BY <1>0
    <3> QED
      BY <1>3, <2>1, <3>1
  <2>3. Follows(at, f, N, r, step)
    BY <2>1, <2>2 DEF Follows
  <2> HIDE DEF step
  <2> QED
    BY <1>0, <1>2, <2>3, LoopUnique
<1>7. Encrypt(l, r, data) = [i \in 1..N |-> e(evalLRP(l, at[i - 1]), data[i])]
  BY DEF Encrypt, at, next, N
<1>8. /\ Encrypt(l, r, data) = [i \in 1..N |-> Encrypt(l, r, data)[i]]
      /\ \A i \in 1..N : Encrypt(l, r, data)[i] = e(evalLRP(l, f[i - 1]), data[i])
  BY <1>6, <1>7
<1> QED
  BY <1>3, <1>8 DEF N, next

LEMMA DecryptLoop ==
  ASSUME NEW l \in Keyed, NEW r \in Seq(Bit), NEW data \in Seq(Block)
  PROVE  \E f \in [0..Len(data) -> Seq(Bit)] :
           /\ f[0] = r /\ \A n \in 1..Len(data) : f[n] = incrCounter(f[n - 1])
           /\ Decrypt(l, r, data) = [i \in 1..Len(data) |-> Decrypt(l, r, data)[i]]
           /\ \A i \in 1..Len(data) :
                Decrypt(l, r, data)[i] = d(evalLRP(l, f[i - 1]), data[i])
<1> DEFINE N == Len(data)
           next(n, v) == incrCounter(v)
           step == [n \in 1..N |-> [v \in Seq(Bit) |-> next(n, v)]]
           Is(f) == f = [n \in 0..N |-> IF n = 0 THEN r ELSE next(n, f[n - 1])]
           at == CHOOSE f : Is(f)
<1>0. N \in Nat /\ \A v \in Seq(Bit) : incrCounter(v) \in Seq(Bit)
  BY IncrCounter
<1> HIDE DEF N
<1>1. step \in [1..N -> [Seq(Bit) -> Seq(Bit)]]
  <2>1. \A n \in 1..N, v \in Seq(Bit) : next(n, v) \in Seq(Bit)
    BY <1>0
  <2> HIDE DEF next
  <2>2. \A n \in 1..N : [v \in Seq(Bit) |-> next(n, v)] \in [Seq(Bit) -> Seq(Bit)]
    BY <2>1
  <2> QED
    BY <2>2
<1>2. PICK f : Rounds(f, N, Seq(Bit), r, step)
  <2> HIDE DEF step
  <2> QED
    BY <1>0, <1>1, Loop
<1> HIDE DEF next
<1>3. /\ f \in [0..N -> Seq(Bit)] /\ f[0] = r
      /\ \A n \in 1..N : f[n] = next(n, f[n - 1])
  <2>1. \A n \in 1..N : n - 1 \in 0..N
    BY <1>0
  <2> QED
    BY <1>2, <2>1 DEF Rounds
<1>4. Is(f)
  BY <1>0, <1>3
<1>5. Is(at)
  BY <1>4
<1> HIDE DEF at
<1>6. at = f
  <2>1. /\ at = [n \in 0..N |-> at[n]] /\ at[0] = r
        /\ \A n \in 1..N : at[n] = next(n, at[n - 1])
    <3>1. \A n \in 0..N : at[n] = IF n = 0 THEN r ELSE next(n, at[n - 1])
      BY <1>5
    <3>2. at = [n \in 0..N |-> at[n]]
      BY <1>5
    <3>3. 0 \in 0..N /\ \A n \in 1..N : n \in 0..N /\ n # 0
      BY <1>0
    <3> QED
      BY <3>1, <3>2, <3>3
  <2>2. \A n \in 1..N : f[n - 1] = at[n - 1] => at[n] = step[n][f[n - 1]]
    <3>1. \A n \in 1..N : n - 1 \in 0..N
      BY <1>0
    <3> QED
      BY <1>3, <2>1, <3>1
  <2>3. Follows(at, f, N, r, step)
    BY <2>1, <2>2 DEF Follows
  <2> HIDE DEF step
  <2> QED
    BY <1>0, <1>2, <2>3, LoopUnique
<1>7. Decrypt(l, r, data) = [i \in 1..N |-> d(evalLRP(l, at[i - 1]), data[i])]
  BY DEF Decrypt, at, next, N
<1>8. /\ Decrypt(l, r, data) = [i \in 1..N |-> Decrypt(l, r, data)[i]]
      /\ \A i \in 1..N : Decrypt(l, r, data)[i] = d(evalLRP(l, f[i - 1]), data[i])
  BY <1>6, <1>7
<1> QED
  BY <1>3, <1>8 DEF N, next

\* LRP.Decrypt gives back what a tag encrypted with the same key and counter: a
\* SUN, which is one block, always, and longer data if the counter has the four
\* bytes incrCounter leaves of it.
THEOREM LrpDecryptsAll == Spec => []LrpDecrypts
<1>1. in \in Inputs => LrpDecrypts
  <2> SUFFICES ASSUME in \in Inputs, in.kind = "cipher",
                      Len(in.data) <= 1 \/ Len(in.r) = CounterBits
               PROVE  LrpDecrypts
    BY DEF LrpDecrypts
  <2> DEFINE l == NewLRP(in.key)
             r == in.r
             data == in.data
             sent == Encrypt(l, r, data)
             N == Len(data)
  <2>1. in.key \in Block /\ r \in Seq(Bit) /\ data \in Seq(Block)
    BY InputsAssumption DEF Inputs
  <2>2. l \in Keyed /\ (N <= 1 \/ Len(r) = CounterBits)
    BY <2>1, NewLRPKeyed
  <2>3. N \in Nat /\ \A i \in 1..N : data[i] \in Block
    BY <2>1, ElementOfSeq
  <2> HIDE DEF l, r, data
  <2>4. PICK f \in [0..N -> Seq(Bit)] :
          /\ f[0] = r /\ \A n \in 1..N : f[n] = Increment(f[n - 1])
          /\ sent = [i \in 1..N |-> sent[i]]
          /\ \A i \in 1..N : sent[i] = e(evalLRP(l, f[i - 1]), data[i])
    BY <2>1, <2>2, EncryptLoop
  <2> HIDE DEF sent
  <2>5. sent \in Seq(Block) /\ Len(sent) = N
    <3>1. ASSUME NEW i \in 1..N
          PROVE  sent[i] \in Block
      <4>1. i - 1 \in 0..N /\ f[i - 1] \in Seq(Bit)
        BY <2>3, <2>4
      <4>2. evalLRP(l, f[i - 1]) \in Block
        BY <2>2, <4>1, EvalBlock
      <4> QED
        BY <2>3, <2>4, <4>2, Encrypts
    <3>2. sent \in [1..N -> Block]
      BY <2>4, <3>1
    <3> HIDE DEF N
    <3> QED
      BY <2>3, <3>2
  <2>6. PICK g \in [0..N -> Seq(Bit)] :
          /\ g[0] = r /\ \A n \in 1..N : g[n] = incrCounter(g[n - 1])
          /\ Decrypt(l, r, sent) = [i \in 1..N |-> Decrypt(l, r, sent)[i]]
          /\ \A i \in 1..N : Decrypt(l, r, sent)[i] = d(evalLRP(l, g[i - 1]), sent[i])
    <3>1. \E g \in [0..Len(sent) -> Seq(Bit)] :
          /\ g[0] = r /\ \A n \in 1..Len(sent) : g[n] = incrCounter(g[n - 1])
          /\ Decrypt(l, r, sent) = [i \in 1..Len(sent) |-> Decrypt(l, r, sent)[i]]
          /\ \A i \in 1..Len(sent) :
               Decrypt(l, r, sent)[i] = d(evalLRP(l, g[i - 1]), sent[i])
      BY <2>1, <2>2, <2>5, DecryptLoop
    <3> QED
      BY <2>5, <3>1
  <2>7. ASSUME NEW i \in 1..N
        PROVE  g[i - 1] = f[i - 1]
    <3>1. CASE N <= 1
      <4>1. i - 1 = 0
        BY <2>3, <3>1
      <4> QED
        BY <2>4, <2>6, <4>1
    <3>2. CASE Len(r) = CounterBits
      <4> DEFINE T == {n \in Nat : n <= N => g[n] = f[n] /\ Len(f[n]) = CounterBits}
      <4>1. 0 \in T
        BY <2>4, <2>6, <3>2
      <4>2. ASSUME NEW n \in Nat, n \in T
            PROVE  n + 1 \in T
        <5> SUFFICES ASSUME n + 1 <= N
                     PROVE  g[n + 1] = f[n + 1] /\ Len(f[n + 1]) = CounterBits
          OBVIOUS
        <5>1. n \in 0..N /\ n <= N /\ n + 1 \in 1..N /\ (n + 1) - 1 = n
          BY <2>3
        <5>2. g[n] = f[n] /\ Len(f[n]) = CounterBits /\ f[n] \in Seq(Bit)
          BY <2>4, <4>2, <5>1
        <5>3. incrCounter(f[n]) = Increment(f[n]) /\ Len(Increment(f[n])) = CounterBits
          BY <5>2, IncrCounter, Increments
        <5>4. f[n + 1] = Increment(f[n]) /\ g[n + 1] = incrCounter(g[n])
          BY <2>4, <2>6, <5>1
        <5> QED
          BY <5>2, <5>3, <5>4
      <4> HIDE DEF T
      <4>3. Nat \subseteq T
        BY <4>1, <4>2, Induction
      <4>4. i - 1 \in T /\ i - 1 <= N
        BY <2>3, <4>3
      <4> QED
        BY <4>4 DEF T
    <3> QED
      BY <2>2, <3>1, <3>2
  <2>8. ASSUME NEW i \in 1..N
        PROVE  d(evalLRP(l, g[i - 1]), sent[i]) = data[i]
    <3>1. i - 1 \in 0..N /\ f[i - 1] \in Seq(Bit)
      BY <2>3, <2>4
    <3>2. evalLRP(l, f[i - 1]) \in Block
      BY <2>2, <3>1, EvalBlock
    <3>3. sent[i] = e(evalLRP(l, f[i - 1]), data[i])
      BY <2>4
    <3> QED
      BY <2>3, <2>7, <3>2, <3>3, Decrypts
  <2>9. Decrypt(l, r, sent) = [i \in 1..N |-> data[i]]
    BY <2>6, <2>8
  <2>10. data = [i \in 1..N |-> data[i]]
    BY <2>1, <2>3
  <2> QED
    BY <2>9, <2>10 DEF LrpDecrypts, sent, l, r, data
<1> QED
  BY <1>1, InputsKept, PTL
=============================================================================
