--------------------------- MODULE RecordsProofs ---------------------------
(***************************************************************************)
(* What the operators on records and related records do for lists of any   *)
(* length: sorting is a permutation, ids and parent ids are read back as   *)
(* they were written, and attributes are found under the id they were      *)
(* filed under.                                                            *)
(***************************************************************************)
EXTENDS ResourceScope, BoundedInduction, TLAPS, FiniteSetTheorems, FunctionTheorems

-----------------------------------------------------------------------------
(***************************************************************************)
(* Numbers.                                                                *)
(***************************************************************************)

\* Sums of what is not larger.
LEMMA SumsOrdered ==
  ASSUME NEW x \in Nat, NEW y \in Nat, NEW a \in Nat, NEW b \in Nat, x <= y, a <= b
  PROVE  x + a <= y + b
OBVIOUS

\* A place among l places that begin after w + x, if x + l of t are taken.
LEMMA InsideTotal ==
  ASSUME NEW w \in Nat, NEW x \in Nat, NEW l \in Nat, NEW t \in Nat, x + l <= t, NEW k \in 1..l
  PROVE  w + x + k \in 1..(w + t)
OBVIOUS

\* A difference moved to the other side.
LEMMA MovedOver ==
  ASSUME NEW p \in Nat, NEW w \in Nat, NEW x \in Nat, NEW k \in Nat, p - w = x + k
  PROVE  p = w + x + k
OBVIOUS

-----------------------------------------------------------------------------
(***************************************************************************)
(* Lists.                                                                  *)
(***************************************************************************)

\* What has the domain of a list is as long as it.
LEMMA LengthOf ==
  ASSUME NEW n \in Nat, NEW s, DOMAIN s = 1..n
  PROVE  Len(s) = n
<1> DEFINE T == {s[i] : i \in DOMAIN s}
           t == [i \in 1..n |-> s[i]]
<1>1. t \in [1..n -> T]
  OBVIOUS
<1> QED
  OBVIOUS

\* One list after another.
LEMMA Concat ==
  ASSUME NEW S, NEW s \in Seq(S), NEW t \in Seq(S)
  PROVE  /\ s \o t \in Seq(S)
         /\ Len(s \o t) = Len(s) + Len(t)
         /\ \A k \in 1..Len(s) : (s \o t)[k] = s[k]
         /\ \A k \in 1..Len(t) : (s \o t)[Len(s) + k] = t[k]
<1>1. ASSUME NEW k \in 1..Len(s) PROVE (s \o t)[k] = s[k]
  OBVIOUS
<1>2. ASSUME NEW k \in 1..Len(t) PROVE (s \o t)[Len(s) + k] = t[k]
  OBVIOUS
<1> QED
  BY <1>1, <1>2

-----------------------------------------------------------------------------
(***************************************************************************)
(* Totals.                                                                 *)
(***************************************************************************)

\* The recursive totals, one step unfolded.
LEMMA SubtotalsUnfold ==
  ASSUME NEW values, Len(values) \in Nat
  PROVE  Subtotals(values) = [n \in 0..Len(values) |->
           IF n = 0 THEN 0 ELSE Subtotals(values)[n - 1] + values[n]]
<1> DEFINE Sums(f, n) ==
             f = [i \in 0..n |-> IF i = 0 THEN 0 ELSE f[i - 1] + values[i]]
           G == {n \in 0..Len(values) : \E f : Sums(f, n)}
<1>1. 0 \in G
  <2>1. \A i \in 0..0 : i = 0
    OBVIOUS
  <2>2. \E f : Sums(f, 0)
    <3>1. Sums([i \in 0..0 |-> 0], 0)
      BY <2>1
    <3> QED
      BY <3>1
  <2> HIDE DEF Sums
  <2> QED
    BY <2>2
<1>2. ASSUME NEW n \in 1..Len(values), n - 1 \in G PROVE n \in G
  <2>1. PICK f : Sums(f, n - 1)
    BY <1>2
  <2> DEFINE g == [i \in 0..n |-> IF i = n THEN f[n - 1] + values[n] ELSE f[i]]
  <2>2. \A i \in 0..n : g[i] = IF i = 0 THEN 0 ELSE g[i - 1] + values[i]
    BY <2>1
  <2>3. \E h : Sums(h, n)
    <3>1. Sums(g, n)
      BY <2>2
    <3> QED
      BY <3>1
  <2> HIDE DEF Sums
  <2> QED
    BY <2>3
<1>3. Len(values) \in G
  <2> HIDE DEF G
  <2>1. 0..Len(values) \subseteq G
    BY <1>1, <1>2, Induction
  <2> QED
    BY <2>1
<1> QED
  BY <1>3 DEF Subtotals

\* Totals of numbers are numbers.
LEMMA SubtotalsType ==
  ASSUME NEW n \in Nat, NEW values \in [1..n -> Nat]
  PROVE  /\ Subtotals(values) \in [0..n -> Nat] /\ Subtotals(values)[0] = 0
         /\ \A i \in 1..n : Subtotals(values)[i] = Subtotals(values)[i - 1] + values[i]
<1> DEFINE t == Subtotals(values)
           G == {i \in 0..n : t[i] \in Nat}
<1>1. Len(values) = n
  BY LengthOf
<1>2. t = [i \in 0..n |-> IF i = 0 THEN 0 ELSE t[i - 1] + values[i]]
  BY <1>1, SubtotalsUnfold
<1> HIDE DEF t
<1>3. t[0] = 0 /\ \A i \in 1..n : t[i] = t[i - 1] + values[i]
  BY <1>2
<1>4. 0 \in G /\ \A i \in 1..n : i - 1 \in G => i \in G
  BY <1>3
<1>5. 0..n \subseteq G
  <2> HIDE DEF G
  <2> QED
    BY <1>4, Induction
<1> QED
  BY <1>2, <1>3, <1>5 DEF t

\* They never decrease.
LEMMA SubtotalsGrow ==
  ASSUME NEW n \in Nat, NEW values \in [1..n -> Nat],
         NEW i \in 0..n, NEW j \in 0..n, i <= j
  PROVE  Subtotals(values)[i] <= Subtotals(values)[j]
<1> DEFINE t == Subtotals(values)
           G == {m \in 0..n : i <= m => t[i] <= t[m]}
<1>1. /\ t \in [0..n -> Nat]
      /\ \A m \in 1..n : t[m] = t[m - 1] + values[m]
  BY SubtotalsType
<1> HIDE DEF t
<1>2. 0 \in G
  BY <1>1
<1>3. ASSUME NEW m \in 1..n, m - 1 \in G PROVE m \in G
  <2>1. t[m] \in Nat /\ t[m - 1] \in Nat /\ t[i] \in Nat /\ values[m] \in Nat
    BY <1>1
  <2>2. t[m] = t[m - 1] + values[m]
    BY <1>1
  <2>3. i <= m - 1 \/ i = m \/ i > m
    OBVIOUS
  <2> QED
    BY <1>3, <2>1, <2>2, <2>3, SMTT(30)
<1>4. 0..n \subseteq G
  <2> HIDE DEF G
  <2> QED
    BY <1>2, <1>3, Induction
<1> QED
  BY <1>4 DEF t

\* The larger the values, the larger the totals.
LEMMA SubtotalsMonotone ==
  ASSUME NEW n \in Nat, NEW a \in [1..n -> Nat], NEW b \in [1..n -> Nat],
         \A i \in 1..n : a[i] <= b[i], NEW i \in 0..n
  PROVE  Subtotals(a)[i] <= Subtotals(b)[i]
<1> DEFINE s == Subtotals(a)
           t == Subtotals(b)
           G == {m \in 0..n : s[m] <= t[m]}
<1>1. /\ s \in [0..n -> Nat] /\ s[0] = 0
      /\ \A m \in 1..n : s[m] = s[m - 1] + a[m]
  BY SubtotalsType
<1>2. /\ t \in [0..n -> Nat] /\ t[0] = 0
      /\ \A m \in 1..n : t[m] = t[m - 1] + b[m]
  BY SubtotalsType
<1> HIDE DEF s, t
<1>3. 0 \in G
  <2>1. s[0] = 0 /\ t[0] = 0
    BY <1>1, <1>2
  <2> QED
    BY <2>1
<1>4. ASSUME NEW m \in 1..n, m - 1 \in G PROVE m \in G
  <2>1. s[m] \in Nat /\ s[m - 1] \in Nat /\ t[m] \in Nat /\ t[m - 1] \in Nat
    BY <1>1, <1>2, SMTT(30)
  <2>2. s[m] = s[m - 1] + a[m] /\ t[m] = t[m - 1] + b[m] /\ a[m] \in Nat /\ b[m] \in Nat
    BY <1>1, <1>2
  <2>3. a[m] <= b[m] /\ s[m - 1] <= t[m - 1]
    BY <1>4
  <2>4. s[m - 1] + a[m] <= t[m - 1] + b[m]
    BY ONLY <2>1, <2>2, <2>3, SumsOrdered
  <2>5. s[m] <= t[m]
    BY ONLY <2>2, <2>4
  <2> QED
    BY <2>5
<1>5. 0..n \subseteq G
  <2> HIDE DEF G
  <2> QED
    BY <1>3, <1>4, Induction
<1> QED
  BY <1>5 DEF s, t

-----------------------------------------------------------------------------
(***************************************************************************)
(* Sorting is a permutation, whatever the order.                           *)
(***************************************************************************)

\* A set of numbers up to a bound has a greatest one.
LEMMA MaxOf ==
  ASSUME NEW n \in Nat, NEW S \in SUBSET (0..n), S # {}
  PROVE  Max(S) \in S /\ \A y \in S : Max(S) >= y
<1> DEFINE T == {n - x : x \in S}
<1>1. T \in SUBSET Nat /\ T # {}
  <2>1. PICK y : y \in S
    OBVIOUS
  <2>2. n - y \in T
    BY <2>1
  <2>3. ASSUME NEW x \in S PROVE n - x \in Nat
    <3>1. x \in 0..n
      OBVIOUS
    <3> QED
      BY <3>1
  <2> QED
    BY <2>2, <2>3
<1>2. PICK t \in T : \A y \in T : t <= y
  <2> HIDE DEF T
  <2> QED
    BY <1>1, LeastElement
<1>3. PICK x \in S : t = n - x
  BY <1>2
<1>4. \A y \in S : x >= y
  BY <1>2, <1>3
<1> QED
  BY <1>4 DEF Max

\* Sorting m places is inserting one into the m - 1 before, as sort.Slice does for few
\* rows.
LEMMA SortOrderUnfold ==
  ASSUME NEW before, NEW n \in Nat
  PROVE  \E sorted : /\ SortOrder(before, n) = sorted[n]
                     /\ sorted = [m \in 0..n |->
                          IF m = 0 THEN <<>> ELSE Insert(before, sorted[m - 1], m)]
<1> DEFINE Sorts(f, m) ==
             f = [i \in 0..m |-> IF i = 0 THEN <<>> ELSE Insert(before, f[i - 1], i)]
           G == {m \in 0..n : \E f : Sorts(f, m)}
<1>1. 0 \in G
  <2>1. \A i \in 0..0 : i = 0
    OBVIOUS
  <2>2. \E f : Sorts(f, 0)
    <3>1. Sorts([i \in 0..0 |-> <<>>], 0)
      BY <2>1
    <3> QED
      BY <3>1
  <2> HIDE DEF Sorts
  <2> QED
    BY <2>2
<1>2. ASSUME NEW m \in 1..n, m - 1 \in G PROVE m \in G
  <2>1. PICK f : Sorts(f, m - 1)
    BY <1>2
  <2> DEFINE g == [i \in 0..m |-> IF i = m THEN Insert(before, f[m - 1], m) ELSE f[i]]
  <2>2. \A i \in 0..m : g[i] = IF i = 0 THEN <<>> ELSE Insert(before, g[i - 1], i)
    BY <2>1
  <2>3. \E h : Sorts(h, m)
    <3>1. Sorts(g, m)
      BY <2>2
    <3> QED
      BY <3>1
  <2> HIDE DEF Sorts
  <2> QED
    BY <2>3
<1>3. n \in G
  <2> HIDE DEF G
  <2>1. 0..n \subseteq G
    BY <1>1, <1>2, Induction
  <2> QED
    BY <2>1
<1> QED
  BY <1>3 DEF SortOrder

\* An order of n places has each of them once.
Permutes(order, n) ==
  /\ order \in [1..n -> 1..n]
  /\ \A i, j \in 1..n : order[i] = order[j] => i = j
  /\ \A i \in 1..n : \E k \in 1..n : order[k] = i

\* r is s with e at place p.
Inserted(r, s, p, e) ==
  /\ r \in Seq(Nat) /\ Len(r) = Len(s) + 1
  /\ \A k \in 1..(p - 1) : r[k] = s[k]
  /\ r[p] = e
  /\ \A k \in (p + 1)..(Len(s) + 1) : r[k] = s[k - 1]

\* What an insertion leaves where.
LEMMA InsertAtPlaces ==
  ASSUME NEW s \in Seq(Nat), NEW e \in Nat, NEW p \in 1..(Len(s) + 1)
  PROVE  Inserted(InsertAt(s, p, e), s, p, e)
<1> DEFINE a == SubSeq(s, 1, p - 1)
           b == SubSeq(s, p, Len(s))
           c == a \o <<e>>
<1>1. Len(s) \in Nat
  OBVIOUS
<1>2. a \in Seq(Nat) /\ Len(a) = p - 1 /\ \A k \in 1..(p - 1) : a[k] = s[k]
  BY <1>1, SMTT(30)
<1>3. /\ b \in Seq(Nat) /\ Len(b) = Len(s) - p + 1
      /\ \A k \in 1..(Len(s) - p + 1) : b[k] = s[p - 1 + k]
  BY <1>1
<1>4. InsertAt(s, p, e) = c \o b
  BY DEF InsertAt
<1> HIDE DEF a, b
<1>5. c \in Seq(Nat) /\ Len(c) = p /\ c[p] = e
  <2>1. a \in Seq(Nat)
    BY <1>2
  <2>2. <<e>> \in Seq(Nat) /\ Len(<<e>>) = 1 /\ <<e>>[1] = e
    OBVIOUS
  <2>3. /\ c \in Seq(Nat) /\ Len(c) = Len(a) + Len(<<e>>)
        /\ \A k \in 1..Len(<<e>>) : c[Len(a) + k] = <<e>>[k]
    BY <2>1, <2>2, Concat
  <2> HIDE DEF c
  <2> QED
    BY <1>1, <1>2, <2>2, <2>3
<1>6. \A k \in 1..(p - 1) : c[k] = s[k]
  BY <1>1, <1>2
<1> HIDE DEF c
<1>7. c \in Seq(Nat)
  BY <1>5
<1>8. b \in Seq(Nat)
  BY <1>3
<1> DEFINE d == c \o b
<1>9. /\ d \in Seq(Nat) /\ Len(d) = Len(c) + Len(b)
      /\ \A k \in 1..Len(c) : d[k] = c[k]
      /\ \A k \in 1..Len(b) : d[Len(c) + k] = b[k]
  BY <1>7, <1>8, Concat
<1> HIDE DEF d
<1>10. d \in Seq(Nat) /\ Len(d) = Len(s) + 1
  BY <1>1, <1>3, <1>5, <1>9
<1>11. d[p] = e /\ \A k \in 1..(p - 1) : d[k] = s[k]
  BY <1>1, <1>5, <1>6, <1>9
<1>12. ASSUME NEW k \in (p + 1)..(Len(s) + 1) PROVE d[k] = s[k - 1]
  <2> DEFINE j == k - p
  <2>1. j \in 1..(Len(s) - p + 1) /\ Len(c) + j = k /\ p - 1 + j = k - 1
    BY <1>1, <1>5
  <2> HIDE DEF j
  <2>2. d[Len(c) + j] = b[j] /\ b[j] = s[p - 1 + j]
    BY <1>3, <1>9, <2>1
  <2> QED
    BY <2>1, <2>2
<1>13. InsertAt(s, p, e) = d
  BY <1>4 DEF d
<1>14. Inserted(d, s, p, e)
  BY <1>10, <1>11, <1>12 DEF Inserted
<1> QED
  BY <1>13, <1>14

\* What the sort inserts where: after the last place that is not less.
LEMMA InsertPlaces ==
  ASSUME NEW before, NEW s \in Seq(Nat), NEW e \in Nat
  PROVE  \E place \in 0..Len(s) :
           /\ Insert(before, s, e) \in Seq(Nat) /\ Len(Insert(before, s, e)) = Len(s) + 1
           /\ \A k \in 1..(Len(s) + 1) :
                Insert(before, s, e)[k] = IF k <= place THEN s[k]
                                          ELSE IF k = place + 1 THEN e ELSE s[k - 1]
           /\ place > 0 => <<e, s[place]>> \notin before
           /\ \A k \in (place + 1)..Len(s) : <<e, s[k]>> \in before
<1>1. Len(s) \in Nat
  OBVIOUS
<1>m. PICK m \in Nat : m = Len(s)
  BY <1>1
<1> DEFINE S == {j \in 0..Len(s) : j = 0 \/ <<e, s[j]>> \notin before}
           place == Max(S)
<1>2. S \in SUBSET (0..m) /\ S # {}
  <2>1. 0 \in S
    BY <1>1
  <2> QED
    BY <1>1, <1>m, <2>1
<1>3. place \in S /\ \A y \in S : place >= y
  <2> HIDE DEF S
  <2> QED
    BY <1>2, MaxOf
<1>4. place \in 0..Len(s) /\ (place > 0 => <<e, s[place]>> \notin before)
  BY <1>1, <1>3
<1>5. \A k \in (place + 1)..Len(s) : <<e, s[k]>> \in before
  <2> SUFFICES ASSUME NEW k \in (place + 1)..Len(s), <<e, s[k]>> \notin before PROVE FALSE
    OBVIOUS
  <2>1. k \in S
    BY <1>1, <1>4
  <2>2. place >= k
    BY <1>3, <2>1
  <2> HIDE DEF place
  <2> QED
    BY <1>4, <2>2
<1> HIDE DEF place, S
<1>6. Insert(before, s, e) = InsertAt(s, place + 1, e)
  BY Zenon DEF Insert, place, S
<1>7. PICK p \in 1..(Len(s) + 1) : p = place + 1
  BY <1>1, <1>4
<1>9. Inserted(InsertAt(s, p, e), s, p, e)
  BY InsertAtPlaces
<1> DEFINE r == InsertAt(s, p, e)
<1>10. /\ r \in Seq(Nat) /\ Len(r) = Len(s) + 1
       /\ \A k \in 1..(p - 1) : r[k] = s[k]
       /\ r[p] = e
       /\ \A k \in (p + 1)..(Len(s) + 1) : r[k] = s[k - 1]
  BY <1>9 DEF Inserted
<1>11. Insert(before, s, e) = r
  BY <1>6, <1>7
<1> HIDE DEF r
<1>13. ASSUME NEW k \in 1..(Len(s) + 1)
       PROVE  r[k] = IF k <= place THEN s[k] ELSE IF k = place + 1 THEN e ELSE s[k - 1]
  <2>1. CASE k <= place
    <3>1. k \in 1..(p - 1)
      BY <1>1, <1>4, <1>7, <2>1
    <3> QED
      BY <1>10, <2>1, <3>1
  <2>2. CASE k = place + 1
    <3>1. k = p /\ ~(k <= place)
      BY <1>1, <1>4, <1>7, <2>2
    <3> QED
      BY <1>10, <2>2, <3>1
  <2>3. CASE k > place + 1
    <3>1. k \in (p + 1)..(Len(s) + 1) /\ ~(k <= place) /\ k # place + 1
      BY <1>1, <1>4, <1>7, <2>3
    <3> QED
      BY <1>10, <3>1
  <2> QED
    BY <1>1, <1>4, <2>1, <2>2, <2>3
<1> QED
  BY <1>4, <1>5, <1>10, <1>11, <1>13, ZenonT(30)

\* Inserting a place into an order of those before it is an order again.
LEMMA InsertPermutes ==
  ASSUME NEW before, NEW n \in Nat, NEW m \in 1..n, NEW s, Permutes(s, m - 1)
  PROVE  Permutes(Insert(before, s, m), m)
<1> DEFINE r == Insert(before, s, m)
<1>1. s \in [1..(m - 1) -> Nat] /\ m - 1 \in Nat /\ m \in Nat
  <2>1. s \in [1..(m - 1) -> 1..(m - 1)]
    BY DEF Permutes
  <2> QED
    BY <2>1
<1>s. s \in Seq(Nat) /\ Len(s) = m - 1
  BY <1>1
<1>n. m \in Nat
  BY <1>1
<1>2. PICK place \in 0..(m - 1) :
        /\ r \in Seq(Nat) /\ Len(r) = m - 1 + 1
        /\ \A k \in 1..(m - 1 + 1) :
             r[k] = IF k <= place THEN s[k] ELSE IF k = place + 1 THEN m ELSE s[k - 1]
  <2>1. s \in Seq(Nat)
    BY <1>s
  <2>2. m \in Nat
    BY <1>1
  <2>3. \E place \in 0..Len(s) :
          /\ r \in Seq(Nat) /\ Len(r) = Len(s) + 1
          /\ \A k \in 1..(Len(s) + 1) :
               r[k] = IF k <= place THEN s[k] ELSE IF k = place + 1 THEN m ELSE s[k - 1]
          /\ place > 0 => <<m, s[place]>> \notin before
          /\ \A k \in (place + 1)..Len(s) : <<m, s[k]>> \in before
    BY <2>1, <2>2, InsertPlaces
  <2> HIDE DEF r
  <2> QED
    BY <1>s, <2>3, ZenonT(30)
<1> HIDE DEF r
<1>3. m - 1 + 1 = m
  OBVIOUS
<1>4. ASSUME NEW k \in 1..m PROVE r[k] \in 1..m
  <2>1. \A i \in 1..(m - 1) : s[i] \in 1..(m - 1)
    BY DEF Permutes
  <2>2. r[k] = IF k <= place THEN s[k] ELSE IF k = place + 1 THEN m ELSE s[k - 1]
    BY <1>2, <1>3
  <2>3. CASE k <= place
    BY <2>1, <2>2, <2>3
  <2>4. CASE k = place + 1
    BY <2>2, <2>4
  <2>5. CASE k > place + 1
    <3>1. k - 1 \in 1..(m - 1) /\ r[k] = s[k - 1]
      BY <2>2, <2>5
    <3> QED
      BY <2>1, <3>1
  <2> QED
    BY <2>3, <2>4, <2>5
<1>5. r \in [1..m -> 1..m]
  BY <1>2, <1>3, <1>4
<1>6. ASSUME NEW i \in 1..m, NEW j \in 1..m, r[i] = r[j] PROVE i = j
  <2> DEFINE Old(k) == IF k <= place THEN k ELSE k - 1
  <2>1. \A k \in 1..m : k # place + 1 => Old(k) \in 1..(m - 1) /\ r[k] = s[Old(k)]
    BY <1>2, <1>3
  <2>2. \A k \in 1..m : k # place + 1 => r[k] # m
    <3>1. \A k \in 1..(m - 1) : s[k] \in 1..(m - 1)
      BY DEF Permutes
    <3> HIDE DEF Old
    <3> QED
      BY <2>1, <3>1
  <2>3. r[place + 1] = m
    BY <1>2, <1>3
  <2>4. CASE i = place + 1 \/ j = place + 1
    BY <1>6, <2>2, <2>3, <2>4
  <2>5. CASE i # place + 1 /\ j # place + 1
    <3>1. s[Old(i)] = s[Old(j)] /\ Old(i) \in 1..(m - 1) /\ Old(j) \in 1..(m - 1)
      BY <1>6, <2>1, <2>5
    <3>2. Old(i) = Old(j)
      BY <3>1 DEF Permutes
    <3> QED
      BY <2>5, <3>2
  <2> QED
    BY <2>4, <2>5
<1>7. ASSUME NEW i \in 1..m PROVE \E k \in 1..m : r[k] = i
  <2>1. CASE i = m
    <3>1. place + 1 \in 1..m /\ ~(place + 1 <= place)
      OBVIOUS
    <3>2. r[place + 1] = m
      BY <1>2, <1>3, <3>1
    <3> QED
      BY <2>1, <3>1, <3>2
  <2>2. CASE i # m
    <3>1. i \in 1..(m - 1)
      BY <2>2
    <3>2. PICK k \in 1..(m - 1) : s[k] = i
      BY <3>1 DEF Permutes
    <3>3. CASE k <= place
      <4>1. k \in 1..m /\ r[k] = s[k]
        BY <1>2, <1>3, <3>3
      <4> QED
        BY <3>2, <4>1
    <3>4. CASE k > place
      <4>1. k + 1 \in 1..m /\ r[k + 1] = s[k]
        BY <1>2, <1>3, <3>4
      <4> QED
        BY <3>2, <4>1
    <3> QED
      BY <3>3, <3>4
  <2> QED
    BY <2>1, <2>2
<1> QED
  BY <1>5, <1>6, <1>7 DEF Permutes, r

\* Whatever the comparison says, sorting loses no row and repeats none.
LEMMA SortOrderPermutes ==
  ASSUME NEW before, NEW n \in Nat
  PROVE  Permutes(SortOrder(before, n), n)
<1>1. PICK sorted :
        /\ SortOrder(before, n) = sorted[n]
        /\ sorted = [m \in 0..n |-> IF m = 0 THEN <<>> ELSE Insert(before, sorted[m - 1], m)]
  BY SortOrderUnfold, ZenonT(30)
<1> DEFINE G == {m \in 0..n : Permutes(sorted[m], m)}
<1>2. sorted[0] = <<>> /\ \A m \in 1..n : sorted[m] = Insert(before, sorted[m - 1], m)
  BY <1>1
<1>3. Permutes(<<>>, 0)
  BY DEF Permutes
<1>4. 0 \in G
  BY <1>2, <1>3
<1>5. ASSUME NEW m \in 1..n, m - 1 \in G PROVE m \in G
  <2>1. Permutes(sorted[m - 1], m - 1)
    BY <1>5
  <2>2. Permutes(Insert(before, sorted[m - 1], m), m)
    BY <2>1, InsertPermutes
  <2>3. m \in 0..n /\ sorted[m] = Insert(before, sorted[m - 1], m)
    BY <1>2
  <2> QED
    BY <2>2, <2>3
<1>6. n \in G
  <2> HIDE DEF G
  <2>1. 0..n \subseteq G
    BY <1>4, <1>5, Induction
  <2> QED
    BY <2>1
<1> QED
  BY <1>1, <1>6


\* Lists of anything.
List(s) == Len(s) \in Nat /\ s = [i \in 1..Len(s) |-> s[i]]

\* Sequences of anything are lists.
LEMMA ListFrom ==
  ASSUME NEW s, s \in Seq(Range(s))
  PROVE  List(s)
BY DEF List

\* Functions on an interval from 1 are lists.
LEMMA ListIs ==
  ASSUME NEW n \in Nat, NEW s, s = [i \in 1..n |-> s[i]]
  PROVE  List(s) /\ Len(s) = n /\ DOMAIN s = 1..n
<1>1. DOMAIN s = 1..n
  OBVIOUS
<1>2. Len(s) = n
  BY <1>1, LengthOf
<1> QED
  BY <1>1, <1>2 DEF List

\* The places of a list.
LEMMA ListDomain ==
  ASSUME NEW s, List(s)
  PROVE  DOMAIN s = 1..Len(s)
BY DEF List

\* A list of elements of a set is a sequence over it.
LEMMA ListElements ==
  ASSUME NEW s, List(s), NEW S, \A i \in 1..Len(s) : s[i] \in S
  PROVE  s \in Seq(S)
<1>1. s \in [1..Len(s) -> S]
  BY DEF List
<1>2. PICK n \in Nat : n = Len(s)
  BY DEF List
<1>3. s \in [1..n -> S]
  BY <1>1, <1>2
<1> QED
  BY <1>3

\* A list is a sequence over its elements.
LEMMA ListRange ==
  ASSUME NEW s, List(s)
  PROVE  /\ s \in Seq(Range(s))
         /\ \A x : x \in Range(s) <=> \E i \in 1..Len(s) : x = s[i]
<1>1. DOMAIN s = 1..Len(s)
  BY ListDomain
<1>2. \A i \in 1..Len(s) : s[i] \in Range(s)
  BY <1>1 DEF Range
<1>3. s \in Seq(Range(s))
  <2> DEFINE S == Range(s)
  <2>1. \A i \in 1..Len(s) : s[i] \in S
    BY <1>2
  <2> HIDE DEF S
  <2>2. s \in Seq(S)
    BY <2>1, ListElements
  <2> QED
    BY <2>2 DEF S
<1> QED
  BY <1>1, <1>3 DEF Range

\* Only the empty list has no element.
LEMMA EmptyList ==
  ASSUME NEW s, List(s)
  PROVE  s = <<>> <=> Len(s) = 0
<1>1. s = <<>> => Len(s) = 0
  OBVIOUS
<1>2. ASSUME Len(s) = 0 PROVE s = <<>>
  <2>1. s = [i \in 1..0 |-> s[i]]
    BY <1>2 DEF List
  <2>2. s = [i \in {} |-> s[i]]
    BY <2>1
  <2> QED
    BY <2>2
<1> QED
  BY <1>1, <1>2

\* The empty list.
LEMMA EmptyIsList == List(<<>>) /\ Len(<<>>) = 0
<1>1. <<>> \in Seq(Range(<<>>))
  OBVIOUS
<1> QED
  BY <1>1, ListFrom

\* One list after another is a list.
LEMMA Joining ==
  ASSUME NEW s, NEW t, List(s), List(t)
  PROVE  /\ List(s \o t) /\ Len(s \o t) = Len(s) + Len(t)
         /\ \A k \in 1..Len(s) : (s \o t)[k] = s[k]
         /\ \A k \in 1..Len(t) : (s \o t)[Len(s) + k] = t[k]
<1> DEFINE S == Range(s) \cup Range(t)
           r == s \o t
<1>1. s \in Seq(S)
  <2>1. \A i \in 1..Len(s) : s[i] \in S
    BY ListRange
  <2> HIDE DEF S
  <2> QED
    BY <2>1, ListElements
<1>2. t \in Seq(S)
  <2>1. \A i \in 1..Len(t) : t[i] \in S
    BY ListRange
  <2> HIDE DEF S
  <2> QED
    BY <2>1, ListElements
<1> HIDE DEF S
<1>3. /\ r \in Seq(S) /\ Len(r) = Len(s) + Len(t)
      /\ \A k \in 1..Len(s) : r[k] = s[k]
      /\ \A k \in 1..Len(t) : r[Len(s) + k] = t[k]
  BY <1>1, <1>2, Concat
<1> HIDE DEF r
<1>4. List(r)
  BY <1>3 DEF List
<1> QED
  BY <1>3, <1>4 DEF r

-----------------------------------------------------------------------------
(***************************************************************************)
(* Accumulators.                                                           *)
(***************************************************************************)

\* Where the values that make up a total are.
LEMMA PlaceInTotal ==
  ASSUME NEW n \in Nat, NEW values \in [1..n -> Nat],
         NEW p \in Nat, p > 0, p <= Subtotals(values)[n]
  PROVE  \E i \in 1..n : \E k \in 1..values[i] : p = Subtotals(values)[i - 1] + k
<1> DEFINE t == Subtotals(values)
           Found(m) == \E i \in 1..m : \E k \in 1..values[i] : p = t[i - 1] + k
           G == {m \in 0..n : p <= t[m] => Found(m)}
<1>1. /\ t \in [0..n -> Nat] /\ t[0] = 0
      /\ \A m \in 1..n : t[m] = t[m - 1] + values[m]
  BY SubtotalsType
<1> HIDE DEF t
<1>2. 0 \in G
  BY <1>1
<1>3. ASSUME NEW m \in 1..n, m - 1 \in G PROVE m \in G
  <2>1. t[m] = t[m - 1] + values[m] /\ t[m - 1] \in Nat /\ values[m] \in Nat
    BY <1>1
  <2>2. CASE p <= t[m - 1]
    <3>1. Found(m - 1)
      BY <1>3, <2>2
    <3>2. Found(m)
      BY <3>1
    <3> QED
      BY <3>2
  <2>3. CASE p > t[m - 1] /\ p <= t[m]
    <3>1. p - t[m - 1] \in 1..values[m] /\ p = t[m - 1] + (p - t[m - 1])
      BY <2>1, <2>3, SMTT(30)
    <3>2. Found(m)
      BY <3>1
    <3> QED
      BY <3>2
  <2>4. CASE p > t[m]
    BY <2>1, <2>4
  <2> QED
    BY <2>1, <2>2, <2>3, <2>4
<1>4. 0..n \subseteq G
  <2> HIDE DEF G
  <2> QED
    BY <1>2, <1>3, Induction
<1>5. Found(n)
  BY <1>4 DEF t
<1> QED
  BY <1>5 DEF t

\* Accumulators, and what entities add to them.
Accu(a) == a = [rows |-> a.rows, groups |-> a.groups] /\ List(a.rows) /\ a.groups \in Nat

\* What a sequence of appends adds to an accumulator.
Adds(added) == List(added) /\ \A n \in 1..Len(added) : Accu(added[n])

Lengths(added) == [n \in 1..Len(added) |-> Len(added[n].rows)]

GroupCounts(added) == [n \in 1..Len(added) |-> added[n].groups]

\* A new accumulator holds nothing.
LEMMA NewIsAccu == Accu(NewAccumulator) /\ NewAccumulator.rows = <<>> /\ NewAccumulator.groups = 0
BY EmptyIsList DEF Accu, NewAccumulator

\* Filling an accumulator adds one append after another.
LEMMA FilledUnfold ==
  ASSUME NEW a, NEW added, Len(added) \in Nat
  PROVE  \E filled : /\ Filled(a, added) = filled[Len(added)]
                     /\ filled[0] = a
                     /\ \A n \in 1..Len(added) : filled[n] = Joined(filled[n - 1], added[n])
<1> DEFINE Fills(f, n) ==
             f = [i \in 0..n |-> IF i = 0 THEN a ELSE Joined(f[i - 1], added[i])]
           G == {n \in 0..Len(added) : \E f : Fills(f, n)}
<1>1. 0 \in G
  <2>1. \A i \in 0..0 : i = 0
    OBVIOUS
  <2>2. \E f : Fills(f, 0)
    <3>1. Fills([i \in 0..0 |-> a], 0)
      BY <2>1
    <3> QED
      BY <3>1
  <2> HIDE DEF Fills
  <2> QED
    BY <2>2
<1>2. ASSUME NEW n \in 1..Len(added), n - 1 \in G PROVE n \in G
  <2>1. PICK f : Fills(f, n - 1)
    BY <1>2
  <2> DEFINE g == [i \in 0..n |-> IF i = n THEN Joined(f[n - 1], added[n]) ELSE f[i]]
  <2>2. \A i \in 0..n : g[i] = IF i = 0 THEN a ELSE Joined(g[i - 1], added[i])
    BY <2>1
  <2>3. \E h : Fills(h, n)
    <3>1. Fills(g, n)
      BY <2>2
    <3> QED
      BY <3>1
  <2> HIDE DEF Fills
  <2> QED
    BY <2>3
<1>3. Len(added) \in G
  <2> HIDE DEF G
  <2>1. 0..Len(added) \subseteq G
    BY <1>1, <1>2, Induction
  <2> QED
    BY <2>1
<1>4. PICK filled : filled = CHOOSE f : Fills(f, Len(added))
  OBVIOUS
<1>5. Fills(filled, Len(added))
  <2>1. \E f : Fills(f, Len(added))
    BY <1>3
  <2> HIDE DEF Fills
  <2> QED
    BY <1>4, <2>1
<1>6. Filled(a, added) = filled[Len(added)]
  BY <1>4 DEF Filled
<1> QED
  BY <1>5, <1>6

\* new has the rows and groups of a, and then those of b.
IsJoined(new, a, b) ==
  /\ Accu(new) /\ new.groups = a.groups + b.groups
  /\ Len(new.rows) = Len(a.rows) + Len(b.rows)
  /\ \A k \in 1..Len(a.rows) : new.rows[k] = a.rows[k]
  /\ \A k \in 1..Len(b.rows) : new.rows[Len(a.rows) + k] = b.rows[k]

\* One more.
LEMMA JoinedIs ==
  ASSUME NEW a, NEW b, Accu(a), Accu(b)
  PROVE  IsJoined(Joined(a, b), a, b)
<1> DEFINE s == a.rows
           t == b.rows
           r == s \o t
<1>1. List(s) /\ List(t) /\ a.groups \in Nat /\ b.groups \in Nat
  BY DEF Accu
<1>2. Joined(a, b) = [rows |-> r, groups |-> a.groups + b.groups]
  BY DEF Joined
<1> HIDE DEF s, t
<1>3. /\ List(r) /\ Len(r) = Len(s) + Len(t)
      /\ \A k \in 1..Len(s) : r[k] = s[k]
      /\ \A k \in 1..Len(t) : r[Len(s) + k] = t[k]
  BY <1>1, Joining
<1> HIDE DEF r
<1>4. Joined(a, b).rows = r /\ Joined(a, b).groups = a.groups + b.groups
  BY <1>2
<1>5. Accu(Joined(a, b))
  BY <1>1, <1>2, <1>3 DEF Accu
<1> QED
  BY <1>3, <1>4, <1>5 DEF s, t, IsJoined

\* The lengths and groups of what is added are numbers.
LEMMA AddsTypes ==
  ASSUME NEW added, Adds(added)
  PROVE  /\ Len(added) \in Nat
         /\ Lengths(added) \in [1..Len(added) -> Nat]
         /\ GroupCounts(added) \in [1..Len(added) -> Nat]
<1>1. Len(added) \in Nat
  BY DEF Adds, List
<1>2. \A n \in 1..Len(added) : Len(added[n].rows) \in Nat /\ added[n].groups \in Nat
  BY DEF Adds, Accu, List
<1> QED
  BY <1>1, <1>2 DEF Lengths, GroupCounts

\* What all of them leave, and where.
LEMMA FilledIs ==
  ASSUME NEW a, NEW added, Accu(a), Adds(added)
  PROVE  /\ Accu(Filled(a, added))
         /\ Filled(a, added).groups = a.groups + Subtotals(GroupCounts(added))[Len(added)]
         /\ Len(Filled(a, added).rows)
              = Len(a.rows) + Subtotals(Lengths(added))[Len(added)]
         /\ \A k \in 1..Len(a.rows) : Filled(a, added).rows[k] = a.rows[k]
         /\ \A i \in 1..Len(added) : \A k \in 1..Len(added[i].rows) :
              Filled(a, added).rows[Len(a.rows) + Subtotals(Lengths(added))[i - 1] + k]
                = added[i].rows[k]
<1> DEFINE n == Len(added)
           tl == Subtotals(Lengths(added))
           tg == Subtotals(GroupCounts(added))
<1>1. n \in Nat
  BY AddsTypes
<1>2. /\ tl \in [0..n -> Nat] /\ tl[0] = 0
      /\ \A i \in 1..n : tl[i] = tl[i - 1] + Len(added[i].rows)
  <2> DEFINE v == Lengths(added)
  <2>1. v \in [1..n -> Nat]
    BY AddsTypes
  <2>2. \A i \in 1..n : v[i] = Len(added[i].rows)
    BY DEF Lengths
  <2> HIDE DEF v, n
  <2>3. /\ Subtotals(v) \in [0..n -> Nat] /\ Subtotals(v)[0] = 0
        /\ \A i \in 1..n : Subtotals(v)[i] = Subtotals(v)[i - 1] + v[i]
    BY <1>1, <2>1, SubtotalsType
  <2>4. ASSUME NEW i \in 1..n
        PROVE  Subtotals(v)[i] = Subtotals(v)[i - 1] + Len(added[i].rows)
    BY <2>2, <2>3
  <2> QED
    BY <2>3, <2>4 DEF v
<1>3. /\ tg \in [0..n -> Nat] /\ tg[0] = 0
      /\ \A i \in 1..n : tg[i] = tg[i - 1] + added[i].groups
  <2> DEFINE v == GroupCounts(added)
  <2>1. v \in [1..n -> Nat]
    BY AddsTypes
  <2>2. \A i \in 1..n : v[i] = added[i].groups
    BY DEF GroupCounts
  <2> HIDE DEF v, n
  <2>3. /\ Subtotals(v) \in [0..n -> Nat] /\ Subtotals(v)[0] = 0
        /\ \A i \in 1..n : Subtotals(v)[i] = Subtotals(v)[i - 1] + v[i]
    BY <1>1, <2>1, SubtotalsType
  <2>4. ASSUME NEW i \in 1..n
        PROVE  Subtotals(v)[i] = Subtotals(v)[i - 1] + added[i].groups
    BY <2>2, <2>3
  <2> QED
    BY <2>3, <2>4 DEF v
<1>4. PICK filled : /\ Filled(a, added) = filled[n]
                    /\ filled[0] = a
                    /\ \A i \in 1..n : filled[i] = Joined(filled[i - 1], added[i])
  BY ONLY <1>1, FilledUnfold
<1>5. \A i \in 1..n : Accu(added[i])
  BY DEF Adds
<1>6. Len(a.rows) \in Nat /\ a.groups \in Nat
  BY DEF Accu, List
<1>7. PICK w \in Nat : w = Len(a.rows)
  BY <1>6
<1> HIDE DEF n, tl, tg
<1> DEFINE Sized(m) == /\ Accu(filled[m])
                       /\ filled[m].groups = a.groups + tg[m]
                       /\ Len(filled[m].rows) = w + tl[m]
           Kept(m) == \A k \in 1..w : filled[m].rows[k] = a.rows[k]
           Laid(m) == \A i \in 1..m : \A k \in 1..Len(added[i].rows) :
                        filled[m].rows[w + tl[i - 1] + k] = added[i].rows[k]
           G == {m \in 0..n : Sized(m) /\ Kept(m) /\ Laid(m)}
<1>8. 0 \in G
  BY <1>1, <1>2, <1>3, <1>4, <1>6, <1>7
<1>9. ASSUME NEW m \in 1..n, m - 1 \in G PROVE m \in G
  <2> DEFINE old == filled[m - 1]
             b == added[m]
             new == filled[m]
  <2>1. Sized(m - 1) /\ Kept(m - 1) /\ Laid(m - 1)
    BY <1>9
  <2>2. new = Joined(old, b) /\ Accu(old) /\ Accu(b)
    BY <1>4, <1>5, <2>1
  <2>3. /\ tl[m] = tl[m - 1] + Len(b.rows) /\ tg[m] = tg[m - 1] + b.groups
        /\ tl[m - 1] \in Nat /\ tg[m - 1] \in Nat
    BY <1>1, <1>2, <1>3
  <2>4. Len(b.rows) \in Nat /\ b.groups \in Nat
    BY <2>2 DEF Accu, List
  <2>5. old.groups = a.groups + tg[m - 1] /\ Len(old.rows) = w + tl[m - 1]
    BY <2>1
  <2>6. \A k \in 1..w : old.rows[k] = a.rows[k]
    BY <2>1
  <2>7. \A i \in 1..(m - 1) : \A k \in 1..Len(added[i].rows) :
          old.rows[w + tl[i - 1] + k] = added[i].rows[k]
    BY <2>1
  <2> HIDE DEF old, b, new, Sized, Kept, Laid
  <2>8. /\ Accu(new) /\ new.groups = old.groups + b.groups
        /\ Len(new.rows) = Len(old.rows) + Len(b.rows)
        /\ \A k \in 1..Len(old.rows) : new.rows[k] = old.rows[k]
        /\ \A k \in 1..Len(b.rows) : new.rows[Len(old.rows) + k] = b.rows[k]
    <3>1. IsJoined(new, old, b)
      BY <2>2, JoinedIs
    <3> QED
      BY <3>1 DEF IsJoined
  <2>9. Sized(m)
    <3>1. new.groups = a.groups + tg[m]
      BY <1>6, <2>3, <2>4, <2>5, <2>8, SMTT(30)
    <3>2. Len(new.rows) = w + tl[m]
      BY <2>3, <2>4, <2>5, <2>8
    <3> QED
      BY <2>8, <3>1, <3>2 DEF Sized, new
  <2>10. Kept(m)
    <3>1. ASSUME NEW k \in 1..w PROVE new.rows[k] = a.rows[k]
      <4>1. k \in 1..Len(old.rows)
        BY <2>3, <2>5
      <4> QED
        BY <2>6, <2>8, <4>1
    <3> QED
      BY <3>1 DEF Kept, new
  <2>11. Laid(m)
    <3>1. ASSUME NEW i \in 1..m, NEW k \in 1..Len(added[i].rows)
          PROVE  new.rows[w + tl[i - 1] + k] = added[i].rows[k]
      <4>1. CASE i = m
        <5>1. w + tl[i - 1] + k = Len(old.rows) + k /\ k \in 1..Len(b.rows)
          BY <2>3, <2>5, <4>1 DEF b
        <5> QED
          BY <2>8, <4>1, <5>1 DEF b
      <4>2. CASE i < m
        <5>1. i \in 1..(m - 1) /\ i \in 1..n
          BY <1>1, <4>2
        <5>2. tl[i] = tl[i - 1] + Len(added[i].rows) /\ tl[i - 1] \in Nat /\ tl[i] \in Nat
          BY <1>1, <1>2, <5>1
        <5>3. tl[i] <= tl[m - 1]
          <6> DEFINE v == Lengths(added)
          <6>1. v \in [1..n -> Nat]
            BY AddsTypes DEF n
          <6>2. i \in 0..n /\ m - 1 \in 0..n /\ i <= m - 1
            BY <1>1, <5>1
          <6> HIDE DEF v
          <6>3. Subtotals(v)[i] <= Subtotals(v)[m - 1]
            BY <1>1, <6>1, <6>2, SubtotalsGrow
          <6> QED
            BY <6>3 DEF v, tl
        <5>4. Len(added[i].rows) \in Nat
          BY <1>5, <5>1 DEF Accu, List
        <5>5. w + tl[i - 1] + k \in 1..Len(old.rows)
          <6>1. tl[i - 1] + Len(added[i].rows) <= tl[m - 1] /\ tl[i - 1] \in Nat
            BY ONLY <5>2, <5>3
          <6>2. tl[m - 1] \in Nat /\ w \in Nat /\ k \in 1..Len(added[i].rows)
            BY <2>3
          <6>3. w + tl[i - 1] + k \in 1..(w + tl[m - 1])
            BY ONLY <5>4, <6>1, <6>2, InsideTotal
          <6> QED
            BY ONLY <2>5, <6>3
        <5>6. old.rows[w + tl[i - 1] + k] = added[i].rows[k]
          BY <2>7, <5>1
        <5> QED
          BY <2>8, <5>5, <5>6
      <4> QED
        BY <4>1, <4>2
    <3> QED
      BY <3>1 DEF Laid, new
  <2> QED
    BY <2>9, <2>10, <2>11
<1>10. n \in G
  <2> HIDE DEF G
  <2>1. 0..n \subseteq G
    BY <1>1, <1>8, <1>9, Induction
  <2> QED
    BY <1>1, <2>1
<1>11. Sized(n) /\ Kept(n) /\ Laid(n)
  BY <1>10
<1> QED
  BY <1>4, <1>7, <1>11 DEF n, tl, tg

\* The rows are those there were and those that were added.
LEMMA FilledRange ==
  ASSUME NEW a, NEW added, Accu(a), Adds(added), NEW row
  PROVE  row \in Range(Filled(a, added).rows)
           <=> \/ row \in Range(a.rows)
               \/ \E i \in 1..Len(added) : row \in Range(added[i].rows)
<1> DEFINE F == Filled(a, added)
           tl == Subtotals(Lengths(added))
           n == Len(added)
<1>1. /\ Accu(F)
      /\ Len(F.rows) = Len(a.rows) + tl[n]
      /\ \A k \in 1..Len(a.rows) : F.rows[k] = a.rows[k]
      /\ \A i \in 1..n : \A k \in 1..Len(added[i].rows) :
           F.rows[Len(a.rows) + tl[i - 1] + k] = added[i].rows[k]
  BY FilledIs
<1>2. /\ n \in Nat
      /\ tl \in [0..n -> Nat] /\ tl[0] = 0
      /\ \A i \in 1..n : tl[i] = tl[i - 1] + Len(added[i].rows) /\ tl[i] <= tl[n]
      /\ \A p \in 1..tl[n] : \E i \in 1..n : \E k \in 1..Len(added[i].rows) : p = tl[i - 1] + k
  <2> DEFINE v == Lengths(added)
  <2>1. v \in [1..n -> Nat]
    BY AddsTypes
  <2>2. \A i \in 1..n : v[i] = Len(added[i].rows)
    BY DEF Lengths
  <2>0. n \in Nat
    BY AddsTypes
  <2> HIDE DEF v, n
  <2>3. /\ Subtotals(v) \in [0..n -> Nat] /\ Subtotals(v)[0] = 0
        /\ \A i \in 1..n : Subtotals(v)[i] = Subtotals(v)[i - 1] + v[i]
    BY <2>0, <2>1, SubtotalsType
  <2>4. ASSUME NEW i \in 1..n PROVE Subtotals(v)[i] <= Subtotals(v)[n]
    <3>1. i \in 0..n /\ n \in 0..n /\ i <= n
      BY <2>0
    <3> QED
      BY <2>0, <2>1, <3>1, SubtotalsGrow
  <2>5. ASSUME NEW p \in 1..Subtotals(v)[n]
        PROVE  \E i \in 1..n : \E k \in 1..Len(added[i].rows) : p = Subtotals(v)[i - 1] + k
    <3>1. p \in Nat /\ p > 0 /\ p <= Subtotals(v)[n]
      BY <2>0, <2>3
    <3>2. \E i \in 1..n : \E k \in 1..v[i] : p = Subtotals(v)[i - 1] + k
      BY <2>0, <2>1, <3>1, PlaceInTotal
    <3> QED
      BY <2>2, <3>2
  <2> QED
    BY <2>0, <2>2, <2>3, <2>4, <2>5 DEF v
<1>3. List(a.rows) /\ \A i \in 1..n : List(added[i].rows)
  BY DEF Accu, Adds
<1>4. List(F.rows)
  BY <1>1 DEF Accu
<1>n. n \in Nat
  BY <1>2
<1> HIDE DEF F, tl, n
<1>w. Len(a.rows) \in Nat /\ tl[n] \in Nat
  BY <1>n, <1>2, <1>3 DEF List
<1>i. ASSUME NEW i \in 1..n
      PROVE  tl[i - 1] \in Nat /\ tl[i] = tl[i - 1] + Len(added[i].rows) /\ tl[i] <= tl[n]
  <2>1. i - 1 \in 0..n
    BY <1>n
  <2> QED
    BY <1>2, <2>1
<1>p. ASSUME NEW p \in Nat, p - Len(a.rows) \in 1..tl[n]
      PROVE  \E i \in 1..n : \E k \in 1..Len(added[i].rows) : p = Len(a.rows) + tl[i - 1] + k
  <2>1. \A q \in 1..tl[n] : \E i \in 1..n : \E k \in 1..Len(added[i].rows) : q = tl[i - 1] + k
    BY <1>2
  <2>2. PICK i \in 1..n : \E k \in 1..Len(added[i].rows) : p - Len(a.rows) = tl[i - 1] + k
    BY ONLY <1>p, <2>1
  <2>3. PICK k \in 1..Len(added[i].rows) : p - Len(a.rows) = tl[i - 1] + k
    BY ONLY <2>2
  <2>4. PICK w \in Nat : w = Len(a.rows)
    BY <1>w
  <2>5. PICK x \in Nat : x = tl[i - 1]
    BY <1>i
  <2>6. k \in Nat
    OBVIOUS
  <2>7. p - w = x + k
    BY ONLY <2>3, <2>4, <2>5
  <2>8. p = w + x + k
    BY ONLY <2>6, <2>7, MovedOver
  <2> QED
    BY ONLY <2>4, <2>5, <2>8
<1>5. ASSUME row \in Range(F.rows)
      PROVE  row \in Range(a.rows) \/ \E i \in 1..n : row \in Range(added[i].rows)
  <2>1. PICK p \in 1..Len(F.rows) : row = F.rows[p]
    BY <1>4, <1>5, ListRange
  <2>2. Len(a.rows) \in Nat /\ tl[n] \in Nat
    BY <1>2, <1>3 DEF List
  <2>3. CASE p <= Len(a.rows)
    <3>1. row = a.rows[p] /\ p \in 1..Len(a.rows)
      BY <1>1, <2>1, <2>2, <2>3
    <3> QED
      BY <1>3, <3>1, ListRange
  <2>4. CASE p > Len(a.rows)
    <3>1. p \in Nat /\ p - Len(a.rows) \in 1..tl[n]
      BY <1>1, <2>1, <2>2, <2>4
    <3>2. PICK i \in 1..n : \E k \in 1..Len(added[i].rows) : p = Len(a.rows) + tl[i - 1] + k
      BY <1>p, <3>1
    <3>3. PICK k \in 1..Len(added[i].rows) : p = Len(a.rows) + tl[i - 1] + k
      BY <3>2
    <3>6. row = added[i].rows[k]
      BY <1>1, <2>1, <3>3
    <3>7. row \in Range(added[i].rows)
      BY <1>3, <3>6, ListRange
    <3> QED
      BY <3>7
  <2> QED
    BY <2>1, <2>2, <2>3, <2>4
<1>6. ASSUME row \in Range(a.rows) PROVE row \in Range(F.rows)
  <2>1. PICK k \in 1..Len(a.rows) : row = a.rows[k]
    BY <1>3, <1>6, ListRange
  <2>2. k \in 1..Len(F.rows) /\ row = F.rows[k]
    BY <1>1, <1>2, <1>3, <2>1 DEF List
  <2> QED
    BY <1>4, <2>2, ListRange
<1>7. ASSUME NEW i \in 1..n, row \in Range(added[i].rows) PROVE row \in Range(F.rows)
  <2>1. PICK k \in 1..Len(added[i].rows) : row = added[i].rows[k]
    BY <1>3, <1>7, ListRange
  <2>2. row = F.rows[Len(a.rows) + tl[i - 1] + k]
    BY <1>1, <2>1
  <2>3. Len(added[i].rows) \in Nat /\ k \in Nat /\ k >= 1 /\ k <= Len(added[i].rows)
    BY <1>3 DEF List
  <2>4. Len(a.rows) + tl[i - 1] + k \in 1..Len(F.rows)
    <3>1. tl[i - 1] \in Nat /\ tl[i - 1] + Len(added[i].rows) <= tl[n]
      BY <1>i
    <3>2. k \in 1..Len(added[i].rows)
      OBVIOUS
    <3>3. Len(a.rows) + tl[i - 1] + k \in 1..(Len(a.rows) + tl[n])
      BY ONLY <1>w, <2>3, <3>1, <3>2, InsideTotal
    <3> QED
      BY <1>1, <3>3
  <2> QED
    BY <1>4, <2>2, <2>4, ListRange
<1> QED
  BY <1>5, <1>6, <1>7 DEF F, n

-----------------------------------------------------------------------------
(***************************************************************************)
(* Sorted lists, selections and lists of lists.                            *)
(***************************************************************************)

\* The same rows in another order.
Permuted(sorted, rows) ==
  \E order : /\ Permutes(order, Len(rows))
             /\ sorted = [k \in 1..Len(rows) |-> rows[order[k]]]

\* Sorted rows are the rows, in some order: nothing else is used of sort.Slice.
LEMMA SortedPermutes ==
  ASSUME NEW before, NEW rows, List(rows)
  PROVE  Permuted(Sorted(before, rows), rows)
<1> DEFINE order == SortOrder(before, Len(rows))
<1>1. Len(rows) \in Nat /\ DOMAIN rows = 1..Len(rows)
  BY ListDomain DEF List
<1>2. Permutes(order, Len(rows))
  BY <1>1, SortOrderPermutes
<1>3. Sorted(before, rows) = [k \in 1..Len(rows) |-> rows[order[k]]]
  BY <1>1 DEF Sorted
<1> HIDE DEF order
<1> QED
  BY <1>2, <1>3 DEF Permuted

\* Rows in another order are a list of the same rows.
LEMMA PermutedIs ==
  ASSUME NEW rows, NEW sorted, List(rows), Permuted(sorted, rows)
  PROVE  /\ List(sorted) /\ Len(sorted) = Len(rows)
         /\ Range(sorted) = Range(rows)
         /\ \A k \in 1..Len(sorted) : sorted[k] \in Range(rows)
<1>1. PICK order : /\ Permutes(order, Len(rows))
                   /\ sorted = [k \in 1..Len(rows) |-> rows[order[k]]]
  BY DEF Permuted
<1>2. PICK n \in Nat : n = Len(rows)
  BY DEF List
<1>3. List(sorted) /\ Len(sorted) = n /\ DOMAIN sorted = 1..n
  BY <1>1, <1>2, ListIs
<1>4. \A k \in 1..n : order[k] \in 1..n /\ sorted[k] = rows[order[k]]
  BY <1>1, <1>2 DEF Permutes
<1>5. \A i \in 1..n : \E k \in 1..n : order[k] = i
  BY <1>1, <1>2 DEF Permutes
<1>6. \A k \in 1..n : sorted[k] \in Range(rows)
  BY <1>2, <1>4, ListRange
<1>7. ASSUME NEW x \in Range(sorted) PROVE x \in Range(rows)
  <2>1. PICK k \in 1..n : x = sorted[k]
    BY <1>3, ListRange
  <2> QED
    BY <1>6, <2>1
<1>8. ASSUME NEW x \in Range(rows) PROVE x \in Range(sorted)
  <2>1. PICK i \in 1..n : x = rows[i]
    BY <1>2, ListRange
  <2>2. PICK k \in 1..n : order[k] = i
    BY <1>5
  <2>3. x = sorted[k]
    BY <1>4, <2>1, <2>2
  <2> QED
    BY <1>3, <2>3, ListRange
<1> QED
  BY <1>2, <1>3, <1>6, <1>7, <1>8

\* Selecting the items at some places, one item after another.
LEMMA SelectedUnfold ==
  ASSUME NEW places, NEW items, Len(items) \in Nat
  PROVE  \E list : /\ Selected(places, items) = list[Len(items)]
                   /\ list[0] = <<>>
                   /\ \A n \in 1..Len(items) :
                        list[n] = IF n \in places THEN Append(list[n - 1], items[n])
                                  ELSE list[n - 1]
<1> DEFINE More(f, n) == IF n \in places THEN Append(f[n - 1], items[n]) ELSE f[n - 1]
           Selects(f, n) == f = [i \in 0..n |-> IF i = 0 THEN <<>> ELSE More(f, i)]
           G == {n \in 0..Len(items) : \E f : Selects(f, n)}
<1>1. 0 \in G
  <2>1. \A i \in 0..0 : i = 0
    OBVIOUS
  <2>2. \E f : Selects(f, 0)
    <3>1. Selects([i \in 0..0 |-> <<>>], 0)
      BY <2>1
    <3> QED
      BY <3>1
  <2> HIDE DEF Selects
  <2> QED
    BY <2>2
<1>2. ASSUME NEW n \in 1..Len(items), n - 1 \in G PROVE n \in G
  <2>1. PICK f : Selects(f, n - 1)
    BY <1>2
  <2> DEFINE g == [i \in 0..n |-> IF i = n THEN More(f, n) ELSE f[i]]
  <2>2. \A i \in 0..n : g[i] = IF i = 0 THEN <<>> ELSE More(g, i)
    <3>1. \A i \in 0..(n - 1) : g[i] = f[i]
      OBVIOUS
    <3>2. \A i \in 1..n : More(g, i) = More(f, i)
      BY <3>1
    <3>3. \A i \in 0..(n - 1) : f[i] = IF i = 0 THEN <<>> ELSE More(f, i)
      BY <2>1
    <3>4. g[n] = More(f, n)
      OBVIOUS
    <3> HIDE DEF More, g
    <3> QED
      BY <3>1, <3>2, <3>3, <3>4
  <2>3. \E h : Selects(h, n)
    <3>1. Selects(g, n)
      BY <2>2
    <3> QED
      BY <3>1
  <2> HIDE DEF Selects
  <2> QED
    BY <2>3
<1>3. Len(items) \in G
  <2> HIDE DEF G
  <2>1. 0..Len(items) \subseteq G
    BY <1>1, <1>2, Induction
  <2> QED
    BY <2>1
<1>4. PICK list : list = CHOOSE f : Selects(f, Len(items))
  OBVIOUS
<1>5. Selects(list, Len(items))
  <2>1. \E f : Selects(f, Len(items))
    BY <1>3
  <2> HIDE DEF Selects
  <2> QED
    BY <1>4, <2>1
<1>6. Selected(places, items) = list[Len(items)]
  BY <1>4 DEF Selected
<1>7. list[0] = <<>> /\ \A n \in 1..Len(items) : list[n] = More(list, n)
  <2> HIDE DEF More
  <2> QED
    BY <1>5
<1> QED
  BY <1>6, <1>7

\* One more element at the end of a list.
LEMMA Appending ==
  ASSUME NEW s, NEW x, List(s)
  PROVE  /\ List(Append(s, x)) /\ Len(Append(s, x)) = Len(s) + 1
         /\ \A y : y \in Range(Append(s, x)) <=> y \in Range(s) \/ y = x
<1> DEFINE S == Range(s) \cup {x}
           r == Append(s, x)
<1>1. s \in Seq(S) /\ x \in S
  <2>1. \A i \in 1..Len(s) : s[i] \in S
    BY ListRange
  <2>2. x \in S
    OBVIOUS
  <2> HIDE DEF S
  <2> QED
    BY <2>1, <2>2, ListElements
<1>2. Len(s) \in Nat
  BY DEF List
<1> HIDE DEF S
<1>3. /\ r \in Seq(S) /\ Len(r) = Len(s) + 1 /\ r[Len(s) + 1] = x
      /\ \A k \in 1..Len(s) : r[k] = s[k]
  BY <1>1, <1>2
<1> HIDE DEF r
<1>4. List(r)
  BY <1>3 DEF List
<1>5. ASSUME NEW y PROVE y \in Range(r) <=> y \in Range(s) \/ y = x
  <2>1. y \in Range(r) <=> \E i \in 1..Len(r) : y = r[i]
    BY <1>4, ListRange
  <2>2. y \in Range(s) <=> \E i \in 1..Len(s) : y = s[i]
    BY ListRange
  <2>3. ASSUME NEW i \in 1..Len(r), y = r[i] PROVE y \in Range(s) \/ y = x
    <3>1. i \in 1..Len(s) \/ i = Len(s) + 1
      BY <1>2, <1>3
    <3> QED
      BY <1>3, <2>2, <2>3, <3>1
  <2>4. ASSUME NEW i \in 1..Len(s), y = s[i] PROVE y \in Range(r)
    <3>1. i \in 1..Len(r) /\ r[i] = y
      BY <1>2, <1>3, <2>4
    <3> QED
      BY <2>1, <3>1
  <2>5. y = x => y \in Range(r)
    <3>1. Len(s) + 1 \in 1..Len(r)
      BY <1>2, <1>3
    <3> QED
      BY <1>3, <2>1, <3>1
  <2> QED
    BY <2>1, <2>2, <2>3, <2>4, <2>5
<1> QED
  BY <1>3, <1>4, <1>5 DEF r

\* What is selected: as many items as places, and the items at these.
LEMMA SelectedIs ==
  ASSUME NEW items, List(items), NEW places \in SUBSET (1..Len(items))
  PROVE  /\ List(Selected(places, items))
         /\ Len(Selected(places, items)) = Cardinality(places)
         /\ IsFiniteSet(places)
         /\ \A x : x \in Range(Selected(places, items)) <=> \E i \in places : x = items[i]
<1>1. PICK n \in Nat : n = Len(items)
  BY DEF List
<1>2. PICK list : /\ Selected(places, items) = list[n]
                  /\ list[0] = <<>>
                  /\ \A m \in 1..n : list[m] = IF m \in places THEN Append(list[m - 1], items[m])
                                               ELSE list[m - 1]
  <2>1. Len(items) \in Nat
    BY <1>1
  <2>2. \E list : /\ Selected(places, items) = list[Len(items)]
                  /\ list[0] = <<>>
                  /\ \A m \in 1..Len(items) :
                       list[m] = IF m \in places THEN Append(list[m - 1], items[m])
                                 ELSE list[m - 1]
    BY <2>1, SelectedUnfold
  <2> QED
    BY <1>1, <2>2
<1> DEFINE Upto(m) == places \cap 1..m
           Listed(m) == /\ List(list[m])
                        /\ IsFiniteSet(Upto(m)) /\ Len(list[m]) = Cardinality(Upto(m))
           Has(m) == \A x : x \in Range(list[m]) <=> \E i \in Upto(m) : x = items[i]
           G == {m \in 0..n : Listed(m) /\ Has(m)}
<1>3. 0 \in G
  <2>1. Upto(0) = {}
    OBVIOUS
  <2>2. List(list[0]) /\ Len(list[0]) = 0
    BY <1>2, EmptyIsList
  <2>3. IsFiniteSet({}) /\ Cardinality({}) = 0
    BY FS_EmptySet
  <2>4. Range(<<>>) = {}
    BY DEF Range
  <2> QED
    BY <1>1, <1>2, <2>1, <2>2, <2>3, <2>4
<1>4. ASSUME NEW m \in 1..n, m - 1 \in G PROVE m \in G
  <2>1. Listed(m - 1) /\ Has(m - 1)
    BY <1>4
  <2>2. CASE m \in places
    <3>1. list[m] = Append(list[m - 1], items[m])
      BY <1>2, <2>2
    <3>2. Upto(m) = Upto(m - 1) \cup {m} /\ m \notin Upto(m - 1)
      BY <2>2
    <3>3. IsFiniteSet(Upto(m - 1)) /\ List(list[m - 1])
      BY <2>1
    <3>4. Len(list[m - 1]) = Cardinality(Upto(m - 1))
      BY <2>1
    <3>5. \A x : x \in Range(list[m - 1]) <=> \E i \in Upto(m - 1) : x = items[i]
      BY <2>1
    <3> HIDE DEF Upto
    <3>6. /\ List(list[m]) /\ Len(list[m]) = Len(list[m - 1]) + 1
          /\ \A y : y \in Range(list[m]) <=> y \in Range(list[m - 1]) \/ y = items[m]
      BY <3>1, <3>3, Appending
    <3>7. IsFiniteSet(Upto(m)) /\ Cardinality(Upto(m)) = Cardinality(Upto(m - 1)) + 1
      BY <3>2, <3>3, FS_AddElement
    <3>8. Has(m)
      BY <3>2, <3>5, <3>6
    <3>9. Listed(m)
      BY <3>4, <3>6, <3>7
    <3> QED
      BY <3>8, <3>9
  <2>3. CASE m \notin places
    <3>1. Upto(m) = Upto(m - 1)
      BY <2>3
    <3>2. list[m] = list[m - 1]
      BY <1>2, <2>3
    <3> HIDE DEF Upto
    <3> QED
      BY <2>1, <3>1, <3>2
  <2> QED
    BY <2>2, <2>3
<1>5. n \in G
  <2> HIDE DEF G
  <2>1. 0..n \subseteq G
    BY <1>3, <1>4, Induction
  <2> QED
    BY <2>1
<1>6. Upto(n) = places
  BY <1>1
<1> HIDE DEF Upto
<1>7. Listed(n) /\ Has(n)
  BY <1>5
<1> QED
  BY <1>2, <1>6, <1>7

-----------------------------------------------------------------------------
(***************************************************************************)
(* Parents are read back as they were written.                             *)
(***************************************************************************)

\* Ids below the maximum do not wrap...
LEMMA SmallRemainder ==
  ASSUME NEW m \in Nat \ {0}, NEW x \in 0..(m - 1) PROVE x % m = x
OBVIOUS

\* ... negative differences do...
LEMMA NegativeRemainder ==
  ASSUME NEW m \in Nat \ {0}, NEW x \in Int, -m <= x, x < 0 PROVE x % m = x + m
OBVIOUS

\* ... and so do sums above it...
LEMMA LargeRemainder ==
  ASSUME NEW m \in Nat \ {0}, NEW x \in Int, m <= x, x < 2 * m PROVE x % m = x - m
OBVIOUS

\* ... to values of the width.
LEMMA RemainderType ==
  ASSUME NEW m \in Nat \ {0}, NEW x \in Int PROVE x % m \in 0..(m - 1)
OBVIOUS

\* The decoder tells a parent from the row before and the difference that was written.
LEMMA ParentsUnfold ==
  ASSUME NEW continues, NEW rows, NEW max, List(rows)
  PROVE  \E parent : /\ ParentsOf(continues, rows, max) = [i \in 1..Len(rows) |-> parent[i]]
                     /\ \A n \in 1..Len(rows) :
                          parent[n] = IF n \in continues
                                      THEN (parent[n - 1] + rows[n].parent) % (max + 1)
                                      ELSE rows[n].parent
<1>0. Len(rows) \in Nat /\ DOMAIN rows = 1..Len(rows)
  BY ListDomain DEF List
<1> DEFINE Next1(f, n) == IF n \in continues THEN (f[n - 1] + rows[n].parent) % (max + 1)
                          ELSE rows[n].parent
           Reads(f, n) == f = [i \in 0..n |-> IF i = 0 THEN Null ELSE Next1(f, i)]
           G == {n \in 0..Len(rows) : \E f : Reads(f, n)}
<1>1. 0 \in G
  <2>1. \A i \in 0..0 : i = 0
    OBVIOUS
  <2>2. \E f : Reads(f, 0)
    <3>1. Reads([i \in 0..0 |-> Null], 0)
      BY <2>1
    <3> QED
      BY <3>1
  <2> HIDE DEF Reads
  <2> QED
    BY <1>0, <2>2
<1>2. ASSUME NEW n \in 1..Len(rows), n - 1 \in G PROVE n \in G
  <2>1. PICK f : Reads(f, n - 1)
    BY <1>2
  <2> DEFINE g == [i \in 0..n |-> IF i = n THEN Next1(f, n) ELSE f[i]]
  <2>2. \A i \in 0..n : g[i] = IF i = 0 THEN Null ELSE Next1(g, i)
    <3>1. \A i \in 0..(n - 1) : g[i] = f[i]
      OBVIOUS
    <3>2. \A i \in 1..n : Next1(g, i) = Next1(f, i)
      <4> HIDE DEF g
      <4> QED
        BY <3>1
    <3>3. \A i \in 0..(n - 1) : f[i] = IF i = 0 THEN Null ELSE Next1(f, i)
      BY <2>1
    <3>4. g[n] = Next1(f, n)
      OBVIOUS
    <3> HIDE DEF Next1, g
    <3> QED
      BY <3>1, <3>2, <3>3, <3>4
  <2>3. \E h : Reads(h, n)
    <3>1. Reads(g, n)
      BY <2>2
    <3> QED
      BY <3>1
  <2> HIDE DEF Reads
  <2> QED
    BY <2>3
<1>3. Len(rows) \in G
  <2> HIDE DEF G
  <2>1. 0..Len(rows) \subseteq G
    BY <1>0, <1>1, <1>2, Induction
  <2> QED
    BY <1>0, <2>1
<1>4. PICK parent : parent = CHOOSE f : Reads(f, Len(rows))
  OBVIOUS
<1>5. Reads(parent, Len(rows))
  <2>1. \E f : Reads(f, Len(rows))
    BY <1>3
  <2> HIDE DEF Reads
  <2> QED
    BY <1>4, <2>1
<1>6. ParentsOf(continues, rows, max) = [i \in 1..Len(rows) |-> parent[i]]
  BY <1>0, <1>4 DEF ParentsOf
<1>7. \A n \in 1..Len(rows) : parent[n] = Next1(parent, n)
  <2> HIDE DEF Next1
  <2> QED
    BY <1>0, <1>5
<1> QED
  BY <1>6, <1>7

\* The parents as written: differences where a row continues a group.
Continued(continues, rows, max) ==
  [i \in DOMAIN rows |->
     IF i \in continues THEN (rows[i].parent - rows[i - 1].parent) % (max + 1)
     ELSE rows[i].parent]

\* A wrapped difference, added and wrapped again, gives back the id.
LEMMA RemainderBack ==
  ASSUME NEW max \in Nat, NEW a \in 0..max, NEW b \in 0..max
  PROVE  (a + ((b - a) % (max + 1))) % (max + 1) = b
<1> DEFINE m == max + 1
           d == (b - a) % m
<1>1. m \in Nat \ {0} /\ a \in 0..(m - 1) /\ b \in 0..(m - 1)
  OBVIOUS
<1>2. CASE b >= a
  <2>1. d = b - a
    <3>1. b - a \in 0..(m - 1)
      BY <1>2
    <3> QED
      BY <1>1, <3>1, SmallRemainder
  <2>2. a + d = b
    BY <2>1
  <2> HIDE DEF d, m
  <2> QED
    BY <1>1, <2>2, SmallRemainder DEF m, d
<1>3. CASE b < a
  <2>1. d = b - a + m
    <3>1. b - a \in Int /\ -m <= b - a /\ b - a < 0
      BY <1>3
    <3> QED
      BY <1>1, <3>1, NegativeRemainder
  <2>2. a + d = b + m
    BY <2>1
  <2>3. (b + m) % m = b
    <3>1. b + m \in Int /\ m <= b + m /\ b + m < 2 * m /\ b + m - m = b
      OBVIOUS
    <3>2. (b + m) % m = b + m - m
      BY <1>1, <3>1, LargeRemainder
    <3> QED
      BY <3>1, <3>2
  <2> QED
    BY <2>2, <2>3
<1> QED
  BY <1>2, <1>3

\* Parents are read back from their differences if both sides see the same groups.
LEMMA ParentsReadBack ==
  ASSUME NEW max \in Nat, NEW rows, List(rows), NEW continues \in SUBSET (2..Len(rows)),
         \A i \in 1..Len(rows) : rows[i].parent \in 0..max,
         NEW written, List(written), Len(written) = Len(rows),
         \A i \in 1..Len(rows) : written[i].parent = Continued(continues, rows, max)[i]
  PROVE  ParentsOf(continues, written, max) = [i \in 1..Len(rows) |-> rows[i].parent]
<1>0. \E parent : /\ ParentsOf(continues, written, max) = [i \in 1..Len(written) |-> parent[i]]
                  /\ \A n \in 1..Len(written) :
                       parent[n] = IF n \in continues
                                   THEN (parent[n - 1] + written[n].parent) % (max + 1)
                                   ELSE written[n].parent
  BY ParentsUnfold, SMTT(30)
<1>4. PICK parent :
        /\ ParentsOf(continues, written, max) = [i \in 1..Len(written) |-> parent[i]]
        /\ \A i \in 1..Len(written) :
             parent[i] = IF i \in continues
                         THEN (parent[i - 1] + written[i].parent) % (max + 1)
                         ELSE written[i].parent
  BY <1>0
<1>1. PICK n \in Nat : n = Len(rows)
  BY DEF List
<1>2. DOMAIN rows = 1..n
  BY <1>1, ListDomain
<1>3. \A i \in 1..n : written[i].parent = IF i \in continues
                        THEN (rows[i].parent - rows[i - 1].parent) % (max + 1)
                        ELSE rows[i].parent
  BY <1>1, <1>2 DEF Continued
<1>5. \A i \in 1..n : parent[i] = IF i \in continues
                                  THEN (parent[i - 1] + written[i].parent) % (max + 1)
                                  ELSE written[i].parent
  BY <1>1, <1>4
<1> DEFINE G == {i \in 0..n : i > 0 => parent[i] = rows[i].parent}
<1>6. 0 \in G
  OBVIOUS
<1>7. ASSUME NEW i \in 1..n, i - 1 \in G PROVE i \in G
  <2>1. CASE i \in continues
    <3>1. i - 1 \in 1..n
      BY <1>1, <2>1
    <3>2. parent[i - 1] = rows[i - 1].parent
      BY <1>7, <3>1
    <3>3. written[i].parent = (rows[i].parent - rows[i - 1].parent) % (max + 1)
      BY <1>3, <2>1
    <3>4. parent[i] = (parent[i - 1] + written[i].parent) % (max + 1)
      BY <1>5, <2>1
    <3>5. PICK y \in 0..max : y = rows[i - 1].parent
      BY <1>1, <3>1
    <3>6. PICK z \in 0..max : z = rows[i].parent
      BY <1>1
    <3>7. parent[i - 1] = y
      BY <3>2, <3>5
    <3>8. PICK p \in 0..max : p = (z - y) % (max + 1)
      <4>1. max + 1 \in Nat \ {0} /\ z - y \in Int /\ max + 1 - 1 = max
        OBVIOUS
      <4>2. (z - y) % (max + 1) \in 0..(max + 1 - 1)
        BY <4>1, RemainderType
      <4> QED
        BY <4>1, <4>2
    <3>9. written[i].parent = p
      BY <3>3, <3>5, <3>6, <3>8
    <3>10. parent[i] = (y + p) % (max + 1)
      BY <3>4, <3>7, <3>9
    <3>12. (y + p) % (max + 1) = z
      BY <3>8, RemainderBack
    <3>11. parent[i] = rows[i].parent
      BY <3>6, <3>10, <3>12
    <3> QED
      BY <3>11
  <2>2. CASE i \notin continues
    BY <1>3, <1>5, <2>2
  <2> QED
    BY <2>1, <2>2
<1>8. 0..n \subseteq G
  <2> HIDE DEF G
  <2> QED
    BY <1>6, <1>7, Induction
<1>9. \A i \in 1..n : parent[i] = rows[i].parent
  BY <1>8
<1> QED
  BY <1>1, <1>4, <1>9

-----------------------------------------------------------------------------
(***************************************************************************)
(* Ids.                                                                    *)
(***************************************************************************)

\* The builder of an id column starts at 0...
LEMMA PrevIdFirst ==
  ASSUME NEW ids PROVE PrevId(ids, 1) = 0
<1>1. {j \in 1..(1 - 1) : ids[j] # Null} = {}
  OBVIOUS
<1> QED
  BY <1>1 DEF PrevId

\* ... and remembers the last id that was not null.
LEMMA PrevIdNext ==
  ASSUME NEW ids, NEW i \in Nat \ {0}
  PROVE  PrevId(ids, i + 1) = IF ids[i] # Null THEN ids[i] ELSE PrevId(ids, i)
<1> DEFINE S == {j \in 1..(i + 1 - 1) : ids[j] # Null}
           T == {j \in 1..(i - 1) : ids[j] # Null}
<1>1. PrevId(ids, i + 1) = IF S = {} THEN 0 ELSE ids[Max(S)]
  BY DEF PrevId
<1>2. PrevId(ids, i) = IF T = {} THEN 0 ELSE ids[Max(T)]
  BY DEF PrevId
<1>3. CASE ids[i] # Null
  <2>1. i \in S /\ S \in SUBSET (0..i)
    BY <1>3
  <2>2. \A j \in S : j <= i
    OBVIOUS
  <2> HIDE DEF S
  <2>3. Max(S) \in S /\ \A y \in S : Max(S) >= y
    <3>1. S # {} /\ i \in Nat
      BY <2>1
    <3> QED
      BY <2>1, <3>1, MaxOf
  <2>4. Max(S) \in 0..i
    BY <2>1, <2>3
  <2>5. Max(S) = i
    BY <2>1, <2>2, <2>3, <2>4
  <2> QED
    BY <1>1, <1>3, <2>1, <2>5
<1>4. CASE ids[i] = Null
  <2>1. S = T
    BY <1>4
  <2> QED
    BY <1>1, <1>2, <1>4, <2>1
<1> QED
  BY <1>3, <1>4

\* One for each row that something refers to.
Referred(referred) == [i \in DOMAIN referred |-> IF referred[i] THEN 1 ELSE 0]

\* The rows that are referred to, counted.
LEMMA SparseTotals ==
  ASSUME NEW n \in Nat, NEW referred, DOMAIN referred = 1..n
  PROVE  /\ Referred(referred) \in [1..n -> Nat]
         /\ Subtotals(Referred(referred)) \in [0..n -> Nat]
         /\ Subtotals(Referred(referred))[0] = 0
         /\ \A i \in 1..n : Subtotals(Referred(referred))[i]
              = Subtotals(Referred(referred))[i - 1] + (IF referred[i] THEN 1 ELSE 0)
         /\ \A i \in 0..n : Subtotals(Referred(referred))[i] <= i
<1> DEFINE v == Referred(referred)
           b == Subtotals(v)
<1>1. v \in [1..n -> Nat] /\ \A i \in 1..n : v[i] = IF referred[i] THEN 1 ELSE 0
  BY DEF Referred
<1> HIDE DEF v
<1>2. b \in [0..n -> Nat] /\ b[0] = 0 /\ \A i \in 1..n : b[i] = b[i - 1] + v[i]
  BY <1>1, SubtotalsType
<1> HIDE DEF b
<1> DEFINE G == {i \in 0..n : b[i] <= i}
<1>3. 0 \in G
  BY <1>2
<1>4. ASSUME NEW i \in 1..n, i - 1 \in G PROVE i \in G
  <2>1. b[i] = b[i - 1] + v[i] /\ b[i - 1] \in Nat /\ b[i] \in Nat /\ b[i - 1] <= i - 1
    BY <1>2, <1>4
  <2>2. v[i] = 0 \/ v[i] = 1
    BY <1>1
  <2> QED
    BY <2>1, <2>2
<1>5. 0..n \subseteq G
  <2> HIDE DEF G
  <2> QED
    BY <1>3, <1>4, Induction
<1> QED
  BY <1>1, <1>2, <1>5 DEF v, b

\* The ids of rows that something refers to count those before them.
LEMMA SparseIdsAre ==
  ASSUME NEW n \in Nat, NEW referred, DOMAIN referred = 1..n, NEW max \in Nat
  PROVE  SparseIds(referred, max)
           = [i \in 1..n |-> IF referred[i]
                             THEN Subtotals(Referred(referred))[i - 1] % (max + 1)
                             ELSE Null]
BY DEF SparseIds, Referred

\* The id before a row.
LEMMA SparsePrevId ==
  ASSUME NEW n \in Nat, NEW referred, DOMAIN referred = 1..n, NEW max \in Nat,
         NEW i \in 0..n
  PROVE  PrevId(SparseIds(referred, max), i + 1)
           = IF Subtotals(Referred(referred))[i] = 0 THEN 0
             ELSE (Subtotals(Referred(referred))[i] - 1) % (max + 1)
<1> DEFINE b == Subtotals(Referred(referred))
           ids == SparseIds(referred, max)
           G == {m \in 0..n : PrevId(ids, m + 1) = IF b[m] = 0 THEN 0
                                                   ELSE (b[m] - 1) % (max + 1)}
<1>1. /\ b \in [0..n -> Nat] /\ b[0] = 0
      /\ \A m \in 1..n : b[m] = b[m - 1] + (IF referred[m] THEN 1 ELSE 0)
  BY SparseTotals
<1>2. ids = [m \in 1..n |-> IF referred[m] THEN b[m - 1] % (max + 1) ELSE Null]
  BY DEF SparseIds, Referred
<1> HIDE DEF b, ids
<1>3. 0 \in G
  <2>1. PrevId(ids, 1) = 0
    BY PrevIdFirst
  <2> QED
    BY <1>1, <2>1
<1>4. ASSUME NEW m \in 1..n, m - 1 \in G PROVE m \in G
  <2>1. m \in Nat \ {0} /\ m - 1 + 1 = m
    OBVIOUS
  <2>2. PrevId(ids, m + 1) = IF ids[m] # Null THEN ids[m] ELSE PrevId(ids, m)
    BY <2>1, PrevIdNext
  <2>3. b[m - 1] \in Nat /\ b[m] = b[m - 1] + (IF referred[m] THEN 1 ELSE 0)
    BY <1>1
  <2>4. CASE referred[m]
    <3>1. PICK x \in Nat : x = b[m - 1]
      BY <2>3
    <3>2. x % (max + 1) # Null
      <4>1. max + 1 \in Nat \ {0} /\ x \in Int
        OBVIOUS
      <4>2. x % (max + 1) \in 0..(max + 1 - 1)
        BY <4>1, RemainderType
      <4> QED
        BY <4>2 DEF Null
    <3>3. ids[m] = x % (max + 1) /\ b[m] = x + 1 /\ x + 1 - 1 = x /\ x + 1 # 0
      BY <1>2, <2>3, <2>4, <3>1
    <3>4. PrevId(ids, m + 1) = x % (max + 1)
      BY <2>2, <3>2, <3>3
    <3>5. b[m] # 0 /\ b[m] - 1 = x
      BY <3>3
    <3> QED
      BY <3>4, <3>5, SMTT(30)
  <2>5. CASE ~referred[m]
    <3>1. ids[m] = Null /\ b[m] = b[m - 1]
      BY <1>2, <2>3, <2>5
    <3>2. PrevId(ids, m + 1) = PrevId(ids, m - 1 + 1)
      BY <2>1, <2>2, <3>1
    <3>3. PrevId(ids, m - 1 + 1) = IF b[m - 1] = 0 THEN 0 ELSE (b[m - 1] - 1) % (max + 1)
      BY <1>4
    <3> QED
      BY <3>1, <3>2, <3>3
  <2> QED
    BY <2>4, <2>5
<1>5. 0..n \subseteq G
  <2> HIDE DEF G
  <2> QED
    BY <1>3, <1>4, Induction
<1>6. PrevId(ids, i + 1) = IF b[i] = 0 THEN 0 ELSE (b[i] - 1) % (max + 1)
  BY <1>5
<1> QED
  BY <1>6 DEF b, ids

\* A builder that does not panic never wraps: the ids are those counts.
LEMMA SparseIdsCount ==
  ASSUME NEW n \in Nat, NEW referred, DOMAIN referred = 1..n, NEW max \in Nat \ {0},
         ~Panics(SparseIds(referred, max))
  PROVE  /\ \A i \in 0..n : Subtotals(Referred(referred))[i] <= max + 1
         /\ \A i \in 1..n : referred[i] =>
              /\ SparseIds(referred, max)[i] = Subtotals(Referred(referred))[i - 1]
              /\ SparseIds(referred, max)[i] \in 0..max
<1> DEFINE b == Subtotals(Referred(referred))
           ids == SparseIds(referred, max)
           G == {m \in 0..n : b[m] <= max + 1}
<1>1. /\ b \in [0..n -> Nat] /\ b[0] = 0
      /\ \A m \in 1..n : b[m] = b[m - 1] + (IF referred[m] THEN 1 ELSE 0)
  BY SparseTotals
<1>2. ids = [m \in 1..n |-> IF referred[m] THEN b[m - 1] % (max + 1) ELSE Null]
  BY SparseIdsAre, ZenonT(60)
<1>3. \A m \in 0..n : PrevId(ids, m + 1) = IF b[m] = 0 THEN 0 ELSE (b[m] - 1) % (max + 1)
  BY SparsePrevId
<1>4. \A m \in DOMAIN ids : m > 1 /\ ids[m] # Null => Step(ids, m) \in 0..1
  BY DEF Panics
<1> HIDE DEF b, ids
<1>5. 0 \in G
  BY <1>1
<1>6. ASSUME NEW m \in 1..n, m - 1 \in G, referred[m] PROVE b[m - 1] <= max
  <2> SUFFICES ASSUME b[m - 1] = max + 1 PROVE FALSE
    <3>1. b[m - 1] \in Nat /\ b[m - 1] <= max + 1
      BY <1>1, <1>6
    <3> QED
      BY <3>1
  <2>1. m > 1
    BY <1>1
  <2>2. ids[m] = 0
    <3>1. (max + 1) % (max + 1) = 0
      <4>1. max + 1 \in Nat \ {0} /\ max + 1 \in Int /\ max + 1 < 2 * (max + 1)
            /\ max + 1 - (max + 1) = 0 /\ max + 1 <= max + 1
        OBVIOUS
      <4>2. (max + 1) % (max + 1) = max + 1 - (max + 1)
        BY <4>1, LargeRemainder
      <4> QED
        BY <4>1, <4>2
    <3> QED
      BY <1>2, <1>6, <3>1
  <2>3. PrevId(ids, m) = max
    <3>1. m - 1 \in 0..n /\ m - 1 + 1 = m
      OBVIOUS
    <3>2. PrevId(ids, m - 1 + 1) = (b[m - 1] - 1) % (max + 1)
      BY <1>3, <3>1, SMTT(60)
    <3>3. max % (max + 1) = max
      <4>1. max + 1 \in Nat \ {0} /\ max \in 0..(max + 1 - 1)
        OBVIOUS
      <4> QED
        BY <4>1, SmallRemainder
    <3>4. b[m - 1] - 1 = max
      OBVIOUS
    <3> QED
      BY <3>1, <3>2, <3>3, <3>4
  <2>4. Step(ids, m) = 0 - max
    BY <2>1, <2>2, <2>3 DEF Step
  <2>5. Step(ids, m) \in 0..1
    BY <1>2, <1>4, <2>1, <2>2 DEF Null
  <2> QED
    BY <2>4, <2>5
<1>7. ASSUME NEW m \in 1..n, m - 1 \in G PROVE m \in G
  <2>1. b[m] = b[m - 1] + (IF referred[m] THEN 1 ELSE 0) /\ b[m - 1] \in Nat
        /\ b[m - 1] <= max + 1
    BY <1>1, <1>7
  <2>2. CASE referred[m]
    BY <1>6, <1>7, <2>1, <2>2
  <2>3. CASE ~referred[m]
    BY <2>1, <2>3
  <2> QED
    BY <2>2, <2>3
<1>8. 0..n \subseteq G
  <2> HIDE DEF G
  <2> QED
    BY <1>5, <1>7, Induction
<1>9. ASSUME NEW i \in 1..n, referred[i] PROVE ids[i] = b[i - 1] /\ ids[i] \in 0..max
  <2>1. i - 1 \in G
    BY <1>8
  <2>2. b[i - 1] <= max
    BY <1>6, <1>9, <2>1
  <2>3. PICK x \in 0..max : x = b[i - 1]
    BY <1>1, <2>2
  <2>4. x % (max + 1) = x
    <3>1. max + 1 \in Nat \ {0} /\ x \in 0..(max + 1 - 1)
      OBVIOUS
    <3> QED
      BY <3>1, SmallRemainder
  <2> QED
    BY <1>2, <1>9, <2>3, <2>4
<1> QED
  BY <1>8, <1>9 DEF b, ids

\* Few rows never make it panic.
LEMMA SparseIdsNeverPanic ==
  ASSUME NEW n \in Nat, NEW referred, DOMAIN referred = 1..n, NEW max \in Nat \ {0},
         Subtotals(Referred(referred))[n] <= max + 1
  PROVE  ~Panics(SparseIds(referred, max))
<1> DEFINE b == Subtotals(Referred(referred))
           ids == SparseIds(referred, max)
<1>1. /\ b \in [0..n -> Nat] /\ b[0] = 0
      /\ \A m \in 1..n : b[m] = b[m - 1] + (IF referred[m] THEN 1 ELSE 0)
  BY SparseTotals
<1>2. ids = [m \in 1..n |-> IF referred[m] THEN b[m - 1] % (max + 1) ELSE Null]
  BY SparseIdsAre
<1>3. \A m \in 0..n : PrevId(ids, m + 1) = IF b[m] = 0 THEN 0 ELSE (b[m] - 1) % (max + 1)
  BY SparsePrevId
<1>4. \A m \in 0..n : b[m] <= b[n]
  <2> SUFFICES ASSUME NEW m \in 0..n PROVE b[m] <= b[n]
    OBVIOUS
  <2> DEFINE v == Referred(referred)
  <2>1. v \in [1..n -> Nat]
    BY SparseTotals
  <2>2. n \in 0..n /\ m <= n
    OBVIOUS
  <2> HIDE DEF v
  <2>3. Subtotals(v)[m] <= Subtotals(v)[n]
    BY <2>1, <2>2, SubtotalsGrow
  <2> QED
    BY <2>3 DEF v
<1>5. b[n] <= max + 1
  OBVIOUS
<1> HIDE DEF b, ids
<1>6. ASSUME NEW i \in 1..n, i > 1, ids[i] # Null PROVE Step(ids, i) \in 0..1
  <2>1. referred[i]
    BY <1>2, <1>6
  <2>2. b[i] = b[i - 1] + 1 /\ b[i - 1] \in Nat /\ b[i] \in Nat /\ b[i] <= max + 1
    <3>1. b[n] \in Nat /\ b[i] \in Nat /\ b[i - 1] \in Nat
      BY <1>1
    <3>2. b[i] <= b[n]
      BY <1>4
    <3> QED
      BY <1>1, <1>5, <2>1, <3>1, <3>2
  <2>3. PICK x \in 0..max : x = b[i - 1]
    BY <2>2
  <2>4. x % (max + 1) = x
    <3>1. max + 1 \in Nat \ {0} /\ x \in 0..(max + 1 - 1)
      OBVIOUS
    <3> QED
      BY <3>1, SmallRemainder
  <2>5. ids[i] = x
    BY <1>2, <2>1, <2>3, <2>4
  <2>6. PrevId(ids, i) = IF x = 0 THEN 0 ELSE x - 1
    <3>1. i - 1 \in 0..n /\ i - 1 + 1 = i
      OBVIOUS
    <3>2. PrevId(ids, i - 1 + 1) = IF b[i - 1] = 0 THEN 0 ELSE (b[i - 1] - 1) % (max + 1)
      BY <1>3, <3>1
    <3>3. PrevId(ids, i) = IF x = 0 THEN 0 ELSE (x - 1) % (max + 1)
      BY <2>3, <3>1, <3>2
    <3>4. CASE x > 0
      <4>1. max + 1 \in Nat \ {0} /\ x - 1 \in 0..(max + 1 - 1)
        BY <3>4
      <4>2. (x - 1) % (max + 1) = x - 1
        BY <4>1, SmallRemainder
      <4> QED
        BY <3>3, <3>4, <4>2
    <3>5. CASE x = 0
      BY <3>3, <3>5
    <3> QED
      BY <3>4, <3>5
  <2>7. Step(ids, i) = x - PrevId(ids, i)
    BY <1>6, <2>5 DEF Step
  <2>8. CASE x = 0
    BY <2>6, <2>7, <2>8
  <2>9. CASE x > 0
    BY <2>6, <2>7, <2>9
  <2> QED
    BY <2>8, <2>9
<1>7. DOMAIN ids = 1..n
  BY <1>2
<1>8. ~Panics(ids)
  BY <1>6, <1>7 DEF Panics
<1> QED
  BY <1>8 DEF ids

\* Different rows that are referred to have different ids, in order.
LEMMA SparseIdsGrow ==
  ASSUME NEW n \in Nat, NEW referred, DOMAIN referred = 1..n, NEW max \in Nat \ {0},
         ~Panics(SparseIds(referred, max)),
         NEW i \in 1..n, NEW j \in 1..n, i < j, referred[i], referred[j]
  PROVE  SparseIds(referred, max)[i] < SparseIds(referred, max)[j]
<1> DEFINE b == Subtotals(Referred(referred))
           ids == SparseIds(referred, max)
<1>1. /\ b \in [0..n -> Nat] /\ b[0] = 0
      /\ \A m \in 1..n : b[m] = b[m - 1] + (IF referred[m] THEN 1 ELSE 0)
  BY SparseTotals
<1>2. \A m \in 1..n : referred[m] => ids[m] = b[m - 1] /\ ids[m] \in 0..max
  BY SparseIdsCount
<1>3. b[i] <= b[j - 1]
  <2> DEFINE v == Referred(referred)
  <2>1. v \in [1..n -> Nat]
    BY SparseTotals
  <2>2. i \in 0..n /\ j - 1 \in 0..n /\ i <= j - 1
    OBVIOUS
  <2> HIDE DEF v
  <2>3. Subtotals(v)[i] <= Subtotals(v)[j - 1]
    BY <2>1, <2>2, SubtotalsGrow
  <2> QED
    BY <2>3 DEF v
<1> HIDE DEF b, ids
<1>4. b[i] = b[i - 1] + 1 /\ b[i - 1] \in Nat /\ b[i] \in Nat /\ b[j - 1] \in Nat
  BY <1>1
<1>5. ids[i] = b[i - 1] /\ ids[j] = b[j - 1]
  BY <1>2
<1>6. ids[i] < ids[j]
  BY <1>3, <1>4, <1>5
<1> QED
  BY <1>6 DEF ids

\* All rows are referred to.
LEMMA DenseIdsAreSparse ==
  ASSUME NEW rows, List(rows), NEW max \in Nat
  PROVE  /\ DenseIds(rows, max) = SparseIds([i \in 1..Len(rows) |-> TRUE], max)
         /\ Subtotals(Referred([i \in 1..Len(rows) |-> TRUE]))[Len(rows)] = Len(rows)
<1> DEFINE n == Len(rows)
           all == [i \in 1..n |-> TRUE]
           b == Subtotals(Referred(all))
           G == {m \in 0..n : b[m] = m}
<1>1. n \in Nat /\ DOMAIN rows = 1..n
  BY ListDomain DEF List
<1> HIDE DEF n
<1>2. DOMAIN all = 1..n /\ \A i \in 1..n : all[i]
  OBVIOUS
<1> HIDE DEF all
<1>3. /\ b \in [0..n -> Nat] /\ b[0] = 0
      /\ \A m \in 1..n : b[m] = b[m - 1] + (IF all[m] THEN 1 ELSE 0)
  BY <1>1, <1>2, SparseTotals
<1>4. SparseIds(all, max) = [i \in 1..n |-> IF all[i] THEN b[i - 1] % (max + 1) ELSE Null]
  BY <1>2 DEF SparseIds, Referred
<1> HIDE DEF b
<1>5. 0 \in G
  BY <1>1, <1>3
<1>6. ASSUME NEW m \in 1..n, m - 1 \in G PROVE m \in G
  <2>1. b[m] = b[m - 1] + 1 /\ b[m - 1] = m - 1
    BY <1>2, <1>3, <1>6
  <2> QED
    BY <2>1
<1>7. 0..n \subseteq G
  <2> HIDE DEF G
  <2> QED
    BY <1>1, <1>5, <1>6, Induction
<1>8. \A i \in 1..n : b[i - 1] = i - 1
  BY <1>1, <1>7
<1>9. SparseIds(all, max) = [i \in 1..n |-> (i - 1) % (max + 1)]
  BY <1>2, <1>4, <1>8
<1>10. DenseIds(rows, max) = [i \in 1..n |-> (i - 1) % (max + 1)]
  BY <1>1 DEF DenseIds
<1>11. b[n] = n
  BY <1>1, <1>7
<1> QED
  BY <1>9, <1>10, <1>11 DEF all, n, b

\* A consumer that adds up all the differences has the id before the next row.
LEMMA SumOfDeltas ==
  ASSUME NEW n \in Nat, NEW ids, DOMAIN ids = 1..n,
         \A i \in 1..n : ids[i] = Null \/ ids[i] \in Nat, ~Panics(ids),
         NEW rows, \A j \in 1..n : j \in rows \/ OrZero(Deltas(ids)[j]) = 0,
         NEW i \in 0..n, NEW max
  PROVE  /\ Sum(Deltas(ids), rows, i, max) = PrevId(ids, i + 1) % (max + 1)
         /\ PrevId(ids, i + 1) \in Nat
<1> DEFINE d == Deltas(ids)
           v == [j \in 1..n |-> IF j \in rows THEN OrZero(d[j]) ELSE 0]
           Before(m) == PrevId(ids, m + 1)
           G == {m \in 0..n : Before(m) \in Nat /\ Subtotals(v)[m] = Before(m)}
<1>1. DOMAIN d = 1..n
  BY DEF Deltas
<1>2. Sum(d, rows, i, max) = Subtotals(v)[i] % (max + 1)
  BY <1>1 DEF Sum
<1>3. \A m \in 1..n : Before(m) = IF ids[m] # Null THEN ids[m] ELSE Before(m - 1)
  <2> SUFFICES ASSUME NEW m \in 1..n
               PROVE  Before(m) = IF ids[m] # Null THEN ids[m] ELSE Before(m - 1)
    OBVIOUS
  <2>1. m \in Nat \ {0} /\ m - 1 + 1 = m
    OBVIOUS
  <2>2. PrevId(ids, m + 1) = IF ids[m] # Null THEN ids[m] ELSE PrevId(ids, m)
    BY <2>1, PrevIdNext
  <2> QED
    BY <2>1, <2>2
<1>4. Before(0) = 0
  BY PrevIdFirst
<1>5. \A m \in 1..n : ids[m] # Null => ids[m] \in Nat
  OBVIOUS
<1>6. \A m \in 1..n : Before(m - 1) = PrevId(ids, m)
  <2> SUFFICES ASSUME NEW m \in 1..n PROVE Before(m - 1) = PrevId(ids, m)
    OBVIOUS
  <2>1. m - 1 + 1 = m
    OBVIOUS
  <2> QED
    BY <2>1
<1> HIDE DEF Before
<1>7. ASSUME NEW m \in 1..n
      PROVE  v[m] \in Nat
             /\ (ids[m] = Null => v[m] = 0)
             /\ (ids[m] # Null => v[m] = IF m = 1 THEN ids[m] ELSE ids[m] - Before(m - 1))
  <2>1. v[m] = OrZero(d[m])
    <3>1. v[m] = IF m \in rows THEN OrZero(d[m]) ELSE 0
      OBVIOUS
    <3> HIDE DEF v, d
    <3>2. m \in rows \/ OrZero(d[m]) = 0
      BY DEF d
    <3> QED
      BY <3>1, <3>2
  <2> HIDE DEF v
  <2>2. d[m] = IF ids[m] = Null THEN Null ELSE Step(ids, m)
    BY DEF Deltas
  <2>3. CASE ids[m] = Null
    BY <2>1, <2>2, <2>3 DEF OrZero
  <2>4. CASE ids[m] # Null /\ m = 1
    BY <1>5, <2>1, <2>2, <2>4 DEF OrZero, Step, Null
  <2>5. CASE ids[m] # Null /\ m > 1
    <3>1. Step(ids, m) \in 0..1
      BY <2>5 DEF Panics
    <3>2. Step(ids, m) = ids[m] - Before(m - 1)
      BY <1>6, <2>5 DEF Step
    <3>3. v[m] = Step(ids, m)
      BY <2>1, <2>2, <2>5, <3>1 DEF OrZero, Null
    <3> QED
      BY <2>5, <3>1, <3>2, <3>3
  <2> QED
    BY <2>3, <2>4, <2>5
<1>8. v \in [1..n -> Nat]
  BY <1>7
<1> HIDE DEF v
<1>9. /\ Subtotals(v) \in [0..n -> Nat] /\ Subtotals(v)[0] = 0
      /\ \A m \in 1..n : Subtotals(v)[m] = Subtotals(v)[m - 1] + v[m]
  BY <1>8, SubtotalsType
<1>10. 0 \in G
  BY <1>4, <1>9
<1>11. ASSUME NEW m \in 1..n, m - 1 \in G PROVE m \in G
  <2>1. /\ Subtotals(v)[m] = Subtotals(v)[m - 1] + v[m]
        /\ Subtotals(v)[m - 1] = Before(m - 1) /\ Before(m - 1) \in Nat
    BY <1>9, <1>11
  <2>2. CASE ids[m] = Null
    <3>1. Before(m) = Before(m - 1) /\ v[m] = 0
      BY <1>3, <1>7, <2>2
    <3> QED
      BY <2>1, <3>1
  <2>3. CASE ids[m] # Null
    <3>1. Before(m) = ids[m] /\ ids[m] \in Nat
      BY <1>3, <1>5, <2>3
    <3>2. v[m] = IF m = 1 THEN ids[m] ELSE ids[m] - Before(m - 1)
      BY <1>7, <2>3
    <3>3. m = 1 => Before(m - 1) = 0
      BY <1>4
    <3>4. Subtotals(v)[m] = ids[m]
      BY <2>1, <3>1, <3>2, <3>3
    <3> QED
      BY <3>1, <3>4
  <2> QED
    BY <2>2, <2>3
<1>12. 0..n \subseteq G
  <2> HIDE DEF G
  <2> QED
    BY <1>10, <1>11, Induction
<1>13. Before(i) \in Nat /\ Subtotals(v)[i] = Before(i)
  BY <1>12
<1> QED
  BY <1>2, <1>13 DEF Before

-----------------------------------------------------------------------------
(***************************************************************************)
(* Records: rows are written without their parents' sums, and read back.   *)
(***************************************************************************)

\* After Reset a sorter has nothing before the first row.
LEMMA EmptyJoin ==
  ASSUME NEW s, List(s) PROVE <<>> \o s = s
<1> DEFINE r == <<>> \o s
<1>1. List(<<>>) /\ Len(<<>>) = 0
  BY EmptyIsList
<1>2. /\ List(r) /\ Len(r) = Len(<<>>) + Len(s)
      /\ \A k \in 1..Len(s) : r[Len(<<>>) + k] = s[k]
  BY <1>1, Joining
<1> HIDE DEF r
<1>3. Len(s) \in Nat
  BY DEF List
<1>4. Len(r) = Len(s) /\ \A k \in 1..Len(s) : r[k] = s[k]
  BY <1>1, <1>2, <1>3
<1>5. r = [i \in 1..Len(s) |-> r[i]] /\ s = [i \in 1..Len(s) |-> s[i]]
  BY <1>2, <1>4 DEF List
<1> QED
  BY <1>4, <1>5 DEF r

\* The rows of a record, one for each row that was sorted.
LEMMA WrittenIs ==
  ASSUME NEW rows, List(rows), NEW ids, NEW parents
  PROVE  /\ List(WriteRows(rows, ids, parents))
         /\ Len(WriteRows(rows, ids, parents)) = Len(rows)
         /\ DOMAIN WriteRows(rows, ids, parents) = 1..Len(rows)
         /\ \A i \in 1..Len(rows) :
              /\ WriteRows(rows, ids, parents)[i].id = Deltas(ids)[i]
              /\ WriteRows(rows, ids, parents)[i].parent = parents[i]
              /\ WriteRows(rows, ids, parents)[i].cols = rows[i].cols
<1> DEFINE W == WriteRows(rows, ids, parents)
           Written(i) == [id |-> Deltas(ids)[i], parent |-> parents[i], cols |-> rows[i].cols]
<1>1. PICK n \in Nat : n = Len(rows)
  BY DEF List
<1>2. W = [i \in 1..n |-> Written(i)]
  BY <1>1, ListDomain DEF WriteRows
<1> HIDE DEF W, Written
<1>3. List(W) /\ Len(W) = n /\ DOMAIN W = 1..n
  <2>1. W = [i \in 1..n |-> W[i]]
    BY <1>2
  <2> QED
    BY <2>1, ListIs
<1>4. \A i \in 1..n : W[i] = Written(i)
  BY <1>2
<1>5. \A i \in 1..n : Written(i).id = Deltas(ids)[i] /\ Written(i).parent = parents[i]
                      /\ Written(i).cols = rows[i].cols
  BY DEF Written
<1> QED
  BY <1>1, <1>3, <1>4, <1>5 DEF W

\* The attributes of a parent, read from a record of rows.
LEMMA StoreBack ==
  ASSUME NEW max \in Nat, NEW rows, List(rows), NEW continues \in SUBSET (2..Len(rows)),
         \A i \in 1..Len(rows) : rows[i].parent \in 0..max,
         NEW ids, NEW W, W = WriteRows(rows, ids, Continued(continues, rows, max)),
         NEW p
  PROVE  AttributesByID(StoreOf(W, ParentsOf(continues, W, max)), p)
           = {<<rows[k].cols.key, rows[k].cols.value>> :
                k \in {j \in 1..Len(rows) : rows[j].parent = p}}
<1> DEFINE parents == ParentsOf(continues, W, max)
           Pairs(s, P) == {<<s[k].cols.key, s[k].cols.value>> : k \in P}
           Places == {j \in 1..Len(rows) : rows[j].parent = p}
<1>1. /\ List(W) /\ Len(W) = Len(rows) /\ DOMAIN W = 1..Len(rows)
      /\ \A i \in 1..Len(rows) : W[i].parent = Continued(continues, rows, max)[i]
      /\ \A i \in 1..Len(rows) : W[i].cols = rows[i].cols
  BY WrittenIs
<1>2. parents = [i \in 1..Len(rows) |-> rows[i].parent]
  BY <1>1, ParentsReadBack, SMTT(30)
<1>3. StoreOf(W, parents) = [q \in Range(parents) |->
                               Pairs(W, {j \in DOMAIN W : parents[j] = q})]
  BY DEF StoreOf
<1> HIDE DEF parents
<1>4. {j \in DOMAIN W : parents[j] = p} = Places
  BY <1>1, <1>2
<1>5. Pairs(W, Places) = Pairs(rows, Places)
  BY <1>1, ZenonT(30)
<1>6. p \in Range(parents) <=> Places # {}
  BY <1>2 DEF Range
<1>7. CASE p \in Range(parents)
  <2>1. AttributesByID(StoreOf(W, parents), p) = Pairs(W, {j \in DOMAIN W : parents[j] = p})
    <3> HIDE DEF Pairs
    <3> QED
      BY <1>3, <1>7 DEF AttributesByID
  <2> QED
    BY <1>4, <1>5, <2>1 DEF parents
<1>8. CASE p \notin Range(parents)
  <2>1. AttributesByID(StoreOf(W, parents), p) = {}
    <3> HIDE DEF Pairs
    <3> QED
      BY <1>3, <1>8 DEF AttributesByID
  <2>2. Pairs(rows, Places) = {}
    BY <1>6, <1>8
  <2> QED
    BY <2>1, <2>2 DEF parents
<1> QED
  BY <1>7, <1>8


\* The encoder of 16-bit attributes writes differences inside runs of a key and a
\* value...
LEMMA EncodedAttrs16 ==
  ASSUME NEW rows, List(rows), NEW prev, NEW max
  PROVE  EncodeParents(SameKeyValue, ResetSorter(prev), rows, max)
           = Continued({i \in 2..Len(rows) : SameKeyValue(rows[i - 1], rows[i])}, rows, max)
<1>1. PICK n \in Nat : n = Len(rows)
  BY DEF List
<1>2. DOMAIN rows = 1..n
  BY <1>1, ListDomain
<1>3. <<>> \o rows = rows /\ Len(<<>>) = 0
  BY EmptyJoin, EmptyIsList
<1>4. EncodeParents(SameKeyValue, <<>>, rows, max)
        = [i \in 1..n |-> IF i + 0 > 1 /\ SameKeyValue(rows[i + 0 - 1], rows[i])
                          THEN (rows[i].parent - rows[i + 0 - 1].parent) % (max + 1)
                          ELSE rows[i].parent]
  BY <1>2, <1>3 DEF EncodeParents
<1>5. Continued({i \in 2..n : SameKeyValue(rows[i - 1], rows[i])}, rows, max)
        = [i \in 1..n |-> IF i \in {j \in 2..n : SameKeyValue(rows[j - 1], rows[j])}
                          THEN (rows[i].parent - rows[i - 1].parent) % (max + 1)
                          ELSE rows[i].parent]
  BY <1>2 DEF Continued
<1> DEFINE Enc(i) == IF i + 0 > 1 /\ SameKeyValue(rows[i + 0 - 1], rows[i])
                     THEN (rows[i].parent - rows[i + 0 - 1].parent) % (max + 1)
                     ELSE rows[i].parent
           Con(i) == IF i \in {j \in 2..n : SameKeyValue(rows[j - 1], rows[j])}
                     THEN (rows[i].parent - rows[i - 1].parent) % (max + 1)
                     ELSE rows[i].parent
<1>6. \A i \in 1..n : Enc(i) = Con(i)
  <2> SUFFICES ASSUME NEW i \in 1..n PROVE Enc(i) = Con(i)
    OBVIOUS
  <2>1. i + 0 = i /\ (i \in 2..n <=> i > 1)
    OBVIOUS
  <2> QED
    BY <2>1
<1>7. EncodeParents(SameKeyValue, <<>>, rows, max)
        = Continued({i \in 2..n : SameKeyValue(rows[i - 1], rows[i])}, rows, max)
  <2>1. EncodeParents(SameKeyValue, <<>>, rows, max) = [i \in 1..n |-> Enc(i)]
    BY <1>4
  <2>2. Continued({i \in 2..n : SameKeyValue(rows[i - 1], rows[i])}, rows, max)
          = [i \in 1..n |-> Con(i)]
    BY <1>5
  <2> HIDE DEF Enc, Con
  <2> QED
    BY <1>6, <2>1, <2>2
<1> QED
  BY <1>1, <1>7 DEF ResetSorter

\* ... and the decoder finds the same runs in the columns.
LEMMA DecodedAttrs16 ==
  ASSUME NEW rows, List(rows), NEW ids, NEW parents, NEW max
  PROVE  LET W == WriteRows(rows, ids, parents)
         IN  DecodeParents(DecodedSameKeyValue, W, max)
               = ParentsOf({i \in 2..Len(rows) : SameKeyValue(rows[i - 1], rows[i])}, W, max)
<1> DEFINE W == WriteRows(rows, ids, parents)
<1>1. PICK n \in Nat : n = Len(rows)
  BY DEF List
<1>2. DOMAIN W = 1..n /\ \A i \in 1..n : W[i].cols = rows[i].cols
  BY <1>1, WrittenIs
<1> HIDE DEF W
<1>3. DecodeParents(DecodedSameKeyValue, W, max)
        = ParentsOf({i \in DOMAIN W : i > 1 /\ DecodedSameKeyValue(W[i - 1], W[i])}, W, max)
  BY DEF DecodeParents
<1>4. {i \in DOMAIN W : i > 1 /\ DecodedSameKeyValue(W[i - 1], W[i])}
        = {i \in 2..n : SameKeyValue(rows[i - 1], rows[i])}
  <2>1. \A i \in 2..n : DecodedSameKeyValue(W[i - 1], W[i]) <=> SameKeyValue(rows[i - 1], rows[i])
    <3> SUFFICES ASSUME NEW i \in 2..n
                 PROVE  DecodedSameKeyValue(W[i - 1], W[i]) <=> SameKeyValue(rows[i - 1], rows[i])
      OBVIOUS
    <3>1. i \in 1..n /\ i - 1 \in 1..n
      OBVIOUS
    <3>2. W[i].cols = rows[i].cols /\ W[i - 1].cols = rows[i - 1].cols
      BY <1>2, <3>1
    <3> QED
      BY <3>2 DEF DecodedSameKeyValue, SameKeyValue
  <2> QED
    BY <1>2, <2>1
<1> QED
  BY <1>1, <1>3, <1>4 DEF W

\* The encoder of 32-bit attributes writes differences inside runs of a key and a
\* value...
LEMMA EncodedAttrs32 ==
  ASSUME NEW rows, List(rows), NEW prev, NEW max
  PROVE  EncodeParents(SameKeyValue32, ResetSorter(prev), rows, max)
           = Continued({i \in 2..Len(rows) : SameKeyValue32(rows[i - 1], rows[i])}, rows, max)
<1>1. PICK n \in Nat : n = Len(rows)
  BY DEF List
<1>2. DOMAIN rows = 1..n
  BY <1>1, ListDomain
<1>3. <<>> \o rows = rows /\ Len(<<>>) = 0
  BY EmptyJoin, EmptyIsList
<1>4. EncodeParents(SameKeyValue32, <<>>, rows, max)
        = [i \in 1..n |-> IF i + 0 > 1 /\ SameKeyValue32(rows[i + 0 - 1], rows[i])
                          THEN (rows[i].parent - rows[i + 0 - 1].parent) % (max + 1)
                          ELSE rows[i].parent]
  BY <1>2, <1>3 DEF EncodeParents
<1>5. Continued({i \in 2..n : SameKeyValue32(rows[i - 1], rows[i])}, rows, max)
        = [i \in 1..n |-> IF i \in {j \in 2..n : SameKeyValue32(rows[j - 1], rows[j])}
                          THEN (rows[i].parent - rows[i - 1].parent) % (max + 1)
                          ELSE rows[i].parent]
  BY <1>2 DEF Continued
<1> DEFINE Enc(i) == IF i + 0 > 1 /\ SameKeyValue32(rows[i + 0 - 1], rows[i])
                     THEN (rows[i].parent - rows[i + 0 - 1].parent) % (max + 1)
                     ELSE rows[i].parent
           Con(i) == IF i \in {j \in 2..n : SameKeyValue32(rows[j - 1], rows[j])}
                     THEN (rows[i].parent - rows[i - 1].parent) % (max + 1)
                     ELSE rows[i].parent
<1>6. \A i \in 1..n : Enc(i) = Con(i)
  <2> SUFFICES ASSUME NEW i \in 1..n PROVE Enc(i) = Con(i)
    OBVIOUS
  <2>1. i + 0 = i /\ (i \in 2..n <=> i > 1)
    OBVIOUS
  <2> QED
    BY <2>1
<1>7. EncodeParents(SameKeyValue32, <<>>, rows, max)
        = Continued({i \in 2..n : SameKeyValue32(rows[i - 1], rows[i])}, rows, max)
  <2>1. EncodeParents(SameKeyValue32, <<>>, rows, max) = [i \in 1..n |-> Enc(i)]
    BY <1>4
  <2>2. Continued({i \in 2..n : SameKeyValue32(rows[i - 1], rows[i])}, rows, max)
          = [i \in 1..n |-> Con(i)]
    BY <1>5
  <2> HIDE DEF Enc, Con
  <2> QED
    BY <1>6, <2>1, <2>2
<1> QED
  BY <1>1, <1>7 DEF ResetSorter

\* ... and the decoder finds the same runs in the columns.
LEMMA DecodedAttrs32 ==
  ASSUME NEW rows, List(rows), NEW ids, NEW parents, NEW max
  PROVE  LET W == WriteRows(rows, ids, parents)
         IN  DecodeParents(DecodedSameKeyValue32, W, max)
               = ParentsOf({i \in 2..Len(rows) : SameKeyValue32(rows[i - 1], rows[i])}, W, max)
<1> DEFINE W == WriteRows(rows, ids, parents)
<1>1. PICK n \in Nat : n = Len(rows)
  BY DEF List
<1>2. DOMAIN W = 1..n /\ \A i \in 1..n : W[i].cols = rows[i].cols
  BY <1>1, WrittenIs
<1> HIDE DEF W
<1>3. DecodeParents(DecodedSameKeyValue32, W, max)
        = ParentsOf({i \in DOMAIN W : i > 1 /\ DecodedSameKeyValue32(W[i - 1], W[i])}, W, max)
  BY DEF DecodeParents
<1>4. {i \in DOMAIN W : i > 1 /\ DecodedSameKeyValue32(W[i - 1], W[i])}
        = {i \in 2..n : SameKeyValue32(rows[i - 1], rows[i])}
  <2>1. \A i \in 2..n :
          DecodedSameKeyValue32(W[i - 1], W[i]) <=> SameKeyValue32(rows[i - 1], rows[i])
    <3> SUFFICES ASSUME NEW i \in 2..n
                 PROVE  DecodedSameKeyValue32(W[i - 1], W[i])
                           <=> SameKeyValue32(rows[i - 1], rows[i])
      OBVIOUS
    <3>1. i \in 1..n /\ i - 1 \in 1..n
      OBVIOUS
    <3>2. W[i].cols = rows[i].cols /\ W[i - 1].cols = rows[i - 1].cols
      BY <1>2, <3>1
    <3> QED
      BY <3>2 DEF DecodedSameKeyValue32, DecodedSameKeyValue, SameKeyValue32, SameKeyValue
  <2> QED
    BY <1>2, <2>1
<1> QED
  BY <1>1, <1>3, <1>4 DEF W

\* The attributes that are found under an id in the record of an accumulator.
LEMMA Attrs16Back ==
  ASSUME NEW a, Accu(a), MaxUint16 \in Nat,
         \A row \in Range(a.rows) : row.parent \in 0..MaxUint16,
         NEW prev, NEW p
  PROVE  AttributesByID(Attributes16StoreFrom(TryBuildAttrs16(a, prev).rows), p)
           = {<<row.cols.key, row.cols.value>> : row \in {r \in Range(a.rows) : r.parent = p}}
<1> DEFINE sorted == SortRows(KeyValueParentLess, a.rows)
           C == {i \in 2..Len(sorted) : SameKeyValue(sorted[i - 1], sorted[i])}
           nulls == [k \in DOMAIN sorted |-> Null]
           W == WriteRows(sorted, nulls, Continued(C, sorted, MaxUint16))
<1>1. List(a.rows)
  BY DEF Accu
<1>2. Permuted(sorted, a.rows)
  BY <1>1, SortedPermutes DEF SortRows
<1>3. TryBuildAttrs16(a, prev).rows
        = WriteRows(sorted, nulls,
                    EncodeParents(SameKeyValue, ResetSorter(prev), sorted, MaxUint16))
  BY DEF TryBuildAttrs16
<1> HIDE DEF sorted
<1>4. /\ List(sorted) /\ Range(sorted) = Range(a.rows)
      /\ \A k \in 1..Len(sorted) : sorted[k] \in Range(a.rows)
  BY <1>1, <1>2, PermutedIs
<1>5. EncodeParents(SameKeyValue, ResetSorter(prev), sorted, MaxUint16)
        = Continued(C, sorted, MaxUint16)
  BY <1>4, EncodedAttrs16
<1>6. TryBuildAttrs16(a, prev).rows = W
  BY <1>3, <1>5
<1>7. DecodeParents(DecodedSameKeyValue, W, MaxUint16) = ParentsOf(C, W, MaxUint16)
  BY <1>4, DecodedAttrs16
<1>8. Attributes16StoreFrom(W) = StoreOf(W, ParentsOf(C, W, MaxUint16))
  BY <1>7 DEF Attributes16StoreFrom
<1>9. \A i \in 1..Len(sorted) : sorted[i].parent \in 0..MaxUint16
  BY <1>4
<1>10. AttributesByID(StoreOf(W, ParentsOf(C, W, MaxUint16)), p)
         = {<<sorted[k].cols.key, sorted[k].cols.value>> :
              k \in {j \in 1..Len(sorted) : sorted[j].parent = p}}
  <2>1. C \in SUBSET (2..Len(sorted))
    OBVIOUS
  <2>2. MaxUint16 \in Nat /\ List(sorted)
    BY <1>4
  <2>3. W = WriteRows(sorted, nulls, Continued(C, sorted, MaxUint16))
    OBVIOUS
  <2> HIDE DEF C, nulls, W
  <2> QED
    BY ONLY <1>9, <2>1, <2>2, <2>3, StoreBack
<1> HIDE DEF W
<1>11. {<<sorted[k].cols.key, sorted[k].cols.value>> :
          k \in {j \in 1..Len(sorted) : sorted[j].parent = p}}
         = {<<row.cols.key, row.cols.value>> : row \in {r \in Range(a.rows) : r.parent = p}}
  <2>1. \A x : x \in Range(a.rows) <=> \E i \in 1..Len(sorted) : x = sorted[i]
    BY <1>4, ListRange
  <2>2. {r \in Range(a.rows) : r.parent = p}
          = {sorted[k] : k \in {j \in 1..Len(sorted) : sorted[j].parent = p}}
    BY <2>1
  <2> QED
    BY <2>2
<1> QED
  BY <1>6, <1>8, <1>10, <1>11

\* The attributes that are found under an id in the record of an accumulator.
LEMMA Attrs32Back ==
  ASSUME NEW a, Accu(a), MaxUint32 \in Nat,
         \A row \in Range(a.rows) : row.parent \in 0..MaxUint32,
         NEW prev, NEW p
  PROVE  AttributesByID(Attributes32StoreFrom(TryBuildAttrs32(a, prev).rows), p)
           = {<<row.cols.key, row.cols.value>> : row \in {r \in Range(a.rows) : r.parent = p}}
<1> DEFINE sorted == SortRows(KeyValueParentLess32, a.rows)
           C == {i \in 2..Len(sorted) : SameKeyValue32(sorted[i - 1], sorted[i])}
           nulls == [k \in DOMAIN sorted |-> Null]
           W == WriteRows(sorted, nulls, Continued(C, sorted, MaxUint32))
<1>1. List(a.rows)
  BY DEF Accu
<1>2. Permuted(sorted, a.rows)
  BY <1>1, SortedPermutes DEF SortRows
<1>3. TryBuildAttrs32(a, prev).rows
        = WriteRows(sorted, nulls,
                    EncodeParents(SameKeyValue32, ResetSorter(prev), sorted, MaxUint32))
  BY DEF TryBuildAttrs32
<1> HIDE DEF sorted
<1>4. /\ List(sorted) /\ Range(sorted) = Range(a.rows)
      /\ \A k \in 1..Len(sorted) : sorted[k] \in Range(a.rows)
  BY <1>1, <1>2, PermutedIs
<1>5. EncodeParents(SameKeyValue32, ResetSorter(prev), sorted, MaxUint32)
        = Continued(C, sorted, MaxUint32)
  BY <1>4, EncodedAttrs32
<1>6. TryBuildAttrs32(a, prev).rows = W
  BY <1>3, <1>5
<1>7. DecodeParents(DecodedSameKeyValue32, W, MaxUint32) = ParentsOf(C, W, MaxUint32)
  BY <1>4, DecodedAttrs32
<1>8. Attributes32StoreFrom(W) = StoreOf(W, ParentsOf(C, W, MaxUint32))
  BY <1>7 DEF Attributes32StoreFrom
<1>9. \A i \in 1..Len(sorted) : sorted[i].parent \in 0..MaxUint32
  BY <1>4
<1>10. AttributesByID(StoreOf(W, ParentsOf(C, W, MaxUint32)), p)
         = {<<sorted[k].cols.key, sorted[k].cols.value>> :
              k \in {j \in 1..Len(sorted) : sorted[j].parent = p}}
  <2>1. C \in SUBSET (2..Len(sorted))
    OBVIOUS
  <2>2. MaxUint32 \in Nat /\ List(sorted)
    BY <1>4
  <2>3. W = WriteRows(sorted, nulls, Continued(C, sorted, MaxUint32))
    OBVIOUS
  <2> HIDE DEF C, nulls, W
  <2> QED
    BY ONLY <1>9, <2>1, <2>2, <2>3, StoreBack
<1> HIDE DEF W
<1>11. {<<sorted[k].cols.key, sorted[k].cols.value>> :
          k \in {j \in 1..Len(sorted) : sorted[j].parent = p}}
         = {<<row.cols.key, row.cols.value>> : row \in {r \in Range(a.rows) : r.parent = p}}
  <2>1. \A x : x \in Range(a.rows) <=> \E i \in 1..Len(sorted) : x = sorted[i]
    BY <1>4, ListRange
  <2>2. {r \in Range(a.rows) : r.parent = p}
          = {sorted[k] : k \in {j \in 1..Len(sorted) : sorted[j].parent = p}}
    BY <2>1
  <2> QED
    BY <2>2
<1> QED
  BY <1>6, <1>8, <1>10, <1>11

-----------------------------------------------------------------------------
(***************************************************************************)
(* The attributes of entities: as they were filed, so they are found.      *)
(***************************************************************************)

\* A list of keys with values.
AttrList(attrs) == List(attrs) /\ \A attr \in Range(attrs) : attr = <<attr[1], attr[2]>>

\* AppendAttributesWithID files the named attributes of an entity under its id.
LEMMA AppendWithIDIs ==
  ASSUME NEW attrs, AttrList(attrs), NEW parent
  PROVE  /\ Accu(AppendWithID(parent, attrs))
         /\ AppendWithID(parent, attrs).groups = IF attrs = <<>> THEN 0 ELSE 1
         /\ Len(AppendWithID(parent, attrs).rows) <= Len(attrs)
         /\ \A row : row \in Range(AppendWithID(parent, attrs).rows)
              <=> \E attr \in Named(attrs) : row = AttrRow(parent, attr)
<1> DEFINE places == {k \in DOMAIN attrs : attrs[k][1] # EmptyKey}
           kept == Selected(places, attrs)
           rows == [k \in DOMAIN kept |-> AttrRow(parent, kept[k])]
           groups == IF attrs = <<>> THEN 0 ELSE 1
<1>1. List(attrs) /\ DOMAIN attrs = 1..Len(attrs) /\ Len(attrs) \in Nat
  BY ListDomain DEF AttrList, List
<1>2. places \in SUBSET (1..Len(attrs))
  BY <1>1
<1>3. AppendWithID(parent, attrs) = [rows |-> rows, groups |-> groups]
  BY DEF AppendWithID
<1>n. \A x : x \in Named(attrs) <=> \E i \in places : x = attrs[i]
  BY <1>1 DEF Named, Range
<1> HIDE DEF places
<1>4. /\ List(kept) /\ Len(kept) = Cardinality(places)
      /\ \A x : x \in Range(kept) <=> \E i \in places : x = attrs[i]
  BY <1>1, <1>2, SelectedIs
<1>5. Cardinality(places) <= Len(attrs)
  <2> DEFINE P == 1..Len(attrs)
  <2>1. IsFiniteSet(P) /\ Cardinality(P) = Len(attrs)
    <3>1. 1 \in Int /\ Len(attrs) \in Int
      BY <1>1
    <3>2. IsFiniteSet(P) /\ Cardinality(P) = IF 1 > Len(attrs) THEN 0 ELSE Len(attrs) - 1 + 1
      BY <3>1, FS_Interval
    <3> QED
      BY <1>1, <3>2
  <2> HIDE DEF P
  <2>2. Cardinality(places) <= Cardinality(P)
    BY <1>2, <2>1, FS_Subset DEF P
  <2> QED
    BY <2>1, <2>2
<1> HIDE DEF kept
<1>6. PICK n \in Nat : n = Len(kept)
  BY <1>4 DEF List
<1>7. DOMAIN kept = 1..n
  BY <1>4, <1>6, ListDomain
<1>8. rows = [k \in 1..n |-> AttrRow(parent, kept[k])]
  BY <1>7
<1> HIDE DEF rows
<1>9. List(rows) /\ Len(rows) = n
  <2>1. rows = [k \in 1..n |-> rows[k]]
    BY <1>8
  <2> QED
    BY <2>1, ListIs
<1>10. \A k \in 1..n : rows[k] = AttrRow(parent, kept[k])
  BY <1>8
<1>11. ASSUME NEW row
       PROVE  row \in Range(rows) <=> \E attr \in Named(attrs) : row = AttrRow(parent, attr)
  <2>1. row \in Range(rows) <=> \E k \in 1..n : row = rows[k]
    BY <1>9, ListRange
  <2>2. \A x : x \in Range(kept) <=> \E k \in 1..n : x = kept[k]
    BY <1>4, <1>6, ListRange
  <2>3. \A x : x \in Named(attrs) <=> \E k \in 1..n : x = kept[k]
    BY <1>n, <1>4, <2>2
  <2> QED
    BY <1>10, <2>1, <2>3
<1>12. groups \in Nat
  OBVIOUS
<1> HIDE DEF groups
<1>13. /\ AppendWithID(parent, attrs).rows = rows
       /\ AppendWithID(parent, attrs).groups = groups
  BY <1>3
<1>14. Accu(AppendWithID(parent, attrs))
  BY <1>3, <1>9, <1>12, <1>13 DEF Accu
<1> QED
  BY <1>4, <1>5, <1>6, <1>9, <1>11, <1>13, <1>14 DEF groups

\* Append files all attributes of a resource or scope under the number of its group.
LEMMA AppendGroupIs ==
  ASSUME NEW attrs, AttrList(attrs), NEW parent
  PROVE  /\ Accu(AppendGroup(parent, attrs))
         /\ AppendGroup(parent, attrs).groups = IF attrs = <<>> THEN 0 ELSE 1
         /\ \A row : row \in Range(AppendGroup(parent, attrs).rows)
              <=> \E attr \in Range(attrs) : row = AttrRow(parent, attr)
<1> DEFINE rows == [k \in DOMAIN attrs |-> AttrRow(parent, attrs[k])]
           groups == IF rows = <<>> THEN 0 ELSE 1
<1>1. List(attrs)
  BY DEF AttrList
<1>2. PICK n \in Nat : n = Len(attrs)
  BY <1>1 DEF List
<1>3. rows = [k \in 1..n |-> AttrRow(parent, attrs[k])]
  BY <1>1, <1>2, ListDomain
<1>4. AppendGroup(parent, attrs) = [rows |-> rows, groups |-> groups]
  BY DEF AppendGroup, Group
<1> HIDE DEF rows
<1>5. List(rows) /\ Len(rows) = n
  <2>1. rows = [k \in 1..n |-> rows[k]]
    BY <1>3
  <2> QED
    BY <2>1, ListIs
<1>6. rows = <<>> <=> attrs = <<>>
  BY <1>1, <1>2, <1>5, EmptyList
<1>7. ASSUME NEW row
      PROVE  row \in Range(rows) <=> \E attr \in Range(attrs) : row = AttrRow(parent, attr)
  <2>1. row \in Range(rows) <=> \E k \in 1..n : row = rows[k]
    BY <1>5, ListRange
  <2>2. \A x : x \in Range(attrs) <=> \E k \in 1..n : x = attrs[k]
    BY <1>1, <1>2, ListRange
  <2> QED
    BY <1>3, <2>1, <2>2
<1>8. groups \in Nat
  OBVIOUS
<1>9. groups = IF attrs = <<>> THEN 0 ELSE 1
  BY <1>6
<1> HIDE DEF groups
<1>10. /\ AppendGroup(parent, attrs).rows = rows
       /\ AppendGroup(parent, attrs).groups = groups
  BY <1>4
<1>11. Accu(AppendGroup(parent, attrs))
  BY <1>4, <1>5, <1>8, <1>10 DEF Accu
<1> QED
  BY <1>7, <1>9, <1>10, <1>11

\* What n entities with these ids file.
Filed(added, n, ids, lists) ==
  /\ n \in Nat /\ \A k \in 1..n : AttrList(lists[k])
  /\ added = [k \in 1..n |-> AppendWithID(ids[k], lists[k])]

\* A row of a named attribute of some entity.
FiledBy(row, n, ids, lists) ==
  \E k \in 1..n : \E attr \in Named(lists[k]) : row = AttrRow(ids[k], attr)

\* The rows of all entities: who filed which.
LEMMA FiledRows ==
  ASSUME NEW n, NEW ids, NEW lists, NEW added, Filed(added, n, ids, lists)
  PROVE  /\ Adds(added) /\ Len(added) = n
         /\ Accu(Filled(NewAccumulator, added))
         /\ \A row : row \in Range(Filled(NewAccumulator, added).rows)
              <=> FiledBy(row, n, ids, lists)
<1>0. /\ n \in Nat /\ \A k \in 1..n : AttrList(lists[k])
      /\ added = [k \in 1..n |-> AppendWithID(ids[k], lists[k])]
  BY DEF Filed
<1>1. List(added) /\ Len(added) = n
  <2>1. added = [k \in 1..n |-> added[k]]
    BY <1>0
  <2> QED
    BY <1>0, <2>1, ListIs
<1>2. \A k \in 1..n : added[k] = AppendWithID(ids[k], lists[k])
  BY <1>0
<1>3. ASSUME NEW k \in 1..n
      PROVE  /\ Accu(added[k])
             /\ \A row : row \in Range(added[k].rows)
                  <=> \E attr \in Named(lists[k]) : row = AttrRow(ids[k], attr)
  <2>1. AttrList(lists[k])
    BY <1>0
  <2>2. added[k] = AppendWithID(ids[k], lists[k])
    BY <1>2
  <2>3. /\ Accu(AppendWithID(ids[k], lists[k]))
        /\ \A row : row \in Range(AppendWithID(ids[k], lists[k]).rows)
             <=> \E attr \in Named(lists[k]) : row = AttrRow(ids[k], attr)
    BY <2>1, AppendWithIDIs
  <2> QED
    BY <2>2, <2>3
<1>4. Adds(added)
  BY <1>1, <1>3 DEF Adds
<1>5. Accu(NewAccumulator) /\ Range(NewAccumulator.rows) = {}
  BY NewIsAccu DEF Range
<1>6. Accu(Filled(NewAccumulator, added))
  BY <1>4, <1>5, FilledIs
<1>7. ASSUME NEW row
      PROVE  row \in Range(Filled(NewAccumulator, added).rows) <=> FiledBy(row, n, ids, lists)
  <2>1. row \in Range(Filled(NewAccumulator, added).rows)
          <=> \/ row \in Range(NewAccumulator.rows)
              \/ \E k \in 1..Len(added) : row \in Range(added[k].rows)
    BY <1>4, <1>5, FilledRange
  <2> QED
    BY <1>1, <1>3, <1>5, <2>1, ZenonT(30) DEF FiledBy
<1> QED
  BY <1>1, <1>4, <1>6, <1>7

\* Filed under the id of one entity are its attributes and no other's.
LEMMA FiledUnder ==
  ASSUME NEW n, NEW ids, NEW lists, NEW added, Filed(added, n, ids, lists),
         NEW i \in 1..n, \A k \in 1..n : lists[k] # <<>> /\ ids[k] = ids[i] => k = i
  PROVE  {<<row.cols.key, row.cols.value>> :
            row \in {r \in Range(Filled(NewAccumulator, added).rows) : r.parent = ids[i]}}
           = Named(lists[i])
<1> DEFINE R == Range(Filled(NewAccumulator, added).rows)
           Pair(row) == <<row.cols.key, row.cols.value>>
<1>1. \A row : row \in R <=> FiledBy(row, n, ids, lists)
  BY FiledRows
<1> HIDE DEF R
<1>2. ASSUME NEW k \in 1..n, NEW attr \in Named(lists[k])
      PROVE  /\ AttrRow(ids[k], attr).parent = ids[k]
             /\ Pair(AttrRow(ids[k], attr)) = attr
             /\ lists[k] # <<>>
  <2>1. AttrList(lists[k])
    BY DEF Filed
  <2>2. attr \in Range(lists[k]) /\ attr = <<attr[1], attr[2]>>
    BY <2>1 DEF Named, AttrList
  <2>3. lists[k] # <<>>
    BY <2>2 DEF Range
  <2> QED
    BY <2>2, <2>3 DEF AttrRow
<1> HIDE DEF Pair
<1>3. ASSUME NEW row \in R, row.parent = ids[i] PROVE Pair(row) \in Named(lists[i])
  <2>1. PICK k \in 1..n : \E attr \in Named(lists[k]) : row = AttrRow(ids[k], attr)
    BY <1>1 DEF FiledBy
  <2>2. PICK attr \in Named(lists[k]) : row = AttrRow(ids[k], attr)
    BY <2>1
  <2>3. ids[k] = ids[i] /\ Pair(row) = attr /\ lists[k] # <<>>
    BY <1>2, <1>3, <2>2
  <2>4. k = i
    BY <2>3
  <2> QED
    BY <2>3, <2>4
<1>4. ASSUME NEW attr \in Named(lists[i])
      PROVE  \E row \in R : row.parent = ids[i] /\ attr = Pair(row)
  <2>1. AttrRow(ids[i], attr) \in R
    BY <1>1 DEF FiledBy
  <2> QED
    BY <1>2, <2>1
<1>5. {Pair(row) : row \in {r \in R : r.parent = ids[i]}} = Named(lists[i])
  BY <1>3, <1>4
<1> QED
  BY <1>5 DEF R, Pair

\* The attributes of an entity are found under its id.
LEMMA AttrsFound16 ==
  ASSUME NEW n, NEW ids, NEW lists, NEW added, Filed(added, n, ids, lists),
         MaxUint16 \in Nat, \A k \in 1..n : lists[k] # <<>> => ids[k] \in 0..MaxUint16,
         NEW i \in 1..n, \A k \in 1..n : lists[k] # <<>> /\ ids[k] = ids[i] => k = i,
         NEW prev
  PROVE  AttributesByID(
           Attributes16StoreFrom(TryBuildAttrs16(Filled(NewAccumulator, added), prev).rows), ids[i])
           = Named(lists[i])
<1> DEFINE a == Filled(NewAccumulator, added)
           p == ids[i]
<1>1. Accu(a) /\ \A row : row \in Range(a.rows) <=> FiledBy(row, n, ids, lists)
  BY FiledRows
<1>2. {<<row.cols.key, row.cols.value>> : row \in {r \in Range(a.rows) : r.parent = p}}
        = Named(lists[i])
  BY FiledUnder
<1> HIDE DEF a, p
<1>3. ASSUME NEW row \in Range(a.rows) PROVE row.parent \in 0..MaxUint16
  <2>1. PICK k \in 1..n : \E attr \in Named(lists[k]) : row = AttrRow(ids[k], attr)
    BY <1>1 DEF FiledBy
  <2>2. PICK attr \in Named(lists[k]) : row = AttrRow(ids[k], attr)
    BY <2>1
  <2>3. lists[k] # <<>>
    BY <2>2 DEF Named, Range
  <2> QED
    BY <2>2, <2>3 DEF AttrRow
<1>4. \A row \in Range(a.rows) : row.parent \in 0..MaxUint16
  BY <1>3
<1>5. AttributesByID(Attributes16StoreFrom(TryBuildAttrs16(a, prev).rows), p)
        = {<<row.cols.key, row.cols.value>> : row \in {r \in Range(a.rows) : r.parent = p}}
  BY <1>1, <1>4, Attrs16Back, ZenonT(30)
<1> QED
  BY <1>2, <1>5 DEF a, p

\* The attributes of an entity are found under its id.
LEMMA AttrsFound32 ==
  ASSUME NEW n, NEW ids, NEW lists, NEW added, Filed(added, n, ids, lists),
         MaxUint32 \in Nat, \A k \in 1..n : lists[k] # <<>> => ids[k] \in 0..MaxUint32,
         NEW i \in 1..n, \A k \in 1..n : lists[k] # <<>> /\ ids[k] = ids[i] => k = i,
         NEW prev
  PROVE  AttributesByID(
           Attributes32StoreFrom(TryBuildAttrs32(Filled(NewAccumulator, added), prev).rows), ids[i])
           = Named(lists[i])
<1> DEFINE a == Filled(NewAccumulator, added)
           p == ids[i]
<1>1. Accu(a) /\ \A row : row \in Range(a.rows) <=> FiledBy(row, n, ids, lists)
  BY FiledRows
<1>2. {<<row.cols.key, row.cols.value>> : row \in {r \in Range(a.rows) : r.parent = p}}
        = Named(lists[i])
  BY FiledUnder
<1> HIDE DEF a, p
<1>3. ASSUME NEW row \in Range(a.rows) PROVE row.parent \in 0..MaxUint32
  <2>1. PICK k \in 1..n : \E attr \in Named(lists[k]) : row = AttrRow(ids[k], attr)
    BY <1>1 DEF FiledBy
  <2>2. PICK attr \in Named(lists[k]) : row = AttrRow(ids[k], attr)
    BY <2>1
  <2>3. lists[k] # <<>>
    BY <2>2 DEF Named, Range
  <2> QED
    BY <2>2, <2>3 DEF AttrRow
<1>4. \A row \in Range(a.rows) : row.parent \in 0..MaxUint32
  BY <1>3
<1>5. AttributesByID(Attributes32StoreFrom(TryBuildAttrs32(a, prev).rows), p)
        = {<<row.cols.key, row.cols.value>> : row \in {r \in Range(a.rows) : r.parent = p}}
  BY <1>1, <1>4, Attrs32Back, ZenonT(30)
<1> QED
  BY <1>2, <1>5 DEF a, p

\* An id is found again where its row is.
LEMMA SumFinds ==
  ASSUME NEW n \in Nat, NEW ids, DOMAIN ids = 1..n, NEW max \in Nat,
         \A i \in 1..n : ids[i] = Null \/ ids[i] \in 0..max, ~Panics(ids),
         NEW i \in 1..n, ids[i] # Null
  PROVE  /\ Sum(Deltas(ids), DOMAIN Deltas(ids), i, max) = ids[i]
         /\ Deltas(ids)[i] # Null
<1>1. DOMAIN Deltas(ids) = 1..n
  BY DEF Deltas
<1>2. \A j \in 1..n : ids[j] = Null \/ ids[j] \in Nat
  OBVIOUS
<1>3. \A j \in 1..n : j \in DOMAIN Deltas(ids) \/ OrZero(Deltas(ids)[j]) = 0
  BY <1>1
<1>4. i \in 0..n
  OBVIOUS
<1>5. Sum(Deltas(ids), DOMAIN Deltas(ids), i, max) = PrevId(ids, i + 1) % (max + 1)
  BY <1>2, <1>3, <1>4, SumOfDeltas
<1>6. PrevId(ids, i + 1) = ids[i]
  BY PrevIdNext, SMTT(30)
<1>7. PICK x \in 0..max : x = ids[i]
  OBVIOUS
<1>8. x % (max + 1) = x
  <2>1. max + 1 \in Nat \ {0} /\ x \in 0..(max + 1 - 1)
    OBVIOUS
  <2> QED
    BY <2>1, SmallRemainder
<1>9. Deltas(ids)[i] = Step(ids, i)
  BY DEF Deltas
<1>10. ASSUME i = 1 PROVE Deltas(ids)[i] # Null
  <2>1. Deltas(ids)[i] = x
    BY <1>7, <1>9, <1>10 DEF Step
  <2>2. x # Null
    BY DEF Null
  <2> QED
    BY <2>1, <2>2
<1>11. ASSUME i > 1 PROVE Deltas(ids)[i] # Null
  <2>1. PICK y \in 0..1 : y = Step(ids, i)
    BY <1>11 DEF Panics
  <2>2. Deltas(ids)[i] = y
    BY <1>9, <2>1
  <2>3. y # Null
    BY DEF Null
  <2> QED
    BY <2>2, <2>3
<1>12. Deltas(ids)[i] # Null
  BY <1>10, <1>11
<1> QED
  BY <1>5, <1>6, <1>7, <1>8, <1>12

\* Ids are in the width of their column where something refers to the row, else null.
LEMMA SparseIdsType ==
  ASSUME NEW n \in Nat, NEW referred, DOMAIN referred = 1..n, NEW max \in Nat
  PROVE  /\ DOMAIN SparseIds(referred, max) = 1..n
         /\ \A i \in 1..n : /\ referred[i] => SparseIds(referred, max)[i] \in 0..max
                            /\ ~referred[i] => SparseIds(referred, max)[i] = Null
<1> DEFINE b == Subtotals(Referred(referred))
<1>1. SparseIds(referred, max)
        = [i \in 1..n |-> IF referred[i] THEN b[i - 1] % (max + 1) ELSE Null]
  BY DEF SparseIds, Referred
<1>2. b \in [0..n -> Nat]
  BY SparseTotals
<1> HIDE DEF b
<1>3. ASSUME NEW i \in 1..n PROVE b[i - 1] % (max + 1) \in 0..max
  <2>1. PICK x \in Int : x = b[i - 1]
    BY <1>2
  <2>2. max + 1 \in Nat \ {0} /\ max + 1 - 1 = max
    OBVIOUS
  <2>3. x % (max + 1) \in 0..(max + 1 - 1)
    BY <2>2, RemainderType
  <2> QED
    BY <2>1, <2>2, <2>3
<1> QED
  BY <1>1, <1>3

\* Rows with these attributes, some of them referred to.
Refers(rows, referred) ==
  /\ List(rows)
  /\ DOMAIN referred = 1..Len(rows)
  /\ \A k \in 1..Len(rows) : AttrList(rows[k].attrs) /\ (rows[k].attrs # <<>> => referred[k])

\* The attributes of the rows of a record are filed under the ids of the rows.
LEMMA ChildrenFiled ==
  ASSUME NEW rows, NEW referred, Refers(rows, referred), NEW ids, NEW accu
  PROVE  \E added, lists :
           /\ Filed(added, Len(rows), ids, lists)
           /\ lists = [k \in 1..Len(rows) |-> rows[k].attrs]
           /\ AccumulateAttrs(accu, rows, ids) = Filled(NewAccumulator, added)
<1>1. PICK n \in Nat : n = Len(rows)
  BY DEF Refers, List
<1>2. PICK lists : lists = [k \in 1..n |-> rows[k].attrs]
  OBVIOUS
<1>3. PICK added : added = [k \in 1..n |-> AppendWithID(ids[k], lists[k])]
  OBVIOUS
<1>4. Filed(added, n, ids, lists)
  BY <1>1, <1>2, <1>3 DEF Filed, Refers
<1>5. DOMAIN rows = 1..n
  BY <1>1, ListDomain DEF Refers
<1>6. [k \in DOMAIN rows |-> Append32(ids[k], rows[k].attrs)] = added
  BY <1>2, <1>3, <1>5 DEF Append32
<1>7. AccumulateAttrs(accu, rows, ids) = Filled(NewAccumulator, added)
  BY <1>6 DEF AccumulateAttrs, ResetAccumulator
<1> QED
  BY <1>1, <1>2, <1>4, <1>7

\* The attributes of a row of a related record are found again.
LEMMA ChildAttrsFound ==
  ASSUME MaxUint32 \in Nat \ {0},
         NEW rows, NEW referred, Refers(rows, referred),
         NEW ids, ids = SparseIds(referred, MaxUint32), ~Panics(ids),
         NEW accu, NEW prev, NEW i \in 1..Len(rows)
  PROVE  AttributesByDeltaID32(
           Attributes32StoreFrom(TryBuildAttrs32(AccumulateAttrs(accu, rows, ids), prev).rows),
           Deltas(ids), i)
           = Named(rows[i].attrs)
<1> DEFINE store ==
      Attributes32StoreFrom(TryBuildAttrs32(AccumulateAttrs(accu, rows, ids), prev).rows)
<1>1. PICK n \in Nat : n = Len(rows)
  BY DEF Refers, List
<1>2. DOMAIN referred = 1..n
  BY <1>1 DEF Refers
<1>3. /\ DOMAIN ids = 1..n
      /\ \A k \in 1..n : /\ referred[k] => ids[k] \in 0..MaxUint32
                         /\ ~referred[k] => ids[k] = Null
  <2>1. MaxUint32 \in Nat
    OBVIOUS
  <2>2. /\ DOMAIN SparseIds(referred, MaxUint32) = 1..n
        /\ \A k \in 1..n : /\ referred[k] => SparseIds(referred, MaxUint32)[k] \in 0..MaxUint32
                           /\ ~referred[k] => SparseIds(referred, MaxUint32)[k] = Null
    BY <1>2, <2>1, SparseIdsType, ZenonT(30)
  <2> QED
    BY <2>2
<1>4. CASE ~referred[i]
  <2>1. ids[i] = Null
    BY <1>1, <1>3, <1>4
  <2>2. Deltas(ids)[i] = Null
    BY <1>1, <1>3, <2>1 DEF Deltas
  <2>3. rows[i].attrs = <<>>
    BY <1>4 DEF Refers
  <2>4. Named(<<>>) = {}
    BY DEF Named, Range
  <2> QED
    BY <2>2, <2>3, <2>4 DEF AttributesByDeltaID32
<1>5. CASE referred[i]
  <2>1. PICK added, lists :
          /\ Filed(added, Len(rows), ids, lists)
          /\ lists = [k \in 1..Len(rows) |-> rows[k].attrs]
          /\ AccumulateAttrs(accu, rows, ids) = Filled(NewAccumulator, added)
    BY ChildrenFiled
  <2>2. Filed(added, n, ids, lists) /\ \A k \in 1..n : lists[k] = rows[k].attrs
    BY <1>1, <2>1
  <2>3. \A k \in 1..n : lists[k] # <<>> => referred[k]
    BY <1>1, <2>2 DEF Refers
  <2>4. \A k \in 1..n : lists[k] # <<>> => ids[k] \in 0..MaxUint32
    BY <1>3, <2>3
  <2>5. i \in 1..n
    BY <1>1
  <2>6. ASSUME NEW k \in 1..n, lists[k] # <<>>, ids[k] = ids[i] PROVE k = i
    <3>1. referred[k]
      BY <2>3, <2>6
    <3>2. ids[k] \in Int /\ ids[i] \in Int
      BY <1>3, <1>5, <2>5, <3>1
    <3>3. k < i => ids[k] < ids[i]
      BY <1>2, <1>5, <2>5, <3>1, SparseIdsGrow
    <3>4. i < k => ids[i] < ids[k]
      BY <1>2, <1>5, <2>5, <3>1, SparseIdsGrow
    <3> QED
      BY <2>5, <2>6, <3>2, <3>3, <3>4
  <2>7. MaxUint32 \in Nat
    OBVIOUS
  <2>8. AttributesByID(
          Attributes32StoreFrom(TryBuildAttrs32(Filled(NewAccumulator, added), prev).rows), ids[i])
          = Named(lists[i])
    BY <2>2, <2>4, <2>5, <2>6, <2>7, AttrsFound32
  <2>9. AttributesByID(store, ids[i]) = Named(rows[i].attrs)
    BY <2>1, <2>2, <2>5, <2>8
  <2>10. ids[i] # Null
    BY <1>3, <1>5, <2>5 DEF Null
  <2>11. \A k \in 1..n : ids[k] = Null \/ ids[k] \in 0..MaxUint32
    BY <1>3
  <2>12. /\ Sum(Deltas(ids), DOMAIN Deltas(ids), i, MaxUint32) = ids[i]
         /\ Deltas(ids)[i] # Null
    BY <1>3, <2>5, <2>7, <2>10, <2>11, SumFinds, SMTT(30)
  <2> HIDE DEF store
  <2> QED
    BY <2>9, <2>12 DEF AttributesByDeltaID32, AttributesByID32, store
<1> QED
  BY <1>4, <1>5

-----------------------------------------------------------------------------
(***************************************************************************)
(* Lists of lists, and totals of lists in another order.                   *)
(***************************************************************************)

\* FlattenSeq joins one list after the other.
LEMMA FlattenUnfold ==
  ASSUME NEW seqs, Len(seqs) \in Nat, Len(seqs) # 0
  PROVE  \E flatten : /\ FlattenSeq(seqs) = flatten[Len(seqs)]
                      /\ flatten[1] = seqs[1]
                      /\ \A n \in 2..Len(seqs) : flatten[n] = flatten[n - 1] \o seqs[n]
<1> DEFINE Flat(f, n) ==
             f = [i \in 1..n |-> IF i = 1 THEN seqs[i] ELSE f[i - 1] \o seqs[i]]
           G == {n \in 0..Len(seqs) : \E f : Flat(f, n)}
<1>1. 0 \in G
  <2>1. \E f : Flat(f, 0)
    <3>1. Flat([i \in 1..0 |-> 0], 0)
      OBVIOUS
    <3> QED
      BY <3>1
  <2> HIDE DEF Flat
  <2> QED
    BY <2>1
<1>2. ASSUME NEW n \in 1..Len(seqs), n - 1 \in G PROVE n \in G
  <2>1. PICK f : Flat(f, n - 1)
    BY <1>2
  <2> DEFINE g == [i \in 1..n |-> IF i = n /\ n = 1 THEN seqs[1]
                                  ELSE IF i = n THEN f[n - 1] \o seqs[n] ELSE f[i]]
  <2>2. ASSUME NEW i \in 1..n PROVE g[i] = IF i = 1 THEN seqs[i] ELSE g[i - 1] \o seqs[i]
    <3>1. CASE i = 1
      <4>1. n # 1 => f[1] = seqs[1]
        <5>1. n # 1 => 1 \in 1..(n - 1)
          OBVIOUS
        <5> QED
          BY <2>1, <5>1
      <4> QED
        BY <3>1, <4>1
    <3>2. CASE i # 1 /\ i = n
      <4>1. g[i] = f[i - 1] \o seqs[i]
        <5>1. g[i] = f[n - 1] \o seqs[n]
          BY <3>2
        <5> QED
          BY <3>2, <5>1
      <4>11. g[i - 1] = f[i - 1]
        BY <3>2
      <4> QED
        BY <3>2, <4>1, <4>11
    <3>3. CASE i # 1 /\ i # n
      <4>1. g[i] = f[i] /\ g[i - 1] = f[i - 1] /\ i \in 1..(n - 1)
        BY <3>3
      <4>2. f[i] = f[i - 1] \o seqs[i]
        BY <2>1, <3>3, <4>1
      <4> QED
        BY <3>3, <4>1, <4>2
    <3> QED
      BY <3>1, <3>2, <3>3
  <2>3. \E h : Flat(h, n)
    <3>1. Flat(g, n)
      BY <2>2
    <3> QED
      BY <3>1
  <2> HIDE DEF Flat
  <2> QED
    BY <2>3
<1>3. PICK f : Flat(f, Len(seqs))
  <2> HIDE DEF G
  <2>1. 0..Len(seqs) \subseteq G
    BY <1>1, <1>2, Induction
  <2>2. Len(seqs) \in G
    BY <2>1
  <2> QED
    BY <2>2 DEF G
<1> DEFINE flatten == CHOOSE flatten : Flat(flatten, Len(seqs))
<1>4. FlattenSeq(seqs) = flatten[Len(seqs)]
  BY DEF FlattenSeq
<1>5. Flat(flatten, Len(seqs))
  <2> HIDE DEF Flat
  <2> QED
    BY <1>3
<1>6. flatten[1] = seqs[1] /\ \A n \in 2..Len(seqs) : flatten[n] = flatten[n - 1] \o seqs[n]
  <2> HIDE DEF flatten
  <2>1. 1 \in 1..Len(seqs) /\ \A n \in 2..Len(seqs) : n \in 1..Len(seqs) /\ n # 1
    OBVIOUS
  <2> QED
    BY <1>5, <2>1
<1> HIDE DEF flatten
<1> QED
  BY <1>4, <1>6

\* Lists of lists.
Lists2(seqs) == List(seqs) /\ \A i \in 1..Len(seqs) : List(seqs[i])

\* A list of lists, flattened: its length and its elements.
LEMMA FlattenIs ==
  ASSUME NEW seqs, Lists2(seqs)
  PROVE  /\ List(FlattenSeq(seqs))
         /\ Len(FlattenSeq(seqs)) = Subtotals([i \in 1..Len(seqs) |-> Len(seqs[i])])[Len(seqs)]
         /\ \A x : x \in Range(FlattenSeq(seqs))
                     <=> \E i \in 1..Len(seqs) : x \in Range(seqs[i])
<1>1. PICK n \in Nat : n = Len(seqs)
  BY DEF Lists2, List
<1>2. PICK added : added = [i \in 1..n |-> [rows |-> seqs[i], groups |-> 0]]
  OBVIOUS
<1>3. Len(added) = n
  <2>1. DOMAIN added = 1..n
    BY <1>2
  <2> QED
    BY <2>1, LengthOf
<1>4. Adds(added)
  <2>1. List(added)
    BY <1>2, <1>3 DEF List
  <2>2. ASSUME NEW i \in 1..n PROVE Accu(added[i])
    <3>1. List(seqs[i])
      BY <1>1 DEF Lists2
    <3>2. added[i] = [rows |-> seqs[i], groups |-> 0]
      BY <1>2
    <3> QED
      BY <3>1, <3>2 DEF Accu
  <2> QED
    BY <1>3, <2>1, <2>2 DEF Adds
<1>5. FlattenSeq(seqs) = Filled(NewAccumulator, added).rows
  <2>1. CASE n = 0
    <3>1. FlattenSeq(seqs) = seqs
      BY <1>1, <2>1 DEF FlattenSeq
    <3>2. seqs = <<>>
      BY <1>1, <2>1, EmptyList DEF Lists2
    <3>3. PICK filled : Filled(NewAccumulator, added) = filled[Len(added)]
                        /\ filled[0] = NewAccumulator
      BY <1>3, <2>1, FilledUnfold
    <3> QED
      BY <1>3, <2>1, <3>1, <3>2, <3>3 DEF NewAccumulator
  <2>2. CASE n # 0
    <3>1. PICK flatten : /\ FlattenSeq(seqs) = flatten[n]
                         /\ flatten[1] = seqs[1]
                         /\ \A m \in 2..n : flatten[m] = flatten[m - 1] \o seqs[m]
      BY <1>1, <2>2, FlattenUnfold, ZenonT(30)
    <3>2. PICK filled : /\ Filled(NewAccumulator, added) = filled[n]
                        /\ filled[0] = NewAccumulator
                        /\ \A m \in 1..n : filled[m] = Joined(filled[m - 1], added[m])
      BY <1>3, FilledUnfold
    <3> DEFINE G == {m \in 0..n : m # 0 => filled[m].rows = flatten[m]}
    <3>3. 0 \in G
      OBVIOUS
    <3>4. ASSUME NEW m \in 1..n, m - 1 \in G PROVE m \in G
      <4>1. filled[m].rows = filled[m - 1].rows \o seqs[m]
        <5>1. filled[m] = Joined(filled[m - 1], added[m])
          BY <3>2
        <5>2. added[m].rows = seqs[m]
          BY <1>2
        <5>3. Joined(filled[m - 1], added[m]).rows = filled[m - 1].rows \o added[m].rows
          BY DEF Joined
        <5> QED
          BY ONLY <5>1, <5>2, <5>3
      <4>2. CASE m = 1
        <5>1. List(seqs[1])
          BY <1>1, <4>2 DEF Lists2
        <5>2. filled[0].rows = <<>>
          BY <3>2 DEF NewAccumulator
        <5>3. filled[1].rows = seqs[1]
          <6>1. <<>> \o seqs[1] = seqs[1]
            BY <5>1, EmptyJoin
          <6>2. m - 1 = 0
            BY <4>2
          <6>3. filled[1].rows = filled[0].rows \o seqs[1]
            BY <4>1, <4>2, <6>2
          <6> QED
            BY <5>2, <6>1, <6>3
        <5> QED
          BY <3>1, <4>2, <5>3
      <4>3. CASE m # 1
        <5>1. m \in 2..n /\ m - 1 # 0
          BY <4>3
        <5>2. filled[m - 1].rows = flatten[m - 1]
          BY <3>4, <5>1
        <5>3. flatten[m] = flatten[m - 1] \o seqs[m]
          BY <3>1, <5>1
        <5>4. filled[m].rows = flatten[m]
          BY ONLY <4>1, <5>2, <5>3
        <5> QED
          BY <5>4
      <4> QED
        BY <4>2, <4>3
    <3>5. 0..n \subseteq G
      <4> HIDE DEF G
      <4> QED
        BY <3>3, <3>4, Induction
    <3> QED
      BY <2>2, <3>1, <3>2, <3>5
  <2> QED
    BY <2>1, <2>2
<1>6. Lengths(added) = [i \in 1..n |-> Len(seqs[i])]
  BY <1>2, <1>3 DEF Lengths
<1>7. Accu(NewAccumulator) /\ NewAccumulator.rows = <<>>
  BY NewIsAccu
<1>8. /\ List(FlattenSeq(seqs))
      /\ Len(FlattenSeq(seqs)) = Subtotals(Lengths(added))[n]
  <2>1. PICK total : total = Subtotals(Lengths(added))[n]
    OBVIOUS
  <2>2. Len(Filled(NewAccumulator, added).rows) = Len(NewAccumulator.rows) + total
    BY <1>3, <1>4, <1>7, <2>1, FilledIs
  <2>3. total \in Nat
    <3>1. Lengths(added) \in [1..n -> Nat]
      BY <1>3, <1>4, AddsTypes
    <3>2. Subtotals(Lengths(added)) \in [0..n -> Nat]
      BY <3>1, SubtotalsType
    <3> QED
      BY <2>1, <3>2
  <2>4. List(Filled(NewAccumulator, added).rows)
    BY <1>4, <1>7, FilledIs DEF Accu
  <2>5. Len(NewAccumulator.rows) = 0
    BY <1>7, EmptyIsList
  <2> QED
    BY <1>5, <2>1, <2>2, <2>3, <2>4, <2>5
<1>9. ASSUME NEW x PROVE x \in Range(FlattenSeq(seqs)) <=> \E i \in 1..n : x \in Range(seqs[i])
  <2>1. x \in Range(Filled(NewAccumulator, added).rows)
          <=> \/ x \in Range(NewAccumulator.rows)
              \/ \E i \in 1..Len(added) : x \in Range(added[i].rows)
    BY <1>4, <1>7, FilledRange
  <2>2. x \notin Range(NewAccumulator.rows)
    BY <1>7 DEF Range
  <2>3. \A i \in 1..n : added[i].rows = seqs[i]
    BY <1>2
  <2> QED
    BY <1>3, <1>5, <2>1, <2>2, <2>3
<1> QED
  BY <1>1, <1>6, <1>8, <1>9

\* The places of the items of lists of these lengths.
Pairs(values, n) == {p \in (1..n) \X Nat : p[2] \in 1..values[p[1]]}

\* As many pairs as the values add up to.
LEMMA PairsCount ==
  ASSUME NEW n \in Nat, NEW values \in [1..n -> Nat]
  PROVE  /\ IsFiniteSet(Pairs(values, n))
         /\ Cardinality(Pairs(values, n)) = Subtotals(values)[n]
<1> DEFINE b == Subtotals(values)
           P == Pairs(values, n)
           g == [p \in P |-> b[p[1] - 1] + p[2]]
<1>1. /\ b \in [0..n -> Nat] /\ b[0] = 0
      /\ \A i \in 1..n : b[i] = b[i - 1] + values[i]
  BY SubtotalsType
<1>2. \A i \in 0..n : \A j \in 0..n : i <= j => b[i] <= b[j]
  BY SubtotalsGrow
<1>3. \A p \in Nat : p > 0 /\ p <= b[n] => \E i \in 1..n : \E k \in 1..values[i] : p = b[i - 1] + k
  BY PlaceInTotal
<1>4. \A i \in 1..n : values[i] \in Nat
  OBVIOUS
<1> HIDE DEF b
<1>5. \A p \in P : p[1] \in 1..n /\ p[2] \in 1..values[p[1]] /\ p = <<p[1], p[2]>>
  BY DEF Pairs
<1>6. ASSUME NEW i \in 1..n, NEW k \in 1..values[i]
      PROVE  /\ b[i - 1] \in Nat /\ b[i - 1] + k \in 1..b[i] /\ b[i] <= b[n] /\ b[n] \in Nat
             /\ b[i] \in Nat
  <2>1. i \in 0..n /\ n \in 0..n /\ i - 1 \in 0..n /\ i <= n
    OBVIOUS
  <2>2. b[i] <= b[n] /\ b[i] = b[i - 1] + values[i]
    BY <1>1, <1>2, <2>1
  <2>3. b[i - 1] \in Nat /\ b[i] \in Nat /\ b[n] \in Nat
    BY <1>1, <2>1
  <2> QED
    BY <1>4, <2>2, <2>3, SMTT(30)
<1>7. g \in [P -> 1..b[n]]
  <2>1. ASSUME NEW p \in P PROVE b[p[1] - 1] + p[2] \in 1..b[n]
    <3>1. PICK i \in 1..n : i = p[1]
      BY <1>5
    <3>2. PICK k \in 1..values[i] : k = p[2]
      BY <1>5, <3>1
    <3>3. b[i - 1] \in Nat /\ b[i - 1] + k \in 1..b[i] /\ b[i] <= b[n] /\ b[n] \in Nat
          /\ b[i] \in Nat
      BY <1>6
    <3>4. b[i - 1] + k \in 1..b[n]
      BY <3>3, SMTT(30)
    <3> QED
      BY <3>1, <3>2, <3>4
  <2> QED
    BY <2>1
<1>8. ASSUME NEW p \in P, NEW q \in P, g[p] = g[q] PROVE p = q
  <2>1. PICK i \in 1..n : \E k \in 1..values[i] : p = <<i, k>>
    BY <1>5
  <2>11. PICK k \in 1..values[i] : p = <<i, k>>
    BY <2>1
  <2>2. PICK j \in 1..n : \E m \in 1..values[j] : q = <<j, m>>
    BY <1>5
  <2>21. PICK m \in 1..values[j] : q = <<j, m>>
    BY <2>2
  <2>3. b[i - 1] + k = b[j - 1] + m
    BY <1>8, <2>11, <2>21
  <2>4. b[i - 1] \in Nat /\ b[j - 1] \in Nat /\ b[i] \in Nat /\ b[j] \in Nat
        /\ b[i - 1] + k <= b[i] /\ b[j - 1] + m <= b[j]
    BY <1>6
  <2>5. ASSUME i < j PROVE FALSE
    <3>1. i <= j - 1 /\ i \in 0..n /\ j - 1 \in 0..n
      BY <2>5
    <3>2. b[i] <= b[j - 1]
      BY <1>2, <3>1
    <3> QED
      BY <2>3, <2>4, <3>2, SMTT(30)
  <2>6. ASSUME j < i PROVE FALSE
    <3>1. j <= i - 1 /\ j \in 0..n /\ i - 1 \in 0..n
      BY <2>6
    <3>2. b[j] <= b[i - 1]
      BY <1>2, <3>1
    <3> QED
      BY <2>3, <2>4, <3>2, SMTT(30)
  <2>7. i = j
    BY <2>5, <2>6
  <2>8. k = m
    BY <2>3, <2>4, <2>7, SMTT(30)
  <2> QED
    BY <2>11, <2>21, <2>7, <2>8
<1>9. ASSUME NEW t \in 1..b[n] PROVE \E p \in P : g[p] = t
  <2>1. b[n] \in Nat
    BY <1>1
  <2>2. t \in Nat /\ t > 0 /\ t <= b[n]
    BY <2>1
  <2>31. PICK i \in 1..n : \E k \in 1..values[i] : t = b[i - 1] + k
    BY <1>3, <2>2
  <2>3. PICK k \in 1..values[i] : t = b[i - 1] + k
    BY <2>31
  <2>4. <<i, k>> \in P
    BY <1>4, <2>3 DEF Pairs
  <2>5. g[<<i, k>>] = t
    BY <2>3, <2>4
  <2> QED
    BY <2>4, <2>5
<1>10. g \in Injection(P, 1..b[n]) /\ g \in Surjection(P, 1..b[n])
  <2> HIDE DEF g, P
  <2> QED
    BY <1>7, <1>8, <1>9 DEF Injection, IsInjective, Surjection
<1>11. b[n] \in Nat /\ IsFiniteSet(1..b[n]) /\ Cardinality(1..b[n]) = b[n]
  <2>1. PICK m \in Nat : m = b[n]
    BY <1>1
  <2>2. m \in Int /\ 1 \in Int
    OBVIOUS
  <2>3. IsFiniteSet(1..m) /\ Cardinality(1..m) = IF 1 > m THEN 0 ELSE m - 1 + 1
    BY <2>2, FS_Interval
  <2>4. IsFiniteSet(1..m) /\ Cardinality(1..m) = m
    BY <2>3
  <2> QED
    BY <2>1, <2>4
<1>12. IsFiniteSet(P) /\ Cardinality(P) = b[n]
  <2> HIDE DEF g, P
  <2> QED
    BY <1>10, <1>11, FS_Injection
<1> QED
  BY <1>12 DEF b

\* In another order, the total is no larger.
LEMMA PermutedTotal ==
  ASSUME NEW n \in Nat, NEW values \in [1..n -> Nat], NEW order, Permutes(order, n)
  PROVE  Subtotals([k \in 1..n |-> values[order[k]]])[n] <= Subtotals(values)[n]
<1> DEFINE other == [k \in 1..n |-> values[order[k]]]
           g == [p \in Pairs(other, n) |-> <<order[p[1]], p[2]>>]
<1>1. other \in [1..n -> Nat]
  BY DEF Permutes
<1>2. \A p \in Pairs(other, n) : p = <<p[1], p[2]>> /\ p[1] \in 1..n /\ p[2] \in Nat
                                 /\ p[2] \in 1..values[order[p[1]]]
  BY DEF Pairs
<1>3. g \in [Pairs(other, n) -> Pairs(values, n)]
  <2>1. ASSUME NEW p \in Pairs(other, n) PROVE <<order[p[1]], p[2]>> \in Pairs(values, n)
    BY <1>2 DEF Pairs, Permutes
  <2> QED
    BY <2>1
<1>4. ASSUME NEW p \in Pairs(other, n), NEW q \in Pairs(other, n), g[p] = g[q] PROVE p = q
  <2>1. order[p[1]] = order[q[1]] /\ p[2] = q[2]
    BY <1>4
  <2>2. p[1] = q[1]
    <3>1. p[1] \in 1..n /\ q[1] \in 1..n
      BY <1>2
    <3>2. \A i, j \in 1..n : order[i] = order[j] => i = j
      BY DEF Permutes
    <3> QED
      BY ONLY <2>1, <3>1, <3>2
  <2> QED
    BY <1>2, <2>1, <2>2
<1>5. g \in Injection(Pairs(other, n), Pairs(values, n))
  <2> HIDE DEF g, other
  <2> QED
    BY <1>3, <1>4 DEF Injection, IsInjective
<1>6. /\ IsFiniteSet(Pairs(values, n))
      /\ Cardinality(Pairs(values, n)) = Subtotals(values)[n]
  BY PairsCount
<1>7. Cardinality(Pairs(other, n)) = Subtotals(other)[n]
  <2> HIDE DEF other
  <2> QED
    BY <1>1, PairsCount
<1>8. Cardinality(Pairs(other, n)) <= Cardinality(Pairs(values, n))
  <2> HIDE DEF other, g
  <2> QED
    BY <1>5, <1>6, FS_Injection
<1> QED
  BY <1>6, <1>7, <1>8

-----------------------------------------------------------------------------
(***************************************************************************)
(* Groups.                                                                 *)
(***************************************************************************)

\* The rows that one entity adds are one group at most.
LEMMA GroupIs ==
  ASSUME NEW rows, List(rows)
  PROVE  /\ Accu(Group(rows)) /\ Group(rows).rows = rows
         /\ Group(rows).groups \in 0..1 /\ Group(rows).groups <= Len(rows)
<1>1. Group(rows) = [rows |-> rows, groups |-> IF rows = <<>> THEN 0 ELSE 1]
  BY DEF Group
<1>2. Len(rows) \in Nat /\ (rows # <<>> => Len(rows) # 0)
  BY EmptyList DEF List
<1> QED
  BY <1>1, <1>2 DEF Accu

\* As many groups as entities, at most.
LEMMA FilledOnes ==
  ASSUME NEW added, Adds(added), \A i \in 1..Len(added) : added[i].groups \in 0..1
  PROVE  Filled(NewAccumulator, added).groups \in 0..Len(added)
<1>1. PICK n \in Nat : n = Len(added)
  BY AddsTypes
<1>2. GroupCounts(added) \in [1..n -> Nat] /\ \A i \in 1..n : GroupCounts(added)[i] \in 0..1
  BY <1>1, AddsTypes DEF GroupCounts
<1> DEFINE b == Subtotals(GroupCounts(added))
           G == {i \in 0..n : b[i] <= i}
<1>3. /\ b \in [0..n -> Nat] /\ b[0] = 0
      /\ \A i \in 1..n : b[i] = b[i - 1] + GroupCounts(added)[i]
  BY <1>2, SubtotalsType
<1>4. 0..n \subseteq G
  <2>1. 0 \in G
    BY <1>3
  <2>2. ASSUME NEW i \in 1..n, i - 1 \in G PROVE i \in G
    <3>1. b[i] = b[i - 1] + GroupCounts(added)[i] /\ b[i - 1] \in Nat /\ b[i - 1] <= i - 1
      BY <1>3, <2>2
    <3> HIDE DEF b
    <3> QED
      BY <1>2, <3>1, SMTT(30)
  <2> HIDE DEF G
  <2> QED
    BY <2>1, <2>2, Induction
<1>5. b[n] \in Nat /\ b[n] <= n
  BY <1>3, <1>4
<1>6. Filled(NewAccumulator, added).groups = NewAccumulator.groups + b[n]
  BY <1>1, NewIsAccu, FilledIs
<1>7. NewAccumulator.groups = 0
  BY NewIsAccu
<1> HIDE DEF b
<1> QED
  BY <1>1, <1>5, <1>6, <1>7

\* As many groups as rows, at most.
LEMMA FilledFewer ==
  ASSUME NEW a, NEW added, Accu(a), Adds(added), a.groups <= Len(a.rows),
         \A i \in 1..Len(added) : added[i].groups <= Len(added[i].rows)
  PROVE  Filled(a, added).groups <= Len(Filled(a, added).rows)
<1>1. PICK n \in Nat : n = Len(added)
  BY AddsTypes
<1>2. GroupCounts(added) \in [1..n -> Nat] /\ Lengths(added) \in [1..n -> Nat]
  BY <1>1, AddsTypes
<1>3. \A i \in 1..n : GroupCounts(added)[i] <= Lengths(added)[i]
  BY <1>1 DEF GroupCounts, Lengths
<1>4. n \in 0..n
  OBVIOUS
<1>5. Subtotals(GroupCounts(added))[n] <= Subtotals(Lengths(added))[n]
  BY <1>2, <1>3, <1>4, SubtotalsMonotone
<1>6. /\ Filled(a, added).groups = a.groups + Subtotals(GroupCounts(added))[n]
      /\ Len(Filled(a, added).rows) = Len(a.rows) + Subtotals(Lengths(added))[n]
  BY <1>1, FilledIs
<1>7. Subtotals(GroupCounts(added))[n] \in Nat /\ Subtotals(Lengths(added))[n] \in Nat
  <2>1. Subtotals(GroupCounts(added)) \in [0..n -> Nat]
    BY <1>2, SubtotalsType
  <2>2. Subtotals(Lengths(added)) \in [0..n -> Nat]
    BY <1>2, SubtotalsType
  <2> QED
    BY <1>4, <2>1, <2>2
<1>8. a.groups \in Nat /\ Len(a.rows) \in Nat
  BY DEF Accu, List
<1> QED
  BY <1>5, <1>6, <1>7, <1>8

\* Where a run of equal keys starts.
LEMMA HeadStep ==
  ASSUME NEW n \in Nat, NEW keys, DOMAIN keys = 1..n, NEW i \in 1..n
  PROVE  /\ HeadOf(keys, i) \in Heads(keys) /\ HeadOf(keys, i) \in 1..i
         /\ i \in Heads(keys) => HeadOf(keys, i) = i
         /\ i \notin Heads(keys) => i > 1 /\ HeadOf(keys, i) = HeadOf(keys, i - 1)
<1> DEFINE S(k) == {h \in Heads(keys) : h <= k}
<1>1. \A k \in 1..n : S(k) \in SUBSET (0..n) /\ 1 \in S(k)
  BY DEF Heads
<1>2. \A k \in 1..n : HeadOf(keys, k) \in S(k) /\ \A y \in S(k) : HeadOf(keys, k) >= y
  <2>1. ASSUME NEW k \in 1..n PROVE HeadOf(keys, k) \in S(k) /\ \A y \in S(k) : HeadOf(keys, k) >= y
    <3>1. HeadOf(keys, k) = Max(S(k))
      BY DEF HeadOf
    <3>2. PICK T \in SUBSET (0..n) : T = S(k) /\ T # {}
      BY <1>1
    <3>3. Max(T) \in T /\ \A y \in T : Max(T) >= y
      BY <3>2, MaxOf
    <3> QED
      BY <3>1, <3>2, <3>3
  <2> QED
    BY <2>1
<1>3. HeadOf(keys, i) \in Heads(keys) /\ HeadOf(keys, i) \in 1..i
  BY <1>2 DEF Heads
<1>4. ASSUME i \in Heads(keys) PROVE HeadOf(keys, i) = i
  <2>1. i \in S(i)
    BY <1>4
  <2> QED
    BY <1>2, <1>3, <2>1
<1>5. ASSUME i \notin Heads(keys) PROVE i > 1 /\ HeadOf(keys, i) = HeadOf(keys, i - 1)
  <2>1. i > 1 /\ i - 1 \in 1..n
    BY <1>5 DEF Heads
  <2>2. S(i) = S(i - 1)
    BY <1>5, <2>1 DEF Heads
  <2>3. /\ HeadOf(keys, i) \in S(i) /\ \A y \in S(i) : HeadOf(keys, i) >= y
        /\ HeadOf(keys, i - 1) \in S(i - 1) /\ \A y \in S(i - 1) : HeadOf(keys, i - 1) >= y
    BY <1>2, <2>1
  <2>4. HeadOf(keys, i) \in Int /\ HeadOf(keys, i - 1) \in Int
    BY <1>1, <2>1, <2>3 DEF Heads
  <2>5. HeadOf(keys, i) >= HeadOf(keys, i - 1) /\ HeadOf(keys, i - 1) >= HeadOf(keys, i)
    <3> HIDE DEF S
    <3> QED
      BY <2>2, <2>3
  <2> QED
    BY <2>1, <2>4, <2>5
<1> QED
  BY <1>3, <1>4, <1>5

\* Resources or scopes of rows with these keys.
Owners(n, keys, entities) ==
  /\ n \in Nat /\ DOMAIN keys = 1..n /\ DOMAIN entities = 1..n
  /\ \A i \in 1..n : AttrList(entities[i].attrs)

\* The heads that have attributes, and so an id.
Owned(keys, entities) ==
  [i \in DOMAIN keys |-> i \in Heads(keys) /\ entities[i].attrs # <<>>]

\* The groups up to a row count the heads with attributes.
LEMMA GroupsAre ==
  ASSUME NEW n, NEW keys, NEW entities, Owners(n, keys, entities)
  PROVE  /\ Groups(keys, entities) = Subtotals(Referred(Owned(keys, entities)))
         /\ Groups(keys, entities) \in [0..n -> Nat] /\ Groups(keys, entities)[0] = 0
         /\ \A i \in 1..n : Groups(keys, entities)[i] = Groups(keys, entities)[i - 1]
              + (IF i \in Heads(keys) /\ entities[i].attrs # <<>> THEN 1 ELSE 0)
         /\ \A i \in 0..n : Groups(keys, entities)[i] <= i
<1>1. n \in Nat /\ DOMAIN keys = 1..n
  BY DEF Owners
<1>2. PICK owned : owned = Owned(keys, entities)
  OBVIOUS
<1>3. /\ DOMAIN owned = 1..n
      /\ \A i \in 1..n : owned[i] <=> i \in Heads(keys) /\ entities[i].attrs # <<>>
  BY <1>1, <1>2 DEF Owned
<1>4. Referred(owned) = [i \in DOMAIN keys |->
                           IF i \in Heads(keys) /\ entities[i].attrs # <<>> THEN 1 ELSE 0]
  BY <1>1, <1>3 DEF Referred
<1>5. Groups(keys, entities) = Subtotals(Referred(owned))
  BY <1>4 DEF Groups
<1>6. /\ Subtotals(Referred(owned)) \in [0..n -> Nat]
      /\ Subtotals(Referred(owned))[0] = 0
      /\ \A i \in 1..n : Subtotals(Referred(owned))[i]
           = Subtotals(Referred(owned))[i - 1] + (IF owned[i] THEN 1 ELSE 0)
      /\ \A i \in 0..n : Subtotals(Referred(owned))[i] <= i
  BY <1>1, <1>3, SparseTotals
<1> QED
  BY <1>2, <1>3, <1>5, <1>6

\* The id of a row's resource or scope.
LEMMA GroupIdsAre ==
  ASSUME NEW n, NEW keys, NEW entities, Owners(n, keys, entities), NEW i \in 1..n
  PROVE  /\ entities[HeadOf(keys, i)].attrs = <<>> => GroupIds(keys, entities)[i] = Null
         /\ entities[HeadOf(keys, i)].attrs # <<>> =>
              /\ GroupIds(keys, entities)[i] = Groups(keys, entities)[HeadOf(keys, i) - 1]
              /\ GroupIds(keys, entities)[i] \in Nat
              /\ GroupIds(keys, entities)[i] < Groups(keys, entities)[i]
         /\ Groups(keys, entities)[i] = Groups(keys, entities)[HeadOf(keys, i)]
<1>1. n \in Nat /\ DOMAIN keys = 1..n
  BY DEF Owners
<1> DEFINE g == Groups(keys, entities)
           G == {k \in 0..n : k > 0 => g[k] = g[HeadOf(keys, k)]}
<1>2. /\ g \in [0..n -> Nat] /\ g[0] = 0
      /\ \A k \in 1..n : g[k] = g[k - 1]
           + (IF k \in Heads(keys) /\ entities[k].attrs # <<>> THEN 1 ELSE 0)
  BY GroupsAre
<1> HIDE DEF g
<1>3. 0 \in G
  BY <1>1
<1>4. ASSUME NEW k \in 1..n, k - 1 \in G PROVE k \in G
  <2>1. CASE k \in Heads(keys)
    <3>1. HeadOf(keys, k) = k
      BY <1>1, <2>1, HeadStep
    <3> QED
      BY <3>1
  <2>2. CASE k \notin Heads(keys)
    <3>1. k > 1 /\ HeadOf(keys, k) = HeadOf(keys, k - 1)
      BY <1>1, <2>2, HeadStep
    <3>2. g[k] = g[k - 1]
      <4>1. g[k] = g[k - 1] + 0
        BY <1>2, <2>2
      <4>2. k - 1 \in 0..n
        BY <1>1
      <4>3. g[k - 1] \in Nat
        BY <1>2, <4>2
      <4> QED
        BY <4>1, <4>3
    <3>3. g[k - 1] = g[HeadOf(keys, k - 1)]
      BY <1>4, <3>1
    <3> QED
      BY <3>1, <3>2, <3>3
  <2> QED
    BY <2>1, <2>2
<1>5. g[i] = g[HeadOf(keys, i)]
  <2>1. 0..n \subseteq G
    <3> HIDE DEF G
    <3> QED
      BY <1>1, <1>3, <1>4, Induction
  <2> QED
    BY <1>1, <2>1
<1>6. PICK h \in 1..n : h = HeadOf(keys, i) /\ h \in Heads(keys)
  <2>1. HeadOf(keys, i) \in Heads(keys) /\ HeadOf(keys, i) \in 1..i
    BY <1>1, HeadStep
  <2>2. 1..i \subseteq 1..n
    BY <1>1
  <2> QED
    BY <2>1, <2>2
<1>7. GroupIds(keys, entities)[i]
        = IF entities[h].attrs = <<>> THEN Null ELSE g[h - 1]
  BY <1>1, <1>6 DEF GroupIds, AppendedId, g
<1>8. ASSUME entities[h].attrs # <<>>
      PROVE  g[h - 1] \in Nat /\ g[h - 1] < g[i]
  <2>1. g[h] = g[h - 1] + 1
    BY <1>2, <1>6, <1>8
  <2>2. h - 1 \in 0..n
    BY <1>1
  <2>3. g[h - 1] \in Nat
    BY <1>2, <2>2
  <2> QED
    BY <1>5, <1>6, <2>1, <2>3
<1> QED
  BY <1>5, <1>6, <1>7, <1>8 DEF g

\* The last id before a row is that of the last group.
LEMMA GroupPrevId ==
  ASSUME NEW n, NEW keys, NEW entities, Owners(n, keys, entities), NEW i \in 0..n
  PROVE  PrevId(GroupIds(keys, entities), i + 1)
           = IF Groups(keys, entities)[i] = 0 THEN 0 ELSE Groups(keys, entities)[i] - 1
<1>1. n \in Nat /\ DOMAIN keys = 1..n
  BY DEF Owners
<1> DEFINE g == Groups(keys, entities)
           ids == GroupIds(keys, entities)
           G == {k \in 0..n : PrevId(ids, k + 1) = IF g[k] = 0 THEN 0 ELSE g[k] - 1}
<1>2. /\ g \in [0..n -> Nat] /\ g[0] = 0
      /\ \A k \in 1..n : g[k] = g[k - 1]
           + (IF k \in Heads(keys) /\ entities[k].attrs # <<>> THEN 1 ELSE 0)
  BY GroupsAre
<1>3. \A k \in 1..n :
        /\ entities[HeadOf(keys, k)].attrs = <<>> => ids[k] = Null
        /\ entities[HeadOf(keys, k)].attrs # <<>> =>
             ids[k] = g[HeadOf(keys, k) - 1] /\ ids[k] \in Nat
        /\ g[k] = g[HeadOf(keys, k)]
  BY GroupIdsAre
<1> HIDE DEF g, ids
<1>4. 0 \in G
  <2>1. PrevId(ids, 0 + 1) = 0
    BY PrevIdFirst
  <2> QED
    BY <1>1, <1>2, <2>1
<1>5. ASSUME NEW k \in 1..n, k - 1 \in G PROVE k \in G
  <2>1. k \in Nat \ {0}
    BY <1>1
  <2>2. PrevId(ids, k + 1) = IF ids[k] # Null THEN ids[k] ELSE PrevId(ids, k)
    BY <2>1, PrevIdNext
  <2>3. PrevId(ids, k) = IF g[k - 1] = 0 THEN 0 ELSE g[k - 1] - 1
    <3>1. (k - 1) + 1 = k
      BY <2>1
    <3> QED
      BY <1>5, <3>1
  <2>4. PICK h \in 1..n : h = HeadOf(keys, k) /\ h \in Heads(keys)
    <3>1. HeadOf(keys, k) \in Heads(keys) /\ HeadOf(keys, k) \in 1..k
      BY <1>1, HeadStep
    <3>2. 1..k \subseteq 1..n
      BY <1>1
    <3> QED
      BY <3>1, <3>2
  <2>5. PICK a \in Nat, b \in Nat, c \in Nat : a = g[k] /\ b = g[k - 1] /\ c = g[h - 1]
    <3>1. k \in 0..n /\ k - 1 \in 0..n /\ h - 1 \in 0..n
      BY <1>1
    <3> QED
      BY <1>2, <3>1
  <2>6. ASSUME entities[h].attrs # <<>> PROVE PrevId(ids, k + 1) = IF a = 0 THEN 0 ELSE a - 1
    <3>1. ids[k] = c /\ c # Null
      BY <1>3, <2>4, <2>5, <2>6 DEF Null
    <3>2. a = c + 1
      <4>1. g[h] = c + 1
        BY <1>2, <2>4, <2>5, <2>6
      <4> QED
        BY <1>3, <2>4, <2>5, <4>1
    <3> QED
      BY <2>2, <3>1, <3>2
  <2>7. ASSUME entities[h].attrs = <<>> PROVE PrevId(ids, k + 1) = IF a = 0 THEN 0 ELSE a - 1
    <3>1. ids[k] = Null
      BY <1>3, <2>4, <2>7
    <3>2. a = b
      <4>1. ~(k \in Heads(keys) /\ entities[k].attrs # <<>>)
        BY <1>1, <2>4, <2>7, HeadStep
      <4>2. a = b + 0
        BY <1>2, <2>5, <4>1
      <4> QED
        BY <4>2
    <3> QED
      BY <2>2, <2>3, <2>5, <3>1, <3>2
  <2> QED
    BY <1>1, <2>5, <2>6, <2>7
<1>6. 0..n \subseteq G
  <2> HIDE DEF G
  <2> QED
    BY <1>1, <1>4, <1>5, Induction
<1> QED
  BY <1>6 DEF g, ids

\* The column builder never panics over these ids.
LEMMA GroupIdsNeverPanic ==
  ASSUME NEW n, NEW keys, NEW entities, Owners(n, keys, entities)
  PROVE  ~Panics(GroupIds(keys, entities))
<1>1. n \in Nat /\ DOMAIN keys = 1..n
  BY DEF Owners
<1> DEFINE g == Groups(keys, entities)
           ids == GroupIds(keys, entities)
<1>2. /\ g \in [0..n -> Nat] /\ g[0] = 0
      /\ \A k \in 1..n : g[k] = g[k - 1]
           + (IF k \in Heads(keys) /\ entities[k].attrs # <<>> THEN 1 ELSE 0)
  BY GroupsAre
<1>3. \A k \in 1..n :
        /\ entities[HeadOf(keys, k)].attrs = <<>> => ids[k] = Null
        /\ entities[HeadOf(keys, k)].attrs # <<>> =>
             ids[k] = g[HeadOf(keys, k) - 1] /\ ids[k] \in Nat
        /\ g[k] = g[HeadOf(keys, k)]
  BY GroupIdsAre
<1>4. \A k \in 0..n : PrevId(ids, k + 1) = IF g[k] = 0 THEN 0 ELSE g[k] - 1
  BY GroupPrevId
<1>5. DOMAIN ids = 1..n
  BY <1>1 DEF GroupIds
<1> HIDE DEF g, ids
<1>6. ASSUME NEW i \in 1..n, i > 1, ids[i] # Null PROVE Step(ids, i) \in 0..1
  <2>1. PICK h \in 1..n : h = HeadOf(keys, i) /\ h \in Heads(keys)
    <3>1. HeadOf(keys, i) \in Heads(keys) /\ HeadOf(keys, i) \in 1..i
      BY <1>1, HeadStep
    <3>2. 1..i \subseteq 1..n
      BY <1>1
    <3> QED
      BY <3>1, <3>2
  <2>2. PICK a \in Nat, b \in Nat, c \in Nat : a = g[i] /\ b = g[i - 1] /\ c = g[h - 1]
    <3>1. i \in 0..n /\ i - 1 \in 0..n /\ h - 1 \in 0..n
      BY <1>1
    <3> QED
      BY <1>2, <3>1
  <2>3. ids[i] = c /\ a = c + 1
    <3>1. entities[h].attrs # <<>>
      BY <1>3, <1>6, <2>1
    <3>2. g[h] = c + 1
      BY <1>2, <2>1, <2>2, <3>1
    <3> QED
      BY <1>3, <2>1, <2>2, <3>1, <3>2
  <2>4. PrevId(ids, i) = IF b = 0 THEN 0 ELSE b - 1
    <3>1. i - 1 \in 0..n /\ (i - 1) + 1 = i
      BY <1>1
    <3> QED
      BY <1>4, <2>2, <3>1
  <2>5. a = b \/ a = b + 1
    <3>1. a = b + (IF i \in Heads(keys) /\ entities[i].attrs # <<>> THEN 1 ELSE 0)
      BY <1>2, <2>2
    <3> QED
      BY <3>1
  <2>6. Step(ids, i) = c - PrevId(ids, i)
    BY <1>6, <2>3 DEF Step
  <2> QED
    BY <2>3, <2>4, <2>5, <2>6
<1> QED
  BY <1>5, <1>6 DEF Panics, ids

\* The rows of the attributes of resources (or scopes).
GroupedBy(row, keys, entities) ==
  \E h \in Heads(keys) : \E attr \in Range(entities[h].attrs) :
    row = AttrRow(Groups(keys, entities)[h - 1], attr)

\* What the resources or scopes of a batch leave in their accumulator.
LEMMA AccumulateIs ==
  ASSUME NEW n, NEW keys, NEW entities, Owners(n, keys, entities)
  PROVE  /\ Accu(Accumulate(keys, entities))
         /\ Accumulate(keys, entities).groups = Groups(keys, entities)[n]
         /\ \A row : row \in Range(Accumulate(keys, entities).rows)
              <=> GroupedBy(row, keys, entities)
<1>1. n \in Nat /\ DOMAIN keys = 1..n /\ \A i \in 1..n : AttrList(entities[i].attrs)
  BY DEF Owners
<1>2. PICK g : g = Groups(keys, entities)
  OBVIOUS
<1>3. PICK added : added = [i \in 1..n |-> IF i \in Heads(keys)
                                           THEN AppendGroup(g[i - 1], entities[i].attrs)
                                           ELSE NewAccumulator]
  OBVIOUS
<1>4. Accumulate(keys, entities) = Filled(NewAccumulator, added)
  BY <1>1, <1>2, <1>3 DEF Accumulate
<1>5. Len(added) = n
  <2>1. DOMAIN added = 1..n
    BY <1>3
  <2> QED
    BY <1>1, <2>1, LengthOf
<1>6. ASSUME NEW i \in 1..n
      PROVE  /\ Accu(added[i])
             /\ added[i].groups
                  = IF i \in Heads(keys) /\ entities[i].attrs # <<>> THEN 1 ELSE 0
             /\ \A row : row \in Range(added[i].rows)
                  <=> /\ i \in Heads(keys)
                      /\ \E attr \in Range(entities[i].attrs) : row = AttrRow(g[i - 1], attr)
  <2>1. CASE i \in Heads(keys)
    <3>1. PICK p, attrs : p = g[i - 1] /\ attrs = entities[i].attrs
      OBVIOUS
    <3>2. AttrList(attrs)
      BY <1>1, <3>1
    <3>3. /\ Accu(AppendGroup(p, attrs))
          /\ AppendGroup(p, attrs).groups = IF attrs = <<>> THEN 0 ELSE 1
          /\ \A row : row \in Range(AppendGroup(p, attrs).rows)
               <=> \E attr \in Range(attrs) : row = AttrRow(p, attr)
      <4>1. Accu(AppendGroup(p, attrs))
        BY <3>2, AppendGroupIs
      <4>2. AppendGroup(p, attrs).groups = IF attrs = <<>> THEN 0 ELSE 1
        BY <3>2, AppendGroupIs
      <4>3. \A row : row \in Range(AppendGroup(p, attrs).rows)
                       <=> \E attr \in Range(attrs) : row = AttrRow(p, attr)
        BY ONLY <3>2, AppendGroupIs
      <4> QED
        BY <4>1, <4>2, <4>3
    <3>4. added[i] = AppendGroup(p, attrs)
      BY <1>3, <2>1, <3>1
    <3> QED
      BY <2>1, <3>1, <3>3, <3>4
  <2>2. CASE i \notin Heads(keys)
    <3>1. added[i] = NewAccumulator
      BY <1>3, <2>2
    <3>2. Accu(NewAccumulator) /\ NewAccumulator.rows = <<>> /\ NewAccumulator.groups = 0
      BY NewIsAccu
    <3>3. \A row : row \notin Range(<<>>)
      BY DEF Range
    <3> QED
      BY <2>2, <3>1, <3>2, <3>3
  <2> QED
    BY <2>1, <2>2
<1>7. Adds(added)
  <2>1. List(added)
    BY <1>1, <1>3, <1>5 DEF List
  <2> QED
    BY <1>5, <1>6, <2>1 DEF Adds
<1>8. Accu(NewAccumulator) /\ NewAccumulator.rows = <<>> /\ NewAccumulator.groups = 0
  BY NewIsAccu
<1>9. GroupCounts(added) = Referred(Owned(keys, entities))
  <2>1. Referred(Owned(keys, entities)) = [i \in 1..n |->
          IF i \in Heads(keys) /\ entities[i].attrs # <<>> THEN 1 ELSE 0]
    <3>1. DOMAIN Owned(keys, entities) = 1..n
          /\ \A i \in 1..n :
                Owned(keys, entities)[i] <=> i \in Heads(keys) /\ entities[i].attrs # <<>>
      BY <1>1 DEF Owned
    <3> QED
      BY <3>1 DEF Referred
  <2>2. GroupCounts(added) = [i \in 1..n |-> added[i].groups]
    BY <1>5 DEF GroupCounts
  <2> QED
    BY <1>6, <2>1, <2>2
<1>10. Filled(NewAccumulator, added).groups = g[n]
  <2>1. Filled(NewAccumulator, added).groups = 0 + Subtotals(GroupCounts(added))[n]
    BY <1>5, <1>7, <1>8, FilledIs
  <2>2. g = Subtotals(GroupCounts(added)) /\ g \in [0..n -> Nat]
    BY <1>2, <1>9, GroupsAre
  <2>3. g[n] \in Nat
    BY <1>1, <2>2
  <2> QED
    BY <2>1, <2>2, <2>3
<1>11. Accu(Filled(NewAccumulator, added))
  BY <1>7, <1>8, FilledIs
<1>12. ASSUME NEW row
       PROVE  row \in Range(Filled(NewAccumulator, added).rows) <=> GroupedBy(row, keys, entities)
  <2>1. row \in Range(Filled(NewAccumulator, added).rows)
          <=> \/ row \in Range(NewAccumulator.rows)
              \/ \E i \in 1..n : row \in Range(added[i].rows)
    BY <1>5, <1>7, <1>8, FilledRange
  <2>2. row \notin Range(NewAccumulator.rows)
    BY <1>8 DEF Range
  <2>3. Heads(keys) \subseteq 1..n
    BY <1>1 DEF Heads
  <2>4. ASSUME NEW i \in 1..n
        PROVE  row \in Range(added[i].rows)
                 <=> /\ i \in Heads(keys)
                     /\ \E attr \in Range(entities[i].attrs) : row = AttrRow(g[i - 1], attr)
    BY <1>6
  <2>5. GroupedBy(row, keys, entities)
          <=> \E i \in Heads(keys) : \E attr \in Range(entities[i].attrs) :
                row = AttrRow(g[i - 1], attr)
    BY <1>2 DEF GroupedBy
  <2>6. (\E i \in 1..n : row \in Range(added[i].rows))
          <=> \E i \in Heads(keys) : \E attr \in Range(entities[i].attrs) :
                row = AttrRow(g[i - 1], attr)
    BY <2>3, <2>4
  <2> QED
    BY <2>1, <2>2, <2>5, <2>6
<1> QED
  BY <1>2, <1>4, <1>10, <1>11, <1>12

-----------------------------------------------------------------------------
(***************************************************************************)
(* Lists of rows, one after the other.                                     *)
(***************************************************************************)

\* The totals of a list and of its continuation.
LEMMA TotalSplit ==
  ASSUME NEW n \in Nat, NEW values \in [1..n -> Nat], NEW a \in Nat, NEW m \in Nat,
         a + m <= n, NEW tail \in [1..m -> Nat], \A k \in 1..m : tail[k] = values[a + k]
  PROVE  Subtotals(values)[a + m] = Subtotals(values)[a] + Subtotals(tail)[m]
<1>1. \A k \in 1..m : a + k \in 1..n
  OBVIOUS
<1>2. tail \in [1..m -> Nat]
  OBVIOUS
<1> DEFINE b == Subtotals(values)
           c == Subtotals(tail)
           G == {k \in 0..m : b[a + k] = b[a] + c[k]}
<1>3. /\ b \in [0..n -> Nat]
      /\ \A i \in 1..n : b[i] = b[i - 1] + values[i]
  BY SubtotalsType
<1>4. /\ c \in [0..m -> Nat] /\ c[0] = 0
      /\ \A k \in 1..m : c[k] = c[k - 1] + tail[k]
  BY <1>2, SubtotalsType
<1> HIDE DEF b, c
<1>5. 0 \in G
  <2>1. a \in 0..n /\ a + 0 = a
    OBVIOUS
  <2>2. b[a] \in Nat
    BY <1>3, <2>1
  <2> QED
    BY <1>4, <2>1, <2>2
<1>6. ASSUME NEW k \in 1..m, k - 1 \in G PROVE k \in G
  <2>1. a + k \in 1..n /\ (a + k) - 1 = a + (k - 1) /\ k \in 0..m /\ k - 1 \in 0..m /\ a \in 0..n
    BY <1>1
  <2>2. b[a + k] = b[a + (k - 1)] + values[a + k]
    <3>1. b[a + k] = b[(a + k) - 1] + values[a + k]
      BY <1>3, <2>1
    <3> QED
      BY <2>1, <3>1
  <2>3. b[a + (k - 1)] = b[a] + c[k - 1]
    BY <1>6
  <2>4. c[k] = c[k - 1] + values[a + k]
    BY <1>4
  <2>5. PICK x \in Nat, y \in Nat, z \in Nat : x = b[a] /\ y = c[k - 1] /\ z = values[a + k]
    BY <1>3, <1>4, <2>1
  <2>6. b[a + k] = b[a] + c[k]
    <3>1. b[a + (k - 1)] = x + y
      BY <2>3, <2>5
    <3>2. b[a + k] = (x + y) + z
      BY <2>2, <2>5, <3>1
    <3>3. c[k] = y + z
      BY <2>4, <2>5
    <3>4. (x + y) + z = x + (y + z)
      OBVIOUS
    <3> QED
      BY <2>5, <3>2, <3>3, <3>4
  <2> QED
    BY <2>1, <2>6
<1>7. m \in G
  <2> HIDE DEF G
  <2>1. 0..m \subseteq G
    BY <1>5, <1>6, Induction
  <2> QED
    BY <2>1
<1> QED
  BY <1>7 DEF b, c

\* The total of all is the total of the totals of the lists.
LEMMA TotalOfTotals ==
  ASSUME NEW n \in Nat, NEW lens \in [1..n -> Nat],
         NEW values \in [1..Subtotals(lens)[n] -> Nat], NEW totals \in [1..n -> Nat],
         \A i \in 1..n :
           Subtotals([k \in 1..lens[i] |-> values[Subtotals(lens)[i - 1] + k]])[lens[i]]
             <= totals[i]
  PROVE  Subtotals(values)[Subtotals(lens)[n]] <= Subtotals(totals)[n]
<1> DEFINE b == Subtotals(lens)
           v == Subtotals(values)
           t == Subtotals(totals)
           G == {i \in 0..n : v[b[i]] <= t[i]}
           ValuesOf(i) == [k \in 1..lens[i] |-> values[b[i - 1] + k]]
<1>1. /\ b \in [0..n -> Nat] /\ b[0] = 0
      /\ \A i \in 1..n : b[i] = b[i - 1] + lens[i]
  BY SubtotalsType
<1>2. \A i \in 0..n : b[i] <= b[n]
  <2>1. ASSUME NEW i \in 0..n PROVE b[i] <= b[n]
    <3>1. n \in 0..n /\ i <= n
      OBVIOUS
    <3> QED
      BY <3>1, SubtotalsGrow
  <2> QED
    BY <2>1
<1>3. PICK total \in Nat : total = b[n]
  BY <1>1
<1>4. values \in [1..total -> Nat]
  BY <1>3
<1>5. v \in [0..total -> Nat] /\ v[0] = 0
  BY <1>4, SubtotalsType
<1>6. /\ t \in [0..n -> Nat] /\ t[0] = 0
      /\ \A i \in 1..n : t[i] = t[i - 1] + totals[i]
  BY SubtotalsType
<1>7. \A i \in 1..n : Subtotals(ValuesOf(i))[lens[i]] <= totals[i]
  OBVIOUS
<1> HIDE DEF b, t
<1>8. 0 \in G
  BY <1>1, <1>5, <1>6
<1>9. ASSUME NEW i \in 1..n, i - 1 \in G PROVE i \in G
  <2>1. i \in 0..n /\ i - 1 \in 0..n
    OBVIOUS
  <2>2. PICK x \in Nat, m \in Nat : x = b[i - 1] /\ m = lens[i]
    BY <1>1, <2>1
  <2>3. b[i] = x + m /\ x + m <= total
    BY <1>1, <1>2, <1>3, <2>1, <2>2
  <2>4. PICK tail : tail = [k \in 1..m |-> values[x + k]]
    OBVIOUS
  <2>5. /\ tail \in [1..m -> Nat]
        /\ Subtotals(values)[x + m] = Subtotals(values)[x] + Subtotals(tail)[m]
    <3>1. x + m <= total
      BY <2>3
    <3>2. tail \in [1..m -> Nat]
      <4>1. \A k \in 1..m : x + k \in 1..total
        BY <3>1
      <4> QED
        BY <1>4, <2>4, <4>1
    <3>4. \A k \in 1..m : tail[k] = values[x + k]
      BY <2>4
    <3>3. Subtotals(values)[x + m] = Subtotals(values)[x] + Subtotals(tail)[m]
      BY <1>4, <3>1, <3>2, <3>4, TotalSplit, ZenonT(60)
    <3> QED
      BY <3>2, <3>3
  <2>6. Subtotals(tail)[m] <= totals[i]
    BY <1>7, <2>2, <2>4
  <2>7. Subtotals(tail) \in [0..m -> Nat]
    BY <2>5, SubtotalsType
  <2>8. PICK p \in Nat, q \in Nat, r \in Nat, s \in Nat, w \in Nat :
          /\ p = v[x] /\ q = Subtotals(tail)[m] /\ r = t[i - 1] /\ s = totals[i] /\ w = v[x + m]
    <3>1. x \in 0..total /\ x + m \in 0..total /\ m \in 0..m
      BY <2>3
    <3>2. v[x] \in Nat /\ v[x + m] \in Nat /\ Subtotals(tail)[m] \in Nat
      BY <1>5, <2>7, <3>1
    <3>3. t[i - 1] \in Nat /\ totals[i] \in Nat
      BY <1>6, <2>1
    <3> QED
      BY <3>2, <3>3
  <2>9. w = p + q /\ q <= s /\ p <= r /\ t[i] = r + s
    BY <1>6, <1>9, <2>2, <2>5, <2>6, <2>8
  <2>10. v[b[i]] <= t[i]
    <3>1. v[b[i]] = w
      BY <2>3, <2>8
    <3>2. w <= r + s
      BY <2>9
    <3> QED
      BY <2>9, <3>1, <3>2
  <2> QED
    BY <2>1, <2>10
<1>10. n \in G
  <2> HIDE DEF G
  <2>1. 0..n \subseteq G
    BY <1>8, <1>9, Induction
  <2> QED
    BY <2>1
<1> QED
  BY <1>10 DEF b, t

\* An accumulator to which each of n entities added a list of rows.
Adding(added, n, lists) ==
  /\ Adds(added) /\ Len(added) = n
  /\ \A i \in 1..n : /\ added[i].rows = lists[i]
                     /\ added[i].groups \in 0..1 /\ added[i].groups <= Len(lists[i])

\* The accumulator was new and got these lists of rows.
Collected(a, n, lists) ==
  \E added : Adding(added, n, lists) /\ a = Filled(NewAccumulator, added)

\* Their lengths.
LensOf(n, lists) == [i \in 1..n |-> Len(lists[i])]

\* A row of one of them.
Among(row, n, lists) == \E i \in 1..n : row \in Range(lists[i])

\* The rows of each list follow those of the lists before.
Laid(a, n, lists) ==
  \A i \in 1..n : \A k \in 1..Len(lists[i]) :
    a.rows[Subtotals(LensOf(n, lists))[i - 1] + k] = lists[i][k]

\* An accumulator that was filled from lists holds these, one after the other.
LEMMA CollectedIs ==
  ASSUME NEW a, NEW n, NEW lists, Collected(a, n, lists)
  PROVE  /\ n \in Nat /\ LensOf(n, lists) \in [1..n -> Nat]
         /\ \A i \in 1..n : List(lists[i])
         /\ Accu(a) /\ a.groups <= n /\ a.groups <= Len(a.rows)
         /\ Len(a.rows) = Subtotals(LensOf(n, lists))[n]
         /\ Laid(a, n, lists)
         /\ \A row : row \in Range(a.rows) <=> Among(row, n, lists)
<1>1. PICK added : Adding(added, n, lists) /\ a = Filled(NewAccumulator, added)
  BY DEF Collected
<1>2. /\ Adds(added) /\ Len(added) = n
      /\ \A i \in 1..n : /\ added[i].rows = lists[i]
                         /\ added[i].groups \in 0..1 /\ added[i].groups <= Len(lists[i])
  BY <1>1 DEF Adding
<1>3. n \in Nat /\ Lengths(added) \in [1..n -> Nat]
  BY <1>2, AddsTypes
<1>4. Lengths(added) = LensOf(n, lists)
  BY <1>2 DEF Lengths, LensOf
<1>5. \A i \in 1..n : List(lists[i])
  BY <1>2 DEF Adds, Accu
<1>6. Accu(NewAccumulator) /\ NewAccumulator.rows = <<>> /\ NewAccumulator.groups = 0
  BY NewIsAccu
<1>7. Len(NewAccumulator.rows) = 0
  BY <1>6, EmptyIsList
<1>8. Accu(a)
  BY <1>1, <1>2, <1>6, FilledIs
<1>9. a.groups <= n
  <2>1. \A i \in 1..Len(added) : added[i].groups \in 0..1
    BY <1>2
  <2>2. Filled(NewAccumulator, added).groups \in 0..Len(added)
    BY <1>2, <2>1, FilledOnes
  <2> QED
    BY <1>1, <1>2, <1>3, <2>2
<1>10. a.groups <= Len(a.rows)
  <2>1. \A i \in 1..Len(added) : added[i].groups <= Len(added[i].rows)
    BY <1>2
  <2>2. NewAccumulator.groups <= Len(NewAccumulator.rows)
    BY <1>6, <1>7
  <2> QED
    BY <1>1, <1>2, <1>6, <2>1, <2>2, FilledFewer
<1>11. PICK b : b = Subtotals(LensOf(n, lists)) /\ b \in [0..n -> Nat]
  BY <1>3, <1>4, SubtotalsType
<1>12. Len(a.rows) = b[n]
  <2>1. Len(Filled(NewAccumulator, added).rows) = Len(NewAccumulator.rows) + b[n]
    BY <1>2, <1>4, <1>6, <1>11, FilledIs
  <2>2. b[n] \in Nat
    BY <1>3, <1>11
  <2> QED
    BY <1>1, <1>7, <2>1, <2>2
<1>13. ASSUME NEW i \in 1..n, NEW k \in 1..Len(lists[i])
       PROVE  a.rows[b[i - 1] + k] = lists[i][k]
  <2>1. Filled(NewAccumulator, added).rows
          [Len(NewAccumulator.rows) + Subtotals(Lengths(added))[i - 1] + k]
          = added[i].rows[k]
    <3>1. i \in 1..Len(added) /\ k \in 1..Len(added[i].rows)
      BY <1>2
    <3> QED
      BY <1>2, <1>6, <3>1, FilledIs, SMTT(30)
  <2>2. i - 1 \in 0..n
    BY <1>3
  <2>3. PICK x \in Nat : x = b[i - 1]
    BY <1>11, <2>2
  <2>4. 0 + x + k = x + k
    BY <1>5 DEF List
  <2> QED
    BY <1>1, <1>2, <1>4, <1>7, <1>11, <2>1, <2>3, <2>4
<1>14. ASSUME NEW row
       PROVE  row \in Range(a.rows) <=> \E i \in 1..n : row \in Range(lists[i])
  <2>1. row \in Range(Filled(NewAccumulator, added).rows)
          <=> \/ row \in Range(NewAccumulator.rows)
              \/ \E i \in 1..Len(added) : row \in Range(added[i].rows)
    BY <1>2, <1>6, FilledRange
  <2>2. row \notin Range(NewAccumulator.rows)
    BY <1>6 DEF Range
  <2> QED
    BY <1>1, <1>2, <2>1, <2>2
<1>15. Laid(a, n, lists)
  BY <1>11, <1>13 DEF Laid
<1> QED
  BY <1>3, <1>4, <1>5, <1>8, <1>9, <1>10, <1>11, <1>12, <1>14, <1>15 DEF Among

\* What changes at heads only is at a row what it is at its head.
LEMMA SameAsHead ==
  ASSUME NEW n \in Nat, NEW keys, DOMAIN keys = 1..n, NEW values,
         \A j \in 2..n : j \notin Heads(keys) => values[j] = values[j - 1],
         NEW i \in 1..n
  PROVE  values[HeadOf(keys, i)] = values[i]
<1> DEFINE G == {j \in 0..n : j > 0 => values[HeadOf(keys, j)] = values[j]}
<1>1. 0 \in G
  OBVIOUS
<1>2. ASSUME NEW j \in 1..n, j - 1 \in G PROVE j \in G
  <2>1. CASE j \in Heads(keys)
    BY <2>1, HeadStep
  <2>2. CASE j \notin Heads(keys)
    <3>1. j > 1 /\ HeadOf(keys, j) = HeadOf(keys, j - 1)
      BY <2>2, HeadStep
    <3>2. values[j] = values[j - 1]
      BY <2>2, <3>1
    <3> QED
      BY <1>2, <3>1, <3>2
  <2> QED
    BY <2>1, <2>2
<1>3. 0..n \subseteq G
  <2> HIDE DEF G
  <2> QED
    BY <1>1, <1>2, Induction
<1> QED
  BY <1>3

\* Two heads with attributes have different groups.
LEMMA GroupsDiffer ==
  ASSUME NEW n, NEW keys, NEW entities, Owners(n, keys, entities),
         NEW h \in Heads(keys), NEW k \in Heads(keys),
         entities[h].attrs # <<>>, entities[k].attrs # <<>>,
         Groups(keys, entities)[h - 1] = Groups(keys, entities)[k - 1]
  PROVE  h = k
<1>1. n \in Nat /\ DOMAIN keys = 1..n
  BY DEF Owners
<1>2. h \in 1..n /\ k \in 1..n
  BY <1>1 DEF Heads
<1> DEFINE g == Groups(keys, entities)
<1>3. /\ g = Subtotals(Referred(Owned(keys, entities))) /\ g \in [0..n -> Nat]
      /\ \A i \in 1..n : g[i] = g[i - 1]
           + (IF i \in Heads(keys) /\ entities[i].attrs # <<>> THEN 1 ELSE 0)
  BY GroupsAre
<1>4. Referred(Owned(keys, entities)) \in [1..n -> Nat]
  BY <1>1 DEF Referred, Owned
<1>5. ASSUME NEW a \in 1..n, NEW b \in 1..n, a < b,
             a \in Heads(keys), entities[a].attrs # <<>>, g[a - 1] = g[b - 1]
      PROVE  FALSE
  <2>1. a \in 0..n /\ b - 1 \in 0..n /\ a <= b - 1 /\ a - 1 \in 0..n
    BY <1>1, <1>5
  <2>2. g[a] <= g[b - 1]
    BY <1>1, <1>3, <1>4, <2>1, SubtotalsGrow
  <2>3. g[a] = g[a - 1] + 1
    BY <1>3, <1>5
  <2>4. g[a - 1] \in Nat
    BY <1>3, <2>1
  <2> QED
    BY <1>5, <2>2, <2>3, <2>4
<1> HIDE DEF g
<1>6. g[h - 1] = g[k - 1]
  BY DEF g
<1> QED
  BY <1>2, <1>5, <1>6

\* The attributes of a resource or scope are found under its group.
LEMMA GroupFound ==
  ASSUME NEW n, NEW keys, NEW entities, Owners(n, keys, entities), MaxUint16 \in Nat,
         Groups(keys, entities)[n] <= MaxUint16,
         NEW h \in Heads(keys), entities[h].attrs # <<>>, NEW prev
  PROVE  AttributesByID(
           Attributes16StoreFrom(TryBuildAttrs16(Accumulate(keys, entities), prev).rows),
           Groups(keys, entities)[h - 1])
           = Range(entities[h].attrs)
<1> DEFINE a == Accumulate(keys, entities)
           g == Groups(keys, entities)
           p == g[h - 1]
           Pair(row) == <<row.cols.key, row.cols.value>>
<1>1. n \in Nat /\ DOMAIN keys = 1..n /\ \A i \in 1..n : AttrList(entities[i].attrs)
  BY DEF Owners
<1>2. Accu(a) /\ \A row : row \in Range(a.rows) <=> GroupedBy(row, keys, entities)
  BY AccumulateIs
<1>3. /\ g = Subtotals(Referred(Owned(keys, entities))) /\ g \in [0..n -> Nat]
      /\ \A i \in 1..n : g[i] = g[i - 1]
           + (IF i \in Heads(keys) /\ entities[i].attrs # <<>> THEN 1 ELSE 0)
  BY GroupsAre
<1>4. Referred(Owned(keys, entities)) \in [1..n -> Nat]
  BY <1>1 DEF Referred, Owned
<1>5. ASSUME NEW k \in Heads(keys), NEW attr \in Range(entities[k].attrs)
      PROVE  /\ AttrRow(g[k - 1], attr).parent = g[k - 1]
             /\ Pair(AttrRow(g[k - 1], attr)) = attr
             /\ entities[k].attrs # <<>> /\ k \in 1..n
  <2>1. k \in 1..n
    BY <1>1 DEF Heads
  <2>2. attr = <<attr[1], attr[2]>>
    BY <1>1, <2>1 DEF AttrList
  <2>3. entities[k].attrs # <<>>
    BY DEF Range
  <2> QED
    BY <2>1, <2>2, <2>3 DEF AttrRow
<1>6. ASSUME NEW row \in Range(a.rows) PROVE row.parent \in 0..MaxUint16
  <2>1. PICK k \in Heads(keys) : \E attr \in Range(entities[k].attrs) :
                                   row = AttrRow(Groups(keys, entities)[k - 1], attr)
    BY <1>2 DEF GroupedBy
  <2>2. PICK attr \in Range(entities[k].attrs) : row = AttrRow(g[k - 1], attr)
    BY <2>1
  <2>3. row.parent = g[k - 1] /\ entities[k].attrs # <<>> /\ k \in 1..n
    BY <1>5, <2>2
  <2>4. k - 1 \in 0..n /\ k \in 0..n /\ n \in 0..n /\ k <= n
    BY <1>1, <2>3
  <2>5. g[k] = g[k - 1] + 1
    BY <1>3, <2>3
  <2>6. g[k] <= g[n]
    BY <1>1, <1>3, <1>4, <2>4, SubtotalsGrow
  <2>7. PICK x \in Nat, y \in Nat : x = g[k - 1] /\ y = g[n]
    BY <1>3, <2>4
  <2>8. x + 1 <= y /\ y <= MaxUint16
    BY <2>5, <2>6, <2>7
  <2> QED
    BY <2>3, <2>7, <2>8
<1>7. ASSUME NEW row \in Range(a.rows), row.parent = p
      PROVE  Pair(row) \in Range(entities[h].attrs)
  <2>1. PICK k \in Heads(keys) : \E attr \in Range(entities[k].attrs) :
                                   row = AttrRow(Groups(keys, entities)[k - 1], attr)
    BY <1>2 DEF GroupedBy
  <2>2. PICK attr \in Range(entities[k].attrs) : row = AttrRow(g[k - 1], attr)
    BY <2>1
  <2>3. row.parent = g[k - 1] /\ Pair(row) = attr /\ entities[k].attrs # <<>>
    BY <1>5, <2>2
  <2>4. k = h
    BY <1>7, <2>3, GroupsDiffer
  <2> QED
    BY <2>3, <2>4
<1>8. ASSUME NEW attr \in Range(entities[h].attrs)
      PROVE  \E row \in Range(a.rows) : row.parent = p /\ attr = Pair(row)
  <2>1. AttrRow(g[h - 1], attr) \in Range(a.rows)
    BY <1>2 DEF GroupedBy
  <2> QED
    BY <1>5, <2>1
<1> HIDE DEF a, g, p, Pair
<1>9. {Pair(row) : row \in {r \in Range(a.rows) : r.parent = p}} = Range(entities[h].attrs)
  BY <1>7, <1>8
<1>10. \A row \in Range(a.rows) : row.parent \in 0..MaxUint16
  BY <1>6
<1>11. AttributesByID(Attributes16StoreFrom(TryBuildAttrs16(a, prev).rows), p)
        = {<<row.cols.key, row.cols.value>> : row \in {r \in Range(a.rows) : r.parent = p}}
  BY <1>2, <1>10, Attrs16Back, ZenonT(30)
<1> QED
  BY <1>9, <1>11 DEF a, g, p, Pair

\* The differences of the ids of resources (or scopes) tell where another begins,
\* if all have attributes, or there is only one.
LEMMA GroupDeltas ==
  ASSUME NEW n, NEW keys, NEW entities, Owners(n, keys, entities),
         NEW begins \in SUBSET (2..n),
         \A i \in 2..n : i \notin begins =>
           keys[i] = keys[i - 1] /\ entities[i] = entities[i - 1],
         \A i \in begins : keys[i] # keys[i - 1],
         begins = {} \/ \A i \in 1..n : entities[i].attrs # <<>>,
         NEW i \in 1..n
  PROVE  OrZero(Deltas(GroupIds(keys, entities))[i]) = IF i \in begins THEN 1 ELSE 0
<1>1. n \in Nat /\ DOMAIN keys = 1..n
  BY DEF Owners
<1> DEFINE g == Groups(keys, entities)
           ids == GroupIds(keys, entities)
<1>2. /\ g \in [0..n -> Nat] /\ g[0] = 0
      /\ \A k \in 1..n : g[k] = g[k - 1]
           + (IF k \in Heads(keys) /\ entities[k].attrs # <<>> THEN 1 ELSE 0)
  BY GroupsAre
<1>3. \A k \in 1..n :
        /\ entities[HeadOf(keys, k)].attrs = <<>> => ids[k] = Null
        /\ entities[HeadOf(keys, k)].attrs # <<>> =>
             /\ ids[k] = g[HeadOf(keys, k) - 1] /\ ids[k] \in Nat
             /\ ids[k] < g[k]
        /\ g[k] = g[HeadOf(keys, k)]
  BY GroupIdsAre
<1>4. \A k \in 0..n : PrevId(ids, k + 1) = IF g[k] = 0 THEN 0 ELSE g[k] - 1
  BY GroupPrevId
<1>5. DOMAIN ids = 1..n
  BY <1>1 DEF GroupIds
<1> HIDE DEF g, ids
<1>6. \A k \in 2..n : k \in Heads(keys) <=> k \in begins
  BY <1>1 DEF Heads
<1>7. \A k \in 1..n : entities[HeadOf(keys, k)] = entities[k]
  <2>1. \A k \in 2..n : k \notin Heads(keys) => entities[k] = entities[k - 1]
    BY <1>6
  <2> QED
    BY <1>1, <2>1, SameAsHead
<1>8. CASE entities[i].attrs = <<>>
  <2>1. ids[i] = Null
    BY <1>3, <1>7, <1>8
  <2>2. Deltas(ids)[i] = Null
    BY <1>5, <2>1 DEF Deltas
  <2>3. i \notin begins
    BY <1>8
  <2> QED
    BY <2>2, <2>3 DEF OrZero, ids
<1>9. CASE entities[i].attrs # <<>>
  <2>1. PICK h \in 1..n : h = HeadOf(keys, i) /\ h \in Heads(keys)
    <3>1. HeadOf(keys, i) \in Heads(keys) /\ HeadOf(keys, i) \in 1..i
      BY <1>1, HeadStep
    <3>2. 1..i \subseteq 1..n
      BY <1>1
    <3> QED
      BY <3>1, <3>2
  <2>2. entities[h].attrs # <<>>
    BY <1>7, <1>9, <2>1
  <2>3. PICK a \in Nat, b \in Nat, c \in Nat : a = g[i] /\ b = g[i - 1] /\ c = g[h - 1]
    <3>1. i \in 0..n /\ i - 1 \in 0..n /\ h - 1 \in 0..n
      BY <1>1
    <3> QED
      BY <1>2, <3>1
  <2>4. ids[i] = c /\ a = c + 1
    <3>1. g[h] = c + 1
      BY <1>2, <2>1, <2>2, <2>3
    <3> QED
      BY <1>3, <2>1, <2>2, <2>3, <3>1
  <2>5. ids[i] # Null
    BY <2>4 DEF Null
  <2>6. Deltas(ids)[i] = Step(ids, i)
    BY <1>5, <2>5 DEF Deltas
  <2>7. CASE i = 1
    <3>1. h = 1
      <4>1. HeadOf(keys, i) \in 1..i
        BY <1>1, HeadStep
      <4> QED
        BY <2>1, <2>7, <4>1
    <3>2. c = 0
      BY <1>2, <2>3, <3>1
    <3>3. Deltas(ids)[i] = 0
      BY <2>4, <2>6, <2>7, <3>2 DEF Step
    <3>4. 0 # Null
      BY DEF Null
    <3>5. i \notin begins
      BY <2>7
    <3> QED
      BY <3>3, <3>4, <3>5 DEF OrZero, ids
  <2>8. CASE i > 1
    <3>1. i - 1 \in 1..n /\ i - 1 \in 0..n /\ i \in 2..n
      BY <1>1, <2>8
    <3>2. entities[i - 1].attrs # <<>>
      BY <1>9, <3>1
    <3>3. entities[HeadOf(keys, i - 1)].attrs # <<>>
      BY <1>7, <3>1, <3>2
    <3>4. ids[i - 1] \in Nat /\ ids[i - 1] < g[i - 1]
      BY <1>3, <3>1, <3>3
    <3>5. b > 0
      BY <2>3, <3>4
    <3>6. PrevId(ids, i) = b - 1
      <4>1. PrevId(ids, (i - 1) + 1) = IF g[i - 1] = 0 THEN 0 ELSE g[i - 1] - 1
        BY <1>4, <3>1
      <4>2. (i - 1) + 1 = i
        OBVIOUS
      <4> QED
        BY <2>3, <3>5, <4>1, <4>2
    <3>7. Step(ids, i) = c - (b - 1)
      BY <2>4, <2>8, <3>6 DEF Step
    <3>8. a = b + (IF i \in begins THEN 1 ELSE 0)
      BY <1>2, <1>6, <1>9, <2>3, <3>1
    <3>9. Deltas(ids)[i] = IF i \in begins THEN 1 ELSE 0
      BY <2>3, <2>4, <2>6, <3>7, <3>8, SMTT(30)
    <3>10. 0 # Null /\ 1 # Null
      BY DEF Null
    <3> QED
      BY <3>9, <3>10 DEF OrZero, ids
  <2> QED
    BY <2>7, <2>8
<1> QED
  BY <1>8, <1>9

\* The store that the decoder makes of the resources or scopes.
StoreOfGroups(keys, entities) ==
  Attributes16StoreFrom(TryBuildAttrs16(Accumulate(keys, entities), <<>>).rows)

\* Entities change at the heads of their keys, and the differences of their ids are
\* zero but at some rows.
Told(n, keys, entities, rows) ==
  /\ Groups(keys, entities)[n] <= MaxUint16
  /\ \A j \in 2..n : j \notin Heads(keys) => entities[j] = entities[j - 1]
  /\ \A j \in 1..n : j \in rows \/ OrZero(Deltas(GroupIds(keys, entities))[j]) = 0

\* The attributes of a resource or scope are found by the sum of the differences at
\* these rows.
LEMMA LookUpFinds ==
  ASSUME NEW n, NEW keys, NEW entities, Owners(n, keys, entities), MaxUint16 \in Nat,
         NEW rows, Told(n, keys, entities, rows), NEW h \in 1..n,
         NEW column, IdColumn(column) = Deltas(GroupIds(keys, entities)),
         DOMAIN column = 1..n
  PROVE  LookUp(StoreOfGroups(keys, entities), column, rows, h) = Range(entities[h].attrs)
<1> DEFINE store == StoreOfGroups(keys, entities)
<1>0. /\ Groups(keys, entities)[n] <= MaxUint16
      /\ \A j \in 2..n : j \notin Heads(keys) => entities[j] = entities[j - 1]
      /\ \A j \in 1..n : j \in rows \/ OrZero(Deltas(GroupIds(keys, entities))[j]) = 0
  BY DEF Told
<1>1. n \in Nat /\ DOMAIN keys = 1..n
  BY DEF Owners
<1> DEFINE g == Groups(keys, entities)
           ids == GroupIds(keys, entities)
<1>2. g = Subtotals(Referred(Owned(keys, entities))) /\ g \in [0..n -> Nat]
  BY GroupsAre
<1>3. \A k \in 1..n :
        /\ entities[HeadOf(keys, k)].attrs = <<>> => ids[k] = Null
        /\ entities[HeadOf(keys, k)].attrs # <<>> =>
             /\ ids[k] = g[HeadOf(keys, k) - 1] /\ ids[k] \in Nat
             /\ ids[k] < g[k]
  BY GroupIdsAre
<1>4. DOMAIN ids = 1..n /\ ~Panics(ids)
  BY <1>1, GroupIdsNeverPanic DEF GroupIds
<1>5. Referred(Owned(keys, entities)) \in [1..n -> Nat]
  BY <1>1 DEF Referred, Owned
<1>6. \A k \in 1..n : g[k] \in Nat /\ g[k] <= MaxUint16
  <2> TAKE k \in 1..n
  <2>1. k \in 0..n /\ n \in 0..n /\ k <= n
    BY <1>1
  <2>2. g[k] <= g[n]
    BY <1>1, <1>2, <1>5, <2>1, SubtotalsGrow
  <2> QED
    BY <1>0, <1>2, <2>1, <2>2
<1>7. column[h].id = Deltas(ids)[h]
  BY DEF IdColumn
<1> HIDE DEF g, ids, store
<1>8. entities[HeadOf(keys, h)] = entities[h]
  BY <1>0, <1>1, SameAsHead
<1>9. CASE entities[h].attrs = <<>>
  <2>1. ids[h] = Null
    BY <1>3, <1>8, <1>9
  <2>2. column[h].id = Null
    BY <1>4, <1>7, <2>1 DEF Deltas
  <2>3. Range(<<>>) = {}
    BY DEF Range
  <2> QED
    BY <1>9, <2>2, <2>3 DEF LookUp
<1>10. CASE entities[h].attrs # <<>>
  <2>1. PICK head \in Heads(keys) : head = HeadOf(keys, h)
    BY <1>1, HeadStep
  <2>2. entities[head].attrs # <<>> /\ entities[head] = entities[h]
    BY <1>8, <1>10, <2>1
  <2>3. ids[h] = g[head - 1] /\ ids[h] \in Nat /\ ids[h] <= MaxUint16
    BY <1>3, <1>6, <2>1, <2>2
  <2>4. \A k \in 1..n : ids[k] = Null \/ ids[k] \in Nat
    BY <1>3
  <2>5. \A k \in 1..n : ids[k] = Null \/ ids[k] \in 0..MaxUint16
    BY <1>3, <1>6
  <2>6. ids[h] # Null
    BY <2>3 DEF Null
  <2>7. column[h].id # Null
    <3>1. Deltas(ids)[h] # Null
      BY <1>1, <1>4, <2>5, <2>6, SumFinds, SMTT(30)
    <3> QED
      BY <1>7, <3>1
  <2>8. Sum(Deltas(ids), rows, h, MaxUint16) = PrevId(ids, h + 1) % (MaxUint16 + 1)
    <3>1. \A j \in 1..n : j \in rows \/ OrZero(Deltas(ids)[j]) = 0
      BY <1>0 DEF ids
    <3>2. h \in 0..n
      BY <1>1
    <3> QED
      BY <1>1, <1>4, <2>4, <3>1, <3>2, SumOfDeltas
  <2>9. PrevId(ids, h + 1) = ids[h]
    BY <2>6, PrevIdNext
  <2>10. ids[h] % (MaxUint16 + 1) = ids[h]
    <3>1. MaxUint16 + 1 \in Nat \ {0} /\ ids[h] \in 0..((MaxUint16 + 1) - 1)
      BY <2>3
    <3> QED
      BY <3>1, SmallRemainder
  <2>11. Sum(IdColumn(column), rows, h, MaxUint16) = g[head - 1]
    BY <2>3, <2>8, <2>9, <2>10 DEF ids
  <2>12. AttributesByID(store, g[head - 1]) = Range(entities[head].attrs)
    <3>1. AttributesByID(store, Groups(keys, entities)[head - 1]) = Range(entities[head].attrs)
      BY <1>0, <2>2, GroupFound DEF store, StoreOfGroups
    <3> QED
      BY <3>1 DEF g
  <2> QED
    BY <2>2, <2>7, <2>11, <2>12 DEF LookUp, store
<1> QED
  BY <1>9, <1>10 DEF store

-----------------------------------------------------------------------------
(***************************************************************************)
(* The rows of one owner.                                                  *)
(***************************************************************************)

\* The places of the rows of one parent.
PlacesOf(rows, p) == {k \in 1..Len(rows) : rows[k].parent = p}

\* What a decoder's list holds under a parent id.
LEMMA ListByIDIs ==
  ASSUME NEW rows, List(rows), NEW items, List(items), Len(items) = Len(rows),
         NEW parents, parents = [i \in 1..Len(rows) |-> rows[i].parent], NEW p
  PROVE  ListByID(ListsOf(parents, items), p) = Selected(PlacesOf(rows, p), items)
<1>1. DOMAIN items = 1..Len(rows)
  BY ListDomain
<1>2. DOMAIN ListsOf(parents, items) = Range(parents)
  BY DEF ListsOf
<1>3. {i \in DOMAIN items : parents[i] = p} = PlacesOf(rows, p)
  BY <1>1 DEF PlacesOf
<1>4. p \in Range(parents) <=> PlacesOf(rows, p) # {}
  BY DEF PlacesOf, Range
<1>5. CASE p \in Range(parents)
  <2>1. ListsOf(parents, items)[p] = Selected({i \in DOMAIN items : parents[i] = p}, items)
    BY <1>5 DEF ListsOf
  <2> QED
    BY <1>2, <1>3, <1>5, <2>1 DEF ListByID
<1>6. CASE p \notin Range(parents)
  <2>1. ListByID(ListsOf(parents, items), p) = <<>>
    BY <1>2, <1>6 DEF ListByID
  <2>2. PICK none : none = Selected({}, items)
    OBVIOUS
  <2>3. {} \in SUBSET (1..Len(items))
    OBVIOUS
  <2>4. List(none) /\ Len(none) = Cardinality({})
    BY <2>2, <2>3, SelectedIs
  <2>5. Len(none) = 0
    BY <2>4, FS_EmptySet
  <2>6. none = <<>>
    BY <2>4, <2>5, EmptyList
  <2> QED
    BY <1>4, <1>6, <2>1, <2>2, <2>6
<1> QED
  BY <1>5, <1>6

\* Every row of a list has the id of its owner.
OwnedBy(n, ids, lists) ==
  \A j \in 1..n : \A k \in 1..Len(lists[j]) : lists[j][k].parent = ids[j]

\* No other owner of rows has the id of owner i.
OwnId(i, n, ids, lists) == \A j \in 1..n : lists[j] # <<>> /\ ids[j] = ids[i] => j = i

\* In an accumulator, the rows with the id of an owner are next to each other.
LEMMA RowsOfOwner ==
  ASSUME NEW a, NEW n, NEW lists, Collected(a, n, lists),
         NEW ids, OwnedBy(n, ids, lists), NEW i \in 1..n, OwnId(i, n, ids, lists)
  PROVE  \E off \in Nat :
           /\ off + Len(lists[i]) <= Len(a.rows)
           /\ \A k \in 1..Len(lists[i]) : a.rows[off + k] = lists[i][k]
           /\ \A q \in 1..Len(a.rows) :
                a.rows[q].parent = ids[i] <=> q \in (off + 1)..(off + Len(lists[i]))
<1>1. /\ n \in Nat /\ LensOf(n, lists) \in [1..n -> Nat]
      /\ \A j \in 1..n : List(lists[j])
      /\ Accu(a) /\ Len(a.rows) = Subtotals(LensOf(n, lists))[n]
      /\ Laid(a, n, lists)
  BY CollectedIs
<1>2. PICK t : t = Subtotals(LensOf(n, lists))
  OBVIOUS
<1>3. /\ t \in [0..n -> Nat] /\ t[0] = 0
      /\ \A j \in 1..n : t[j] = t[j - 1] + Len(lists[j])
  <2>1. \A j \in 1..n : LensOf(n, lists)[j] = Len(lists[j])
    BY DEF LensOf
  <2> QED
    BY <1>1, <1>2, <2>1, SubtotalsType
<1>4. t[i] <= t[n]
  <2>1. i \in 0..n /\ n \in 0..n /\ i <= n
    BY <1>1
  <2> QED
    BY <1>1, <1>2, <2>1, SubtotalsGrow
<1>5. PICK off \in Nat, m \in Nat, total \in Nat :
        off = t[i - 1] /\ m = Len(lists[i]) /\ total = t[n]
  <2>1. i - 1 \in 0..n /\ n \in 0..n /\ Len(lists[i]) \in Nat
    BY <1>1 DEF List
  <2>2. t[i - 1] \in Nat /\ t[n] \in Nat
    BY <1>3, <2>1
  <2> QED
    BY <2>1, <2>2
<1>6. off + m <= total /\ Len(a.rows) = total
  BY <1>1, <1>2, <1>3, <1>4, <1>5
<1>7. \A j \in 1..n : \A k \in 1..Len(lists[j]) : a.rows[t[j - 1] + k] = lists[j][k]
  BY <1>1, <1>2 DEF Laid
<1>8. \A k \in 1..m : a.rows[off + k] = lists[i][k]
  BY <1>5, <1>7
<1>9. ASSUME NEW q \in 1..total, q \in (off + 1)..(off + m)
      PROVE  a.rows[q].parent = ids[i]
  <2>1. PICK k \in 1..m : q = off + k
    <3>1. q - off \in 1..m /\ q = off + (q - off)
      BY <1>9
    <3> QED
      BY <3>1
  <2>2. a.rows[q] = lists[i][k]
    BY <1>8, <2>1
  <2>3. lists[i][k].parent = ids[i]
    BY <1>5 DEF OwnedBy
  <2> QED
    BY <2>2, <2>3
<1>10. ASSUME NEW q \in 1..total, a.rows[q].parent = ids[i]
       PROVE  q \in (off + 1)..(off + m)
  <2>1. \E j \in 1..n : \E k \in 1..LensOf(n, lists)[j] :
          q = Subtotals(LensOf(n, lists))[j - 1] + k
    <3>1. q \in Nat /\ q > 0 /\ q <= Subtotals(LensOf(n, lists))[n]
      BY <1>2, <1>5
    <3> QED
      BY <1>1, <3>1, PlaceInTotal, ZenonT(30)
  <2>2. PICK j \in 1..n : \E k \in 1..Len(lists[j]) : q = t[j - 1] + k
    BY <1>2, <2>1 DEF LensOf
  <2>3. PICK k \in 1..Len(lists[j]) : q = t[j - 1] + k
    BY <2>2
  <2>4. lists[j][k].parent = ids[i]
    BY <1>7, <1>10, <2>3
  <2>5. lists[j] # <<>>
    BY <2>3, EmptyIsList
  <2>6. lists[j][k].parent = ids[j]
    BY DEF OwnedBy
  <2>7. j = i
    BY <2>4, <2>5, <2>6 DEF OwnId
  <2>8. k \in 1..m /\ q = off + k
    BY <1>5, <2>3, <2>7
  <2> QED
    BY <2>8
<1> QED
  BY <1>5, <1>6, <1>8, <1>9, <1>10

\* In any order of the rows, the rows with the id of an owner are its list.
LEMMA ListFound ==
  ASSUME NEW a, NEW n, NEW lists, Collected(a, n, lists),
         NEW sorted, Permuted(sorted, a.rows),
         NEW ids, OwnedBy(n, ids, lists), NEW i \in 1..n, OwnId(i, n, ids, lists)
  PROVE  /\ Cardinality(PlacesOf(sorted, ids[i])) = Len(lists[i])
         /\ \A x : (\E k \in PlacesOf(sorted, ids[i]) : x = sorted[k]) <=> x \in Range(lists[i])
<1>1. /\ List(lists[i]) /\ List(a.rows)
  BY CollectedIs DEF Accu
<1>2. PICK total \in Nat, m \in Nat : total = Len(a.rows) /\ m = Len(lists[i])
  BY <1>1 DEF List
<1>3. PICK off \in Nat :
        /\ off + m <= total
        /\ \A k \in 1..m : a.rows[off + k] = lists[i][k]
        /\ \A q \in 1..total : a.rows[q].parent = ids[i] <=> q \in (off + 1)..(off + m)
  BY <1>2, RowsOfOwner
<1>4. PICK order : /\ Permutes(order, total)
                   /\ sorted = [k \in 1..total |-> a.rows[order[k]]]
  BY <1>2 DEF Permuted
<1>5. /\ order \in [1..total -> 1..total]
      /\ \A j, k \in 1..total : order[j] = order[k] => j = k
      /\ \A q \in 1..total : \E k \in 1..total : order[k] = q
  BY <1>4 DEF Permutes
<1>6. Len(sorted) = total
  <2>1. DOMAIN sorted = 1..total
    BY <1>4
  <2> QED
    BY <2>1, LengthOf
<1> DEFINE P == PlacesOf(sorted, ids[i])
           I == (off + 1)..(off + m)
           f == [k \in P |-> order[k]]
<1>7. \A k \in 1..total : k \in P <=> order[k] \in I
  <2>1. \A k \in 1..total : sorted[k] = a.rows[order[k]] /\ order[k] \in 1..total
    BY <1>4, <1>5
  <2> QED
    BY <1>3, <1>6, <2>1, SMTT(30) DEF PlacesOf
<1>8. P \subseteq 1..total /\ I \subseteq 1..total
  BY <1>3, <1>6 DEF PlacesOf
<1>9. IsFiniteSet(I) /\ Cardinality(I) = m
  <2>1. PICK lo \in Int, hi \in Int : lo = off + 1 /\ hi = off + m
    OBVIOUS
  <2>2. IsFiniteSet(lo..hi) /\ Cardinality(lo..hi) = IF lo > hi THEN 0 ELSE hi - lo + 1
    BY FS_Interval
  <2>3. (IF lo > hi THEN 0 ELSE hi - lo + 1) = m
    BY <2>1
  <2> QED
    BY <2>1, <2>2, <2>3
<1> HIDE DEF P, I
<1>10. f \in Injection(P, I)
  <2>1. f \in [P -> I]
    BY <1>7, <1>8
  <2>2. \A j, k \in P : f[j] = f[k] => j = k
    BY <1>5, <1>8
  <2> HIDE DEF f
  <2> QED
    BY <2>1, <2>2 DEF Injection, IsInjective
<1>11. f \in Surjection(P, I)
  <2>1. f \in [P -> I]
    BY <1>7, <1>8
  <2>2. \A q \in I : \E k \in P : f[k] = q
    <3>1. ASSUME NEW q \in I PROVE \E k \in P : f[k] = q
      <4>1. PICK k \in 1..total : order[k] = q
        BY <1>5, <1>8
      <4>2. k \in P
        BY <1>7, <4>1
      <4> QED
        BY <4>1, <4>2
    <3> QED
      BY <3>1
  <2> HIDE DEF f
  <2> QED
    BY <2>1, <2>2 DEF Surjection
<1>12. Cardinality(P) = m
  <2> HIDE DEF f
  <2> QED
    BY <1>9, <1>10, <1>11, FS_Injection
<1>13. ASSUME NEW x
       PROVE  (\E k \in P : x = sorted[k]) <=> x \in Range(lists[i])
  <2>1. x \in Range(lists[i]) <=> \E k \in 1..m : x = lists[i][k]
    BY <1>1, <1>2, ListRange
  <2>2. ASSUME NEW k \in P, x = sorted[k] PROVE \E j \in 1..m : x = lists[i][j]
    <3>1. k \in 1..total /\ order[k] \in I
      BY <1>7, <1>8
    <3>2. PICK j \in 1..m : order[k] = off + j
      <4>1. order[k] - off \in 1..m /\ order[k] = off + (order[k] - off)
        BY <3>1 DEF I
      <4> QED
        BY <4>1
    <3>3. x = a.rows[off + j]
      BY <1>4, <2>2, <3>1, <3>2
    <3> QED
      BY <1>3, <3>3
  <2>3. ASSUME NEW j \in 1..m, x = lists[i][j] PROVE \E k \in P : x = sorted[k]
    <3>1. off + j \in I
      BY DEF I
    <3>2. PICK k \in 1..total : order[k] = off + j
      BY <1>5, <1>8, <3>1
    <3>3. k \in P
      BY <1>7, <3>1, <3>2
    <3>4. x = sorted[k]
      BY <1>3, <1>4, <2>3, <3>2
    <3> QED
      BY <3>3, <3>4
  <2> QED
    BY <2>1, <2>2, <2>3
<1> QED
  BY <1>2, <1>12, <1>13 DEF P

\* An item is made of each row.
MadeOf(items, what, rows) ==
  /\ List(items) /\ Len(items) = Len(rows)
  /\ \A k \in 1..Len(rows) : items[k] = what[rows[k]]

\* A list holds what is made of each of the rows, in any order.
Made(got, what, rows) ==
  /\ List(got) /\ Len(got) = Len(rows)
  /\ \A x : x \in Range(got) <=> \E k \in 1..Len(rows) : x = what[rows[k]]

\* The items made of the rows of an owner are made of its list, in some order.
LEMMA Gathered ==
  ASSUME NEW a, NEW n, NEW lists, Collected(a, n, lists),
         NEW sorted, Permuted(sorted, a.rows),
         NEW ids, OwnedBy(n, ids, lists), NEW i \in 1..n, OwnId(i, n, ids, lists),
         NEW what, NEW items, MadeOf(items, what, sorted),
         NEW got, got = Selected(PlacesOf(sorted, ids[i]), items)
  PROVE  Made(got, what, lists[i])
<1>0. /\ List(items) /\ Len(items) = Len(sorted)
      /\ \A k \in 1..Len(sorted) : items[k] = what[sorted[k]]
  BY DEF MadeOf
<1>1. PICK P : P = PlacesOf(sorted, ids[i])
  OBVIOUS
<1>2. /\ Cardinality(P) = Len(lists[i])
      /\ \A x : (\E k \in P : x = sorted[k]) <=> x \in Range(lists[i])
  <2>1. /\ Cardinality(PlacesOf(sorted, ids[i])) = Len(lists[i])
        /\ \A x : (\E k \in PlacesOf(sorted, ids[i]) : x = sorted[k]) <=> x \in Range(lists[i])
    BY ListFound
  <2> QED
    BY <1>1, <2>1
<1>3. P \in SUBSET (1..Len(items)) /\ P \in SUBSET (1..Len(sorted))
  BY <1>0, <1>1 DEF PlacesOf
<1>4. /\ List(got) /\ Len(got) = Cardinality(P)
      /\ \A x : x \in Range(got) <=> \E k \in P : x = items[k]
  BY <1>0, <1>1, <1>3, SelectedIs
<1>5. List(lists[i])
  BY CollectedIs
<1>6. \A x : x \in Range(lists[i]) <=> \E k \in 1..Len(lists[i]) : x = lists[i][k]
  BY <1>5, ListRange
<1>7. ASSUME NEW x
      PROVE  (\E k \in P : x = items[k]) <=> \E k \in 1..Len(lists[i]) : x = what[lists[i][k]]
  <2>1. ASSUME NEW k \in P, x = items[k]
        PROVE  \E j \in 1..Len(lists[i]) : x = what[lists[i][j]]
    <3>1. x = what[sorted[k]]
      BY <1>0, <1>3, <2>1
    <3>2. sorted[k] \in Range(lists[i])
      BY <1>2
    <3>3. PICK j \in 1..Len(lists[i]) : sorted[k] = lists[i][j]
      BY <1>6, <3>2
    <3> QED
      BY <3>1, <3>3
  <2>2. ASSUME NEW j \in 1..Len(lists[i]), x = what[lists[i][j]]
        PROVE  \E k \in P : x = items[k]
    <3>1. lists[i][j] \in Range(lists[i])
      BY <1>6
    <3>2. PICK k \in P : lists[i][j] = sorted[k]
      BY <1>2, <3>1
    <3>3. x = items[k]
      BY <1>0, <1>3, <2>2, <3>2
    <3> QED
      BY <3>3
  <2> QED
    BY <2>1, <2>2
<1>8. ASSUME NEW x
      PROVE  x \in Range(got) <=> \E k \in 1..Len(lists[i]) : x = what[lists[i][k]]
  <2>1. x \in Range(got) <=> \E k \in P : x = items[k]
    BY <1>4
  <2>2. (\E k \in P : x = items[k]) <=> \E k \in 1..Len(lists[i]) : x = what[lists[i][k]]
    BY <1>7
  <2> QED
    BY ONLY <2>1, <2>2
<1> QED
  BY <1>2, <1>4, <1>8 DEF Made

\* Different rows that are referred to have different ids.
LEMMA SparseIdsDiffer ==
  ASSUME NEW n \in Nat, NEW referred, DOMAIN referred = 1..n, NEW max \in Nat \ {0},
         NEW ids, ids = SparseIds(referred, max), ~Panics(ids),
         NEW i \in 1..n, NEW k \in 1..n, referred[i], referred[k], ids[k] = ids[i]
  PROVE  k = i
<1>1. ids[i] \in 0..max /\ ids[k] \in 0..max
  BY SparseIdsType
<1>2. CASE i < k
  <2>1. ids[i] < ids[k]
    BY <1>2, SparseIdsGrow
  <2> QED
    BY <1>1, <2>1
<1>3. CASE k < i
  <2>1. ids[k] < ids[i]
    BY <1>3, SparseIdsGrow
  <2> QED
    BY <1>1, <2>1
<1> QED
  BY <1>2, <1>3


\* Where the first row is referred to, each row that is referred to is the first to ask
\* for its own id: rows that nothing refers to ask for the one before.
LEMMA SparseIdsAsked ==
  ASSUME NEW n \in Nat, NEW referred, DOMAIN referred = 1..n, NEW max \in Nat \ {0},
         NEW ids, ids = SparseIds(referred, max), ~Panics(ids),
         NEW i \in 1..n, referred[1], referred[i],
         NEW asked, \A j \in 1..n : asked[j] = Sum(Deltas(ids), DOMAIN Deltas(ids), j, max)
  PROVE  asked[i] = ids[i] /\ FirstToAsk(asked, i)
<1>1. max \in Nat
  OBVIOUS
<1>2. PICK t : t = Subtotals(Referred(referred))
  OBVIOUS
<1>3. /\ t \in [0..n -> Nat] /\ t[0] = 0
      /\ \A j \in 1..n : t[j] = t[j - 1] + (IF referred[j] THEN 1 ELSE 0)
      /\ Referred(referred) \in [1..n -> Nat]
  <2>1. /\ Subtotals(Referred(referred)) \in [0..n -> Nat]
        /\ Subtotals(Referred(referred))[0] = 0
        /\ Referred(referred) \in [1..n -> Nat]
    BY SparseTotals
  <2>2. \A j \in 1..n : Subtotals(Referred(referred))[j]
          = Subtotals(Referred(referred))[j - 1] + (IF referred[j] THEN 1 ELSE 0)
    BY ONLY n \in Nat, DOMAIN referred = 1..n, SparseTotals
  <2> QED
    BY ONLY <1>2, <2>1, <2>2
<1>4. /\ \A j \in 0..n : t[j] <= max + 1
      /\ ids[i] = t[i - 1] /\ ids[i] \in 0..max
  <2>1. ~Panics(SparseIds(referred, max))
    OBVIOUS
  <2>2. /\ \A j \in 0..n : Subtotals(Referred(referred))[j] <= max + 1
        /\ \A j \in 1..n : referred[j] =>
             /\ SparseIds(referred, max)[j] = Subtotals(Referred(referred))[j - 1]
             /\ SparseIds(referred, max)[j] \in 0..max
    BY ONLY <2>1, n \in Nat, DOMAIN referred = 1..n, max \in Nat \ {0}, SparseIdsCount
  <2> QED
    BY <1>2, <2>2
<1>5. /\ DOMAIN ids = 1..n
      /\ \A k \in 1..n : /\ referred[k] => ids[k] \in 0..max
                         /\ ~referred[k] => ids[k] = Null
  <2>1. /\ DOMAIN SparseIds(referred, max) = 1..n
        /\ \A k \in 1..n : /\ referred[k] => SparseIds(referred, max)[k] \in 0..max
                           /\ ~referred[k] => SparseIds(referred, max)[k] = Null
    BY ONLY <1>1, DOMAIN referred = 1..n, n \in Nat, SparseIdsType
  <2>2. ids = SparseIds(referred, max)
    OBVIOUS
  <2> QED
    BY ONLY <2>1, <2>2
<1>6. \A k \in 1..n : ids[k] = Null \/ ids[k] \in 0..max
  BY <1>5
<1>7. asked[i] = ids[i]
  <2>1. ids[i] # Null
    BY <1>4 DEF Null
  <2>2. Sum(Deltas(ids), DOMAIN Deltas(ids), i, max) = ids[i]
    BY ONLY n \in Nat, <1>1, <1>5, <1>6, ~Panics(ids), i \in 1..n, <2>1, SumFinds
  <2> QED
    BY <2>2
<1>8. ASSUME NEW j \in 1..(i - 1) PROVE asked[j] # ids[i]
  <2>1. /\ j \in 1..n /\ j \in 0..n /\ 1 \in 0..n /\ i - 1 \in 0..n
        /\ 1 <= j /\ j <= i - 1 /\ 1 \in 1..n
    OBVIOUS
  <2>2. t[1] <= t[j] /\ t[j] <= t[i - 1]
    BY <1>2, <1>3, <2>1, SubtotalsGrow
  <2>3. t[1] = 1
    BY <1>3, <2>1
  <2>4. PICK x \in Nat, y \in Nat : x = t[j] /\ y = t[i - 1]
    BY <1>3, <2>1
  <2>5. 1 <= x /\ x <= y /\ y <= max
    BY <1>4, <2>2, <2>3, <2>4
  <2>6. PrevId(ids, j + 1) = (x - 1) % (max + 1)
    <3>1. PrevId(SparseIds(referred, max), j + 1)
            = IF Subtotals(Referred(referred))[j] = 0 THEN 0
              ELSE (Subtotals(Referred(referred))[j] - 1) % (max + 1)
      BY ONLY <1>1, DOMAIN referred = 1..n, n \in Nat, <2>1, SparsePrevId
    <3> QED
      BY <1>2, <2>4, <2>5, <3>1
  <2>7. PICK m \in Nat \ {0} : m = max + 1
    OBVIOUS
  <2>8. (x - 1) % m = x - 1
    <3>1. x - 1 \in 0..(m - 1)
      BY <2>5, <2>7
    <3> QED
      BY <3>1, SmallRemainder
  <2>9. asked[j] = (x - 1) % m
    <3>1. \A k \in 1..n : ids[k] = Null \/ ids[k] \in Nat
      BY <1>6
    <3>2. \A k \in 1..n : k \in DOMAIN Deltas(ids) \/ OrZero(Deltas(ids)[k]) = 0
      BY <1>5 DEF Deltas
    <3>3. Sum(Deltas(ids), DOMAIN Deltas(ids), j, max) = PrevId(ids, j + 1) % (max + 1)
      BY ONLY n \in Nat, <1>5, ~Panics(ids), <2>1, <3>1, <3>2, SumOfDeltas
    <3>4. asked[j] = PrevId(ids, j + 1) % m
      BY <2>1, <2>7, <3>3
    <3>5. PrevId(ids, j + 1) = x - 1
      BY <2>6, <2>7, <2>8
    <3> QED
      BY <3>4, <3>5
  <2>10. x - 1 # y
    BY <2>5
  <2> QED
    BY <1>4, <2>4, <2>8, <2>9, <2>10
<1> QED
  BY <1>7, <1>8 DEF FirstToAsk

\* Rows that come before all others, and never after one of their own.
First(E, before, n) ==
  \A i \in 1..n : \A x \in 1..n :
    /\ <<i, x>> \in before => x \notin E
    /\ i \in E /\ <<i, x>> \notin before => x \in E

\* Inserted row by row, they lead.
Leads(E, order, n) == \A k \in 2..n : order[k] \in E => order[k - 1] \in E

\* What comes first keeps coming first when a place is inserted...
LEMMA InsertLeads ==
  ASSUME NEW before, NEW n \in Nat, NEW E, First(E, before, n),
         NEW m \in 1..n, NEW s, Permutes(s, m - 1), Leads(E, s, m - 1)
  PROVE  Leads(E, Insert(before, s, m), m)
<1> DEFINE r == Insert(before, s, m)
<1>0. m \in Nat /\ m - 1 \in Nat
  OBVIOUS
<1>1. m \in Nat /\ m - 1 \in Nat /\ s \in [1..(m - 1) -> 1..(m - 1)]
  BY <1>0 DEF Permutes
<1>2. s \in Seq(Nat) /\ Len(s) = m - 1
  <2>1. s \in [1..(m - 1) -> Nat]
    BY <1>1
  <2> QED
    BY <1>1, <2>1
<1>3. PICK place \in 0..(m - 1) :
        /\ \A k \in 1..m :
             r[k] = IF k <= place THEN s[k] ELSE IF k = place + 1 THEN m ELSE s[k - 1]
        /\ place > 0 => <<m, s[place]>> \notin before
        /\ \A k \in (place + 1)..(m - 1) : <<m, s[k]>> \in before
  <2>1. \E place \in 0..Len(s) :
          /\ r \in Seq(Nat) /\ Len(r) = Len(s) + 1
          /\ \A k \in 1..(Len(s) + 1) :
               r[k] = IF k <= place THEN s[k] ELSE IF k = place + 1 THEN m ELSE s[k - 1]
          /\ place > 0 => <<m, s[place]>> \notin before
          /\ \A k \in (place + 1)..Len(s) : <<m, s[k]>> \in before
    BY <1>1, <1>2, InsertPlaces
  <2>2. Len(s) + 1 = m
    BY <1>2
  <2> HIDE DEF r
  <2> QED
    BY <1>2, <2>1, <2>2
<1> HIDE DEF r
<1>4. ASSUME NEW k \in 2..m, r[k] \in E PROVE r[k - 1] \in E
  <2>1. CASE k <= place
    <3>1. k \in 2..(m - 1) /\ k \in 1..m /\ k - 1 \in 1..m /\ k - 1 <= place
      BY <2>1
    <3>2. r[k] = s[k] /\ r[k - 1] = s[k - 1]
      BY <1>3, <2>1, <3>1
    <3> QED
      BY <1>4, <3>1, <3>2 DEF Leads
  <2>2. CASE k = place + 1
    <3>1. k - 1 = place /\ place > 0 /\ k \in 1..m /\ k - 1 \in 1..m /\ ~(k <= place)
      BY <2>2
    <3>2. r[k] = m /\ r[k - 1] = s[place]
      BY <1>3, <2>2, <3>1
    <3>3. s[place] \in 1..n /\ m \in 1..n
      BY <1>1, <3>1
    <3> QED
      BY <1>3, <1>4, <3>1, <3>2, <3>3 DEF First
  <2>3. CASE k > place + 1
    <3>1. ~(k <= place) /\ k # place + 1 /\ k \in 1..m /\ k - 1 \in (place + 1)..(m - 1)
      BY <2>3
    <3>2. r[k] = s[k - 1] /\ <<m, s[k - 1]>> \in before
      BY <1>3, <3>1
    <3>3. s[k - 1] \in 1..n /\ m \in 1..n
      BY <1>1, <3>1
    <3> QED
      BY <1>4, <3>2, <3>3 DEF First
  <2> QED
    BY <2>1, <2>2, <2>3
<1> QED
  BY <1>4 DEF Leads, r

\* ... and so in the whole order.
LEMMA SortOrderLeads ==
  ASSUME NEW before, NEW n \in Nat, NEW E, First(E, before, n)
  PROVE  Leads(E, SortOrder(before, n), n)
<1>1. PICK sorted :
        /\ SortOrder(before, n) = sorted[n]
        /\ sorted = [m \in 0..n |-> IF m = 0 THEN <<>> ELSE Insert(before, sorted[m - 1], m)]
  BY SortOrderUnfold, ZenonT(30)
<1> DEFINE G == {m \in 0..n : Permutes(sorted[m], m) /\ Leads(E, sorted[m], m)}
<1>2. sorted[0] = <<>> /\ \A m \in 1..n : sorted[m] = Insert(before, sorted[m - 1], m)
  BY <1>1
<1>3. Permutes(<<>>, 0) /\ Leads(E, <<>>, 0)
  BY DEF Permutes, Leads
<1>4. 0 \in G
  BY <1>2, <1>3
<1>5. ASSUME NEW m \in 1..n, m - 1 \in G PROVE m \in G
  <2>1. Permutes(sorted[m - 1], m - 1) /\ Leads(E, sorted[m - 1], m - 1)
    BY <1>5
  <2>2. Permutes(Insert(before, sorted[m - 1], m), m)
    BY <2>1, InsertPermutes
  <2>3. Leads(E, Insert(before, sorted[m - 1], m), m)
    BY <2>1, InsertLeads
  <2>4. m \in 0..n /\ sorted[m] = Insert(before, sorted[m - 1], m)
    BY <1>2
  <2> QED
    BY <2>2, <2>3, <2>4
<1>6. n \in G
  <2> HIDE DEF G
  <2>1. 0..n \subseteq G
    BY <1>4, <1>5, Induction
  <2> QED
    BY <2>1
<1> QED
  BY <1>1, <1>6

\* Sorted, the rows at such places lead the others.
LEMMA SortedLeads ==
  ASSUME NEW before, NEW rows, List(rows), NEW E, First(E, before, Len(rows)),
         NEW sorted, sorted = Sorted(before, rows)
  PROVE  \E order : /\ Permutes(order, Len(rows)) /\ Leads(E, order, Len(rows))
                    /\ sorted = [k \in 1..Len(rows) |-> rows[order[k]]]
<1>1. PICK n \in Nat : n = Len(rows)
  BY DEF List
<1>2. DOMAIN rows = 1..n
  BY <1>1, ListDomain
<1>3. PICK order : order = SortOrder(before, n)
  OBVIOUS
<1>4. Permutes(order, n)
  BY <1>3, SortOrderPermutes
<1>5. Leads(E, order, n)
  BY <1>1, <1>3, SortOrderLeads
<1>6. sorted = [k \in 1..n |-> rows[order[k]]]
  BY <1>1, <1>2, <1>3 DEF Sorted
<1> QED
  BY <1>1, <1>4, <1>5, <1>6
=============================================================================
