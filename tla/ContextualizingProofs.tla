----------------------- MODULE ContextualizingProofs -----------------------
(***************************************************************************)
(* What TLAPS proves of Contextualizing, for all values of its constants:  *)
(* that the lists a side is made of are chains of pieces, without holes;   *)
(* that the chunk is put where it came from; and, for every tokeniser,     *)
(* that the budget is kept and used.                                       *)
(***************************************************************************)
EXTENDS Contextualizing, FunctionTheorems, FiniteSetTheorems, SequenceTheorems, TLAPS

-----------------------------------------------------------------------------
(***************************************************************************)
(* Enumerations.                                                           *)
(***************************************************************************)

(* R orders S: no member comes before itself, of two one comes first, and  *)
(* what comes before a member comes before those it comes before.          *)
Orders(R, S) ==
    /\ \A c \in S : <<c, c>> \notin R
    /\ \A c, d \in S : c # d => <<c, d>> \in R \/ <<d, c>> \in R
    /\ \A b, c, d \in S : <<b, c>> \in R /\ <<c, d>> \in R => <<b, d>> \in R

Before(c, S, R) == {d \in S : <<d, c>> \in R}

LEMMA BeforeCounts ==
    ASSUME NEW S, IsFiniteSet(S), NEW R, Orders(R, S)
    PROVE  /\ \A c \in S : Cardinality(Before(c, S, R)) \in 0 .. Cardinality(S) - 1
           /\ \A c, d \in S : <<d, c>> \in R =>
                 Cardinality(Before(d, S, R)) < Cardinality(Before(c, S, R))
<1>1. ASSUME NEW c \in S
      PROVE  /\ IsFiniteSet(Before(c, S, R))
             /\ Cardinality(Before(c, S, R)) \in 0 .. Cardinality(S) - 1
  <2>1. Before(c, S, R) \in SUBSET S /\ Before(c, S, R) # S
    BY DEF Before, Orders
  <2>2. /\ IsFiniteSet(Before(c, S, R))
        /\ Cardinality(Before(c, S, R)) <= Cardinality(S)
        /\ Cardinality(Before(c, S, R)) # Cardinality(S)
    BY <2>1, FS_Subset
  <2>3. Cardinality(Before(c, S, R)) \in Nat /\ Cardinality(S) \in Nat
    BY <2>2, FS_CardinalityType
  <2>4. QED
    BY <2>2, <2>3
<1>2. ASSUME NEW c \in S, NEW d \in S, <<d, c>> \in R
      PROVE  Cardinality(Before(d, S, R)) < Cardinality(Before(c, S, R))
  <2>1. Before(d, S, R) \in SUBSET Before(c, S, R) /\ Before(d, S, R) # Before(c, S, R)
    BY <1>2 DEF Before, Orders
  <2>2. IsFiniteSet(Before(c, S, R))
    BY <1>1
  <2>3. /\ Cardinality(Before(d, S, R)) <= Cardinality(Before(c, S, R))
        /\ Cardinality(Before(d, S, R)) # Cardinality(Before(c, S, R))
    BY <2>1, <2>2, FS_Subset
  <2>4. Cardinality(Before(d, S, R)) \in Int /\ Cardinality(Before(c, S, R)) \in Int
    BY <1>1
  <2>5. QED
    BY <2>3, <2>4
<1>3. QED
  BY <1>1, <1>2

(* Every number below that of the members is the count of one of them.     *)
LEMMA EveryCount ==
    ASSUME NEW S, IsFiniteSet(S), NEW R, Orders(R, S),
           NEW k \in 1 .. Cardinality(S)
    PROVE  \E c \in S : Cardinality(Before(c, S, R)) = k - 1
<1> DEFINE n == Cardinality(S)
           f == [c \in S |-> Cardinality(Before(c, S, R))]
<1>1. n \in Nat
  BY FS_CardinalityType
<1>2. f \in [S -> 0 .. n - 1]
  BY BeforeCounts
<1>3. \A c, d \in S : f[c] = f[d] => c = d
  <2> SUFFICES ASSUME NEW c \in S, NEW d \in S, f[c] = f[d], c # d PROVE FALSE
    OBVIOUS
  <2>1. <<c, d>> \in R \/ <<d, c>> \in R
    BY DEF Orders
  <2>2. f[c] \in Int /\ f[d] \in Int
    BY <1>2
  <2>3. <<c, d>> \in R => f[c] < f[d]
    BY BeforeCounts
  <2>4. <<d, c>> \in R => f[d] < f[c]
    BY BeforeCounts
  <2>5. QED
    BY <2>1, <2>2, <2>3, <2>4
<1>4. f \in Injection(S, 0 .. n - 1)
  BY <1>2, <1>3, Fun_IsInj
<1>5. IsFiniteSet(0 .. n - 1) /\ Cardinality(0 .. n - 1) = n
  <2>1. 0 \in Int /\ n - 1 \in Int
    BY <1>1
  <2>2. Cardinality(0 .. n - 1) = IF 0 > n - 1 THEN 0 ELSE (n - 1) - 0 + 1
    BY <2>1, FS_Interval
  <2>3. QED
    BY <1>1, <2>1, <2>2, FS_Interval
<1>6. f \in Surjection(S, 0 .. n - 1)
  BY <1>4, <1>5, FS_Injection
<1>7. k - 1 \in 0 .. n - 1
  BY <1>1
<1>8. \E c \in S : f[c] = k - 1
  <2> HIDE DEF f, n
  <2>1. \A t \in 0 .. n - 1 : \E c \in S : f[c] = t
    BY <1>6, Fun_SurjectionProperties, ZenonT(30)
  <2>2. QED
    BY <1>7, <2>1
<1>9. QED
  BY <1>8

(* The list has every member of the set once, in its order.                *)
LEMMA InOrderLists ==
    ASSUME NEW S, IsFiniteSet(S), NEW R, Orders(R, S)
    PROVE  /\ Cardinality(S) \in Nat
           /\ InOrder(S, R) \in [1 .. Cardinality(S) -> S]
           /\ \A c \in S : \E k \in 1 .. Cardinality(S) : InOrder(S, R)[k] = c
           /\ \A j, k \in 1 .. Cardinality(S) :
                 j < k => /\ <<InOrder(S, R)[j], InOrder(S, R)[k]>> \in R
                          /\ InOrder(S, R)[j] # InOrder(S, R)[k]
<1> DEFINE n == Cardinality(S)
           s == InOrder(S, R)
           count(c) == Cardinality(Before(c, S, R))
<1>1. n \in Nat
  BY FS_CardinalityType
<1>2. ASSUME NEW k \in 1 .. n
      PROVE  s[k] \in S /\ count(s[k]) = k - 1
  <2>1. s[k] = CHOOSE c \in S : count(c) = k - 1
    BY DEF InOrder, Before
  <2>2. \E c \in S : count(c) = k - 1
    BY EveryCount
  <2> HIDE DEF s, count
  <2>3. QED
    BY <2>1, <2>2
<1>3. s = [k \in 1 .. n |-> s[k]]
  <2> DEFINE member(k) == CHOOSE c \in S : Cardinality({d \in S : <<d, c>> \in R}) = k - 1
  <2>1. s = [k \in 1 .. n |-> member(k)]
    BY DEF InOrder
  <2> HIDE DEF s, n, member
  <2>2. QED
    BY <2>1
<1>4. s \in [1 .. n -> S]
  <2> HIDE DEF s, n
  <2>1. QED
    BY <1>2, <1>3
<1>5. \A c \in S : count(c) \in 0 .. n - 1
  BY BeforeCounts
<1>6. \A c, d \in S : <<d, c>> \in R => count(d) < count(c)
  BY BeforeCounts
<1>7. ASSUME NEW c \in S
      PROVE  \E k \in 1 .. n : s[k] = c
  <2>1. count(c) + 1 \in 1 .. n
    BY <1>1, <1>5
  <2>2. s[count(c) + 1] \in S /\ count(s[count(c) + 1]) = count(c)
    BY <1>2, <1>5, <2>1
  <2>3. s[count(c) + 1] = c
    <3> HIDE DEF s, count
    <3>1. CASE s[count(c) + 1] # c
      <4>1. \/ count(s[count(c) + 1]) < count(c)
            \/ count(c) < count(s[count(c) + 1])
        BY <1>6, <2>2, <3>1 DEF Orders
      <4>2. QED
        BY <1>5, <2>2, <4>1
    <3>2. QED
      BY <3>1
  <2>4. QED
    BY <2>1, <2>3
<1>8. ASSUME NEW j \in 1 .. n, NEW k \in 1 .. n, j < k
      PROVE  <<s[j], s[k]>> \in R /\ s[j] # s[k]
  <2> HIDE DEF s, count
  <2>1. s[j] \in S /\ s[k] \in S /\ count(s[j]) = j - 1 /\ count(s[k]) = k - 1
    BY <1>2
  <2>2. s[j] # s[k]
    BY <1>8, <2>1
  <2>3. <<s[k], s[j]>> \notin R
    BY <1>6, <1>8, <2>1
  <2>4. QED
    BY <2>1, <2>2, <2>3 DEF Orders
<1>9. QED
  BY <1>1, <1>4, <1>7, <1>8

(* Ascending lists numbers in their order.                                 *)
LEMMA AscendingLists ==
    ASSUME NEW S \in SUBSET Int, IsFiniteSet(S)
    PROVE  /\ Cardinality(S) \in Nat
           /\ Ascending(S) \in [1 .. Cardinality(S) -> S]
           /\ \A i \in S : \E k \in 1 .. Cardinality(S) : Ascending(S)[k] = i
           /\ \A j, k \in 1 .. Cardinality(S) : j < k => Ascending(S)[j] < Ascending(S)[k]
<1> DEFINE R == {p \in S \X S : p[1] < p[2]}
<1>1. \A i, j \in S : <<i, j>> \in R <=> i < j
  OBVIOUS
<1>2. Orders(R, S)
  <2> HIDE DEF R
  <2>1. QED
    BY <1>1 DEF Orders
<1>3. Ascending(S) = InOrder(S, R)
  BY DEF Ascending
<1> HIDE DEF R
<1>4. /\ Cardinality(S) \in Nat
      /\ Ascending(S) \in [1 .. Cardinality(S) -> S]
      /\ \A i \in S : \E k \in 1 .. Cardinality(S) : Ascending(S)[k] = i
  BY <1>2, <1>3, InOrderLists
<1>5. ASSUME NEW j \in 1 .. Cardinality(S), NEW k \in 1 .. Cardinality(S), j < k
      PROVE  Ascending(S)[j] < Ascending(S)[k]
  <2>1. <<Ascending(S)[j], Ascending(S)[k]>> \in R
    BY <1>2, <1>3, <1>5, InOrderLists
  <2>2. Ascending(S)[j] \in S /\ Ascending(S)[k] \in S
    BY <1>4
  <2>3. QED
    BY <1>1, <2>1, <2>2
<1>6. QED
  BY <1>4, <1>5


(* A finite set of numbers has a least and a greatest member.              *)
LEMMA Extremes ==
    ASSUME NEW P \in SUBSET Int, IsFiniteSet(P), P # {}
    PROVE  /\ \E m \in P : \A k \in P : m <= k
           /\ \E m \in P : \A k \in P : k <= m
<1> DEFINE n == Cardinality(P)
           s == Ascending(P)
<1>1. /\ n \in Nat /\ s \in [1 .. n -> P]
      /\ \A i \in P : \E k \in 1 .. n : s[k] = i
      /\ \A j, k \in 1 .. n : j < k => s[j] < s[k]
  BY AscendingLists
<1> HIDE DEF n, s
<1>2. 1 \in 1 .. n /\ n \in 1 .. n
  <2>1. PICK i \in P : TRUE
    OBVIOUS
  <2>2. PICK k \in 1 .. n : s[k] = i
    BY <1>1
  <2>3. QED
    BY <1>1, <2>2
<1>3. \A j \in 1 .. n : s[j] \in Int
  BY <1>1
<1>4. \A j \in 1 .. n : s[1] <= s[j] /\ s[j] <= s[n]
  <2> SUFFICES ASSUME NEW j \in 1 .. n PROVE s[1] <= s[j] /\ s[j] <= s[n]
    OBVIOUS
  <2>1. j = 1 \/ 1 < j
    BY <1>1
  <2>2. j = n \/ j < n
    BY <1>1
  <2>3. s[1] <= s[j]
    BY <1>1, <1>2, <1>3, <2>1
  <2>4. s[j] <= s[n]
    BY <1>1, <1>2, <1>3, <2>2
  <2>5. QED
    BY <2>3, <2>4
<1>5. \A k \in P : s[1] <= k /\ k <= s[n]
  BY <1>1, <1>4
<1>6. s[1] \in P /\ s[n] \in P
  BY <1>1, <1>2
<1>7. QED
  BY <1>5, <1>6

(* Of the lengths that fail, one is the least.                             *)
LEMMA LeastFailure ==
    ASSUME NEW n \in Nat, NEW P \in SUBSET (1 .. n), P # {}
    PROVE  \E m \in P : \A k \in 1 .. m - 1 : k \notin P
<1>1. IsFiniteSet(1 .. n)
  BY FS_Interval
<1>2. IsFiniteSet(P) /\ P \in SUBSET Int
  <2>1. IsFiniteSet(P)
    BY <1>1, FS_Subset
  <2>2. QED
    BY <2>1
<1>3. PICK m \in P : \A k \in P : m <= k
  BY <1>2, Extremes
<1>4. QED
  BY <1>3

-----------------------------------------------------------------------------
(***************************************************************************)
(* Paragraphs.                                                             *)
(***************************************************************************)

Span == [from : Nat, to : Nat]

(* Passages without a blank line.                                          *)
Pieces ==
    {p \in Span : /\ 1 <= p.from /\ p.from <= p.to /\ p.to <= Len(doc)
                  /\ \A k \in p.from .. p.to : Solid(k)}

LEMMA RunIs ==
    ASSUME NEW from \in Nat, NEW to \in Nat, 1 <= from, to <= Len(doc), Len(doc) \in Nat,
           NEW r \in Runs(from, to)
    PROVE  /\ r \in Pieces /\ r.from \in Nat /\ r.to \in Nat
           /\ from <= r.from /\ r.from <= r.to /\ r.to <= to
           /\ \A k \in r.from .. r.to : Solid(k)
           /\ r.from > from => ~Solid(r.from - 1)
           /\ r.to < to => ~Solid(r.to + 1)
BY DEF Runs, Pieces, Span

(* Every line of text is in a run.                                         *)
LEMMA RunAround ==
    ASSUME NEW from \in Nat, NEW to \in Nat, NEW j \in from .. to, Solid(j)
    PROVE  \E r \in Runs(from, to) : r.from <= j /\ j <= r.to
<1> DEFINE L == {x \in from .. j : \A k \in x .. j : Solid(k)}
           R == {x \in j .. to : \A k \in j .. x : Solid(k)}
<1>1. j \in L /\ j \in R
  OBVIOUS
<1>2. IsFiniteSet(L) /\ L \in SUBSET Int /\ IsFiniteSet(R) /\ R \in SUBSET Int
  <2>1. IsFiniteSet(from .. j) /\ IsFiniteSet(j .. to)
    BY FS_Interval
  <2>2. /\ L \in SUBSET (from .. j) /\ R \in SUBSET (j .. to)
        /\ from .. j \subseteq Int /\ j .. to \subseteq Int
    OBVIOUS
  <2> HIDE DEF L, R
  <2>3. QED
    BY <2>1, <2>2, FS_Subset
<1>3. PICK a \in L : \A k \in L : a <= k
  <2> HIDE DEF L, R
  <2>1. QED
    BY <1>1, <1>2, Extremes
<1>4. PICK b \in R : \A k \in R : k <= b
  <2> HIDE DEF L, R
  <2>1. QED
    BY <1>1, <1>2, Extremes
<1>5. a \in from .. j /\ b \in j .. to /\ a \in from .. to /\ b \in from .. to
  OBVIOUS
<1>6. \A k \in a .. b : Solid(k)
  <2> SUFFICES ASSUME NEW k \in a .. b PROVE Solid(k)
    OBVIOUS
  <2>1. k \in a .. j \/ k \in j .. b
    BY <1>5
  <2>2. QED
    BY <2>1
<1>7. a > from => ~Solid(a - 1)
  <2> SUFFICES ASSUME a > from, Solid(a - 1) PROVE FALSE
    OBVIOUS
  <2>1. a - 1 \in from .. j /\ \A k \in a - 1 .. j : k = a - 1 \/ k \in a .. j
    BY <1>5
  <2>2. \A k \in a - 1 .. j : Solid(k)
    BY <2>1
  <2>3. a - 1 \in L
    BY <2>1, <2>2
  <2>4. QED
    BY <1>3, <1>5, <2>3
<1>8. b < to => ~Solid(b + 1)
  <2> SUFFICES ASSUME b < to, Solid(b + 1) PROVE FALSE
    OBVIOUS
  <2>1. b + 1 \in j .. to /\ \A k \in j .. b + 1 : k = b + 1 \/ k \in j .. b
    BY <1>5
  <2>2. \A k \in j .. b + 1 : Solid(k)
    BY <2>1
  <2>3. b + 1 \in R
    BY <2>1, <2>2
  <2>4. QED
    BY <1>4, <1>5, <2>3
<1> DEFINE r == [from |-> a, to |-> b]
<1>9. r \in [from : from .. to, to : from .. to] /\ r.from = a /\ r.to = b
  BY <1>5
<1> HIDE DEF r, L, R
<1>10. r \in Runs(from, to)
  BY <1>5, <1>6, <1>7, <1>8, <1>9 DEF Runs
<1>11. QED
  BY <1>5, <1>9, <1>10

(* Two runs that begin at a line are one; others have a blank line between *)
(* them.                                                                   *)
LEMMA RunsApart ==
    ASSUME NEW from \in Nat, NEW to \in Nat, 1 <= from, to <= Len(doc), Len(doc) \in Nat,
           NEW p \in Runs(from, to), NEW q \in Runs(from, to)
    PROVE  /\ p.from < q.from => p.to + 1 < q.from
           /\ p.from = q.from => p = q
<1>1. /\ p.from \in Nat /\ p.to \in Nat /\ from <= p.from /\ p.from <= p.to /\ p.to <= to
      /\ \A k \in p.from .. p.to : Solid(k)
      /\ p.to < to => ~Solid(p.to + 1)
  BY RunIs
<1>2. /\ q.from \in Nat /\ q.to \in Nat /\ from <= q.from /\ q.from <= q.to /\ q.to <= to
      /\ \A k \in q.from .. q.to : Solid(k)
      /\ q.from > from => ~Solid(q.from - 1)
      /\ q.to < to => ~Solid(q.to + 1)
  BY RunIs
<1>3. ASSUME p.from < q.from PROVE p.to + 1 < q.from
  <2>1. ~(q.from <= p.to + 1)
    <3> SUFFICES ASSUME q.from <= p.to + 1 PROVE FALSE
      OBVIOUS
    <3>1. q.from - 1 \in p.from .. p.to /\ q.from > from
      BY <1>1, <1>2, <1>3
    <3>2. QED
      BY <1>1, <1>2, <3>1
  <2>2. QED
    BY <1>1, <1>2, <2>1
<1>4. ASSUME p.from = q.from PROVE p = q
  <2>1. ~(p.to < q.to)
    <3> SUFFICES ASSUME p.to < q.to PROVE FALSE
      OBVIOUS
    <3>1. p.to + 1 \in q.from .. q.to /\ p.to < to
      BY <1>1, <1>2, <1>4
    <3>2. QED
      BY <1>1, <1>2, <3>1
  <2>2. ~(q.to < p.to)
    <3> SUFFICES ASSUME q.to < p.to PROVE FALSE
      OBVIOUS
    <3>1. q.to + 1 \in p.from .. p.to /\ q.to < to
      BY <1>1, <1>2, <1>4
    <3>2. QED
      BY <1>1, <1>2, <3>1
  <2>3. p.to = q.to
    BY <1>1, <1>2, <2>1, <2>2
  <2>4. p \in [from : from .. to, to : from .. to] /\ q \in [from : from .. to, to : from .. to]
    BY DEF Runs
  <2>5. QED
    BY <1>4, <2>3, <2>4
<1>5. QED
  BY <1>3, <1>4

LEMMA RunsFinite ==
    ASSUME NEW from \in Nat, NEW to \in Nat, 1 <= from, to <= Len(doc), Len(doc) \in Nat
    PROVE  IsFiniteSet(Runs(from, to))
<1> DEFINE S == Runs(from, to)
           T == from .. to
           f == [r \in S |-> r.from]
<1>1. \A r \in S : r.from \in T
  BY DEF Runs
<1>2. f \in [S -> T]
  BY <1>1
<1>3. \A p, q \in S : f[p] = f[q] => p = q
  BY RunsApart
<1>4. f \in Injection(S, T)
  BY <1>2, <1>3 DEF Injection, IsInjective
<1>5. IsFiniteSet(T)
  BY FS_Interval
<1> HIDE DEF S, T, f
<1>6. QED
  BY <1>4, <1>5, FS_Injection DEF S

(* The paragraphs of some lines, in the order of the document.             *)
LEMMA ParagraphsList ==
    ASSUME NEW from \in Nat, NEW to \in Nat, 1 <= from, to <= Len(doc), Len(doc) \in Nat
    PROVE  LET ps == Paragraphs(from, to)
           IN  /\ ps \in Seq(Pieces) /\ Len(ps) \in Nat
               /\ \A k \in 1 .. Len(ps) : ps[k] \in Runs(from, to)
               /\ \A j, k \in 1 .. Len(ps) : j < k => ps[j].to + 1 < ps[k].from
               /\ \A i \in from .. to : Solid(i) =>
                     \E k \in 1 .. Len(ps) : ps[k].from <= i /\ i <= ps[k].to
<1> DEFINE S == Runs(from, to)
           R == {p \in S \X S : p[1].from < p[2].from}
           n == Cardinality(S)
           ps == Paragraphs(from, to)
<1>1. \A p \in S : p.from \in Nat
  BY RunIs
<1>2. \A p, q \in S : p.from = q.from => p = q
  BY RunsApart
<1>3. \A p, q \in S : <<p, q>> \in R <=> p.from < q.from
  OBVIOUS
<1>4. IsFiniteSet(S)
  BY RunsFinite
<1>5. ps = InOrder(S, R)
  BY DEF Paragraphs
<1>6. S \subseteq Pieces
  BY RunIs
<1> HIDE DEF S, R, n, ps
<1>7. Orders(R, S)
  <2>1. \A c \in S : <<c, c>> \notin R
    BY <1>1, <1>3
  <2>2. \A c, d \in S : c # d => <<c, d>> \in R \/ <<d, c>> \in R
    BY <1>1, <1>2, <1>3
  <2>3. \A b, c, d \in S : <<b, c>> \in R /\ <<c, d>> \in R => <<b, d>> \in R
    BY <1>1, <1>3
  <2>4. QED
    BY <2>1, <2>2, <2>3 DEF Orders
<1>8. /\ n \in Nat /\ ps \in [1 .. n -> S]
      /\ \A c \in S : \E k \in 1 .. n : ps[k] = c
      /\ \A j, k \in 1 .. n : j < k => <<ps[j], ps[k]>> \in R
  BY <1>4, <1>5, <1>7, InOrderLists DEF n
<1>9. ps \in Seq(Pieces) /\ Len(ps) = n /\ Len(ps) \in Nat
  <2>1. ps \in [1 .. n -> Pieces]
    BY <1>6, <1>8
  <2>2. QED
    BY <1>8, <2>1
<1>10. \A k \in 1 .. n : ps[k] \in S
  BY <1>8
<1>11. ASSUME NEW j \in 1 .. n, NEW k \in 1 .. n, j < k PROVE ps[j].to + 1 < ps[k].from
  <2>1. ps[j].from < ps[k].from
    BY <1>3, <1>8, <1>10, <1>11
  <2>2. QED
    BY <1>10, <2>1, RunsApart DEF S
<1>12. ASSUME NEW i \in from .. to, Solid(i)
       PROVE  \E k \in 1 .. n : ps[k].from <= i /\ i <= ps[k].to
  <2>1. PICK r \in S : r.from <= i /\ i <= r.to
    BY <1>12, RunAround DEF S
  <2>2. QED
    BY <1>8, <2>1
<1>13. QED
  BY <1>9, <1>10, <1>11, <1>12 DEF ps, S

-----------------------------------------------------------------------------
(***************************************************************************)
(* What a side keeps.                                                      *)
(***************************************************************************)
BothSides == {"before", "after"}

(* Where a piece may stand, and what is between the k-th nearest piece of  *)
(* a side and what stands next to it towards the chunk.                    *)
Beyond(s, p) == IF s = "before" THEN p.to < span.from ELSE p.from > span.to

Between(s, ps, k) ==
    IF s = "before" THEN ps[k].to + 1 .. (IF k = 1 THEN span.from ELSE ps[k - 1].from) - 1
    ELSE (IF k = 1 THEN span.to ELSE ps[k - 1].to) + 1 .. ps[k].from - 1

(* Pieces of a side, with nothing but blank lines between them and between *)
(* the nearest of them and the chunk.                                      *)
Chain(s, ps) ==
    /\ ps \in Seq(Pieces)
    /\ \A k \in 1 .. Len(ps) : Beyond(s, ps[k]) /\ \A j \in Between(s, ps, k) : ~Solid(j)

Touching(s, ps, k) ==
    IF s = "before" THEN ps[k].to + 1 = ps[k - 1].from ELSE ps[k].from = ps[k - 1].to + 1

(* Paragraphs are apart, the sentences of a paragraph are not.             *)
Apart(s, ps) == \A k \in 2 .. Len(ps) : ~Touching(s, ps, k)
Abut(s, ps)  == \A k \in 2 .. Len(ps) : Touching(s, ps, k)

Placed ==
    /\ span \in Span /\ Len(doc) \in Nat
    /\ 1 <= span.from /\ span.from <= span.to /\ span.to <= Len(doc)

(* The first members of a list.                                            *)
LEMMA NearestOf ==
    ASSUME NEW T, NEW s \in Seq(T), NEW k \in Nat
    PROVE  /\ Nearest(s, k) \in Seq(T)
           /\ Len(Nearest(s, k)) = IF Len(s) < k THEN Len(s) ELSE k
           /\ \A i \in 1 .. Len(Nearest(s, k)) : Nearest(s, k)[i] = s[i]
<1> DEFINE n == IF Len(s) < k THEN Len(s) ELSE k
           p == Nearest(s, k)
<1>1. n \in Nat /\ n <= Len(s) /\ Len(s) \in Nat
  OBVIOUS
<1>2. p = SubSeq(s, 1, n)
  BY DEF Nearest
<1> HIDE DEF n, p
<1>3. \A i \in 1 .. n : s[i] \in T
  <2>1. \A i \in 1 .. n : i \in 1 .. Len(s)
    BY <1>1
  <2>2. QED
    BY <2>1, ElementOfSeq
<1>4. /\ p \in Seq(T) /\ Len(p) = (IF 1 <= n THEN n - 1 + 1 ELSE 0)
      /\ \A i \in 1 .. n - 1 + 1 : p[i] = s[1 + i - 1]
  BY <1>1, <1>2, <1>3, SubSeqProperties
<1>5. Len(p) = n
  BY <1>1, <1>4
<1>6. \A i \in 1 .. n : p[i] = s[i]
  BY <1>1, <1>4
<1>7. QED
  BY <1>4, <1>5, <1>6 DEF p, n

(* A list from its end.                                                    *)
LEMMA ReverseOf ==
    ASSUME NEW T, NEW s \in Seq(T)
    PROVE  /\ Reverse(s) \in Seq(T) /\ Len(Reverse(s)) = Len(s)
           /\ \A i \in 1 .. Len(s) : Reverse(s)[i] = s[Len(s) - i + 1]
<1> DEFINE n == Len(s)
           r == Reverse(s)
<1>1. n \in Nat
  OBVIOUS
<1>2. r = [i \in 1 .. n |-> s[(n - i) + 1]]
  BY DEF Reverse
<1>3. \A i \in 1 .. n : s[(n - i) + 1] \in T
  <2>1. \A i \in 1 .. n : (n - i) + 1 \in 1 .. Len(s)
    BY <1>1
  <2>2. QED
    BY <2>1, ElementOfSeq
<1> HIDE DEF n, r
<1>4. r \in [1 .. n -> T]
  BY <1>2, <1>3
<1>5. r \in Seq(T) /\ Len(r) = n
  BY <1>1, <1>4
<1>6. \A i \in 1 .. n : r[i] = s[n - i + 1]
  BY <1>2
<1>7. QED
  BY <1>5, <1>6 DEF n, r

(* What a chain begins with is a chain.                                    *)
LEMMA ChainNearest ==
    ASSUME NEW s, NEW ps, Chain(s, ps), NEW n \in Nat
    PROVE  /\ Chain(s, Nearest(ps, n))
           /\ Apart(s, ps) => Apart(s, Nearest(ps, n))
           /\ Abut(s, ps) => Abut(s, Nearest(ps, n))
<1> DEFINE q == Nearest(ps, n)
<1>1. ps \in Seq(Pieces)
  BY DEF Chain
<1>2. /\ q \in Seq(Pieces) /\ Len(q) \in Nat /\ Len(ps) \in Nat /\ Len(q) <= Len(ps)
      /\ \A i \in 1 .. Len(q) : q[i] = ps[i]
  BY <1>1, NearestOf
<1> HIDE DEF q
<1>3. ASSUME NEW k \in 1 .. Len(q)
      PROVE  /\ k \in 1 .. Len(ps) /\ q[k] = ps[k]
             /\ k # 1 => q[k - 1] = ps[k - 1]
  <2>1. k \in 1 .. Len(ps) /\ (k # 1 => k - 1 \in 1 .. Len(q))
    BY <1>2
  <2>2. QED
    BY <1>2, <2>1
<1>4. ASSUME NEW k \in 1 .. Len(q)
      PROVE  Beyond(s, q[k]) /\ \A j \in Between(s, q, k) : ~Solid(j)
  <2>1. Between(s, q, k) = Between(s, ps, k)
    BY <1>3 DEF Between
  <2>2. QED
    BY <1>3, <2>1 DEF Chain
<1>5. \A k \in 2 .. Len(q) : k \in 2 .. Len(ps) /\ (Touching(s, q, k) <=> Touching(s, ps, k))
  <2> SUFFICES ASSUME NEW k \in 2 .. Len(q)
               PROVE  k \in 2 .. Len(ps) /\ (Touching(s, q, k) <=> Touching(s, ps, k))
    OBVIOUS
  <2>1. k \in 1 .. Len(q) /\ k # 1 /\ k \in 2 .. Len(ps)
    BY <1>2
  <2>2. q[k] = ps[k] /\ q[k - 1] = ps[k - 1]
    BY <1>3, <2>1
  <2>3. QED
    BY <2>1, <2>2 DEF Touching
<1>6. QED
  BY <1>2, <1>4, <1>5 DEF Chain, Apart, Abut, q

(* The paragraphs after the chunk.                                         *)
LEMMA FollowingChain ==
    ASSUME Placed
    PROVE  LET ps == Paragraphs(span.to + 1, Len(doc))
           IN  Chain("after", ps) /\ Apart("after", ps)
<1> DEFINE from == span.to + 1
           to == Len(doc)
           ps == Paragraphs(from, to)
<1>1. from \in Nat /\ to \in Nat /\ 1 <= from /\ to <= Len(doc) /\ span.to \in Nat
      /\ from = span.to + 1
  BY DEF Placed, Span
<1>2. /\ ps \in Seq(Pieces) /\ Len(ps) \in Nat
      /\ \A k \in 1 .. Len(ps) : ps[k] \in Runs(from, to)
      /\ \A j, k \in 1 .. Len(ps) : j < k => ps[j].to + 1 < ps[k].from
      /\ \A i \in from .. to : Solid(i) =>
            \E k \in 1 .. Len(ps) : ps[k].from <= i /\ i <= ps[k].to
  BY <1>1, ParagraphsList DEF Placed
<1> HIDE DEF from, to, ps
<1>3. ASSUME NEW k \in 1 .. Len(ps)
      PROVE  /\ ps[k].from \in Nat /\ ps[k].to \in Nat
             /\ from <= ps[k].from /\ ps[k].from <= ps[k].to /\ ps[k].to <= to
  <2>1. ps[k] \in Runs(from, to)
    BY <1>2
  <2>2. QED
    BY <1>1, <2>1, RunIs DEF Placed
<1>4. ASSUME NEW k \in 1 .. Len(ps) PROVE Beyond("after", ps[k])
  BY <1>1, <1>3 DEF Beyond
<1>5. ASSUME NEW k \in 1 .. Len(ps), NEW i \in Between("after", ps, k), Solid(i) PROVE FALSE
  <2>1. /\ i \in Int /\ i < ps[k].from
        /\ k = 1 => span.to < i
        /\ k # 1 => ps[k - 1].to < i
    <3>1. i \in (IF k = 1 THEN span.to ELSE ps[k - 1].to) + 1 .. ps[k].from - 1
      BY DEF Between
    <3>2. span.to \in Nat /\ ps[k].from \in Nat
      BY <1>1, <1>3
    <3>3. CASE k = 1
      <4>1. i \in span.to + 1 .. ps[k].from - 1
        BY <3>1, <3>3
      <4>2. QED
        BY ONLY <3>2, <3>3, <4>1
    <3>4. CASE k # 1
      <4>1. i \in ps[k - 1].to + 1 .. ps[k].from - 1
        BY <3>1, <3>4
      <4>2. k - 1 \in 1 .. Len(ps)
        BY <1>2, <3>4
      <4>3. ps[k - 1].to \in Nat
        BY <1>3, <4>2
      <4>4. QED
        BY ONLY <3>2, <3>4, <4>1, <4>3
    <3>5. QED
      BY <3>3, <3>4
  <2>2. k # 1 => k - 1 \in 1 .. Len(ps) /\ from <= ps[k - 1].to /\ ps[k - 1].to \in Nat
    <3>1. ASSUME k # 1
          PROVE  k - 1 \in 1 .. Len(ps) /\ from <= ps[k - 1].to /\ ps[k - 1].to \in Nat
      <4>1. k - 1 \in 1 .. Len(ps)
        BY <1>2, <3>1
      <4>2. /\ ps[k - 1].from \in Nat /\ ps[k - 1].to \in Nat
            /\ from <= ps[k - 1].from /\ ps[k - 1].from <= ps[k - 1].to
        BY <1>3, <4>1
      <4>3. from \in Nat
        BY <1>1
      <4>4. QED
        BY ONLY <4>1, <4>2, <4>3
    <3>2. QED
      BY <3>1
  <2>3. i \in from .. to
    <3>1. /\ from \in Nat /\ to \in Nat /\ span.to \in Nat /\ from = span.to + 1
          /\ ps[k].from \in Nat /\ ps[k].to \in Nat /\ ps[k].from <= ps[k].to /\ ps[k].to <= to
      BY <1>1, <1>3
    <3>2. i \in Int /\ i < ps[k].from /\ from <= i
      BY ONLY <2>1, <2>2, <3>1
    <3>3. QED
      BY ONLY <3>1, <3>2
  <2>4. PICK m \in 1 .. Len(ps) : ps[m].from <= i /\ i <= ps[m].to
    <3>1. \A x \in from .. to : Solid(x) =>
             \E l \in 1 .. Len(ps) : ps[l].from <= x /\ x <= ps[l].to
      BY <1>2
    <3>2. QED
      BY ONLY <1>5, <2>3, <3>1
  <2>5. ~(k < m)
    <3> SUFFICES ASSUME k < m PROVE FALSE
      OBVIOUS
    <3>1. ps[k].to + 1 < ps[m].from
      BY <1>2
    <3>2. /\ ps[k].from \in Nat /\ ps[k].to \in Nat /\ ps[m].from \in Nat
          /\ ps[k].from <= ps[k].to
      BY <1>3
    <3>3. QED
      BY ONLY <2>1, <2>4, <3>1, <3>2
  <2>6. k # m
    BY <1>3, <2>1, <2>4
  <2>7. ~(m < k)
    <3> SUFFICES ASSUME m < k PROVE FALSE
      OBVIOUS
    <3>1. k # 1 /\ (m = k - 1 \/ m < k - 1)
      OBVIOUS
    <3>2. ps[m].to <= ps[k - 1].to
      BY <1>2, <1>3, <2>2, <3>1, SMTT(30)
    <3>3. QED
      BY <1>3, <2>1, <2>2, <2>4, <3>1, <3>2
  <2>8. QED
    BY <2>5, <2>6, <2>7
<1>6. ASSUME NEW k \in 2 .. Len(ps) PROVE ~Touching("after", ps, k)
  <2>1. k - 1 \in 1 .. Len(ps) /\ k \in 1 .. Len(ps) /\ k - 1 < k
    BY <1>2
  <2>2. ps[k - 1].to + 1 < ps[k].from
    BY <1>2, <2>1
  <2>3. QED
    BY <1>3, <2>1, <2>2 DEF Touching
<1>7. QED
  BY <1>2, <1>4, <1>5, <1>6 DEF Chain, Apart, ps, from, to

(* Those before it, the last one first.                                    *)
LEMMA PrecedingChain ==
    ASSUME Placed
    PROVE  LET ps == Reverse(Paragraphs(1, span.from - 1))
           IN  Chain("before", ps) /\ Apart("before", ps)
<1> DEFINE to == span.from - 1
           qs == Paragraphs(1, to)
           n == Len(qs)
           ps == Reverse(qs)
<1>1. /\ 1 \in Nat /\ to \in Nat /\ 1 <= 1 /\ to <= Len(doc) /\ span.from \in Nat
      /\ to = span.from - 1
  BY DEF Placed, Span
<1>2. /\ qs \in Seq(Pieces) /\ n \in Nat
      /\ \A k \in 1 .. n : qs[k] \in Runs(1, to)
      /\ \A j, k \in 1 .. n : j < k => qs[j].to + 1 < qs[k].from
      /\ \A i \in 1 .. to : Solid(i) => \E k \in 1 .. n : qs[k].from <= i /\ i <= qs[k].to
  <2> HIDE DEF to
  <2>1. QED
    BY <1>1, ParagraphsList DEF Placed
<1>3. /\ ps \in Seq(Pieces) /\ Len(ps) = n
      /\ \A k \in 1 .. n : ps[k] = qs[n - k + 1]
  <2> HIDE DEF qs
  <2>1. QED
    BY <1>2, ReverseOf
<1> HIDE DEF to, qs, n, ps
<1>4. ASSUME NEW k \in 1 .. n
      PROVE  /\ ps[k].from \in Nat /\ ps[k].to \in Nat
             /\ 1 <= ps[k].from /\ ps[k].from <= ps[k].to /\ ps[k].to <= to
  <2>1. n - k + 1 \in 1 .. n
    BY <1>2
  <2>2. ps[k] \in Runs(1, to)
    BY <1>2, <1>3, <2>1
  <2>3. QED
    BY <1>1, <2>2, RunIs DEF Placed
<1>5. ASSUME NEW j \in 1 .. n, NEW k \in 1 .. n, j < k PROVE ps[k].to + 1 < ps[j].from
  <2>1. n - j + 1 \in 1 .. n /\ n - k + 1 \in 1 .. n /\ n - k + 1 < n - j + 1
    BY <1>2, <1>5
  <2>2. QED
    BY <1>2, <1>3, <2>1
<1>6. ASSUME NEW i \in 1 .. to, Solid(i) PROVE \E k \in 1 .. n : ps[k].from <= i /\ i <= ps[k].to
  <2>1. PICK k \in 1 .. n : qs[k].from <= i /\ i <= qs[k].to
    BY <1>2, <1>6
  <2>2. n - k + 1 \in 1 .. n /\ n - (n - k + 1) + 1 = k
    BY <1>2
  <2>3. ps[n - k + 1] = qs[k]
    BY <1>3, <2>2
  <2>4. QED
    BY <2>1, <2>2, <2>3
<1>7. ASSUME NEW k \in 1 .. n PROVE Beyond("before", ps[k])
  BY <1>1, <1>4 DEF Beyond
<1>8. ASSUME NEW k \in 1 .. n, NEW i \in Between("before", ps, k), Solid(i) PROVE FALSE
  <2>1. /\ i \in Int /\ ps[k].to < i
        /\ k = 1 => i < span.from
        /\ k # 1 => i < ps[k - 1].from
    <3>1. i \in ps[k].to + 1 .. (IF k = 1 THEN span.from ELSE ps[k - 1].from) - 1
      BY DEF Between
    <3>2. k # 1 => k - 1 \in 1 .. n
      BY <1>2
    <3>3. QED
      BY <1>1, <1>4, <3>1, <3>2
  <2>2. k # 1 => k - 1 \in 1 .. n /\ ps[k - 1].from <= to /\ ps[k - 1].from \in Nat
    <3>1. k # 1 => k - 1 \in 1 .. n
      BY <1>2
    <3>2. QED
      BY <1>1, <1>4, <3>1
  <2>3. i \in 1 .. to
    <3>1. /\ to \in Nat /\ span.from \in Nat /\ to = span.from - 1
          /\ ps[k].from \in Nat /\ ps[k].to \in Nat /\ 1 <= ps[k].from /\ ps[k].from <= ps[k].to
      BY <1>1, <1>4
    <3>2. i \in Int /\ ps[k].to < i /\ i <= to
      BY ONLY <2>1, <2>2, <3>1
    <3>3. QED
      BY ONLY <3>1, <3>2
  <2>4. PICK m \in 1 .. n : ps[m].from <= i /\ i <= ps[m].to
    BY <1>6, <1>8, <2>3
  <2>5. ~(k < m)
    BY <1>4, <1>5, <2>1, <2>4
  <2>6. k # m
    BY <1>4, <2>1, <2>4
  <2>7. ~(m < k)
    <3> SUFFICES ASSUME m < k PROVE FALSE
      OBVIOUS
    <3>1. k # 1 /\ (m = k - 1 \/ m < k - 1)
      BY <1>2
    <3>2. ps[k - 1].from <= ps[m].from
      BY <1>4, <1>5, <2>2, <3>1
    <3>3. QED
      BY <1>4, <2>1, <2>2, <2>4, <3>1, <3>2
  <2>8. QED
    BY <1>2, <2>5, <2>6, <2>7
<1>9. ASSUME NEW k \in 2 .. n PROVE ~Touching("before", ps, k)
  <2>1. k - 1 \in 1 .. n /\ k \in 1 .. n /\ k - 1 < k
    BY <1>2
  <2>2. ps[k].to + 1 < ps[k - 1].from
    BY <1>5, <2>1
  <2>3. QED
    BY <1>4, <2>1, <2>2 DEF Touching
<1>10. QED
  BY <1>3, <1>7, <1>8, <1>9 DEF Chain, Apart, ps, qs, to

(* The neighbours of a side are paragraphs, and a chain.                   *)
LEMMA NeighboursChain ==
    ASSUME NEW s \in BothSides, span = Nowhere \/ Placed
    PROVE  Chain(s, Neighbours(s)) /\ Apart(s, Neighbours(s))
<1>1. CASE span = Nowhere
  BY <1>1 DEF Neighbours, Chain, Apart
<1>2. CASE span # Nowhere /\ s = "before"
  <2>1. PICK ps : ps = Reverse(Paragraphs(1, span.from - 1))
    OBVIOUS
  <2>2. Neighbours(s) = Nearest(ps, Window)
    BY <1>2, <2>1 DEF Neighbours
  <2>3. Chain(s, ps) /\ Apart(s, ps)
    BY <1>2, <2>1, PrecedingChain
  <2>4. QED
    BY <2>2, <2>3, ChainNearest, ContextualizingAssumption
<1>3. CASE span # Nowhere /\ s = "after"
  <2>1. PICK ps : ps = Paragraphs(span.to + 1, Len(doc))
    OBVIOUS
  <2>2. Neighbours(s) = Nearest(ps, Window)
    BY <1>3, <2>1 DEF Neighbours
  <2>3. Chain(s, ps) /\ Apart(s, ps)
    BY <1>3, <2>1, FollowingChain
  <2>4. QED
    BY <2>2, <2>3, ChainNearest, ContextualizingAssumption
<1>4. QED
  BY <1>1, <1>2, <1>3 DEF BothSides

(* The sentences of the nearest paragraph of a chain are a chain too.      *)
LEMMA SentencesChain ==
    ASSUME Placed, side \in BothSides, NEW ps, Chain(side, ps), ps # <<>>
    PROVE  Chain(side, Sentences(side, ps[1])) /\ Abut(side, Sentences(side, ps[1]))
<1> DEFINE a == ps[1].from
           b == ps[1].to
           n == b - a + 1
           e(k) == [from |-> a + k - 1, to |-> a + k - 1]
           s == [k \in 1 .. n |-> e(k)]
           r == Reverse(s)
<1>1. 1 \in 1 .. Len(ps) /\ ps[1] \in Pieces /\ Beyond(side, ps[1])
      /\ \A j \in Between(side, ps, 1) : ~Solid(j)
  <2>1. ps \in Seq(Pieces)
    BY DEF Chain
  <2>2. 1 \in 1 .. Len(ps)
    BY <2>1
  <2>3. QED
    BY <2>1, <2>2, ElementOfSeq DEF Chain
<1>2. /\ a \in Nat /\ b \in Nat /\ 1 <= a /\ a <= b /\ b <= Len(doc)
      /\ \A j \in a .. b : Solid(j)
  BY <1>1 DEF Pieces, Span
<1>3. n \in Nat /\ n = b - a + 1
  BY <1>2
<1>4. span.from \in Nat /\ span.to \in Nat /\ Len(doc) \in Nat
  BY DEF Placed, Span
<1>5. Sentences(side, ps[1]) = IF side = "before" THEN r ELSE s
  BY DEF Sentences
<1>6. \A k \in 1 .. n : e(k).from = a + k - 1 /\ e(k).to = a + k - 1
  OBVIOUS
<1>7. ASSUME NEW k \in 1 .. n PROVE e(k) \in Pieces
  <2>1. a + k - 1 \in a .. b /\ a + k - 1 \in Nat /\ \A j \in a + k - 1 .. a + k - 1 : j = a + k - 1
    BY <1>2, <1>3
  <2>2. e(k) \in Span
    BY <2>1 DEF Span
  <2>3. QED
    BY <1>2, <1>6, <2>1, <2>2 DEF Pieces
<1>8. Between(side, ps, 1) = IF side = "before" THEN b + 1 .. span.from - 1
                             ELSE span.to + 1 .. a - 1
  BY DEF Between
<1>9. side = "before" => b < span.from
  BY <1>1 DEF Beyond
<1>10. side = "after" => a > span.to
  BY <1>1, <1>9 DEF Beyond
<1> HIDE DEF n, e
<1>11. s \in Seq(Pieces) /\ Len(s) = n /\ \A k \in 1 .. n : s[k] = e(k)
  BY <1>3, <1>7
<1> HIDE DEF s
<1>12. r \in Seq(Pieces) /\ Len(r) = n /\ \A k \in 1 .. n : r[k] = s[n - k + 1]
  BY <1>11, ReverseOf
<1> HIDE DEF r, a, b
<1>13. ASSUME NEW k \in 1 .. n PROVE r[k].from = b - k + 1 /\ r[k].to = b - k + 1
  <2>1. n - k + 1 \in 1 .. n /\ a + (n - k + 1) - 1 = b - k + 1
    BY <1>2, <1>3
  <2>2. QED
    BY <1>6, <1>11, <1>12, <2>1
<1>14. ASSUME NEW k \in 1 .. n PROVE s[k].from = a + k - 1 /\ s[k].to = a + k - 1
  BY <1>6, <1>11
<1>15. CASE side = "before"
  <2>1. Sentences(side, ps[1]) = r
    BY <1>5, <1>15
  <2>2. ASSUME NEW k \in 1 .. n PROVE Beyond("before", r[k])
    BY <1>2, <1>4, <1>9, <1>13, <1>15 DEF Beyond
  <2>3. ASSUME NEW k \in 1 .. n, NEW j \in Between("before", r, k) PROVE ~Solid(j)
    <3>1. CASE k = 1
      <4>1. j \in b + 1 .. span.from - 1
        BY <1>2, <1>13, <2>3, <3>1 DEF Between
      <4>2. QED
        BY <1>1, <1>8, <1>15, <4>1
    <3>2. CASE k # 1
      <4>1. k - 1 \in 1 .. n
        BY <1>3, <3>2
      <4>2. j \in r[k].to + 1 .. r[k - 1].from - 1
        BY <2>3, <3>2 DEF Between
      <4>3. QED
        BY <1>2, <1>13, <4>1, <4>2
    <3>3. QED
      BY <3>1, <3>2
  <2>4. ASSUME NEW k \in 2 .. n PROVE Touching("before", r, k)
    <3>1. k - 1 \in 1 .. n /\ k \in 1 .. n
      BY <1>3
    <3>2. QED
      BY <1>2, <1>13, <3>1 DEF Touching
  <2>5. QED
    BY <1>12, <1>15, <2>1, <2>2, <2>3, <2>4 DEF Chain, Abut
<1>16. CASE side = "after"
  <2>1. Sentences(side, ps[1]) = s
    BY <1>5, <1>16
  <2>2. ASSUME NEW k \in 1 .. n PROVE Beyond("after", s[k])
    BY <1>2, <1>4, <1>10, <1>14, <1>16 DEF Beyond
  <2>3. ASSUME NEW k \in 1 .. n, NEW j \in Between("after", s, k) PROVE ~Solid(j)
    <3>1. CASE k = 1
      <4>1. j \in span.to + 1 .. a - 1
        BY <1>2, <1>14, <2>3, <3>1 DEF Between
      <4>2. QED
        BY <1>1, <1>8, <1>16, <4>1
    <3>2. CASE k # 1
      <4>1. k - 1 \in 1 .. n
        BY <1>3, <3>2
      <4>2. j \in s[k - 1].to + 1 .. s[k].from - 1
        BY <2>3, <3>2 DEF Between
      <4>3. QED
        BY <1>2, <1>14, <4>1, <4>2
    <3>3. QED
      BY <3>1, <3>2
  <2>4. ASSUME NEW k \in 2 .. n PROVE Touching("after", s, k)
    <3>1. k - 1 \in 1 .. n /\ k \in 1 .. n
      BY <1>3
    <3>2. QED
      BY <1>2, <1>14, <3>1 DEF Touching
  <2>5. QED
    BY <1>11, <1>16, <2>1, <2>2, <2>3, <2>4 DEF Chain, Abut
<1>17. QED
  BY <1>15, <1>16 DEF BothSides

(* Between a line of a chain and the chunk, every line is in the chain.    *)
LEMMA ChainCovers ==
    ASSUME Placed, NEW s \in BothSides, NEW ps, Chain(s, ps), NEW i \in LinesOf(ps)
    PROVE  /\ i \in 1 .. Len(doc)
           /\ s = "before" =>
                i < span.from /\ \A k \in i .. span.from - 1 : Solid(k) => k \in LinesOf(ps)
           /\ s = "after" =>
                i > span.to /\ \A k \in span.to + 1 .. i : Solid(k) => k \in LinesOf(ps)
<1>1. ps \in Seq(Pieces) /\ Len(ps) \in Nat /\ DOMAIN ps = 1 .. Len(ps)
  BY DEF Chain
<1>2. ASSUME NEW k \in 1 .. Len(ps)
      PROVE  /\ ps[k].from \in Nat /\ ps[k].to \in Nat
             /\ 1 <= ps[k].from /\ ps[k].from <= ps[k].to /\ ps[k].to <= Len(doc)
  <2>1. ps[k] \in Pieces
    BY <1>1, ElementOfSeq
  <2>2. QED
    BY <2>1 DEF Pieces, Span
<1>3. \A k : k \in LinesOf(ps) <=> \E m \in 1 .. Len(ps) : k \in ps[m].from .. ps[m].to
  BY <1>1 DEF LinesOf
<1>4. PICK m \in 1 .. Len(ps) : i \in ps[m].from .. ps[m].to
  BY <1>3
<1>5. Beyond(s, ps[m]) /\ span.from \in Nat /\ span.to \in Nat /\ Len(doc) \in Nat
  BY DEF Chain, Placed, Span
<1>6. m \in Nat /\ \A l \in 1 .. m : l \in 1 .. Len(ps)
  BY <1>1
<1>7. i \in 1 .. Len(doc)
  BY <1>2, <1>4, <1>5
<1>8. ASSUME s = "before"
      PROVE  i < span.from /\ \A k \in i .. span.from - 1 : Solid(k) => k \in LinesOf(ps)
  <2>1. i < span.from
    BY <1>2, <1>4, <1>5, <1>8 DEF Beyond
  <2>2. ASSUME NEW k \in i .. span.from - 1, Solid(k), k \notin LinesOf(ps) PROVE FALSE
    <3> DEFINE P == {l \in 1 .. m : ps[l].from <= k}
    <3>1. m \in P /\ P \in SUBSET (1 .. m)
      BY <1>2, <1>4, <1>6
    <3>2. PICK l \in P : \A j \in 1 .. l - 1 : j \notin P
      <4> HIDE DEF P
      <4>1. P # {}
        BY <3>1
      <4>2. QED
        BY <1>6, <3>1, <4>1, LeastFailure
    <3>3. l \in 1 .. Len(ps) /\ l \in 1 .. m /\ ps[l].from <= k
      BY <1>6
    <3>4. ps[l].to < k
      BY <1>2, <1>3, <1>7, <2>2, <3>3, SMTT(30)
    <3>5. k < (IF l = 1 THEN span.from ELSE ps[l - 1].from)
      <4>1. CASE l = 1
        BY <1>5, <1>7, <4>1
      <4>2. CASE l # 1
        <5>1. l - 1 \in 1 .. l - 1 /\ l - 1 \in 1 .. m /\ l - 1 \in 1 .. Len(ps)
          BY <1>6, <3>3, <4>2
        <5>2. ~(ps[l - 1].from <= k)
          BY <3>2, <5>1
        <5>3. QED
          BY <1>2, <1>7, <4>2, <5>1, <5>2
      <4>3. QED
        BY <4>1, <4>2
    <3>6. k \in Between("before", ps, l)
      <4>1. (IF l = 1 THEN span.from ELSE ps[l - 1].from) \in Nat
        <5>1. l # 1 => l - 1 \in 1 .. Len(ps)
          BY <1>6, <3>3
        <5>2. QED
          BY <1>2, <1>5, <5>1
      <4>2. QED
        BY <1>2, <1>7, <3>3, <3>4, <3>5, <4>1, SMTT(30) DEF Between
    <3>7. QED
      BY <1>8, <2>2, <3>3, <3>6 DEF Chain
  <2>3. QED
    BY <2>1, <2>2
<1>9. ASSUME s = "after"
      PROVE  i > span.to /\ \A k \in span.to + 1 .. i : Solid(k) => k \in LinesOf(ps)
  <2>1. i > span.to
    BY <1>2, <1>4, <1>5, <1>9 DEF Beyond
  <2>2. ASSUME NEW k \in span.to + 1 .. i, Solid(k), k \notin LinesOf(ps) PROVE FALSE
    <3> DEFINE P == {l \in 1 .. m : ps[l].to >= k}
    <3>1. m \in P /\ P \in SUBSET (1 .. m)
      BY <1>2, <1>4, <1>6
    <3>2. PICK l \in P : \A j \in 1 .. l - 1 : j \notin P
      <4> HIDE DEF P
      <4>1. P # {}
        BY <3>1
      <4>2. QED
        BY <1>6, <3>1, <4>1, LeastFailure
    <3>3. l \in 1 .. Len(ps) /\ l \in 1 .. m /\ ps[l].to >= k
      BY <1>6
    <3>4. k < ps[l].from
      BY <1>2, <1>3, <1>5, <1>7, <2>2, <3>3, SMTT(20)
    <3>5. k > (IF l = 1 THEN span.to ELSE ps[l - 1].to)
      <4>1. CASE l = 1
        BY <1>5, <1>7, <4>1
      <4>2. CASE l # 1
        <5>1. l - 1 \in 1 .. l - 1 /\ l - 1 \in 1 .. m /\ l - 1 \in 1 .. Len(ps)
          BY <1>6, <3>3, <4>2
        <5>2. ~(ps[l - 1].to >= k)
          BY <3>2, <5>1
        <5>3. QED
          BY <1>2, <1>5, <1>7, <4>2, <5>1, <5>2
      <4>3. QED
        BY <4>1, <4>2
    <3>6. k \in Between("after", ps, l)
      <4>1. (IF l = 1 THEN span.to ELSE ps[l - 1].to) \in Nat
        <5>1. l # 1 => l - 1 \in 1 .. Len(ps)
          BY <1>6, <3>3
        <5>2. QED
          BY <1>2, <1>5, <5>1
      <4>2. QED
        BY <1>2, <1>5, <1>7, <3>3, <3>4, <3>5, <4>1, SMTT(30) DEF Between
    <3>7. QED
      BY <1>9, <2>2, <3>3, <3>6 DEF Chain
  <2>3. QED
    BY <2>1, <2>2
<1>10. QED
  BY <1>7, <1>8, <1>9

-----------------------------------------------------------------------------
(***************************************************************************)
(* The inductive invariant.                                                *)
(***************************************************************************)
(* The sides keep to their order: each is empty until it is closed.        *)
Framed ==
    /\ side \in BothSides
    /\ header \in Nat
    /\ window = [before |-> window.before, after |-> window.after]
    /\ side = "before" => window.before = Nothing
    /\ phase # "done" => window.after = Nothing
    /\ phase = "done" => side = "after"
    /\ phase = "locate" => side = "before"

(* The chunk was made of the document.                                     *)
Document ==
    /\ doc \in Docs /\ header \in HeaderCosts
    /\ \E c \in Verbatim(doc) \cup Joined(doc) \cup Rewritten(doc) :
          origin = c.origin /\ chunk = c.text

(* It has a place, or none, and that is where _locate puts it.             *)
Where ==
    /\ span = Nowhere \/ Placed
    /\ phase # "locate" /\ Window > 0 => span = Located

(* While a side is fitted, its neighbours are a chain: of paragraphs,      *)
(* which a break is put between, or of the sentences of one.               *)
Fitting ==
    /\ phase \in {"locate", "fit", "paragraphs", "sentences", "done"}
    /\ kept \in 0 .. Len(near)
    /\ phase \in {"locate", "fit", "done"} => near = <<>>
    /\ phase \in {"paragraphs", "sentences"} => Placed /\ Chain(side, near)
    /\ phase = "paragraphs" => near # <<>> /\ Apart(side, near)
    /\ phase = "sentences" => Abut(side, near)

(* A side that is closed keeps a chain, and is glued accordingly.          *)
Glued(s, ps, glue) ==
    \/ Apart(s, ps) /\ glue = Break
    \/ Abut(s, ps) /\ glue = <<>>

Closed ==
    \A s \in BothSides :
        /\ Chain(s, window[s].pieces)
        /\ Glued(s, window[s].pieces, window[s].glue)
        /\ span = Nowhere \/ phase = "locate" => window[s].pieces = <<>>

LEMMA DocIs ==
    ASSUME doc \in Docs
    PROVE  /\ Len(doc) \in Nat /\ 1 <= Len(doc) /\ DOMAIN doc = 1 .. Len(doc)
           /\ doc \in Seq(Text \cup {Blank})
           /\ Solid(1) /\ Solid(Len(doc))
           /\ \A i \in 1 .. Len(doc) : Solid(i) => doc[i] \in Text
<1>1. /\ doc \in UNION {[1..n -> Text \cup {Blank}] : n \in 1..MaxLines}
      /\ doc[1] # Blank /\ doc[Len(doc)] # Blank
  BY DEF Docs
<1>2. PICK n \in 1 .. MaxLines : doc \in [1..n -> Text \cup {Blank}]
  BY <1>1
<1>3. n \in Nat /\ 1 <= n
  BY <1>2, ContextualizingAssumption
<1>4. doc \in Seq(Text \cup {Blank}) /\ Len(doc) = n /\ DOMAIN doc = 1 .. n
  BY <1>2, <1>3
<1>5. QED
  BY <1>1, <1>2, <1>3, <1>4 DEF Solid

-----------------------------------------------------------------------------
(***************************************************************************)
(* Every step keeps the invariant.                                         *)
(***************************************************************************)
IInv == Framed /\ Document /\ Where /\ Fitting /\ Closed

(* What is true of pieces remains true while the document and the place    *)
(* are the same.                                                           *)
LEMMA Settled ==
    ASSUME doc' = doc, span' = span
    PROVE  /\ Pieces' = Pieces
           /\ Placed' = Placed
           /\ \A s, ps : Chain(s, ps)' = Chain(s, ps)
<1>1. Pieces' = Pieces
  BY DEF Pieces, Solid
<1>2. Placed' = Placed
  BY DEF Placed
<1>3. \A s, ps : Chain(s, ps)' = Chain(s, ps)
  BY <1>1 DEF Chain, Beyond, Between, Solid
<1>4. QED
  BY <1>1, <1>2, <1>3


-----------------------------------------------------------------------------
(***************************************************************************)
(* The chunk and its place.                                                *)
(***************************************************************************)
LEMMA MinMax ==
    ASSUME NEW P \in SUBSET Int, IsFiniteSet(P), P # {}
    PROVE  /\ Min(P) \in P /\ \A k \in P : Min(P) <= k
           /\ Max(P) \in P /\ \A k \in P : k <= Max(P)
BY Extremes DEF Min, Max

(* A passage and its lines.                                                *)
LEMMA PassageIs ==
    ASSUME doc \in Docs, NEW i \in Passages(doc)
    PROVE  /\ i.from \in Nat /\ i.to \in Nat /\ 1 <= i.from /\ i.from <= i.to /\ i.to <= Len(doc)
           /\ Solid(i.from) /\ Solid(i.to)
           /\ Lines(doc, i) \in Seq(Text \cup {Blank})
           /\ Len(Lines(doc, i)) = i.to - i.from + 1
           /\ \A k \in 1 .. i.to - i.from + 1 : Lines(doc, i)[k] = doc[i.from + k - 1]
<1>1. DOMAIN doc = 1 .. Len(doc) /\ Len(doc) \in Nat /\ doc \in Seq(Text \cup {Blank})
  BY DocIs
<1>2. /\ i.from \in 1 .. Len(doc) /\ i.to \in 1 .. Len(doc) /\ i.from <= i.to
      /\ Solid(i.from) /\ Solid(i.to)
  BY <1>1 DEF Passages, Solid
<1> DEFINE a == i.from
           b == i.to
           s == Lines(doc, i)
           T == Text \cup {Blank}
<1>3. s = SubSeq(doc, a, b)
  BY DEF Lines
<1>4. \A k \in a .. b : doc[k] \in T
  <2>1. \A k \in a .. b : k \in 1 .. Len(doc)
    BY <1>1, <1>2
  <2> HIDE DEF T
  <2>2. QED
    BY <1>1, <2>1, ElementOfSeq DEF T
<1>5. a \in Nat /\ b \in Nat /\ 1 <= a /\ a <= b /\ b <= Len(doc) /\ a \in Int /\ b \in Int
  BY <1>1, <1>2
<1> HIDE DEF a, b, s, T
<1>6. /\ s \in Seq(T) /\ Len(s) = (IF a <= b THEN b - a + 1 ELSE 0)
      /\ \A k \in 1 .. b - a + 1 : s[k] = doc[a + k - 1]
  BY <1>3, <1>4, <1>5, SubSeqProperties
<1>7. QED
  BY <1>2, <1>5, <1>6 DEF a, b, s, T

(* What the chunk is: its first line and its last one are lines of the     *)
(* document, and where it stands as it is it is no longer than its place.  *)
Made(a, b) ==
    /\ a \in 1 .. Len(doc) /\ b \in 1 .. Len(doc) /\ a <= b
    /\ a \in origin /\ b \in origin /\ \A i \in origin : a <= i /\ i <= b
    /\ chunk[1] = doc[a] /\ chunk[Len(chunk)] = doc[b]
    /\ a \in Occurrences(chunk, 1) => a + Len(chunk) - 1 <= b

LEMMA VerbatimIs ==
    ASSUME doc \in Docs, NEW c \in Verbatim(doc), origin = c.origin, chunk = c.text
    PROVE  /\ chunk \in Seq(Text \cup {Blank}) /\ Len(chunk) \in Nat /\ 1 <= Len(chunk)
           /\ origin \subseteq 1 .. Len(doc)
           /\ \E a, b : Made(a, b)
<1>1. PICK i \in Passages(doc) : c = [origin |-> i.from .. i.to, text |-> Lines(doc, i)]
  BY DEF Verbatim
<1>2. origin = i.from .. i.to /\ chunk = Lines(doc, i)
  BY <1>1
<1>3. Len(doc) \in Nat
  BY DocIs
<1>4. /\ i.from \in Nat /\ i.to \in Nat /\ 1 <= i.from /\ i.from <= i.to /\ i.to <= Len(doc)
      /\ chunk \in Seq(Text \cup {Blank}) /\ Len(chunk) = i.to - i.from + 1
      /\ \A k \in 1 .. i.to - i.from + 1 : chunk[k] = doc[i.from + k - 1]
  BY <1>2, PassageIs
<1>5. chunk[1] = doc[i.from] /\ chunk[Len(chunk)] = doc[i.to]
  <2>1. 1 \in 1 .. i.to - i.from + 1 /\ Len(chunk) \in 1 .. i.to - i.from + 1
        /\ i.from + 1 - 1 = i.from /\ i.from + Len(chunk) - 1 = i.to
    BY <1>4, SMTT(30)
  <2>2. QED
    BY <1>4, <2>1
<1>6. Made(i.from, i.to)
  <2>1. \A k \in origin : i.from <= k /\ k <= i.to
    BY <1>2, <1>4
  <2>2. i.from \in origin /\ i.to \in origin
    BY <1>2, <1>4
  <2>3. i.from + Len(chunk) - 1 <= i.to
    BY <1>4
  <2>4. i.from \in 1 .. Len(doc) /\ i.to \in 1 .. Len(doc)
    BY <1>3, <1>4
  <2>5. QED
    BY <1>4, <1>5, <2>1, <2>2, <2>3, <2>4 DEF Made
<1>7. origin \subseteq 1 .. Len(doc)
  BY <1>2, <1>3, <1>4
<1>8. Len(chunk) \in Nat /\ 1 <= Len(chunk)
  BY <1>4
<1>9. QED
  BY <1>4, <1>6, <1>7, <1>8

(* Three lists, one after the other.                                       *)
LEMMA ThreeLists ==
    ASSUME NEW T, NEW s \in Seq(T), NEW g \in Seq(T), NEW t \in Seq(T)
    PROVE  /\ s \o g \o t \in Seq(T)
           /\ Len(s \o g \o t) = Len(s) + Len(g) + Len(t)
           /\ \A k \in 1 .. Len(s) + Len(g) + Len(t) :
                (s \o g \o t)[k] = IF k <= Len(s) THEN s[k]
                                   ELSE IF k <= Len(s) + Len(g) THEN g[k - Len(s)]
                                   ELSE t[k - (Len(s) + Len(g))]
<1>1. /\ s \o g \in Seq(T) /\ Len(s \o g) = Len(s) + Len(g)
      /\ \A k \in 1 .. Len(s) + Len(g) : (s \o g)[k] = IF k <= Len(s) THEN s[k] ELSE g[k - Len(s)]
  BY ONLY s \in Seq(T), g \in Seq(T), ConcatProperties
<1>2. PICK u : u = s \o g
  OBVIOUS
<1>3. u \in Seq(T)
  BY <1>1, <1>2
<1>4. /\ u \o t \in Seq(T) /\ Len(u \o t) = Len(u) + Len(t)
      /\ \A k \in 1 .. Len(u) + Len(t) : (u \o t)[k] = IF k <= Len(u) THEN u[k] ELSE t[k - Len(u)]
  BY ONLY <1>3, t \in Seq(T), ConcatProperties
<1>5. Len(s) \in Nat /\ Len(g) \in Nat /\ Len(t) \in Nat
  OBVIOUS
<1>6. PICK m, l, n : m = Len(s) /\ l = Len(g) /\ n = Len(t)
  OBVIOUS
<1>7. \A k \in 1 .. m + l : u[k] = IF k <= m THEN s[k] ELSE g[k - m]
  BY ONLY <1>1, <1>2, <1>6
<1>8. PICK c : c = u \o t
  OBVIOUS
<1>9. Len(u) = m + l /\ c \in Seq(T)
  BY ONLY <1>1, <1>2, <1>4, <1>6, <1>8
<1>10. /\ Len(c) = m + l + n
       /\ \A k \in 1 .. m + l + n : c[k] = IF k <= m + l THEN u[k] ELSE t[k - (m + l)]
  BY ONLY <1>4, <1>6, <1>8, <1>9
<1>11. m \in Nat /\ l \in Nat /\ n \in Nat
  BY ONLY <1>5, <1>6
<1>12. \A k \in 1 .. m + l + n :
          c[k] = IF k <= m THEN s[k] ELSE IF k <= m + l THEN g[k - m] ELSE t[k - (m + l)]
  BY ONLY <1>7, <1>10, <1>11
<1>13. c = s \o g \o t
  BY ONLY <1>2, <1>8
<1>14. QED
  BY ONLY <1>6, <1>9, <1>10, <1>12, <1>13

LEMMA JoinedIs ==
    ASSUME doc \in Docs, NEW c \in Joined(doc), origin = c.origin, chunk = c.text
    PROVE  /\ chunk \in Seq(Text \cup {Blank}) /\ Len(chunk) \in Nat /\ 1 <= Len(chunk)
           /\ origin \subseteq 1 .. Len(doc)
           /\ \E a, b : Made(a, b)
<1>1. PICK p \in {q \in Passages(doc) \X Passages(doc) : q[1].to < q[2].from},
           glue \in {<<>>, <<Blank>>} :
        c = [origin |-> (p[1].from .. p[1].to) \cup (p[2].from .. p[2].to),
             text |-> Lines(doc, p[1]) \o glue \o Lines(doc, p[2])]
  BY DEF Joined
<1>2. PICK i \in Passages(doc), j \in Passages(doc) : i = p[1] /\ j = p[2] /\ i.to < j.from
  OBVIOUS
<1>3. PICK T : T = Text \cup {Blank}
  OBVIOUS
<1>4. PICK s : s = Lines(doc, i)
  OBVIOUS
<1>5. PICK t : t = Lines(doc, j)
  OBVIOUS
<1>6. origin = (i.from .. i.to) \cup (j.from .. j.to) /\ chunk = s \o glue \o t
  BY <1>1, <1>2, <1>4, <1>5
<1>7. /\ i.from \in Nat /\ i.to \in Nat /\ 1 <= i.from /\ i.from <= i.to
      /\ s \in Seq(T) /\ Len(s) = i.to - i.from + 1
      /\ \A k \in 1 .. i.to - i.from + 1 : s[k] = doc[i.from + k - 1]
  BY <1>3, <1>4, PassageIs
<1>8. /\ j.from \in Nat /\ j.to \in Nat /\ j.from <= j.to /\ j.to <= Len(doc)
      /\ Solid(j.from)
      /\ t \in Seq(T) /\ Len(t) = j.to - j.from + 1
      /\ \A k \in 1 .. j.to - j.from + 1 : t[k] = doc[j.from + k - 1]
  BY <1>3, <1>5, PassageIs
<1>9. /\ glue \in Seq(T) /\ Len(glue) \in Nat
      /\ Len(glue) = 0 \/ (Len(glue) = 1 /\ glue[1] = Blank)
  <2>1. CASE glue = <<>>
    BY <2>1
  <2>2. CASE glue = <<Blank>>
    BY <1>3, <2>2
  <2>3. QED
    BY <1>1, <2>1, <2>2
<1>10. PICK a, b, x, d, m, g, n :
         /\ a = i.from /\ b = i.to /\ x = j.from /\ d = j.to
         /\ m = b - a + 1 /\ g = Len(glue) /\ n = d - x + 1
  OBVIOUS
<1>11. /\ a \in Nat /\ b \in Nat /\ x \in Nat /\ d \in Nat /\ Len(doc) \in Nat
       /\ 1 <= a /\ a <= b /\ b < x /\ x <= d /\ d <= Len(doc)
       /\ m \in Nat /\ n \in Nat /\ g \in Nat
       /\ m = b - a + 1 /\ n = d - x + 1
  BY <1>2, <1>7, <1>8, <1>9, <1>10, DocIs
<1>12. /\ Len(s) = m /\ Len(glue) = g /\ Len(t) = n
       /\ \A k \in 1 .. m : s[k] = doc[a + k - 1]
       /\ \A k \in 1 .. n : t[k] = doc[x + k - 1]
       /\ g = 0 \/ (g = 1 /\ glue[1] = Blank)
       /\ Solid(x) /\ origin = (a .. b) \cup (x .. d)
  BY <1>6, <1>7, <1>8, <1>9, <1>10
<1>13. /\ chunk \in Seq(T) /\ Len(chunk) = m + g + n
       /\ \A k \in 1 .. m : chunk[k] = s[k]
       /\ \A k \in m + 1 .. m + g : chunk[k] = glue[k - m]
       /\ \A k \in m + g + 1 .. m + g + n : chunk[k] = t[k - (m + g)]
  <2>1. PICK c0 : c0 = chunk
    OBVIOUS
  <2>2. /\ c0 \in Seq(T) /\ Len(c0) = m + g + n
        /\ \A k \in 1 .. m : c0[k] = s[k]
        /\ \A k \in m + 1 .. m + g : c0[k] = glue[k - m]
        /\ \A k \in m + g + 1 .. m + g + n : c0[k] = t[k - (m + g)]
    <3>1. /\ s \in Seq(T) /\ glue \in Seq(T) /\ t \in Seq(T) /\ c0 = s \o glue \o t
          /\ m \in Nat /\ g \in Nat /\ n \in Nat /\ Len(s) = m /\ Len(glue) = g /\ Len(t) = n
      BY <1>6, <1>7, <1>8, <1>9, <1>11, <1>12, <2>1
    <3>2. /\ c0 \in Seq(T) /\ Len(c0) = Len(s) + Len(glue) + Len(t)
          /\ \A k \in 1 .. Len(s) + Len(glue) + Len(t) :
                c0[k] = IF k <= Len(s) THEN s[k]
                        ELSE IF k <= Len(s) + Len(glue) THEN glue[k - Len(s)]
                        ELSE t[k - (Len(s) + Len(glue))]
      <4>1. s \in Seq(T) /\ glue \in Seq(T) /\ t \in Seq(T)
        BY ONLY <3>1
      <4>2. /\ s \o glue \o t \in Seq(T) /\ Len(s \o glue \o t) = Len(s) + Len(glue) + Len(t)
            /\ \A k \in 1 .. Len(s) + Len(glue) + Len(t) :
                  (s \o glue \o t)[k] =
                        IF k <= Len(s) THEN s[k]
                        ELSE IF k <= Len(s) + Len(glue) THEN glue[k - Len(s)]
                        ELSE t[k - (Len(s) + Len(glue))]
        BY ONLY <4>1, ThreeLists
      <4>3. c0 = s \o glue \o t
        BY ONLY <3>1
      <4>4. QED
        BY ONLY <4>2, <4>3, Zenon
    <3>3. /\ Len(c0) = m + g + n
          /\ \A k \in 1 .. m + g + n :
                c0[k] = IF k <= m THEN s[k]
                        ELSE IF k <= m + g THEN glue[k - m] ELSE t[k - (m + g)]
      <4>1. Len(s) = m /\ Len(glue) = g /\ Len(t) = n
        BY ONLY <3>1
      <4>2. QED
        BY ONLY <3>2, <4>1
    <3>4. m \in Nat /\ g \in Nat /\ n \in Nat
      BY <3>1
    <3>5. ASSUME NEW k \in 1 .. m PROVE c0[k] = s[k]
      <4>1. k \in 1 .. m + g + n /\ k <= m
        BY ONLY <3>4, k \in 1 .. m
      <4>2. QED
        BY ONLY <3>3, <4>1
    <3>6. ASSUME NEW k \in m + 1 .. m + g PROVE c0[k] = glue[k - m]
      <4>1. k \in 1 .. m + g + n /\ ~(k <= m) /\ k <= m + g
        BY ONLY <3>4, k \in m + 1 .. m + g
      <4>2. QED
        BY ONLY <3>3, <4>1
    <3>7. ASSUME NEW k \in m + g + 1 .. m + g + n PROVE c0[k] = t[k - (m + g)]
      <4>1. k \in 1 .. m + g + n /\ ~(k <= m) /\ ~(k <= m + g)
        BY ONLY <3>4, k \in m + g + 1 .. m + g + n
      <4>2. QED
        BY ONLY <3>3, <4>1
    <3>8. QED
      BY ONLY <3>2, <3>3, <3>5, <3>6, <3>7
  <2>3. QED
    BY ONLY <2>1, <2>2
<1>14. chunk[1] = doc[a]
  <2>1. 1 \in 1 .. m /\ a + 1 - 1 = a
    BY ONLY <1>11
  <2>2. QED
    BY ONLY <1>12, <1>13, <2>1
<1>15. chunk[m + g + n] = doc[d]
  <2>1. /\ m + g + n \in m + g + 1 .. m + g + n /\ (m + g + n) - (m + g) = n
        /\ n \in 1 .. n /\ x + n - 1 = d
    BY ONLY <1>11
  <2>2. QED
    BY ONLY <1>12, <1>13, <2>1, SMTT(20)
<1>16. g = 0 \/ (g = 1 /\ chunk[m + 1] = Blank)
  <2>1. g = 1 => m + 1 \in m + 1 .. m + g /\ (m + 1) - m = 1
    BY ONLY <1>11
  <2>2. QED
    BY ONLY <1>12, <1>13, <2>1
<1>17. DOMAIN chunk = 1 .. m + g + n /\ Len(chunk) \in Nat /\ 1 <= Len(chunk)
  BY ONLY <1>11, <1>13
<1>18. Made(a, d)
  <2>1. ASSUME a \in Occurrences(chunk, 1) PROVE a + Len(chunk) - 1 <= d
    <3>1. CASE g = 0 \/ b + 1 < x
      BY ONLY <1>11, <1>13, <1>16, <3>1
    <3>2. CASE g = 1 /\ b + 1 = x
      <4>1. m + 1 \in DOMAIN chunk /\ a + (m + 1) - 1 = x
        BY ONLY <1>11, <1>17, <3>2
      <4>2. doc[a + (m + 1) - 1] = chunk[m + 1]
        BY ONLY <2>1, <4>1 DEF Occurrences
      <4>3. QED
        BY ONLY <1>12, <1>16, <3>2, <4>1, <4>2 DEF Solid
    <3>3. QED
      BY ONLY <1>11, <1>16, <3>1, <3>2
  <2>2. \A k \in origin : a <= k /\ k <= d
    BY ONLY <1>11, <1>12
  <2>3. a \in origin /\ d \in origin
    BY ONLY <1>11, <1>12
  <2>4. a \in 1 .. Len(doc) /\ d \in 1 .. Len(doc) /\ a <= d
    BY ONLY <1>11
  <2>5. QED
    BY ONLY <1>13, <1>14, <1>15, <2>1, <2>2, <2>3, <2>4 DEF Made
<1>19. origin \subseteq 1 .. Len(doc)
  BY ONLY <1>11, <1>12
<1>20. QED
  BY <1>3, <1>13, <1>17, <1>18, <1>19

LEMMA ChunkIs ==
    ASSUME Document
    PROVE  /\ chunk \in Seq(Text \cup {Blank}) /\ Len(chunk) \in Nat /\ 1 <= Len(chunk)
           /\ origin \subseteq 1 .. Len(doc)
           /\ origin # {} => \E a, b : Made(a, b)
<1>1. doc \in Docs
  BY DEF Document
<1>2. PICK c \in Verbatim(doc) \cup Joined(doc) \cup Rewritten(doc) :
        origin = c.origin /\ chunk = c.text
  BY DEF Document
<1>3. CASE c \in Verbatim(doc)
  BY <1>1, <1>2, <1>3, VerbatimIs
<1>4. CASE c \in Joined(doc)
  BY <1>1, <1>2, <1>4, JoinedIs
<1>5. CASE c \in Rewritten(doc)
  <2>1. PICK t \in Text : c = [origin |-> {}, text |-> <<t>>]
    BY <1>5 DEF Rewritten
  <2>2. origin = {} /\ chunk = <<t>>
    BY <1>2, <2>1
  <2>3. QED
    BY <2>2
<1>6. QED
  BY <1>2, <1>3, <1>4, <1>5

(* Where a line or a text occurs.                                          *)
LEMMA OccurrencesAre ==
    ASSUME Len(doc) \in Nat, NEW needle \in Seq(Text \cup {Blank}), 1 <= Len(needle),
           NEW start \in Nat
    PROVE  /\ Occurrences(needle, start) \in SUBSET Int
           /\ IsFiniteSet(Occurrences(needle, start))
           /\ \A i \in Occurrences(needle, start) :
                 /\ i \in Nat /\ start <= i /\ i + Len(needle) - 1 <= Len(doc)
                 /\ \A k \in 1 .. Len(needle) : doc[i + k - 1] = needle[k]
<1> DEFINE S == start .. Len(doc) - Len(needle) + 1
           P == Occurrences(needle, start)
<1>1. P \subseteq S /\ S \subseteq Int
  BY DEF Occurrences
<1>2. IsFiniteSet(S)
  <2>1. Len(doc) - Len(needle) + 1 \in Int
    OBVIOUS
  <2>2. QED
    BY <2>1, FS_Interval
<1>3. ASSUME NEW i \in P
      PROVE  /\ i \in Nat /\ start <= i /\ i + Len(needle) - 1 <= Len(doc)
             /\ \A k \in 1 .. Len(needle) : doc[i + k - 1] = needle[k]
  BY DEF Occurrences
<1> HIDE DEF S, P
<1>4. IsFiniteSet(P)
  BY <1>1, <1>2, FS_Subset
<1>5. QED
  BY <1>1, <1>3, <1>4 DEF P

LEMMA LineOccurs ==
    ASSUME Len(doc) \in Nat, NEW line \in Text \cup {Blank}, NEW start \in Nat
    PROVE  /\ \A i : i \in Occurrences(<<line>>, start) <=> i \in start .. Len(doc) /\ doc[i] = line
           /\ Occurrences(<<line>>, start) # {} =>
                /\ FirstFrom(line, start) \in Occurrences(<<line>>, start)
                /\ \A i \in Occurrences(<<line>>, start) : FirstFrom(line, start) <= i
<1> DEFINE needle == <<line>>
           P == Occurrences(needle, start)
<1>1. needle \in Seq(Text \cup {Blank}) /\ Len(needle) = 1 /\ DOMAIN needle = 1 .. 1 /\ needle[1] = line
  OBVIOUS
<1>2. FirstFrom(line, start) = Min(P)
  BY DEF FirstFrom
<1>3. ASSUME NEW i PROVE i \in P <=> i \in start .. Len(doc) /\ doc[i] = line
  <2>1. i \in P <=> /\ i \in start .. Len(doc) - Len(needle) + 1
                    /\ \A k \in 1 .. 1 : doc[i + k - 1] = needle[k]
    BY <1>1 DEF Occurrences
  <2>2. Len(doc) - Len(needle) + 1 = Len(doc)
    BY <1>1
  <2>3. ASSUME i \in start .. Len(doc)
        PROVE  (\A k \in 1 .. 1 : doc[i + k - 1] = needle[k]) <=> doc[i] = line
    <3>1. i + 1 - 1 = i
      BY <2>3
    <3>2. \A k \in 1 .. 1 : k = 1
      OBVIOUS
    <3>3. QED
      BY <1>1, <3>1, <3>2
  <2>4. QED
    BY <2>1, <2>2, <2>3
<1>4. P \in SUBSET Int /\ IsFiniteSet(P)
  <2>1. 1 <= Len(needle)
    BY <1>1
  <2> HIDE DEF needle
  <2>2. QED
    BY <1>1, <2>1, OccurrencesAre
<1> HIDE DEF P
<1>5. P # {} => Min(P) \in P /\ \A i \in P : Min(P) <= i
  BY <1>4, MinMax
<1>6. QED
  BY <1>2, <1>3, <1>5 DEF P, needle

(* The first and the last line of the chunk are lines.                     *)
LEMMA EndsAre ==
    ASSUME Document
    PROVE  /\ Len(doc) \in Nat
           /\ chunk[1] \in Text \cup {Blank} /\ chunk[Len(chunk)] \in Text \cup {Blank}
<1>1. doc \in Docs /\ chunk \in Seq(Text \cup {Blank}) /\ Len(chunk) \in Nat /\ 1 <= Len(chunk)
  BY ChunkIs DEF Document
<1>2. 1 \in 1 .. Len(chunk) /\ Len(chunk) \in 1 .. Len(chunk)
  BY <1>1
<1>3. PICK T : T = Text \cup {Blank}
  OBVIOUS
<1>4. \A k \in 1 .. Len(chunk) : chunk[k] \in T
  BY <1>1, <1>3, ElementOfSeq
<1>5. QED
  BY <1>1, <1>2, <1>3, <1>4, DocIs

(* The place that _locate finds is one of the document.                    *)
LEMMA LocatedIs ==
    ASSUME Document
    PROVE  \/ Located = Nowhere
           \/ /\ Located \in Span
              /\ 1 <= Located.from /\ Located.from <= Located.to /\ Located.to <= Len(doc)
<1>1. doc \in Docs /\ chunk \in Seq(Text \cup {Blank}) /\ Len(chunk) \in Nat /\ 1 <= Len(chunk)
  BY ChunkIs DEF Document
<1>2. Len(doc) \in Nat /\ chunk[1] \in Text \cup {Blank} /\ chunk[Len(chunk)] \in Text \cup {Blank}
  BY EndsAre
<1>3. CASE Occurrences(chunk, 1) # {}
  <2> DEFINE P == Occurrences(chunk, 1)
             a == Min(P)
  <2>1. /\ P \in SUBSET Int /\ IsFiniteSet(P)
        /\ \A i \in P : i \in Nat /\ 1 <= i /\ i + Len(chunk) - 1 <= Len(doc)
    <3>1. 1 \in Nat
      OBVIOUS
    <3>2. QED
      BY <1>1, <1>2, <3>1, OccurrencesAre
  <2>2. P # {}
    BY <1>3
  <2>3. Located = [from |-> a, to |-> a + Len(chunk) - 1]
    BY <1>3 DEF Located
  <2> HIDE DEF P
  <2>4. a \in P
    BY <2>1, <2>2, MinMax
  <2> HIDE DEF a
  <2>5. a \in Nat /\ 1 <= a /\ a + Len(chunk) - 1 <= Len(doc)
    BY <2>1, <2>4
  <2>6. a + Len(chunk) - 1 \in Nat /\ a <= a + Len(chunk) - 1
    BY <1>1, <2>5
  <2>7. QED
    BY <2>3, <2>5, <2>6 DEF Span
<1>4. CASE Occurrences(chunk, 1) = {} /\ Occurrences(<<chunk[1]>>, 1) = {}
  BY <1>4 DEF Located
<1>5. CASE Occurrences(chunk, 1) = {} /\ Occurrences(<<chunk[1]>>, 1) # {}
  <2> DEFINE a == FirstFrom(chunk[1], 1)
             last == chunk[Len(chunk)]
             b == IF Occurrences(<<last>>, a) = {} THEN a ELSE FirstFrom(last, a)
  <2>1. Located = [from |-> a, to |-> b]
    BY <1>5 DEF Located, AnchoredSpan
  <2>2. a \in 1 .. Len(doc)
    <3>1. 1 \in Nat
      OBVIOUS
    <3>2. QED
      BY <1>2, <1>5, <3>1, LineOccurs
  <2> HIDE DEF a
  <2>3. a \in Nat
    BY <2>2
  <2>4. b \in a .. Len(doc)
    <3>1. CASE Occurrences(<<last>>, a) = {}
      BY <1>2, <2>2, <3>1
    <3>2. CASE Occurrences(<<last>>, a) # {}
      <4>1. FirstFrom(last, a) \in a .. Len(doc)
        BY <1>2, <2>3, <3>2, LineOccurs
      <4>2. QED
        BY <3>2, <4>1
    <3>3. QED
      BY <3>1, <3>2
  <2> HIDE DEF b
  <2>5. b \in Nat
    BY <2>3, <2>4
  <2>6. QED
    BY <1>2, <2>1, <2>2, <2>3, <2>4, <2>5 DEF Span
<1>6. QED
  BY <1>3, <1>4, <1>5

(* It is the chunk's own, if its text stands nowhere else, its first line  *)
(* nowhere before it, its last one nowhere within it.                      *)
LEMMA LocatedRight ==
    ASSUME Document, NEW a, NEW b, Made(a, b), Occurrences(chunk, 1) \subseteq {a},
           \A k \in 1 .. a - 1 : doc[k] # chunk[1],
           \A k \in a .. b - 1 : doc[k] # chunk[Len(chunk)]
    PROVE  Located = [from |-> a, to |-> b]
<1>1. doc \in Docs /\ chunk \in Seq(Text \cup {Blank}) /\ Len(chunk) \in Nat /\ 1 <= Len(chunk)
  BY ChunkIs DEF Document
<1>2. Len(doc) \in Nat /\ chunk[1] \in Text \cup {Blank} /\ chunk[Len(chunk)] \in Text \cup {Blank}
  BY EndsAre
<1>3. /\ a \in 1 .. Len(doc) /\ b \in 1 .. Len(doc) /\ a <= b
      /\ chunk[1] = doc[a] /\ chunk[Len(chunk)] = doc[b]
      /\ a \in Occurrences(chunk, 1) => a + Len(chunk) - 1 <= b
  BY DEF Made
<1>4. CASE Occurrences(chunk, 1) # {}
  <2>1. Occurrences(chunk, 1) = {a}
    BY <1>4
  <2>2. Min({a}) = a
    BY <1>3 DEF Min
  <2>3. Located = [from |-> a, to |-> a + Len(chunk) - 1]
    BY <2>1, <2>2 DEF Located
  <2>4. doc[a + Len(chunk) - 1] = chunk[Len(chunk)]
    <3>1. 1 \in Nat /\ a \in Occurrences(chunk, 1)
      BY <2>1
    <3>2. \A k \in 1 .. Len(chunk) : doc[a + k - 1] = chunk[k]
      BY <1>1, <1>2, <3>1, OccurrencesAre
    <3>3. QED
      BY <1>1, <3>2
  <2>5. a + Len(chunk) - 1 <= b
    BY <1>3, <2>1
  <2>6. a + Len(chunk) - 1 = b
    <3>1. a + Len(chunk) - 1 \in Int /\ a <= a + Len(chunk) - 1 /\ b \in Int /\ a \in Int
      BY <1>1, <1>3
    <3>2. a + Len(chunk) - 1 \in a .. b - 1 \/ a + Len(chunk) - 1 = b
      BY <2>5, <3>1
    <3>3. QED
      BY <2>4, <3>2
  <2>7. QED
    BY <2>3, <2>6
<1>5. CASE Occurrences(chunk, 1) = {}
  <2>1. FirstFrom(chunk[1], 1) = a /\ Occurrences(<<chunk[1]>>, 1) # {}
    <3> DEFINE P == Occurrences(<<chunk[1]>>, 1)
               f == FirstFrom(chunk[1], 1)
    <3>1. 1 \in Nat
      OBVIOUS
    <3>2. /\ \A i : i \in P <=> i \in 1 .. Len(doc) /\ doc[i] = chunk[1]
          /\ P # {} => f \in P /\ \A i \in P : f <= i
      BY <1>2, <3>1, LineOccurs
    <3> HIDE DEF P, f
    <3>3. a \in P
      BY <1>3, <3>2
    <3>4. f \in 1 .. Len(doc) /\ doc[f] = chunk[1] /\ f <= a
      BY <3>2, <3>3
    <3>5. f \notin 1 .. a - 1
      BY <3>4
    <3>6. f = a
      BY <1>3, <3>4, <3>5
    <3>7. QED
      BY <3>3, <3>6 DEF P, f
  <2>2. Occurrences(<<chunk[Len(chunk)]>>, a) # {} /\ FirstFrom(chunk[Len(chunk)], a) = b
    <3> DEFINE last == chunk[Len(chunk)]
               P == Occurrences(<<last>>, a)
               f == FirstFrom(last, a)
    <3>1. a \in Nat
      BY <1>3
    <3>2. /\ \A i : i \in P <=> i \in a .. Len(doc) /\ doc[i] = last
          /\ P # {} => f \in P /\ \A i \in P : f <= i
      BY <1>2, <3>1, LineOccurs
    <3> HIDE DEF P, f
    <3>3. b \in P
      BY <1>3, <3>2
    <3>4. f \in a .. Len(doc) /\ doc[f] = last /\ f <= b
      BY <3>2, <3>3
    <3>5. f \notin a .. b - 1
      BY <3>4
    <3>6. f = b
      BY <1>3, <3>4, <3>5
    <3>7. QED
      BY <3>3, <3>6 DEF P, f
  <2>3. Located = AnchoredSpan
    BY <1>5, <2>1 DEF Located
  <2>4. QED
    BY <2>1, <2>2, <2>3 DEF AnchoredSpan
<1>6. QED
  BY <1>4, <1>5

-----------------------------------------------------------------------------
(***************************************************************************)
(* The steps.                                                              *)
(***************************************************************************)
LEMMA DocumentStays ==
    ASSUME doc' = doc, chunk' = chunk, origin' = origin, header' = header
    PROVE  (Document => Document') /\ Located' = Located
<1>1. Document => Document'
  BY DEF Document
<1>2. Located' = Located
  BY DEF Located, AnchoredSpan, FirstFrom, Occurrences
<1>3. QED
  BY <1>1, <1>2

(* No pieces: a chain, however it is glued.                                *)
LEMMA NoPieces ==
    ASSUME NEW s \in BothSides
    PROVE  /\ Chain(s, <<>>) /\ Apart(s, <<>>) /\ Abut(s, <<>>)
           /\ Glued(s, <<>>, Break)
BY DEF Chain, Apart, Abut, Glued

LEMMA InvInit == Init => IInv
<1> SUFFICES ASSUME Init PROVE IInv
  OBVIOUS
<1>1. PICK d \in Docs : \E c \in Verbatim(d) \cup Joined(d) \cup Rewritten(d) :
        \E h \in HeaderCosts : Begin(d, c, h)
  BY DEF Init
<1>2. PICK c \in Verbatim(d) \cup Joined(d) \cup Rewritten(d), h \in HeaderCosts :
        Begin(d, c, h)
  BY <1>1
<1>3. /\ phase = "locate" /\ side = "before" /\ doc = d /\ origin = c.origin
      /\ chunk = c.text /\ header = h /\ span = Nowhere /\ near = <<>> /\ kept = 0
      /\ window = [before |-> Nothing, after |-> Nothing]
  BY <1>2 DEF Begin
<1>4. Document
  BY <1>3 DEF Document
<1>5. Where
  BY <1>3 DEF Where
<1>6. Fitting
  BY <1>3 DEF Fitting
<1>7. ASSUME NEW s \in BothSides
      PROVE  window[s].pieces = <<>> /\ window[s].glue = Break
  BY <1>3 DEF BothSides, Nothing
<1>8. Closed
  BY <1>7, NoPieces DEF Closed
<1>9. Framed
  <2>1. header \in Nat
    BY <1>3, ContextualizingAssumption
  <2>2. QED
    BY <1>3, <2>1 DEF Framed, BothSides
<1>10. QED
  BY <1>4, <1>5, <1>6, <1>8, <1>9 DEF IInv

(* What the sides keep is unchanged, or one of them is closed.             *)
LEMMA ClosedStays ==
    ASSUME Closed, doc' = doc, span' = span, window' = window, phase' # "locate"
    PROVE  Closed'
<1> SUFFICES ASSUME NEW s \in BothSides
             PROVE  /\ Chain(s, window[s].pieces)'
                    /\ Glued(s, window[s].pieces, window[s].glue)'
                    /\ (span = Nowhere \/ phase = "locate" => window[s].pieces = <<>>)'
  BY DEF Closed
<1>1. PICK ps, glue : ps = window[s].pieces /\ glue = window[s].glue
  OBVIOUS
<1>2. Chain(s, ps) /\ Glued(s, ps, glue)
  BY <1>1 DEF Closed
<1>3. Chain(s, ps)'
  BY <1>2, Settled
<1>4. window'[s].pieces = ps /\ window'[s].glue = glue
  BY <1>1
<1>5. (span = Nowhere \/ phase = "locate" => window[s].pieces = <<>>)'
  BY DEF Closed
<1>6. QED
  BY <1>2, <1>3, <1>4, <1>5

(* A step that leaves the sides and the order of fitting alone.            *)
LEMMA FramedStays ==
    ASSUME Framed, side' = side, header' = header, window' = window,
           phase # "done", phase' \notin {"done", "locate"}
    PROVE  Framed'
BY DEF Framed

LEMMA ClosingKeeps ==
    ASSUME IInv, NEW pieces, NEW glue, CloseSide(pieces, glue), phase \notin {"locate", "done"},
           Chain(side, pieces), Glued(side, pieces, glue), span = Nowhere => pieces = <<>>
    PROVE  IInv'
<1>1. /\ doc' = doc /\ origin' = origin /\ chunk' = chunk /\ header' = header /\ span' = span
      /\ phase' = (IF side = "before" THEN "fit" ELSE "done") /\ side' = "after"
      /\ phase' \in {"fit", "done"} /\ near' = <<>> /\ kept' = 0
      /\ window' = [window EXCEPT ![side] = [pieces |-> pieces, glue |-> glue]]
  BY DEF CloseSide
<1>2. Document'
  BY <1>1, DocumentStays DEF IInv
<1>3. Where'
  <2>1. span' = Located' \/ Window = 0
    BY <1>1, DocumentStays, ContextualizingAssumption DEF IInv, Where
  <2>2. Placed' = Placed
    BY <1>1, Settled
  <2>3. span = Nowhere \/ Placed
    BY DEF IInv, Where
  <2>4. QED
    BY <1>1, <2>1, <2>2, <2>3 DEF Where
<1>4. Fitting'
  <2>1. 0 \in 0 .. Len(<<>>)
    OBVIOUS
  <2>2. QED
    BY <1>1, <2>1 DEF Fitting
<1>5. side \in BothSides /\ window = [before |-> window.before, after |-> window.after]
  BY DEF IInv, Framed
<1>6. DOMAIN window = BothSides
  BY <1>5 DEF BothSides
<1>7. Closed'
  <2> SUFFICES ASSUME NEW s \in BothSides
               PROVE  /\ Chain(s, window[s].pieces)'
                      /\ Glued(s, window[s].pieces, window[s].glue)'
                      /\ (span = Nowhere \/ phase = "locate" => window[s].pieces = <<>>)'
    BY DEF Closed
  <2>1. PICK ps, g : ps = window'[s].pieces /\ g = window'[s].glue
    OBVIOUS
  <2>2. IF s = side THEN ps = pieces /\ g = glue
        ELSE ps = window[s].pieces /\ g = window[s].glue
    BY <1>1, <1>5, <1>6, <2>1
  <2>3. Chain(s, ps) /\ Glued(s, ps, g) /\ (span = Nowhere => ps = <<>>)
    BY <2>2 DEF IInv, Closed
  <2>4. Chain(s, ps)'
    BY <1>1, <2>3, Settled
  <2>5. QED
    BY <1>1, <2>1, <2>3, <2>4
<1>8. Framed'
  <2>1. header \in Nat /\ (side = "before" => window.after = Nothing)
    BY DEF IInv, Framed
  <2>2. CASE side = "before"
    <3>1. window' = [before |-> [pieces |-> pieces, glue |-> glue], after |-> window.after]
      BY <1>1, <1>5, <2>2
    <3>2. QED
      BY <1>1, <2>1, <2>2, <3>1 DEF Framed, BothSides
  <2>3. CASE side = "after"
    <3>1. window' = [before |-> window.before, after |-> [pieces |-> pieces, glue |-> glue]]
      BY <1>1, <1>5, <2>3
    <3>2. QED
      BY <1>1, <2>1, <2>3, <3>1 DEF Framed, BothSides
  <2>4. QED
    BY <1>5, <2>2, <2>3 DEF BothSides
<1>9. QED
  BY <1>2, <1>3, <1>4, <1>7, <1>8 DEF IInv

LEMMA LocateKeeps ==
    ASSUME IInv, Locate PROVE IInv'
<1>1. /\ doc' = doc /\ origin' = origin /\ chunk' = chunk /\ header' = header
      /\ phase = "locate" /\ phase' = "fit" /\ near' = near /\ kept' = kept
      /\ window' = window /\ side' = side
      /\ span' = IF Window = 0 THEN Nowhere ELSE Located
  BY DEF Locate
<1>2. Document'
  BY <1>1, DocumentStays DEF IInv
<1>3. Where'
  <2>1. Located' = Located
    BY <1>1, DocumentStays
  <2>2. span' = Nowhere \/ Placed'
    <3>1. Len(doc) \in Nat /\ doc \in Docs
      BY DocIs DEF IInv, Document
    <3>2. CASE Window = 0 \/ Located = Nowhere
      BY <1>1, <3>2
    <3>3. CASE Window # 0 /\ Located # Nowhere
      <4>1. /\ span' \in Span
            /\ 1 <= span'.from /\ span'.from <= span'.to /\ span'.to <= Len(doc)
        BY <1>1, <3>3, LocatedIs DEF IInv
      <4>2. QED
        BY <1>1, <3>1, <4>1 DEF Placed
    <3>4. QED
      BY <3>2, <3>3
  <2>3. Window > 0 => span' = Located'
    BY <1>1, <2>1
  <2>4. QED
    BY <2>2, <2>3 DEF Where
<1>4. Fitting'
  BY <1>1 DEF IInv, Fitting
<1>5. Framed'
  BY <1>1, FramedStays DEF IInv
<1>6. window = [before |-> Nothing, after |-> Nothing]
  BY <1>1 DEF IInv, Framed
<1>7. Closed'
  <2> SUFFICES ASSUME NEW s \in BothSides
               PROVE  /\ Chain(s, window[s].pieces)'
                      /\ Glued(s, window[s].pieces, window[s].glue)'
                      /\ (span = Nowhere \/ phase = "locate" => window[s].pieces = <<>>)'
    BY DEF Closed
  <2>1. window'[s].pieces = <<>> /\ window'[s].glue = Break
    BY <1>1, <1>6 DEF BothSides, Nothing
  <2>2. Chain(s, <<>>)' /\ Glued(s, <<>>, Break)
    BY NoPieces DEF Chain
  <2>3. QED
    BY <2>1, <2>2
<1>8. QED
  BY <1>2, <1>3, <1>4, <1>5, <1>7 DEF IInv

(* A side that is being fitted has pieces and stands somewhere.            *)
LEMMA LeaveEmptyKeeps ==
    ASSUME IInv, LeaveEmpty PROVE IInv'
<1>1. side \in BothSides
  BY DEF IInv, Framed
<1>2. CloseSide(<<>>, Break) /\ phase \notin {"locate", "done"}
  BY DEF LeaveEmpty
<1>3. PICK ps, glue : ps = <<>> /\ glue = Break
  OBVIOUS
<1>4. CloseSide(ps, glue) /\ Chain(side, ps) /\ Glued(side, ps, glue)
  BY <1>1, <1>2, <1>3, NoPieces
<1>5. QED
  BY <1>2, <1>3, <1>4, ClosingKeeps

LEMMA KeepWholeKeeps ==
    ASSUME IInv, KeepWhole PROVE IInv'
<1>1. side \in BothSides /\ (span = Nowhere \/ Placed)
  BY DEF IInv, Framed, Where
<1>2. PICK ps, glue : ps = Neighbours(side) /\ glue = Break
  OBVIOUS
<1>3. CloseSide(ps, glue) /\ phase \notin {"locate", "done"} /\ ps # <<>>
  BY <1>2 DEF KeepWhole
<1>4. Chain(side, ps) /\ Apart(side, ps)
  BY <1>1, <1>2, NeighboursChain
<1>5. span # Nowhere
  BY <1>2, <1>3 DEF Neighbours
<1>6. Glued(side, ps, glue)
  BY <1>2, <1>4 DEF Glued
<1>7. QED
  BY <1>3, <1>4, <1>5, <1>6, ClosingKeeps

LEMMA OverflowKeeps ==
    ASSUME IInv, Overflow PROVE IInv'
<1>1. side \in BothSides /\ (span = Nowhere \/ Placed) /\ doc \in Docs
  BY DEF IInv, Framed, Where, Document
<1>2. /\ doc' = doc /\ origin' = origin /\ chunk' = chunk /\ header' = header /\ span' = span
      /\ phase = "fit" /\ phase' = "paragraphs" /\ side' = side /\ kept' = kept
      /\ window' = window /\ near' = Neighbours(side)
      /\ Neighbours(side) # <<>>
  BY DEF Overflow
<1>3. PICK ps : ps = Neighbours(side)
  OBVIOUS
<1>4. Chain(side, ps) /\ Apart(side, ps)
  BY <1>1, <1>3, NeighboursChain
<1>5. span # Nowhere /\ Placed
  BY <1>1, <1>2 DEF Neighbours
<1>6. kept = 0
  <2>1. near = <<>> /\ kept \in 0 .. Len(near)
    BY <1>2 DEF IInv, Fitting
  <2>2. QED
    BY <2>1
<1>7. ps \in Seq(Pieces)
  BY <1>4 DEF Chain
<1>8. Document' /\ Where' /\ Closed' /\ Framed'
  BY <1>2, DocumentStays, Settled, ClosedStays, FramedStays DEF IInv, Where
<1>9. Fitting'
  <2>1. Chain(side, ps)' /\ Placed'
    BY <1>2, <1>4, <1>5, Settled
  <2>2. 0 \in 0 .. Len(ps)
    BY <1>7
  <2>3. near' = ps /\ kept' = 0
    BY <1>2, <1>3, <1>6
  <2>4. Chain(side, near)'
    BY <1>2, <1>3, <2>1
  <2>5. QED
    BY <1>2, <1>3, <1>4, <2>1, <2>2, <2>3, <2>4 DEF Fitting
<1>10. QED
  BY <1>8, <1>9 DEF IInv

LEMMA TakePieceKeeps ==
    ASSUME IInv, TakePiece PROVE IInv'
<1>1. /\ doc' = doc /\ origin' = origin /\ chunk' = chunk /\ header' = header /\ span' = span
      /\ phase \in {"paragraphs", "sentences"} /\ phase' = phase /\ side' = side
      /\ kept' = kept + 1 /\ window' = window /\ near' = near
      /\ kept < Len(near)
  BY DEF TakePiece, More
<1>2. PICK ps : ps = near
  OBVIOUS
<1>3. /\ Placed /\ Chain(side, ps) /\ kept \in 0 .. Len(ps)
      /\ phase = "paragraphs" => ps # <<>> /\ Apart(side, ps)
      /\ phase = "sentences" => Abut(side, ps)
  BY <1>1, <1>2 DEF IInv, Fitting
<1>4. ps \in Seq(Pieces) /\ Len(ps) \in Nat
  BY <1>3 DEF Chain
<1>5. Document' /\ Where' /\ Closed' /\ Framed'
  BY <1>1, DocumentStays, Settled, ClosedStays, FramedStays DEF IInv, Where
<1>6. kept + 1 \in 0 .. Len(ps)
  BY <1>1, <1>2, <1>3, <1>4
<1>7. Fitting'
  <2>1. Chain(side, ps)' /\ Placed'
    BY <1>1, <1>3, Settled
  <2>2. Chain(side, near)'
    BY <1>1, <1>2, <2>1
  <2>3. kept' \in 0 .. Len(near')
    BY <1>1, <1>2, <1>6
  <2>4. QED
    BY <1>1, <1>2, <1>3, <2>1, <2>2, <2>3 DEF Fitting
<1>8. QED
  BY <1>5, <1>7 DEF IInv

(* What is kept of the side when it is closed.                             *)
LEMMA KeptPieces ==
    ASSUME IInv, phase \in {"paragraphs", "sentences"}
    PROVE  /\ Chain(side, Nearest(near, kept))
           /\ Glued(side, Nearest(near, kept), Joiner)
           /\ span # Nowhere
<1>1. PICK ps, n, s : ps = near /\ n = kept /\ s = side
  OBVIOUS
<1>2. /\ Placed /\ Chain(s, ps) /\ n \in 0 .. Len(ps)
      /\ phase = "paragraphs" => Apart(s, ps)
      /\ phase = "sentences" => Abut(s, ps)
  BY <1>1 DEF IInv, Fitting
<1>3. ps \in Seq(Pieces) /\ n \in Nat
  BY <1>2 DEF Chain
<1>4. Chain(s, Nearest(ps, n)) /\ (Apart(s, ps) => Apart(s, Nearest(ps, n)))
      /\ (Abut(s, ps) => Abut(s, Nearest(ps, n)))
  BY <1>2, <1>3, ChainNearest
<1>5. span # Nowhere
  BY <1>2 DEF Placed, Nowhere
<1>6. Glued(s, Nearest(ps, n), Joiner)
  BY <1>2, <1>4 DEF Glued, Joiner
<1>7. QED
  BY <1>1, <1>4, <1>5, <1>6

LEMMA StopKeeps ==
    ASSUME IInv, StopParagraphs \/ StopSentences PROVE IInv'
<1>1. phase \in {"paragraphs", "sentences"} /\ CloseSide(Nearest(near, kept), Joiner)
  BY DEF StopParagraphs, StopSentences
<1>2. PICK ps, glue : ps = Nearest(near, kept) /\ glue = Joiner
  OBVIOUS
<1>3. /\ CloseSide(ps, glue) /\ Chain(side, ps) /\ Glued(side, ps, glue) /\ span # Nowhere
      /\ phase \notin {"locate", "done"}
  BY <1>1, <1>2, KeptPieces
<1>4. QED
  BY <1>3, ClosingKeeps

LEMMA DescendKeeps ==
    ASSUME IInv, Descend PROVE IInv'
<1>1. side \in BothSides
  BY DEF IInv, Framed
<1>2. /\ doc' = doc /\ origin' = origin /\ chunk' = chunk /\ header' = header /\ span' = span
      /\ phase = "paragraphs" /\ phase' = "sentences" /\ side' = side /\ kept' = 0
      /\ window' = window /\ near' = Sentences(side, near[1])
  BY DEF Descend
<1>3. PICK ps : ps = near
  OBVIOUS
<1>4. Placed /\ Chain(side, ps) /\ ps # <<>>
  BY <1>2, <1>3 DEF IInv, Fitting
<1>5. PICK qs : qs = Sentences(side, ps[1])
  OBVIOUS
<1>6. Chain(side, qs) /\ Abut(side, qs)
  BY <1>1, <1>4, <1>5, SentencesChain
<1>7. qs \in Seq(Pieces)
  BY <1>6 DEF Chain
<1>8. Document' /\ Where' /\ Closed' /\ Framed'
  BY <1>2, DocumentStays, Settled, ClosedStays, FramedStays DEF IInv, Where
<1>9. Fitting'
  <2>1. Chain(side, qs)' /\ Placed'
    BY <1>2, <1>4, <1>6, Settled
  <2>2. near' = qs
    BY <1>2, <1>3, <1>5
  <2>3. Chain(side, near)'
    BY <1>2, <2>1, <2>2
  <2>4. kept' \in 0 .. Len(near')
    BY <1>2, <1>7, <2>2
  <2>5. QED
    BY <1>2, <1>6, <2>1, <2>2, <2>3, <2>4 DEF Fitting
<1>10. QED
  BY <1>8, <1>9 DEF IInv

LEMMA StutterKeeps ==
    ASSUME IInv, UNCHANGED vars PROVE IInv'
<1>1. /\ doc' = doc /\ origin' = origin /\ chunk' = chunk /\ header' = header /\ span' = span
      /\ phase' = phase /\ side' = side /\ kept' = kept
      /\ window' = window /\ near' = near
  BY DEF vars
<1>2. Document' /\ Where' /\ Framed'
  BY <1>1, DocumentStays, Settled DEF IInv, Where, Framed
<1>3. PICK ps, s : ps = near /\ s = side
  OBVIOUS
<1>4. Chain(s, ps)' = Chain(s, ps) /\ Placed' = Placed
  BY <1>1, Settled
<1>5. Chain(side, near)' = Chain(side, near)
  BY <1>1, <1>3, <1>4
<1>6. Fitting'
  BY <1>1, <1>4, <1>5 DEF IInv, Fitting
<1>7. Closed'
  <2> SUFFICES ASSUME NEW t \in BothSides
               PROVE  /\ Chain(t, window[t].pieces)'
                      /\ Glued(t, window[t].pieces, window[t].glue)'
                      /\ (span = Nowhere \/ phase = "locate" => window[t].pieces = <<>>)'
    BY DEF Closed
  <2>1. PICK qs, glue : qs = window[t].pieces /\ glue = window[t].glue
    OBVIOUS
  <2>2. Chain(t, qs) /\ Glued(t, qs, glue)
    BY <2>1 DEF IInv, Closed
  <2>3. Chain(t, qs)'
    BY <1>1, <2>2, Settled
  <2>4. window'[t].pieces = qs /\ window'[t].glue = glue
    BY <1>1, <2>1
  <2>5. (span = Nowhere \/ phase = "locate" => window[t].pieces = <<>>)'
    BY <1>1 DEF IInv, Closed
  <2>6. QED
    BY <2>2, <2>3, <2>4, <2>5
<1>8. QED
  BY <1>2, <1>6, <1>7 DEF IInv

LEMMA InvStep == IInv /\ [Next]_vars => IInv'
BY LocateKeeps, LeaveEmptyKeeps, KeepWholeKeeps, OverflowKeeps, TakePieceKeeps,
   StopKeeps, DescendKeeps, StutterKeeps DEF Next, Finished

-----------------------------------------------------------------------------
(***************************************************************************)
(* What the invariant says.                                                *)
(***************************************************************************)
LEMMA KeptIs ==
    ASSUME IInv, NEW s \in BothSides, NEW i \in Kept(s)
    PROVE  /\ i \in 1 .. Len(doc)
           /\ s = "before" =>
                i < span.from /\ \A k \in i .. span.from - 1 : Solid(k) => k \in Kept(s)
           /\ s = "after" =>
                i > span.to /\ \A k \in span.to + 1 .. i : Solid(k) => k \in Kept(s)
<1>1. PICK ps : ps = window[s].pieces
  OBVIOUS
<1>2. Chain(s, ps) /\ (span = Nowhere => ps = <<>>)
  BY <1>1 DEF IInv, Closed
<1>3. Kept(s) = LinesOf(ps)
  BY <1>1 DEF Kept
<1>4. ps # <<>>
  BY <1>3 DEF LinesOf
<1>5. Placed
  BY <1>2, <1>4 DEF IInv, Where
<1>6. QED
  BY <1>2, <1>3, <1>5, ChainCovers

LEMMA InvTypes == IInv => TypeOK
<1> SUFFICES ASSUME IInv PROVE TypeOK
  OBVIOUS
<1>1. doc \in Docs /\ header \in HeaderCosts /\ Document
  BY DEF IInv, Document
<1>2. origin \subseteq DOMAIN doc
  BY <1>1, ChunkIs, DocIs
<1>3. ASSUME NEW s \in BothSides
      PROVE  window[s].glue \in {Break, <<>>} /\ Kept(s) \subseteq DOMAIN doc
  <2>1. \A i \in Kept(s) : i \in 1 .. Len(doc)
    BY KeptIs
  <2>2. window[s].glue \in {Break, <<>>}
    BY DEF IInv, Closed, Glued
  <2>3. QED
    BY <1>1, <2>1, <2>2, DocIs
<1>4. phase \in {"locate", "fit", "paragraphs", "sentences", "done"} /\ kept \in 0 .. Len(near)
  BY DEF IInv, Fitting
<1>5. side \in {"before", "after"}
  BY DEF IInv, Framed, BothSides
<1>6. QED
  BY <1>1, <1>2, <1>3, <1>4, <1>5 DEF TypeOK, BothSides

LEMMA InvNoHoles == IInv => NoHoles
<1> SUFFICES ASSUME IInv PROVE NoHoles
  OBVIOUS
<1>1. "before" \in BothSides /\ "after" \in BothSides
  BY DEF BothSides
<1>2. \A i \in Kept("before") :
         i < span.from /\ \A k \in i .. span.from - 1 : Solid(k) => k \in Kept("before")
  BY <1>1, KeptIs
<1>3. \A i \in Kept("after") :
         i > span.to /\ \A k \in span.to + 1 .. i : Solid(k) => k \in Kept("after")
  BY <1>1, KeptIs
<1>4. QED
  BY <1>2, <1>3 DEF NoHoles

LEMMA InvRightPlace == IInv => RightPlace
<1> SUFFICES ASSUME IInv, phase # "locate", origin # {}, Window > 0,
                    Occurrences(chunk, 1) \subseteq {Min(origin)},
                    \A k \in 1 .. Min(origin) - 1 : doc[k] # chunk[1],
                    \A k \in Min(origin) .. Max(origin) - 1 : doc[k] # chunk[Len(chunk)]
             PROVE  /\ span = [from |-> Min(origin), to |-> Max(origin)]
                    /\ origin \cap (Kept("before") \cup Kept("after")) = {}
  BY DEF RightPlace
<1>1. Document /\ doc \in Docs /\ span = Located
  BY DEF IInv, Document, Where
<1>2. PICK a, b : Made(a, b)
  BY <1>1, ChunkIs
<1>3. /\ a \in Int /\ b \in Int /\ a <= b /\ a \in origin /\ b \in origin
      /\ \A i \in origin : a <= i /\ i <= b
  BY <1>2 DEF Made
<1>4. origin \subseteq 1 .. Len(doc) /\ Len(doc) \in Nat
  BY <1>1, ChunkIs, DocIs
<1>5. Min(origin) = a /\ Max(origin) = b
  <2>1. IsFiniteSet(1 .. Len(doc)) /\ 1 .. Len(doc) \subseteq Int
    BY <1>4, FS_Interval
  <2>2. IsFiniteSet(origin) /\ origin \in SUBSET Int
    BY <1>4, <2>1, FS_Subset
  <2>3. /\ Min(origin) \in origin /\ \A k \in origin : Min(origin) <= k
        /\ Max(origin) \in origin /\ \A k \in origin : k <= Max(origin)
    BY <2>2, MinMax
  <2>4. Min(origin) \in Int /\ Max(origin) \in Int
    BY <2>2, <2>3
  <2>5. QED
    BY <1>3, <2>3, <2>4
<1>6. span = [from |-> a, to |-> b]
  BY <1>1, <1>2, <1>5, LocatedRight
<1>7. span.from = a /\ span.to = b
  BY <1>6
<1>8. ASSUME NEW i \in origin, i \in Kept("before") PROVE FALSE
  <2>1. i < span.from
    BY <1>8, KeptIs DEF BothSides
  <2>2. i \in Int
    BY <1>4
  <2>3. QED
    BY <1>3, <1>7, <2>1, <2>2
<1>9. ASSUME NEW i \in origin, i \in Kept("after") PROVE FALSE
  <2>1. i > span.to
    BY <1>9, KeptIs DEF BothSides
  <2>2. i \in Int
    BY <1>4
  <2>3. QED
    BY <1>3, <1>7, <2>1, <2>2
<1>10. QED
  BY <1>5, <1>6, <1>8, <1>9

(* The inductive invariant: how the chunk was made, where it was put, and  *)
(* that what each side keeps is a chain, glued as its pieces ask for.      *)
THEOREM Invariant == Spec => []IInv
BY InvInit, InvStep, PTL DEF Spec

(* Every variable keeps to its values, and both sides to whole lines of    *)
(* the document.                                                           *)
THEOREM WindowTypes == Spec => []TypeOK
BY Invariant, InvTypes, PTL

(* A side keeps the text nearest the chunk, without holes, and never a     *)
(* line of the chunk's place: _neighbours and _fit_pieces.                 *)
THEOREM WindowNoHoles == Spec => []NoHoles
BY Invariant, InvNoHoles, PTL

(* _locate puts an unambiguous chunk where it came from, and its own lines *)
(* are never in its window.                                                *)
THEOREM WindowRightPlace == Spec => []RightPlace
BY Invariant, InvRightPlace, PTL

-----------------------------------------------------------------------------
(***************************************************************************)
(* The budget.                                                             *)
(***************************************************************************)

(* A side that is closed is within what it was offered; so is what is kept *)
(* of one that is being fitted.                                            *)
Charged ==
    /\ side = "after" => Cost("before") \in 0 .. Left \div 2
    /\ phase = "done" => Cost("after") \in 0 .. Left - Cost("before")
    /\ phase \in {"paragraphs", "sentences"} =>
          Tokens(side, Nearest(near, kept), Joiner) \in 0 .. Budget

(* A side that is being fitted offers its own neighbours, or the sentences *)
(* of the nearest once that does not fit; a closed one left nothing out.   *)
Greedy ==
    /\ phase = "paragraphs" => near = Neighbours(side)
    /\ phase = "sentences" =>
          /\ near = Sentences(side, Neighbours(side)[1])
          /\ ~Fits(Tokens(side, <<Neighbours(side)[1]>>, Break))
    /\ NothingMoreFits

LEMMA LeftIsNat ==
    ASSUME header \in Nat PROVE Left \in Nat /\ Left \div 2 \in 0 .. Left
BY ContextualizingAssumption DEF Left

LEMMA NoTokens ==
    /\ \A s, glue : Tokens(s, <<>>, glue) = 0
    /\ \A s : window[s] = Nothing => Cost(s) = 0
BY DEF Tokens, Cost, Nothing

(* What a text costs depends on the document alone.                        *)
LEMMA TextStays ==
    ASSUME doc' = doc
    PROVE  \A s, ps, glue : Tokens(s, ps, glue)' = Tokens(s, ps, glue)
<1>1. \A s, ps, glue : TextOf(s, ps, glue)' = TextOf(s, ps, glue)
  BY DEF TextOf, Lines
<1>2. QED
  BY <1>1 DEF Tokens

LEMMA CostStays ==
    ASSUME doc' = doc, NEW s, window'[s] = window[s]
    PROVE  Cost(s)' = Cost(s)
<1>1. PICK ps, glue : ps = window[s].pieces /\ glue = window[s].glue
  OBVIOUS
<1>2. Tokens(s, ps, glue)' = Tokens(s, ps, glue)
  BY TextStays
<1>3. QED
  BY <1>1, <1>2 DEF Cost

(* What a side is offered, its neighbours and its fullness stay.           *)
LEMMA NeighboursStay ==
    ASSUME doc' = doc, span' = span
    PROVE  \A s : Neighbours(s)' = Neighbours(s)
BY DEF Neighbours, Paragraphs, Runs, Solid

LEMMA OfferedStays ==
    ASSUME doc' = doc, header' = header, NEW s,
           s = "before" \/ window'["before"] = window["before"]
    PROVE  Offered(s)' = Offered(s)
<1>1. Left' = Left
  BY DEF Left
<1>2. window'["before"] = window["before"] => Cost("before")' = Cost("before")
  BY CostStays
<1>3. QED
  BY <1>1, <1>2 DEF Offered

LEMMA FullStays ==
    ASSUME doc' = doc, span' = span, header' = header, NEW s, window'[s] = window[s],
           s = "before" \/ window'["before"] = window["before"]
    PROVE  Full(s)' = Full(s)
<1>1. Offered(s)' = Offered(s)
  BY OfferedStays
<1>2. PICK ps, glue, near0, more0 :
         /\ ps = window[s].pieces /\ glue = window[s].glue /\ near0 = Neighbours(s)
         /\ more0 = Offered(s)
  OBVIOUS
<1>3. window'[s].pieces = ps /\ window'[s].glue = glue /\ Neighbours(s)' = near0
      /\ Offered(s)' = more0
  BY <1>1, <1>2, NeighboursStay
<1>4. QED
  BY <1>2, <1>3, TextStays DEF Full

-----------------------------------------------------------------------------
LEMMA BudgetInit == Init => Charged /\ Greedy
<1> SUFFICES ASSUME Init PROVE Charged /\ Greedy
  OBVIOUS
<1>1. phase = "locate" /\ side = "before"
  BY DEF Init, Begin
<1>2. QED
  BY <1>1 DEF Charged, Greedy, NothingMoreFits

(* Whatever closes a side within its budget, having left out nothing that  *)
(* would have fitted.                                                      *)
LEMMA ClosingCharges ==
    ASSUME IInv, Charged, Greedy, NEW pieces, NEW glue, CloseSide(pieces, glue),
           phase \notin {"locate", "done"},
           Tokens(side, pieces, glue) \in 0 .. Budget
    PROVE  /\ Charged'
           /\ window'[side] = [pieces |-> pieces, glue |-> glue]
           /\ side = "after" => window'["before"] = window["before"]
           /\ side = "before" => Offered("before")' = Budget
           /\ side = "after" => Offered("after")' = Budget
<1>1. /\ doc' = doc /\ header' = header /\ span' = span
      /\ phase' = (IF side = "before" THEN "fit" ELSE "done") /\ side' = "after"
      /\ window' = [window EXCEPT ![side] = [pieces |-> pieces, glue |-> glue]]
  BY DEF CloseSide
<1>2. side \in BothSides /\ window = [before |-> window.before, after |-> window.after]
  BY DEF IInv, Framed
<1>3. DOMAIN window = BothSides
  BY <1>2 DEF BothSides
<1>4. window'[side] = [pieces |-> pieces, glue |-> glue]
  BY <1>1, <1>2, <1>3
<1>5. side = "after" => window'["before"] = window["before"]
  BY <1>1, <1>3 DEF BothSides
<1>6. side = "before" => Offered("before")' = Budget
  <2>1. Offered("before")' = Offered("before")
    BY <1>1, OfferedStays
  <2>2. QED
    BY <2>1 DEF Offered, Budget
<1>7. side = "after" => Offered("after")' = Budget
  <2>1. side = "after" => Offered("after")' = Offered("after")
    BY <1>1, <1>5, OfferedStays
  <2>2. QED
    BY <2>1 DEF Offered, Budget
<1>8. ASSUME NEW s \in BothSides, s = side PROVE Cost(s)' = Tokens(s, pieces, glue)
  <2>1. window'[s].pieces = pieces /\ window'[s].glue = glue
    BY <1>4, <1>8
  <2>2. Tokens(s, pieces, glue)' = Tokens(s, pieces, glue)
    BY <1>1, TextStays
  <2>3. QED
    BY <2>1, <2>2 DEF Cost
<1>9. Left' = Left
  BY <1>1 DEF Left
<1>10. Charged'
  <2>1. CASE side = "before"
    <3>1. Cost("before")' \in 0 .. Left \div 2
      <4>1. Cost("before")' = Tokens("before", pieces, glue)
        BY <1>2, <1>8, <2>1
      <4>2. QED
        BY <2>1, <4>1 DEF Budget
    <3>2. QED
      BY <1>1, <1>9, <2>1, <3>1 DEF Charged
  <2>2. CASE side = "after"
    <3>1. Cost("after")' \in 0 .. Left - Cost("before")
      <4>1. Cost("after")' = Tokens("after", pieces, glue)
        BY <1>2, <1>8, <2>2
      <4>2. QED
        BY <2>2, <4>1 DEF Budget
    <3>2. Cost("before")' = Cost("before")
      BY <1>1, <1>5, <2>2, CostStays
    <3>3. QED
      BY <1>1, <1>9, <2>2, <3>1, <3>2 DEF Charged
  <2>3. QED
    BY <1>2, <2>1, <2>2 DEF BothSides
<1>11. QED
  BY <1>4, <1>5, <1>6, <1>7, <1>10

(* What makes a closed side full.                                          *)
Fill(pieces, glue) ==
    LET ps == Neighbours(side)
        sentences == Sentences(side, ps[1])
    IN  \/ Budget = 0
        \/ pieces = ps
        \/ glue = Break /\ ~Fits(Tokens(side, Nearest(ps, Len(pieces) + 1), Break))
        \/ /\ glue = <<>>
           /\ ~Fits(Tokens(side, <<ps[1]>>, Break))
           /\ \/ pieces = sentences
              \/ ~Fits(Tokens(side, Nearest(sentences, Len(pieces) + 1), <<>>))

LEMMA ClosingFills ==
    ASSUME IInv, Charged, Greedy, NEW pieces, NEW glue, CloseSide(pieces, glue),
           phase \notin {"locate", "done"},
           Tokens(side, pieces, glue) \in 0 .. Budget, Fill(pieces, glue)
    PROVE  Charged' /\ Greedy'
<1>1. /\ doc' = doc /\ header' = header /\ span' = span
      /\ phase' = (IF side = "before" THEN "fit" ELSE "done") /\ side' = "after"
  BY DEF CloseSide
<1>2. side \in BothSides
  BY DEF IInv, Framed
<1>3. /\ Charged'
      /\ window'[side] = [pieces |-> pieces, glue |-> glue]
      /\ side = "after" => window'["before"] = window["before"]
      /\ side = "before" => Offered("before")' = Budget
      /\ side = "after" => Offered("after")' = Budget
  BY ClosingCharges
<1>4. PICK s, ps, most : s = side /\ ps = Neighbours(s) /\ most = Budget
  OBVIOUS
<1>5. /\ window'[s].pieces = pieces /\ window'[s].glue = glue
      /\ Neighbours(s)' = ps
  BY <1>1, <1>3, <1>4, NeighboursStay
<1>6. ASSUME NEW t \in BothSides, t = side PROVE Offered(t)' = most
  <2>1. CASE side = "before"
    BY <1>3, <1>4, <1>6, <2>1
  <2>2. CASE side = "after"
    BY <1>3, <1>4, <1>6, <2>2
  <2>3. QED
    BY <1>2, <2>1, <2>2 DEF BothSides
<1>7. Fill(pieces, glue) = (LET sentences == Sentences(s, ps[1])
    IN  \/ most = 0
        \/ pieces = ps
        \/ glue = Break /\ Tokens(s, Nearest(ps, Len(pieces) + 1), Break) \notin 0 .. most
        \/ /\ glue = <<>>
           /\ Tokens(s, <<ps[1]>>, Break) \notin 0 .. most
           /\ \/ pieces = sentences
              \/ Tokens(s, Nearest(sentences, Len(pieces) + 1), <<>>) \notin 0 .. most)
  BY <1>4 DEF Fill, Fits
<1>8. Full(s)'
  <2>1. Offered(s)' = most
    BY <1>2, <1>4, <1>6
  <2>2. \A t, qs, g : Tokens(t, qs, g)' = Tokens(t, qs, g)
    BY <1>1, TextStays
  <2>3. PICK ss : ss = Sentences(s, ps[1])
    OBVIOUS
  <2>4. Sentences(s, Neighbours(s)[1])' = ss
    BY <1>5, <2>3 DEF Sentences
  <2>5. QED
    BY <1>5, <1>7, <2>1, <2>2, <2>3, <2>4 DEF Full
<1>9. NothingMoreFits'
  <2>1. CASE side = "before"
    BY <1>1, <1>4, <1>8, <2>1 DEF NothingMoreFits
  <2>2. CASE side = "after"
    <3>1. Full("before")'
      <4>1. Full("before")
        BY <2>2 DEF Greedy, NothingMoreFits
      <4>2. window'["before"] = window["before"]
        BY <1>3, <2>2
      <4>3. QED
        BY <1>1, <4>1, <4>2, FullStays
    <3>2. QED
      BY <1>1, <1>4, <1>8, <2>2, <3>1 DEF NothingMoreFits
  <2>3. QED
    BY <1>2, <2>1, <2>2 DEF BothSides
<1>10. Greedy'
  BY <1>1, <1>9 DEF Greedy
<1>11. QED
  BY <1>3, <1>10

(* A step that leaves the windows alone.                                   *)
LEMMA WindowsStay ==
    ASSUME doc' = doc, header' = header, span' = span, window' = window, side' = side
    PROVE  /\ Budget' = Budget /\ Left' = Left
           /\ Cost("before")' = Cost("before") /\ Cost("after")' = Cost("after")
           /\ Full("before")' = Full("before") /\ Full("after")' = Full("after")
<1>1. Left' = Left
  BY DEF Left
<1>2. Cost("before")' = Cost("before") /\ Cost("after")' = Cost("after")
  BY CostStays
<1>3. Budget' = Budget
  BY <1>1, <1>2 DEF Budget
<1>4. Full("before")' = Full("before") /\ Full("after")' = Full("after")
  BY FullStays
<1>5. QED
  BY <1>1, <1>2, <1>3, <1>4

LEMMA BudgetIsNat ==
    ASSUME IInv, Charged PROVE Budget \in Nat
<1>1. Left \in Nat /\ Left \div 2 \in 0 .. Left
  BY LeftIsNat DEF IInv, Framed
<1>2. CASE side = "before"
  BY <1>1, <1>2 DEF Budget
<1>3. CASE side # "before"
  <2>1. side = "after"
    BY <1>3 DEF IInv, Framed, BothSides
  <2>2. Cost("before") \in 0 .. Left \div 2
    BY <2>1 DEF Charged
  <2>3. QED
    BY <1>1, <2>1, <2>2 DEF Budget
<1>4. QED
  BY <1>2, <1>3

LEMMA FirstOf ==
    ASSUME NEW T, NEW ps \in Seq(T), ps # <<>>
    PROVE  Nearest(ps, 1) = <<ps[1]>> /\ Nearest(ps, 0) = <<>>
<1>1. Len(ps) \in Nat /\ ~(Len(ps) < 1) /\ ~(Len(ps) < 0)
  BY EmptySeq
<1>2. Nearest(ps, 1) = SubSeq(ps, 1, 1) /\ Nearest(ps, 0) = SubSeq(ps, 1, 0)
  BY <1>1 DEF Nearest
<1>3. QED
  BY <1>1, <1>2

LEMMA AllOf ==
    ASSUME NEW T, NEW ps \in Seq(T)
    PROVE  Nearest(ps, Len(ps)) = ps
BY DEF Nearest

LEMMA LocateCharges ==
    ASSUME IInv, Charged, Greedy, Locate PROVE Charged' /\ Greedy'
BY DEF Locate, IInv, Framed, Charged, Greedy, NothingMoreFits

LEMMA LeaveEmptyCharges ==
    ASSUME IInv, Charged, Greedy, LeaveEmpty PROVE Charged' /\ Greedy'
<1>1. PICK ps, glue : ps = <<>> /\ glue = Break
  OBVIOUS
<1>2. CloseSide(ps, glue) /\ phase \notin {"locate", "done"}
      /\ (Budget = 0 \/ ps = Neighbours(side))
  BY <1>1 DEF LeaveEmpty
<1>3. Tokens(side, ps, glue) \in 0 .. Budget
  BY <1>1, NoTokens, BudgetIsNat
<1>4. Fill(ps, glue)
  BY <1>2 DEF Fill
<1>5. QED
  BY <1>2, <1>3, <1>4, ClosingFills

LEMMA KeepWholeCharges ==
    ASSUME IInv, Charged, Greedy, KeepWhole PROVE Charged' /\ Greedy'
<1>1. PICK ps, glue : ps = Neighbours(side) /\ glue = Break
  OBVIOUS
<1>2. CloseSide(ps, glue) /\ phase \notin {"locate", "done"}
      /\ Tokens(side, ps, glue) \in 0 .. Budget
  BY <1>1 DEF KeepWhole, WholeFits, Fits
<1>3. Fill(ps, glue)
  BY <1>1 DEF Fill
<1>4. QED
  BY <1>2, <1>3, ClosingFills

LEMMA OverflowCharges ==
    ASSUME IInv, Charged, Greedy, Overflow PROVE Charged' /\ Greedy'
<1>1. /\ doc' = doc /\ header' = header /\ span' = span /\ window' = window
      /\ phase = "fit" /\ phase' = "paragraphs" /\ side' = side /\ kept' = kept
      /\ near' = Neighbours(side) /\ Neighbours(side) # <<>>
  BY DEF Overflow
<1>2. PICK ps, s : ps = Neighbours(side) /\ s = side
  OBVIOUS
<1>3. s \in BothSides /\ (span = Nowhere \/ Placed) /\ doc \in Docs
  BY <1>2 DEF IInv, Framed, Where, Document
<1>4. ps \in Seq(Pieces) /\ ps # <<>>
  BY <1>1, <1>2, <1>3, NeighboursChain DEF Chain
<1>5. kept' = 0
  BY <1>1 DEF IInv, Fitting
<1>6. Nearest(ps, 0) = <<>>
  BY <1>4, FirstOf
<1>7. near' = ps /\ side' = s
  BY <1>1, <1>2
<1>9. Nearest(near', kept') = <<>>
  BY <1>5, <1>6, <1>7
<1>10. Tokens(side, Nearest(near, kept), Joiner)' = 0
  BY <1>9 DEF Tokens
<1>11. Charged'
  <2>1. Budget' \in Nat
    BY <1>1, WindowsStay, BudgetIsNat
  <2>2. QED
    BY <1>1, <1>10, <2>1, WindowsStay DEF Charged
<1>12. Neighbours(side)' = ps
  <2>1. Neighbours(s)' = Neighbours(s)
    BY <1>1, NeighboursStay
  <2>2. QED
    BY <1>2, <1>7, <2>1
<1>13. Greedy'
  BY <1>1, <1>7, <1>12, WindowsStay DEF Greedy, NothingMoreFits
<1>14. QED
  BY <1>11, <1>13

LEMMA TakePieceCharges ==
    ASSUME IInv, Charged, Greedy, TakePiece PROVE Charged' /\ Greedy'
<1>1. /\ doc' = doc /\ header' = header /\ span' = span /\ window' = window
      /\ phase \in {"paragraphs", "sentences"} /\ phase' = phase /\ side' = side
      /\ kept' = kept + 1 /\ near' = near
      /\ Tokens(side, Nearest(near, kept + 1), Joiner) \in 0 .. Budget
  BY DEF TakePiece, Candidate, Fits
<1>2. PICK s, ps, glue : s = side /\ ps = Nearest(near, kept + 1) /\ glue = Joiner
  OBVIOUS
<1>3. Joiner' = glue /\ Nearest(near, kept)' = ps /\ side' = s
  BY <1>1, <1>2 DEF Joiner, Nearest
<1>4. Tokens(s, ps, glue)' \in 0 .. Budget
  BY <1>1, <1>2, TextStays
<1>5. Tokens(side, Nearest(near, kept), Joiner)' = Tokens(s, ps, glue)'
  BY <1>3 DEF Tokens, TextOf, Lines
<1>6. Charged'
  BY <1>1, <1>4, <1>5, WindowsStay DEF Charged
<1>7. Greedy'
  <2>1. PICK qs : qs = Neighbours(s)
    OBVIOUS
  <2>2. Neighbours(s)' = qs
    BY <1>1, <2>1, NeighboursStay
  <2>3. Neighbours(side)' = qs
    BY <1>3, <2>2
  <2>4. \A p : Sentences(side, p)' = Sentences(side, p)
    BY <1>1 DEF Sentences
  <2>5. Tokens(side, <<qs[1]>>, Break)' = Tokens(side, <<qs[1]>>, Break)
    BY <1>1, TextStays
  <2>6. Fits(Tokens(side, <<Neighbours(side)[1]>>, Break))'
        = Fits(Tokens(side, <<Neighbours(side)[1]>>, Break))
    BY <1>1, <1>2, <2>1, <2>3, <2>5, WindowsStay DEF Fits
  <2>7. QED
    BY <1>1, <1>2, <2>1, <2>3, <2>4, <2>6, WindowsStay DEF Greedy, NothingMoreFits
<1>8. QED
  BY <1>6, <1>7

LEMMA StopCharges ==
    ASSUME IInv, Charged, Greedy, StopParagraphs \/ StopSentences PROVE Charged' /\ Greedy'
<1>1. /\ phase \in {"paragraphs", "sentences"} /\ Stuck
      /\ CloseSide(Nearest(near, kept), Joiner)
  BY DEF StopParagraphs, StopSentences
<1>2. PICK ps, n, qs, glue, s : /\ ps = near /\ n = kept /\ qs = Nearest(ps, n)
                              /\ glue = Joiner /\ s = side
  OBVIOUS
<1>3. ps \in Seq(Pieces) /\ n \in 0 .. Len(ps)
  BY <1>1, <1>2 DEF IInv, Fitting, Chain
<1>4. Len(qs) = n
  BY <1>2, <1>3, NearestOf
<1>5. CloseSide(qs, glue) /\ Tokens(side, qs, glue) \in 0 .. Budget
  BY <1>1, <1>2 DEF Charged
<1>6. qs = ps \/ ~Fits(Tokens(side, Nearest(ps, Len(qs) + 1), glue))
  <2>1. CASE n < Len(ps)
    BY <1>1, <1>2, <1>4, <2>1 DEF Stuck, More, Candidate
  <2>2. CASE ~(n < Len(ps))
    <3>1. n = Len(ps)
      BY <1>3, <2>2
    <3>2. QED
      BY <1>2, <1>3, <3>1, AllOf
  <2>3. QED
    BY <2>1, <2>2
<1>7. Fill(qs, glue)
  <2>1. CASE phase = "paragraphs"
    <3>1. ps = Neighbours(side) /\ glue = Break
      BY <1>2, <2>1 DEF Greedy, Joiner
    <3>2. QED
      BY <1>6, <3>1 DEF Fill
  <2>2. CASE phase = "sentences"
    <3>1. /\ ps = Sentences(side, Neighbours(side)[1]) /\ glue = <<>>
          /\ ~Fits(Tokens(side, <<Neighbours(side)[1]>>, Break))
      BY <1>2, <2>2 DEF Greedy, Joiner
    <3>2. QED
      BY <1>6, <3>1 DEF Fill
  <2>3. QED
    BY <1>1, <2>1, <2>2
<1>8. QED
  BY <1>1, <1>5, <1>7, ClosingFills

LEMMA DescendCharges ==
    ASSUME IInv, Charged, Greedy, Descend PROVE Charged' /\ Greedy'
<1>1. /\ doc' = doc /\ header' = header /\ span' = span /\ window' = window
      /\ phase = "paragraphs" /\ phase' = "sentences" /\ side' = side /\ kept' = kept
      /\ kept = 0 /\ Stuck /\ near' = Sentences(side, near[1])
  BY DEF Descend
<1>2. PICK ps, s : ps = near /\ s = side
  OBVIOUS
<1>3. /\ ps \in Seq(Pieces) /\ ps # <<>> /\ Placed /\ Chain(side, ps)
      /\ ps = Neighbours(s) /\ s \in BothSides
  BY <1>1, <1>2 DEF IInv, Framed, Fitting, Chain, Greedy
<1>4. Nearest(ps, 1) = <<ps[1]>>
  BY <1>3, FirstOf
<1>5. kept < Len(near)
  BY <1>1, <1>2, <1>3, EmptySeq
<1>6. ~Fits(Tokens(s, <<ps[1]>>, Break))
  BY <1>1, <1>2, <1>4, <1>5 DEF Stuck, More, Candidate, Joiner
<1>7. PICK qs : qs = Sentences(side, ps[1])
  OBVIOUS
<1>8. qs \in Seq(Pieces)
  BY <1>2, <1>3, <1>7, SentencesChain DEF Chain
<1>9. Nearest(qs, 0) = <<>>
  BY <1>8 DEF Nearest
<1>10. Nearest(near', kept') = <<>>
  BY <1>1, <1>2, <1>7, <1>9
<1>11. Tokens(side, Nearest(near, kept), Joiner)' = 0
  BY <1>10 DEF Tokens
<1>12. Charged'
  <2>1. Budget' \in Nat
    BY <1>1, WindowsStay, BudgetIsNat
  <2>2. QED
    BY <1>1, <1>11, <2>1, WindowsStay DEF Charged
<1>13. Neighbours(side)' = ps
  <2>1. Neighbours(s)' = Neighbours(s)
    BY <1>1, NeighboursStay
  <2>2. QED
    BY <1>1, <1>2, <1>3, <2>1
<1>14. Sentences(side, ps[1])' = qs
  BY <1>1, <1>2, <1>7 DEF Sentences
<1>15. ~Fits(Tokens(side, <<Neighbours(side)[1]>>, Break))'
  <2>1. Tokens(s, <<ps[1]>>, Break)' = Tokens(s, <<ps[1]>>, Break)
    BY <1>1, TextStays
  <2>2. Tokens(side, <<Neighbours(side)[1]>>, Break)' = Tokens(s, <<ps[1]>>, Break)'
    BY <1>1, <1>2, <1>13
  <2>3. QED
    BY <1>1, <1>6, <2>1, <2>2, WindowsStay DEF Fits
<1>16. near' = Sentences(side, Neighbours(side)[1])'
  BY <1>1, <1>2, <1>7, <1>13 DEF Sentences
<1>17. Greedy'
  BY <1>1, <1>15, <1>16, WindowsStay DEF Greedy, NothingMoreFits
<1>18. QED
  BY <1>12, <1>17

LEMMA StutterCharges ==
    ASSUME IInv, Charged, Greedy, UNCHANGED vars PROVE Charged' /\ Greedy'
<1>1. /\ doc' = doc /\ header' = header /\ span' = span /\ window' = window
      /\ phase' = phase /\ side' = side /\ kept' = kept /\ near' = near
  BY DEF vars
<1>2. PICK s, ps, glue, qs : /\ s = side /\ ps = Nearest(near, kept) /\ glue = Joiner
                           /\ qs = Neighbours(s)
  OBVIOUS
<1>3. Joiner' = glue /\ Nearest(near, kept)' = ps /\ side' = s
  BY <1>1, <1>2 DEF Joiner, Nearest
<1>4. Tokens(s, ps, glue)' = Tokens(s, ps, glue)
  BY <1>1, TextStays
<1>5. Tokens(side, Nearest(near, kept), Joiner)' = Tokens(s, ps, glue)'
  BY <1>3 DEF Tokens, TextOf, Lines
<1>6. Charged'
  BY <1>1, <1>2, <1>4, <1>5, WindowsStay DEF Charged
<1>7. Neighbours(side)' = qs
  <2>1. Neighbours(s)' = qs
    BY <1>1, <1>2, NeighboursStay
  <2>2. QED
    BY <1>3, <2>1
<1>8. \A p : Sentences(side, p)' = Sentences(side, p)
  BY <1>1 DEF Sentences
<1>9. Tokens(side, <<qs[1]>>, Break)' = Tokens(side, <<qs[1]>>, Break)
  BY <1>1, TextStays
<1>10. Fits(Tokens(side, <<Neighbours(side)[1]>>, Break))'
       = Fits(Tokens(side, <<Neighbours(side)[1]>>, Break))
  BY <1>1, <1>2, <1>7, <1>9, WindowsStay DEF Fits
<1>11. Greedy'
  BY <1>1, <1>2, <1>7, <1>8, <1>10, WindowsStay DEF Greedy, NothingMoreFits
<1>12. QED
  BY <1>6, <1>11

LEMMA BudgetStep == IInv /\ Charged /\ Greedy /\ [Next]_vars => Charged' /\ Greedy'
BY LocateCharges, LeaveEmptyCharges, KeepWholeCharges, OverflowCharges, TakePieceCharges,
   StopCharges, DescendCharges, StutterCharges DEF Next, Finished

LEMMA ChargedHolds == IInv /\ Charged => WithinCeiling
<1> SUFFICES ASSUME IInv, Charged PROVE WithinCeiling
  OBVIOUS
<1>1. Left \in Nat /\ Left \div 2 \in 0 .. Left
  BY LeftIsNat DEF IInv, Framed
<1>2. Cost("before") \in 0 .. Left
  <2>1. CASE side = "before"
    BY <1>1, <2>1, NoTokens DEF IInv, Framed
  <2>2. CASE side = "after"
    BY <1>1, <2>2 DEF Charged
  <2>3. QED
    BY <2>1, <2>2 DEF IInv, Framed, BothSides
<1>3. Cost("after") \in 0 .. Left - Cost("before")
  <2>1. CASE phase = "done"
    BY <2>1 DEF Charged
  <2>2. CASE phase # "done"
    BY <1>1, <1>2, <2>2, NoTokens DEF IInv, Framed
  <2>3. QED
    BY <2>1, <2>2
<1>4. QED
  BY <1>1, <1>2, <1>3 DEF WithinCeiling

(* The budget is kept and used, while the sides are fitted.                *)
THEOREM Budgeted == Spec => [](IInv /\ Charged /\ Greedy)
BY InvInit, BudgetInit, InvStep, BudgetStep, PTL DEF Spec

(* The two texts never cost more than the header leaves of the ceiling,    *)
(* whatever the tokeniser makes of a join and wherever the chunk is found. *)
THEOREM Ceilinged == Spec => []WithinCeiling
BY Budgeted, ChargedHolds, PTL

(* A side that was offered anything leaves nothing out that would fit:     *)
(* _fit and _fit_pieces, for every tokeniser.                              *)
THEOREM WindowFull == Spec => []NothingMoreFits
<1>1. Greedy => NothingMoreFits
  BY DEF Greedy
<1>2. QED
  BY <1>1, Budgeted, PTL
=============================================================================
