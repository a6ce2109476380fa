------------------------- MODULE CommandLineProofs -------------------------
(***************************************************************************)
(* Proofs about CommandLine, for any number of shells, namespaces, files   *)
(* and commands, any words and any sizes of chunks and answers:            *)
(*   CommandsTyped             every kit can be served                     *)
(*   SavesLast                 the store file keeps what was saved         *)
(*   CommandsAnswerTheMatch    a query is answered iff a document matches  *)
(*   CommandsGateFair          the golden gate scores honest answers full  *)
(* The parts follow the code: lists (these lemmas are also needed, and     *)
(* repeated, in QueryStreamProofs), the fake parser and chunker (Excerpt   *)
(* to ChunksOf), the shelf and an ingest (IngestedShelf), the two searches *)
(* and what is done with their results (OverlappingOf to QueryOf), the     *)
(* scores (JudgedOf), and then the commands.                               *)
(***************************************************************************)
EXTENDS CommandLine, FunctionTheorems, FiniteSetTheorems, SequenceTheorems, TLAPS

Bytes == Seq(Word \cup {FormFeed})

(* A record of the stores.                                                 *)
Chunk == [document : Bytes, ordinal : Nat, page : Nat, text : Seq(Word), embedText : Seq(Word)]


(* R orders S: no member comes before itself, of two one comes first, and  *)
(* what comes before a member comes before those it comes before.          *)
Orders(R, S) ==
    /\ \A c \in S : <<c, c>> \notin R
    /\ \A c, d \in S : c # d => <<c, d>> \in R \/ <<d, c>> \in R
    /\ \A b, c, d \in S : <<b, c>> \in R /\ <<c, d>> \in R => <<b, d>> \in R

Before(c, S, R) == {d \in S : <<d, c>> \in R}

(* What comes before a member counts less than the whole, and less than    *)
(* what comes before a later member.                                       *)
LEMMA BeforeCounts ==
    ASSUME NEW S, IsFiniteSet(S), NEW R, Orders(R, S)
    PROVE  /\ \A c \in S : Cardinality(Before(c, S, R)) \in 0 .. Cardinality(S) - 1
           /\ \A c, d \in S : <<d, c>> \in R =>
                 Cardinality(Before(d, S, R)) < Cardinality(Before(c, S, R))
<1>1. ASSUME NEW c \in S
      PROVE  /\ IsFiniteSet(Before(c, S, R))
             /\ Cardinality(Before(c, S, R)) \in 0 .. Cardinality(S) - 1
  <2>1. Before(c, S, R) \in SUBSET S /\ Before(c, S, R) # S
    BY DEF Before, Orders
  <2>2. /\ IsFiniteSet(Before(c, S, R))
        /\ Cardinality(Before(c, S, R)) <= Cardinality(S)
        /\ Cardinality(Before(c, S, R)) # Cardinality(S)
    BY <2>1, FS_Subset
  <2>3. Cardinality(Before(c, S, R)) \in Nat /\ Cardinality(S) \in Nat
    BY <2>2, FS_CardinalityType
  <2>4. QED
    BY <2>2, <2>3
<1>2. ASSUME NEW c \in S, NEW d \in S, <<d, c>> \in R
      PROVE  Cardinality(Before(d, S, R)) < Cardinality(Before(c, S, R))
  <2>1. Before(d, S, R) \in SUBSET Before(c, S, R) /\ Before(d, S, R) # Before(c, S, R)
    BY <1>2 DEF Before, Orders
  <2>2. IsFiniteSet(Before(c, S, R))
    BY <1>1
  <2>3. /\ Cardinality(Before(d, S, R)) <= Cardinality(Before(c, S, R))
        /\ Cardinality(Before(d, S, R)) # Cardinality(Before(c, S, R))
    BY <2>1, <2>2, FS_Subset
  <2>4. Cardinality(Before(d, S, R)) \in Int /\ Cardinality(Before(c, S, R)) \in Int
    BY <1>1
  <2>5. QED
    BY <2>3, <2>4
<1>3. QED
  BY <1>1, <1>2

(* Every number below that of the members is the count of one of them.     *)
LEMMA EveryCount ==
    ASSUME NEW S, IsFiniteSet(S), NEW R, Orders(R, S),
           NEW k \in 1 .. Cardinality(S)
    PROVE  \E c \in S : Cardinality(Before(c, S, R)) = k - 1
<1> DEFINE n == Cardinality(S)
           f == [c \in S |-> Cardinality(Before(c, S, R))]
<1>1. n \in Nat
  BY FS_CardinalityType
<1>2. f \in [S -> 0 .. n - 1]
  BY BeforeCounts
<1>3. \A c, d \in S : f[c] = f[d] => c = d
  <2> SUFFICES ASSUME NEW c \in S, NEW d \in S, f[c] = f[d], c # d PROVE FALSE
    OBVIOUS
  <2>1. <<c, d>> \in R \/ <<d, c>> \in R
    BY DEF Orders
  <2>2. f[c] \in Int /\ f[d] \in Int
    BY <1>2
  <2>3. <<c, d>> \in R => f[c] < f[d]
    BY BeforeCounts
  <2>4. <<d, c>> \in R => f[d] < f[c]
    BY BeforeCounts
  <2>5. QED
    BY <2>1, <2>2, <2>3, <2>4
<1>4. f \in Injection(S, 0 .. n - 1)
  BY <1>2, <1>3, Fun_IsInj
<1>5. IsFiniteSet(0 .. n - 1) /\ Cardinality(0 .. n - 1) = n
  <2>1. 0 \in Int /\ n - 1 \in Int
    BY <1>1
  <2>2. Cardinality(0 .. n - 1) = IF 0 > n - 1 THEN 0 ELSE (n - 1) - 0 + 1
    BY <2>1, FS_Interval
  <2>3. QED
    BY <1>1, <2>1, <2>2, FS_Interval
<1>6. f \in Surjection(S, 0 .. n - 1)
  BY <1>4, <1>5, FS_Injection
<1>7. k - 1 \in 0 .. n - 1
  BY <1>1
<1>8. \E c \in S : f[c] = k - 1
  <2> HIDE DEF f, n
  <2>1. \A t \in 0 .. n - 1 : \E c \in S : f[c] = t
    BY <1>6, Fun_SurjectionProperties, ZenonT(30)
  <2>2. QED
    BY <1>7, <2>1
<1>9. QED
  BY <1>8

(* The list has every member of the set once, in its order.                *)
LEMMA InOrderLists ==
    ASSUME NEW S, IsFiniteSet(S), NEW R, Orders(R, S)
    PROVE  /\ Cardinality(S) \in Nat
           /\ InOrder(S, R) \in [1 .. Cardinality(S) -> S]
           /\ \A c \in S : \E k \in 1 .. Cardinality(S) : InOrder(S, R)[k] = c
           /\ \A j, k \in 1 .. Cardinality(S) :
                 j < k => /\ <<InOrder(S, R)[j], InOrder(S, R)[k]>> \in R
                          /\ InOrder(S, R)[j] # InOrder(S, R)[k]
<1> DEFINE n == Cardinality(S)
           s == InOrder(S, R)
           count(c) == Cardinality(Before(c, S, R))
<1>1. n \in Nat
  BY FS_CardinalityType
<1>2. ASSUME NEW k \in 1 .. n
      PROVE  s[k] \in S /\ count(s[k]) = k - 1
  <2>1. s[k] = CHOOSE c \in S : count(c) = k - 1
    BY DEF InOrder, Before
  <2>2. \E c \in S : count(c) = k - 1
    BY EveryCount
  <2> HIDE DEF s, count
  <2>3. QED
    BY <2>1, <2>2
<1>3. s = [k \in 1 .. n |-> s[k]]
  <2> DEFINE member(k) == CHOOSE c \in S : Cardinality({d \in S : <<d, c>> \in R}) = k - 1
  <2>1. s = [k \in 1 .. n |-> member(k)]
    BY DEF InOrder
  <2> HIDE DEF s, n, member
  <2>2. QED
    BY <2>1
<1>4. s \in [1 .. n -> S]
  <2> HIDE DEF s, n
  <2>1. QED
    BY <1>2, <1>3
<1>5. \A c \in S : count(c) \in 0 .. n - 1
  BY BeforeCounts
<1>6. \A c, d \in S : <<d, c>> \in R => count(d) < count(c)
  BY BeforeCounts
<1>7. ASSUME NEW c \in S
      PROVE  \E k \in 1 .. n : s[k] = c
  <2>1. count(c) + 1 \in 1 .. n
    BY <1>1, <1>5
  <2>2. s[count(c) + 1] \in S /\ count(s[count(c) + 1]) = count(c)
    BY <1>2, <1>5, <2>1
  <2>3. s[count(c) + 1] = c
    <3> HIDE DEF s, count
    <3>1. CASE s[count(c) + 1] # c
      <4>1. \/ count(s[count(c) + 1]) < count(c)
            \/ count(c) < count(s[count(c) + 1])
        BY <1>6, <2>2, <3>1 DEF Orders
      <4>2. QED
        BY <1>5, <2>2, <4>1
    <3>2. QED
      BY <3>1
  <2>4. QED
    BY <2>1, <2>3
<1>8. ASSUME NEW j \in 1 .. n, NEW k \in 1 .. n, j < k
      PROVE  <<s[j], s[k]>> \in R /\ s[j] # s[k]
  <2> HIDE DEF s, count
  <2>1. s[j] \in S /\ s[k] \in S /\ count(s[j]) = j - 1 /\ count(s[k]) = k - 1
    BY <1>2
  <2>2. s[j] # s[k]
    BY <1>8, <2>1
  <2>3. <<s[k], s[j]>> \notin R
    BY <1>6, <1>8, <2>1
  <2>4. QED
    BY <2>1, <2>2, <2>3 DEF Orders
<1>9. QED
  BY <1>1, <1>4, <1>7, <1>8

(* Ascending lists numbers in their order.                                 *)
LEMMA AscendingLists ==
    ASSUME NEW S \in SUBSET Int, IsFiniteSet(S)
    PROVE  /\ Cardinality(S) \in Nat
           /\ Ascending(S) \in [1 .. Cardinality(S) -> S]
           /\ \A i \in S : \E k \in 1 .. Cardinality(S) : Ascending(S)[k] = i
           /\ \A j, k \in 1 .. Cardinality(S) : j < k => Ascending(S)[j] < Ascending(S)[k]
<1> DEFINE R == {p \in S \X S : p[1] < p[2]}
<1>1. \A i, j \in S : <<i, j>> \in R <=> i < j
  OBVIOUS
<1>2. Orders(R, S)
  <2> HIDE DEF R
  <2>1. QED
    BY <1>1 DEF Orders
<1>3. Ascending(S) = InOrder(S, R)
  BY DEF Ascending
<1> HIDE DEF R
<1>4. /\ Cardinality(S) \in Nat
      /\ Ascending(S) \in [1 .. Cardinality(S) -> S]
      /\ \A i \in S : \E k \in 1 .. Cardinality(S) : Ascending(S)[k] = i
  BY <1>2, <1>3, InOrderLists
<1>5. ASSUME NEW j \in 1 .. Cardinality(S), NEW k \in 1 .. Cardinality(S), j < k
      PROVE  Ascending(S)[j] < Ascending(S)[k]
  <2>1. <<Ascending(S)[j], Ascending(S)[k]>> \in R
    BY <1>2, <1>3, <1>5, InOrderLists
  <2>2. Ascending(S)[j] \in S /\ Ascending(S)[k] \in S
    BY <1>4
  <2>3. QED
    BY <1>1, <2>1, <2>2
<1>6. QED
  BY <1>4, <1>5

(* Those of an interval are the interval itself.                           *)
LEMMA AscendingInterval ==
    ASSUME NEW a \in Int, NEW b \in Int, a <= b + 1
    PROVE  /\ IsFiniteSet(a .. b) /\ Cardinality(a .. b) = b - a + 1
           /\ \A k \in 1 .. b - a + 1 : Ascending(a .. b)[k] = a + k - 1
<1> DEFINE R == {p \in (a .. b) \X (a .. b) : p[1] < p[2]}
           S == a .. b
<1>1. \A x, y \in Int : x <= y + 1 => IsFiniteSet(x .. y) /\ Cardinality(x .. y) = y - x + 1
  <2> SUFFICES ASSUME NEW x \in Int, NEW y \in Int, x <= y + 1
               PROVE  IsFiniteSet(x .. y) /\ Cardinality(x .. y) = y - x + 1
    OBVIOUS
  <2>1. IsFiniteSet(x .. y) /\ Cardinality(x .. y) = IF x > y THEN 0 ELSE y - x + 1
    BY FS_Interval
  <2>2. QED
    BY <2>1
<1>2. ASSUME NEW k \in 1 .. b - a + 1
      PROVE  Ascending(S)[k] = a + k - 1
  <2> DEFINE before(c) == {d \in S : <<d, c>> \in R}
  <2>1. \A c \in S : before(c) = a .. c - 1
    OBVIOUS
  <2>2. ASSUME NEW c \in S
        PROVE  Cardinality(before(c)) = c - a
    <3>1. c \in Int /\ a <= (c - 1) + 1
      OBVIOUS
    <3>2. Cardinality(a .. c - 1) = (c - 1) - a + 1
      BY <1>1, <3>1
    <3>3. before(c) = a .. c - 1
      BY <2>1
    <3> HIDE DEF before
    <3>4. QED
      BY <3>1, <3>2, <3>3
  <2>3. Ascending(S)[k] = CHOOSE c \in S : Cardinality(before(c)) = k - 1
    BY <1>1 DEF Ascending, InOrder
  <2> HIDE DEF before
  <2>4. QED
    BY <2>2, <2>3
<1>3. QED
  BY <1>1, <1>2

(* What a list has at some positions is a list of as many members.         *)
LEMMA SublistLists ==
    ASSUME NEW T, NEW s \in Seq(T), NEW P \in SUBSET (DOMAIN s)
    PROVE  /\ IsFiniteSet(P) /\ Cardinality(P) \in Nat
           /\ Ascending(P) \in [1 .. Cardinality(P) -> P]
           /\ Sublist(s, P) \in Seq(T)
           /\ Len(Sublist(s, P)) = Cardinality(P)
           /\ \A k \in 1 .. Cardinality(P) : Sublist(s, P)[k] = s[Ascending(P)[k]]
<1>1. DOMAIN s = 1 .. Len(s) /\ Len(s) \in Nat
  OBVIOUS
<1>2. IsFiniteSet(1 .. Len(s))
  BY <1>1, FS_Interval
<1>3. IsFiniteSet(P)
  BY <1>1, <1>2, FS_Subset
<1>4. P \in SUBSET Int
  BY <1>1
<1>5. Cardinality(P) \in Nat /\ Ascending(P) \in [1 .. Cardinality(P) -> P]
  BY <1>3, <1>4, AscendingLists
<1>6. Sublist(s, P) = [k \in 1 .. Cardinality(P) |-> s[Ascending(P)[k]]]
  BY DEF Sublist
<1>7. \A k \in 1 .. Cardinality(P) : s[Ascending(P)[k]] \in T
  BY <1>1, <1>5
<1>8. Sublist(s, P) \in [1 .. Cardinality(P) -> T]
  BY <1>6, <1>7
<1>9. Sublist(s, P) \in Seq(T) /\ Len(Sublist(s, P)) = Cardinality(P)
  BY <1>5, <1>8
<1>10. QED
  BY <1>3, <1>5, <1>6, <1>9

(* What a list has from one position to another.                           *)
LEMMA SublistInterval ==
    ASSUME NEW T, NEW s \in Seq(T), NEW a \in Nat \ {0}, NEW b \in Nat,
           a <= b + 1, b <= Len(s)
    PROVE  /\ Sublist(s, a .. b) \in Seq(T) /\ Len(Sublist(s, a .. b)) = b - a + 1
           /\ \A k \in 1 .. b - a + 1 : Sublist(s, a .. b)[k] = s[a + k - 1]
<1>1. a .. b \in SUBSET (DOMAIN s)
  OBVIOUS
<1> DEFINE P == a .. b
<1>2. /\ Cardinality(P) = b - a + 1
      /\ \A k \in 1 .. b - a + 1 : Ascending(P)[k] = a + k - 1
  <2>1. a \in Int /\ b \in Int
    OBVIOUS
  <2>2. QED
    BY <2>1, AscendingInterval
<1> HIDE DEF P
<1>3. /\ Sublist(s, P) \in Seq(T) /\ Len(Sublist(s, P)) = Cardinality(P)
      /\ \A k \in 1 .. Cardinality(P) : Sublist(s, P)[k] = s[Ascending(P)[k]]
  <2>1. P \in SUBSET (DOMAIN s)
    BY <1>1 DEF P
  <2>2. QED
    BY ONLY <2>1, s \in Seq(T), SublistLists
<1>4. \A k \in 1 .. b - a + 1 : Sublist(s, P)[k] = s[a + k - 1]
  BY <1>2, <1>3
<1>5. QED
  BY <1>2, <1>3, <1>4 DEF P

(* A finite set of numbers has a least and a greatest member.              *)
LEMMA Extremes ==
    ASSUME NEW P \in SUBSET Int, IsFiniteSet(P), P # {}
    PROVE  /\ \E m \in P : \A k \in P : m <= k
           /\ \E m \in P : \A k \in P : k <= m
<1> DEFINE n == Cardinality(P)
           s == Ascending(P)
<1>1. /\ n \in Nat /\ s \in [1 .. n -> P]
      /\ \A i \in P : \E k \in 1 .. n : s[k] = i
      /\ \A j, k \in 1 .. n : j < k => s[j] < s[k]
  BY AscendingLists
<1> HIDE DEF n, s
<1>2. 1 \in 1 .. n /\ n \in 1 .. n
  <2>1. PICK i \in P : TRUE
    OBVIOUS
  <2>2. PICK k \in 1 .. n : s[k] = i
    BY <1>1
  <2>3. QED
    BY <1>1, <2>2
<1>3. \A j \in 1 .. n : s[j] \in Int
  BY <1>1
<1>4. \A j \in 1 .. n : s[1] <= s[j] /\ s[j] <= s[n]
  <2> SUFFICES ASSUME NEW j \in 1 .. n PROVE s[1] <= s[j] /\ s[j] <= s[n]
    OBVIOUS
  <2>1. j = 1 \/ 1 < j
    BY <1>1
  <2>2. j = n \/ j < n
    BY <1>1
  <2>3. s[1] <= s[j]
    BY <1>1, <1>2, <1>3, <2>1
  <2>4. s[j] <= s[n]
    BY <1>1, <1>2, <1>3, <2>2
  <2>5. QED
    BY <2>3, <2>4
<1>5. \A k \in P : s[1] <= k /\ k <= s[n]
  BY <1>1, <1>4
<1>6. s[1] \in P /\ s[n] \in P
  BY <1>1, <1>2
<1>7. QED
  BY <1>5, <1>6

(* The first members of a list.                                            *)
LEMMA PrefixOf ==
    ASSUME NEW T, NEW s \in Seq(T), NEW k \in Nat
    PROVE  /\ Prefix(s, k) \in Seq(T) /\ Len(Prefix(s, k)) <= Len(s) /\ Len(Prefix(s, k)) <= k
           /\ \A i \in 1 .. Len(Prefix(s, k)) : Prefix(s, k)[i] = s[i]
<1> DEFINE n == IF Len(s) < k THEN Len(s) ELSE k
           p == Prefix(s, k)
<1>1. n \in Nat /\ n <= Len(s) /\ n <= k /\ Len(s) \in Nat
  OBVIOUS
<1>2. p = SubSeq(s, 1, n)
  BY DEF Prefix
<1> HIDE DEF n, p
<1>3. \A i \in 1 .. n : s[i] \in T
  <2>1. \A i \in 1 .. n : i \in 1 .. Len(s)
    BY <1>1
  <2>2. QED
    BY <2>1, ElementOfSeq
<1>4. /\ p \in Seq(T) /\ Len(p) = (IF 1 <= n THEN n - 1 + 1 ELSE 0)
      /\ \A i \in 1 .. n - 1 + 1 : p[i] = s[1 + i - 1]
  BY <1>1, <1>2, <1>3, SubSeqProperties
<1>5. Len(p) = n
  BY <1>1, <1>4
<1>6. \A i \in 1 .. n : p[i] = s[i]
  BY <1>1, <1>4
<1>7. QED
  BY <1>1, <1>4, <1>5, <1>6 DEF p

(* The rank of a chunk is where it is in the list, from 0.                 *)
LEMMA RankOf ==
    ASSUME NEW s \in Seq(Chunk), NEW c \in ToSet(s)
    PROVE  Rank(s, c) \in 0 .. Len(s) - 1 /\ s[Rank(s, c) + 1] = c
<1> DEFINE i == CHOOSE i \in DOMAIN s : s[i] = c
<1>1. \E j \in DOMAIN s : s[j] = c
  BY DEF ToSet
<1>2. i \in DOMAIN s /\ s[i] = c
  BY <1>1
<1>3. Rank(s, c) = i - 1
  BY DEF Rank
<1> HIDE DEF i
<1>4. i \in 1 .. Len(s)
  BY <1>2
<1>5. QED
  BY <1>2, <1>3, <1>4

(* What a list adds to a score: a share of Unit, the less the farther down *)
(* the chunk is.                                                           *)
LEMMA Quotients ==
    ASSUME NEW u \in Nat, NEW d \in Nat \ {0}, NEW e \in Nat \ {0}, d <= e,
           u % d = 0, u % e = 0
    PROVE  /\ u \div d \in Nat /\ u \div e \in Nat
           /\ u = d * (u \div d) /\ u = e * (u \div e)
           /\ u \div e <= u \div d
           /\ u > 0 /\ e < 2 * d => u \div d < 2 * (u \div e)
<1> DEFINE p == u \div d
           q == u \div e
<1>1. p \in Nat /\ q \in Nat /\ u = d * p /\ u = e * q
  OBVIOUS
<1> HIDE DEF p, q
<1>2. q <= p
  <2>1. CASE q > p
    <3>1. q >= p + 1
      BY <1>1, <2>1
    <3>2. e * q >= e * (p + 1)
      BY <1>1, <3>1
    <3>3. e * (p + 1) = e * p + e
      BY <1>1
    <3>4. e * p >= d * p
      BY <1>1
    <3>5. QED
      BY <1>1, <3>2, <3>3, <3>4
  <2>2. QED
    BY <1>1, <2>1
<1>3. ASSUME u > 0, e < 2 * d, p >= 2 * q
      PROVE  FALSE
  <2>1. q > 0
    BY <1>1, <1>3
  <2>2. d * p >= d * (2 * q)
    BY <1>1, <1>3
  <2>3. d * (2 * q) = (2 * d) * q
    BY <1>1
  <2>4. (2 * d) * q > e * q
    BY <1>1, <1>3, <2>1
  <2>5. QED
    BY <1>1, <2>2, <2>3, <2>4
<1>4. QED
  BY <1>1, <1>2, <1>3 DEF p, q

(* What one list adds is least for its last chunk, most for its first.     *)
LEMMA ShareOf ==
    ASSUME NEW s \in Seq(Chunk), Len(s) <= RetrieveK, NEW c
    PROVE  /\ Share(s, c) \in Nat
           /\ c \notin ToSet(s) => Share(s, c) = 0
           /\ Share(s, c) <= Unit \div RrfK
           /\ c \in ToSet(s) => Unit \div (RrfK + RetrieveK - 1) <= Share(s, c)
<1> USE FusionAssumption
<1>1. \A r \in 0 .. RetrieveK - 1 : RrfK + r \in Nat \ {0} /\ Unit % (RrfK + r) = 0
  OBVIOUS
<1>2. 0 \in 0 .. RetrieveK - 1 /\ RetrieveK - 1 \in 0 .. RetrieveK - 1 /\ RrfK + 0 = RrfK
      /\ RrfK + (RetrieveK - 1) = RrfK + RetrieveK - 1
  OBVIOUS
<1>3. CASE c \in ToSet(s)
  <2>1. Rank(s, c) \in 0 .. RetrieveK - 1
    BY <1>3, RankOf
  <2>2. Share(s, c) = Unit \div (RrfK + Rank(s, c))
    BY <1>3 DEF Share
  <2>3. PICK r \in 0 .. RetrieveK - 1 : r = Rank(s, c)
    BY <2>1
  <2>4. /\ RrfK + r \in Nat \ {0} /\ RrfK + 0 <= RrfK + r
        /\ RrfK + r <= RrfK + (RetrieveK - 1)
    BY <1>1
  <2>5. Unit \div (RrfK + r) \in Nat /\ Unit \div (RrfK + r) <= Unit \div (RrfK + 0)
    BY <1>1, <1>2, <2>4, Quotients
  <2>6. Unit \div (RrfK + (RetrieveK - 1)) <= Unit \div (RrfK + r)
    BY <1>1, <1>2, <2>4, Quotients
  <2>7. QED
    BY <1>2, <1>3, <2>2, <2>3, <2>5, <2>6
<1>4. CASE c \notin ToSet(s)
  <2>1. Unit \div RrfK \in Nat
    <3>1. \A u \in Nat, k \in Nat \ {0} : u \div k \in Nat
      OBVIOUS
    <3>2. QED
      BY <3>1
  <2>2. QED
    BY <1>4, <2>1 DEF Share
<1>5. QED
  BY <1>3, <1>4

(* The chunks of two lists enter the dict one after the other.             *)
LEMMA EncounterApart ==
    ASSUME NEW d \in Seq(Chunk), NEW l \in Seq(Chunk)
    PROVE  /\ \A c \in Found(d, l) : Encounter(d, l, c) \in Nat
           /\ \A b, c \in Found(d, l) :
                 Encounter(d, l, b) = Encounter(d, l, c) => b = c
<1>1. ASSUME NEW c \in Found(d, l)
      PROVE  \/ /\ c \in ToSet(d) /\ Encounter(d, l, c) = Rank(d, c)
                /\ Rank(d, c) \in 0 .. Len(d) - 1 /\ d[Rank(d, c) + 1] = c
             \/ /\ c \notin ToSet(d) /\ Encounter(d, l, c) = Len(d) + Rank(l, c)
                /\ Rank(l, c) \in 0 .. Len(l) - 1 /\ l[Rank(l, c) + 1] = c
  BY RankOf DEF Found, Encounter
<1>2. Len(d) \in Nat /\ Len(l) \in Nat
  OBVIOUS
<1>3. \A c \in Found(d, l) : Encounter(d, l, c) \in Nat
  BY <1>1, <1>2
<1>4. ASSUME NEW b \in Found(d, l), NEW c \in Found(d, l),
             Encounter(d, l, b) = Encounter(d, l, c)
      PROVE  b = c
  <2>1. CASE b \in ToSet(d) /\ c \in ToSet(d)
    BY <1>1, <1>4, <2>1
  <2>2. CASE b \notin ToSet(d) /\ c \notin ToSet(d)
    <3>1. /\ Len(d) + Rank(l, b) = Len(d) + Rank(l, c)
          /\ Rank(l, b) \in Int /\ Rank(l, c) \in Int
      BY <1>1, <1>4, <2>2
    <3>2. Rank(l, b) = Rank(l, c)
      BY <1>2, <3>1
    <3>3. QED
      BY <1>1, <2>2, <3>2
  <2>3. CASE b \in ToSet(d) /\ c \notin ToSet(d)
    <3>1. Rank(d, b) <= Len(d) - 1 /\ Rank(d, b) \in Int /\ Rank(l, c) \in Nat
      BY <1>1, <1>2, <2>3
    <3>2. Rank(d, b) = Len(d) + Rank(l, c)
      BY <1>1, <1>4, <2>3
    <3>3. QED
      BY <1>2, <3>1, <3>2
  <2>4. CASE b \notin ToSet(d) /\ c \in ToSet(d)
    <3>1. Rank(d, c) <= Len(d) - 1 /\ Rank(d, c) \in Int /\ Rank(l, b) \in Nat
      BY <1>1, <1>2, <2>4
    <3>2. Rank(d, c) = Len(d) + Rank(l, b)
      BY <1>1, <1>4, <2>4
    <3>3. QED
      BY <1>2, <3>1, <3>2
  <2>5. QED
    BY <2>1, <2>2, <2>3, <2>4
<1>5. QED
  BY <1>3, <1>4

(* Score, then the place of encounter, puts all that was found in order.   *)
LEMMA PrecedenceOrders ==
    ASSUME NEW d \in Seq(Chunk), Len(d) <= RetrieveK,
           NEW l \in Seq(Chunk), Len(l) <= RetrieveK
    PROVE  Orders(Precedence(d, l), Found(d, l))
<1> DEFINE score(c) == FusedScore(d, l, c)
           place(c) == Encounter(d, l, c)
<1>1. \A c \in Found(d, l) : score(c) \in Int
  BY ShareOf DEF FusedScore
<1>2. \A c \in Found(d, l) : place(c) \in Int
  BY EncounterApart
<1>3. \A b, c \in Found(d, l) : place(b) = place(c) => b = c
  BY EncounterApart
<1>4. \A b, c \in Found(d, l) :
         <<b, c>> \in Precedence(d, l) <=>
            score(b) > score(c) \/ (score(b) = score(c) /\ place(b) < place(c))
  BY DEF Precedence
<1> HIDE DEF score, place
<1>5. QED
  BY <1>1, <1>2, <1>3, <1>4 DEF Orders

(* What was found is finitely many chunks.                                 *)
LEMMA FoundFinite ==
    ASSUME NEW d \in Seq(Chunk), NEW l \in Seq(Chunk)
    PROVE  IsFiniteSet(Found(d, l)) /\ Found(d, l) \subseteq Chunk
<1>1. ASSUME NEW s \in Seq(Chunk)
      PROVE  IsFiniteSet(ToSet(s)) /\ ToSet(s) \subseteq Chunk
  <2>1. s \in [1 .. Len(s) -> Chunk] /\ Len(s) \in Nat /\ DOMAIN s = 1 .. Len(s)
    OBVIOUS
  <2>2. s \in Surjection(1 .. Len(s), ToSet(s))
    BY <2>1, Fun_IsSurj DEF ToSet
  <2>3. IsFiniteSet(1 .. Len(s))
    BY <2>1, FS_Interval
  <2>4. QED
    BY <2>1, <2>2, <2>3, FS_Surjection DEF ToSet
<1>2. QED
  BY <1>1, FS_Union DEF Found

(* The fused list: what either search found, each once; a chunk of both    *)
(* stands before every one of a single list.                               *)
LEMMA FusionLists ==
    ASSUME NEW d \in Seq(Chunk), Len(d) <= RetrieveK,
           NEW l \in Seq(Chunk), Len(l) <= RetrieveK
    PROVE  LET fused == ReciprocalRankFusion(d, l)
           IN  /\ fused \in Seq(Chunk)
               /\ \A i, j \in DOMAIN fused : i # j => fused[i] # fused[j]
               /\ \A c \in Found(d, l) : \E i \in DOMAIN fused : fused[i] = c
               /\ \A i \in DOMAIN fused : fused[i] \in Found(d, l)
               /\ \A i, j \in DOMAIN fused :
                     FusedScore(d, l, fused[i]) > FusedScore(d, l, fused[j]) => i < j
<1> DEFINE S == Found(d, l)
           R == Precedence(d, l)
           n == Cardinality(S)
           fused == ReciprocalRankFusion(d, l)
<1>1. IsFiniteSet(S) /\ S \subseteq Chunk
  BY FoundFinite
<1>2. Orders(R, S)
  BY PrecedenceOrders
<1>3. fused = InOrder(S, R)
  BY DEF ReciprocalRankFusion
<1>4. /\ n \in Nat /\ fused \in [1 .. n -> S]
      /\ \A c \in S : \E k \in 1 .. n : fused[k] = c
  BY <1>1, <1>2, <1>3, InOrderLists, SMTT(30)
<1>5. ASSUME NEW j \in 1 .. n, NEW k \in 1 .. n, j < k
      PROVE  <<fused[j], fused[k]>> \in R /\ fused[j] # fused[k]
  BY <1>1, <1>2, <1>3, <1>5, InOrderLists
<1>6. DOMAIN fused = 1 .. n
  BY <1>4
<1>7. fused \in Seq(Chunk)
  BY <1>1, <1>4
<1>8. ASSUME NEW i \in DOMAIN fused, NEW j \in DOMAIN fused, i # j
      PROVE  fused[i] # fused[j]
  <2> HIDE DEF fused, n
  <2>1. i \in 1 .. n /\ j \in 1 .. n /\ (i < j \/ j < i)
    BY <1>4, <1>6, <1>8
  <2>2. QED
    BY <1>5, <2>1
<1>9. \A b, c \in S : <<b, c>> \in R => FusedScore(d, l, b) >= FusedScore(d, l, c)
  <2>1. \A c \in S : FusedScore(d, l, c) \in Int
    BY ShareOf DEF FusedScore
  <2>2. QED
    BY <2>1 DEF Precedence
<1>10. ASSUME NEW i \in DOMAIN fused, NEW j \in DOMAIN fused,
              FusedScore(d, l, fused[i]) > FusedScore(d, l, fused[j])
       PROVE  i < j
  <2>1. fused[i] \in S /\ fused[j] \in S
    BY <1>4, <1>6
  <2>2. FusedScore(d, l, fused[i]) \in Int /\ FusedScore(d, l, fused[j]) \in Int
    BY <2>1, ShareOf DEF FusedScore
  <2>3. i # j
    BY <1>10, <2>2
  <2>4. ASSUME j < i PROVE FALSE
    <3>1. <<fused[j], fused[i]>> \in R
      BY <1>5, <1>6, <2>4
    <3>2. FusedScore(d, l, fused[j]) >= FusedScore(d, l, fused[i])
      BY <1>9, <2>1, <3>1
    <3>3. QED
      BY <1>10, <2>2, <3>2
  <2>5. QED
    BY <1>4, <1>6, <2>3, <2>4
<1>11. QED
  BY <1>4, <1>6, <1>7, <1>8, <1>10

(* The order of the prompt moves what it is given, and keeps all of it.    *)
LEMMA ArrangedOf ==
    ASSUME NEW T, NEW s \in Seq(T)
    PROVE  /\ ArrangeForEdges(s) \in Seq(T) /\ Len(ArrangeForEdges(s)) = Len(s)
           /\ \A i \in 1 .. Len(s) : \E j \in 1 .. Len(s) : ArrangeForEdges(s)[i] = s[j]
<1> DEFINE n == Len(s)
           from(i) == IF i <= (n + 1) \div 2 THEN 2 * i - 1 ELSE 2 * (n - i + 1)
           a == ArrangeForEdges(s)
<1>1. n \in Nat
  OBVIOUS
<1>2. ASSUME NEW i \in 1 .. n PROVE from(i) \in 1 .. n
  <2>1. (n + 1) \div 2 \in Int /\ 2 * ((n + 1) \div 2) <= n + 1 /\ n < 2 * ((n + 1) \div 2) + 1
    BY <1>1
  <2>2. CASE i <= (n + 1) \div 2
    BY <1>1, <2>1, <2>2
  <2>3. CASE i > (n + 1) \div 2
    BY <1>1, <2>1, <2>3
  <2>4. QED
    BY <1>1, <2>1, <2>2, <2>3
<1>3. a = [i \in 1 .. n |-> s[from(i)]]
  BY DEF ArrangeForEdges
<1> HIDE DEF from, a
<1>4. \A i \in 1 .. n : s[from(i)] \in T
  BY <1>2, ElementOfSeq
<1> HIDE DEF n
<1>5. a \in [1 .. n -> T]
  BY <1>3, <1>4
<1>6. a \in Seq(T) /\ Len(a) = n
  BY <1>1, <1>5
<1>7. \A i \in 1 .. n : a[i] = s[from(i)]
  BY <1>3
<1>8. QED
  BY <1>2, <1>6, <1>7 DEF a, n

(* Appending adds the element.                                             *)
LEMMA AppendedSet ==
    ASSUME NEW S, NEW s \in Seq(S), NEW x \in S
    PROVE  ToSet(Append(s, x)) = ToSet(s) \cup {x}
<1> DEFINE t == Append(s, x)
<1>1. DOMAIN t = 1 .. Len(s) + 1 /\ DOMAIN s = 1 .. Len(s) /\ Len(s) \in Nat
  OBVIOUS
<1>2. \A i \in 1 .. Len(s) : t[i] = s[i]
  OBVIOUS
<1>3. t[Len(s) + 1] = x
  OBVIOUS
<1> HIDE DEF t
<1> QED BY <1>1, <1>2, <1>3 DEF t, ToSet
-----------------------------------------------------------------------------
(***************************************************************************)
(* What the parser, the chunker and the stores of Fakes do with words.     *)
(***************************************************************************)

(* The words of a document, wherever its pages end.                        *)
WordsOf(bytes) == ToSet(bytes) \ {FormFeed}

(* The members of a list are those of its range.                           *)
LEMMA Members ==
    ASSUME NEW T, NEW s \in Seq(T)
    PROVE  /\ DOMAIN s = 1 .. Len(s) /\ Len(s) \in Nat
           /\ ToSet(s) \subseteq T
           /\ \A x : x \in ToSet(s) <=> \E i \in 1 .. Len(s) : s[i] = x
<1>1. DOMAIN s = 1 .. Len(s) /\ Len(s) \in Nat /\ \A i \in 1 .. Len(s) : s[i] \in T
  OBVIOUS
<1>2. QED
  BY <1>1 DEF ToSet

(* What is read off the bytes of an image: all of its words.               *)
LEMMA TranscribeOf ==
    ASSUME NEW bytes \in Bytes
    PROVE  Transcribe(bytes) \in Seq(Word) /\ ToSet(Transcribe(bytes)) = WordsOf(bytes)
<1> DEFINE P == {i \in DOMAIN bytes : bytes[i] # FormFeed}
           t == Transcribe(bytes)
           n == Cardinality(P)
<1>1. /\ DOMAIN bytes = 1 .. Len(bytes) /\ Len(bytes) \in Nat
      /\ \A i \in DOMAIN bytes : bytes[i] \in Word \cup {FormFeed}
  BY DEF Bytes
<1>2. t = Sublist(bytes, P)
  BY DEF Transcribe
<1>3. /\ IsFiniteSet(P) /\ n \in Nat /\ Ascending(P) \in [1 .. n -> P]
      /\ t \in Seq(Word \cup {FormFeed}) /\ Len(t) = n
      /\ \A k \in 1 .. n : t[k] = bytes[Ascending(P)[k]]
  <2>1. P \in SUBSET (DOMAIN bytes)
    OBVIOUS
  <2>2. bytes \in Seq(Word \cup {FormFeed})
    BY DEF Bytes
  <2> HIDE DEF P, t
  <2>3. QED
    BY ONLY <1>2, <2>1, <2>2, SublistLists
<1>4. \A i \in P : \E k \in 1 .. n : Ascending(P)[k] = i
  <2>1. P \in SUBSET Int
    BY <1>1
  <2> HIDE DEF P
  <2>2. QED
    BY ONLY <1>3, <2>1, AscendingLists
<1>5. \A i \in P : i \in DOMAIN bytes /\ bytes[i] \in Word /\ bytes[i] # FormFeed
  BY <1>1
<1>6. \A i \in DOMAIN bytes : bytes[i] # FormFeed => i \in P
  OBVIOUS
<1> HIDE DEF P, t, n
<1>7. \A k \in 1 .. n : t[k] \in Word /\ Ascending(P)[k] \in P
  BY <1>3, <1>5
<1>8. t \in Seq(Word)
  <2>1. t \in [1 .. n -> Word]
    BY <1>3, <1>7
  <2>2. QED
    BY <1>3, <2>1
<1>9. ASSUME NEW x \in ToSet(t) PROVE x \in WordsOf(bytes)
  <2>1. PICK k \in 1 .. n : t[k] = x
    BY <1>3, <1>8, Members
  <2>2. QED
    BY <1>3, <1>5, <1>7, <2>1 DEF WordsOf, ToSet
<1>10. ASSUME NEW x \in WordsOf(bytes) PROVE x \in ToSet(t)
  <2>1. PICK i \in DOMAIN bytes : bytes[i] = x
    BY DEF WordsOf, ToSet
  <2>2. x # FormFeed
    BY DEF WordsOf
  <2>3. PICK k \in 1 .. n : Ascending(P)[k] = i
    BY <1>4, <1>6, <2>1, <2>2
  <2>4. t[k] = x
    BY <1>3, <2>1, <2>3
  <2>5. QED
    BY <1>3, <1>8, <2>4, Members
<1>11. QED
  BY <1>8, <1>9, <1>10 DEF t

(* A text from one place to another.                                       *)
LEMMA Excerpt ==
    ASSUME NEW T, NEW s \in Seq(T), NEW a \in Nat \ {0}, NEW b \in Nat, a <= b + 1, b <= Len(s)
    PROVE  /\ SubSeq(s, a, b) \in Seq(T)
           /\ \A x : x \in ToSet(SubSeq(s, a, b)) <=> \E i \in a .. b : s[i] = x
<1> DEFINE p == SubSeq(s, a, b)
<1>1. \A i \in a .. b : i \in 1 .. Len(s) /\ s[i] \in T
  OBVIOUS
<1>2. /\ p \in Seq(T) /\ Len(p) = b - a + 1
      /\ \A i \in 1 .. b - a + 1 : p[i] = s[a + i - 1]
  OBVIOUS
<1> HIDE DEF p
<1>3. ASSUME NEW x \in ToSet(p) PROVE \E i \in a .. b : s[i] = x
  <2>1. PICK k \in 1 .. Len(p) : p[k] = x
    BY <1>2, Members
  <2>2. a + k - 1 \in a .. b /\ s[a + k - 1] = x
    BY <1>2, <2>1
  <2>3. QED
    BY <2>2
<1>4. ASSUME NEW i \in a .. b PROVE s[i] \in ToSet(p)
  <2>1. i - a + 1 \in 1 .. Len(p) /\ a + (i - a + 1) - 1 = i
    BY <1>2
  <2>2. p[i - a + 1] = s[i]
    BY <1>2, <2>1
  <2>3. QED
    BY <1>2, <2>1, <2>2, Members
<1>5. QED
  BY <1>2, <1>3, <1>4 DEF p

(* The blocks between form feeds have no form feed, and all other words.   *)
LEMMA BlocksOf ==
    ASSUME NEW bytes \in Bytes
    PROVE  /\ Blocks(bytes) \in Seq(Seq(Word))
           /\ \A x : x \in WordsOf(bytes) <=>
                 \E p \in DOMAIN Blocks(bytes) : x \in ToSet(Blocks(bytes)[p])
<1> DEFINE L == Len(bytes)
           E == {i \in 1 .. L + 1 : i <= L => bytes[i] = FormFeed}
           ends == Ascending(E)
           n == Cardinality(E)
           from(k) == IF k = 1 THEN 1 ELSE ends[k - 1] + 1
           b == Blocks(bytes)
<1>1. /\ DOMAIN bytes = 1 .. L /\ L \in Nat /\ bytes \in Seq(Word \cup {FormFeed})
      /\ \A i \in 1 .. L : bytes[i] \in Word \cup {FormFeed}
  BY DEF Bytes
<1>2. E \in SUBSET Int /\ IsFiniteSet(E) /\ L + 1 \in E /\ E \subseteq 1 .. L + 1
  <2>1. IsFiniteSet(1 .. L + 1) /\ E \in SUBSET (1 .. L + 1)
    BY <1>1, FS_Interval
  <2>2. QED
    BY <1>1, <2>1, FS_Subset
<1>3. /\ n \in Nat /\ ends \in [1 .. n -> E]
      /\ \A i \in E : \E k \in 1 .. n : ends[k] = i
      /\ \A j, k \in 1 .. n : j < k => ends[j] < ends[k]
  <2> HIDE DEF E
  <2>1. QED
    BY <1>2, AscendingLists
<1>4. \A i \in 1 .. L : i \in E <=> bytes[i] = FormFeed
  BY <1>1
<1>5. b = [k \in 1 .. n |-> SubSeq(bytes, from(k), ends[k] - 1)]
  <2>1. DOMAIN ends = 1 .. n
    BY <1>3
  <2>2. b = [k \in DOMAIN ends |-> SubSeq(bytes, from(k), ends[k] - 1)]
    BY DEF Blocks
  <2> HIDE DEF b, ends, n, from
  <2>3. QED
    BY <2>1, <2>2
<1> HIDE DEF L, E, ends, n, b
<1>6. ASSUME NEW k \in 1 .. n
      PROVE  /\ from(k) \in Nat \ {0} /\ ends[k] - 1 \in Nat
             /\ from(k) <= (ends[k] - 1) + 1 /\ ends[k] - 1 <= L
             /\ \A i \in from(k) .. ends[k] - 1 : i \in 1 .. L /\ i \notin E
  <2>1. ends[k] \in E /\ ends[k] \in 1 .. L + 1
    BY <1>2, <1>3
  <2>2. CASE k = 1
    <3>1. ASSUME NEW i \in 1 .. ends[1] - 1, i \in E PROVE FALSE
      <4>1. PICK j \in 1 .. n : ends[j] = i
        BY <1>3, <3>1
      <4>2. 1 \in 1 .. n /\ (j = 1 \/ 1 < j)
        BY <1>3, <2>2
      <4>3. i \in Int /\ i <= ends[1] - 1 /\ ends[1] \in Int
        BY <2>1, <2>2, <3>1
      <4>4. QED
        BY <1>3, <4>1, <4>2, <4>3
    <3>2. QED
      BY <1>1, <2>1, <2>2, <3>1
  <2>3. CASE k # 1
    <3>1. k - 1 \in 1 .. n /\ k - 1 < k
      BY <1>3, <2>3
    <3>2. ends[k - 1] \in 1 .. L + 1 /\ ends[k - 1] < ends[k]
      BY <1>2, <1>3, <3>1
    <3>3. ASSUME NEW i \in ends[k - 1] + 1 .. ends[k] - 1, i \in E PROVE FALSE
      <4>1. PICK j \in 1 .. n : ends[j] = i
        BY <1>3, <3>3
      <4>2. j <= k - 1 \/ k <= j
        BY <1>3
      <4>3. j = k - 1 \/ j < k - 1 \/ j = k \/ k < j
        BY <1>3, <4>2
      <4>4. i \in Int /\ ends[k - 1] < i /\ i < ends[k] /\ ends[k] \in Int /\ ends[k - 1] \in Int
        BY <2>1, <3>2, <3>3
      <4>5. QED
        BY <1>3, <3>1, <4>1, <4>3, <4>4
    <3>4. QED
      BY <1>1, <2>1, <2>3, <3>2, <3>3, SMTT(30)
  <2>4. QED
    BY <2>2, <2>3
<1>7. ASSUME NEW k \in 1 .. n
      PROVE  /\ b[k] \in Seq(Word \cup {FormFeed})
             /\ \A x : x \in ToSet(b[k]) <=> \E i \in from(k) .. ends[k] - 1 : bytes[i] = x
  <2>1. b[k] = SubSeq(bytes, from(k), ends[k] - 1)
    BY <1>5
  <2>2. /\ from(k) \in Nat \ {0} /\ ends[k] - 1 \in Nat
        /\ from(k) <= (ends[k] - 1) + 1 /\ ends[k] - 1 <= Len(bytes)
    BY <1>6 DEF L
  <2>3. \A f \in Nat \ {0}, e \in Nat : f <= e + 1 /\ e <= Len(bytes) =>
           /\ SubSeq(bytes, f, e) \in Seq(Word \cup {FormFeed})
           /\ \A x : x \in ToSet(SubSeq(bytes, f, e)) <=> \E i \in f .. e : bytes[i] = x
    BY <1>1, Excerpt, SMTT(20)
  <2> HIDE DEF from
  <2>4. QED
    BY ONLY <2>1, <2>2, <2>3
<1>8. ASSUME NEW k \in 1 .. n PROVE b[k] \in Seq(Word) /\ ToSet(b[k]) \subseteq WordsOf(bytes)
  <2>1. ASSUME NEW x \in ToSet(b[k]) PROVE x \in WordsOf(bytes) /\ x \in Word
    <3>1. PICK i \in from(k) .. ends[k] - 1 : bytes[i] = x
      BY <1>7
    <3>2. i \in 1 .. L /\ bytes[i] # FormFeed
      BY <1>4, <1>6, <3>1
    <3>3. QED
      BY <1>1, <3>1, <3>2 DEF WordsOf, ToSet
  <2>2. b[k] \in Seq(Word)
    <3>1. /\ b[k] \in Seq(Word \cup {FormFeed}) /\ DOMAIN b[k] = 1 .. Len(b[k])
          /\ \A i \in 1 .. Len(b[k]) : b[k][i] \in ToSet(b[k])
      BY <1>7, Members
    <3>2. \A i \in 1 .. Len(b[k]) : b[k][i] \in Word
      BY <2>1, <3>1
    <3>3. QED
      BY <3>1, <3>2
  <2>3. QED
    BY <2>1, <2>2
<1>9. b \in Seq(Seq(Word)) /\ DOMAIN b = 1 .. n
  <2>1. b \in [1 .. n -> Seq(Word)]
    BY <1>5, <1>8
  <2>2. QED
    BY <1>3, <2>1
<1>10. ASSUME NEW x \in WordsOf(bytes) PROVE \E p \in 1 .. n : x \in ToSet(b[p])
  <2>1. PICK i \in 1 .. L : bytes[i] = x
    BY <1>1 DEF WordsOf, ToSet
  <2>2. i \notin E
    BY <1>4, <2>1 DEF WordsOf
  <2> DEFINE later == {k \in 1 .. n : i < ends[k]}
  <2>3. later # {}
    <3>1. PICK k \in 1 .. n : ends[k] = L + 1
      BY <1>2, <1>3
    <3>2. i < ends[k]
      BY <1>1, <3>1
    <3>3. QED
      BY <3>2
  <2>4. PICK k \in later : \A m \in later : k <= m
    <3>1. later \in SUBSET Int /\ IsFiniteSet(later)
      <4>1. IsFiniteSet(1 .. n) /\ later \in SUBSET (1 .. n)
        BY <1>3, FS_Interval
      <4> HIDE DEF later
      <4>2. IsFiniteSet(later)
        BY ONLY <4>1, FS_Subset
      <4>3. later \in SUBSET Int
        BY <1>3, <4>1
      <4>4. QED
        BY <4>2, <4>3
    <3> HIDE DEF later
    <3>2. QED
      BY <2>3, <3>1, Extremes
  <2>5. k \in 1 .. n /\ i < ends[k] /\ ends[k] \in Int
    BY <1>2, <1>3
  <2>6. from(k) <= i
    <3>1. CASE k = 1
      BY <3>1
    <3>2. CASE k # 1
      <4>1. k - 1 \in 1 .. n /\ k - 1 \notin later
        BY <1>3, <2>4, <3>2
      <4>2. ~(i < ends[k - 1]) /\ ends[k - 1] \in E /\ ends[k - 1] \in Int
        BY <1>2, <1>3, <4>1
      <4>3. ends[k - 1] < i
        BY <2>2, <4>2
      <4>4. QED
        BY <3>2, <4>2, <4>3
    <3>3. QED
      BY <3>1, <3>2
  <2>7. i \in from(k) .. ends[k] - 1
    BY <1>6, <2>5, <2>6
  <2>8. QED
    BY <1>7, <2>1, <2>5, <2>7
<1>11. QED
  BY <1>8, <1>9, <1>10 DEF b

-----------------------------------------------------------------------------
(* The windows of a page.                                                  *)

(* A window is at least as long as the stride.                             *)
LEMMA StrideOf == Stride \in Nat \ {0} /\ Stride <= Size /\ Size \in Nat \ {0}
BY FakesAssumption DEF Stride

(* Every window begins on the page, the last one reaches its end.          *)
LEMMA WindowsOf ==
    ASSUME NEW words \in Seq(Word)
    PROVE  LET n == Windows(words)
           IN  /\ n \in Nat
               /\ \A k \in 1 .. n : (k - 1) * Stride + 1 <= Len(words)
               /\ words # <<>> => n > 0 /\ (n - 1) * Stride + Size >= Len(words)
<1> DEFINE L == Len(words)
           P == {k \in 1 .. L : (k - 1) * Stride + Size >= L}
           n == Windows(words)
<1>1. L \in Nat
  OBVIOUS
<1>2. CASE words = <<>>
  BY <1>2 DEF Windows
<1>3. CASE words # <<>>
  <2>1. L > 0
    BY <1>3
  <2>2. L \in P
    <3>1. (L - 1) * Stride >= L - 1
      <4>1. L - 1 \in Nat
        BY <1>1, <2>1
      <4>2. \A a \in Nat, s \in Nat \ {0} : a * s >= a
        OBVIOUS
      <4>3. QED
        BY <4>1, <4>2, StrideOf
    <3>2. (L - 1) * Stride \in Int
      BY <1>1, StrideOf
    <3>3. (L - 1) * Stride + Size >= L
      BY <1>1, <3>1, <3>2, StrideOf
    <3>4. QED
      BY <1>1, <2>1, <3>3
  <2>3. P \in SUBSET Int /\ IsFiniteSet(P)
    <3>1. IsFiniteSet(1 .. L) /\ P \in SUBSET (1 .. L)
      BY <1>1, FS_Interval
    <3>2. QED
      BY <3>1, FS_Subset
  <2>4. n = CHOOSE k \in P : \A m \in P : k <= m
    BY <1>3 DEF Windows, Min
  <2>5. n \in P /\ \A m \in P : n <= m
    <3>1. \E k \in P : \A m \in P : k <= m
      <4> HIDE DEF P
      <4>1. QED
        BY <2>2, <2>3, Extremes
    <3> HIDE DEF P, n
    <3>2. QED
      BY <2>4, <3>1
  <2> HIDE DEF n
  <2>6. n \in 1 .. L /\ (n - 1) * Stride + Size >= L
    BY <2>5
  <2>7. ASSUME NEW k \in 1 .. n PROVE (k - 1) * Stride + 1 <= L
    <3>1. CASE k = 1
      <4>1. (k - 1) * Stride = 0
        BY <3>1, StrideOf
      <4>2. QED
        BY <2>1, <4>1
    <3>2. CASE k # 1
      <4>1. k - 1 \in 1 .. L /\ k - 1 < n /\ k \in Int
        BY <1>1, <2>6, <3>2
      <4>2. ~((k - 1 - 1) * Stride + Size >= L)
        BY <2>5, <4>1
      <4>3. (k - 1 - 1) * Stride = (k - 1) * Stride - Stride
        BY <4>1, StrideOf
      <4>4. (k - 1) * Stride \in Int
        BY <4>1, StrideOf
      <4>5. QED
        BY <1>1, <4>2, <4>3, <4>4, StrideOf
    <3>3. QED
      BY <3>1, <3>2
  <2>8. QED
    BY <2>6, <2>7 DEF n
<1>4. QED
  BY <1>2, <1>3

(* The lesser of two numbers.                                              *)
LEMMA Lesser ==
    ASSUME NEW a \in Int, NEW b \in Int
    PROVE  Min({a, b}) = IF a <= b THEN a ELSE b
BY DEF Min

(* A window has words of its page only, and every word is in one.          *)
LEMMA WindowAtOf ==
    ASSUME NEW words \in Seq(Word)
    PROVE  /\ \A k \in 1 .. Windows(words) :
                 /\ WindowAt(words, k) \in Seq(Word)
                 /\ ToSet(WindowAt(words, k)) \subseteq ToSet(words)
           /\ \A x \in ToSet(words) : \E k \in 1 .. Windows(words) : x \in ToSet(WindowAt(words, k))
<1> DEFINE L == Len(words)
           n == Windows(words)
           first(k) == (k - 1) * Stride + 1
           last(k) == Min({(k - 1) * Stride + Size, L})
<1>1. /\ L \in Nat /\ n \in Nat
      /\ \A k \in 1 .. n : (k - 1) * Stride + 1 <= L
      /\ words # <<>> => n > 0 /\ (n - 1) * Stride + Size >= L
  BY WindowsOf
<1> HIDE DEF n
<1>2. ASSUME NEW k \in 1 .. n
      PROVE  /\ (k - 1) * Stride \in Nat
             /\ first(k) \in Nat \ {0} /\ last(k) \in Nat
             /\ first(k) <= last(k) + 1 /\ last(k) <= L
             /\ last(k) = L \/ last(k) = (k - 1) * Stride + Size
             /\ \A i \in 1 .. L : i <= (k - 1) * Stride + Size => i <= last(k)
  <2>1. (k - 1) * Stride \in Nat
    <3>1. k - 1 \in Nat /\ Stride \in Nat
      BY <1>1, StrideOf
    <3>2. QED
      BY <3>1
  <2>2. PICK a \in Nat : a = (k - 1) * Stride
    BY <2>1
  <2>3. a + 1 <= L
    BY <1>1, <2>2
  <2>4. last(k) = IF a + Size <= L THEN a + Size ELSE L
    <3>1. a + Size \in Int /\ L \in Int
      BY <1>1, StrideOf
    <3>2. last(k) = Min({a + Size, L})
      BY <2>2
    <3>3. QED
      BY <3>1, <3>2, Lesser
  <2>5. /\ a + 1 \in Nat \ {0} /\ last(k) \in Nat /\ a + 1 <= last(k) + 1 /\ last(k) <= L
        /\ last(k) = L \/ last(k) = a + Size
        /\ \A i \in 1 .. L : i <= a + Size => i <= last(k)
    <3> HIDE DEF last, L
    <3>1. QED
      BY <1>1, <2>3, <2>4, StrideOf
  <2> HIDE DEF last
  <2>6. QED
    BY <2>1, <2>2, <2>5
<1>3. ASSUME NEW k \in 1 .. n
      PROVE  /\ WindowAt(words, k) \in Seq(Word)
             /\ \A x : x \in ToSet(WindowAt(words, k)) <=>
                   \E i \in first(k) .. last(k) : words[i] = x
  <2>1. WindowAt(words, k) = SubSeq(words, first(k), last(k))
    BY DEF WindowAt
  <2>2. /\ first(k) \in Nat \ {0} /\ last(k) \in Nat
        /\ first(k) <= last(k) + 1 /\ last(k) <= Len(words)
    BY <1>2
  <2>3. \A f \in Nat \ {0}, e \in Nat : f <= e + 1 /\ e <= Len(words) =>
           /\ SubSeq(words, f, e) \in Seq(Word)
           /\ \A x : x \in ToSet(SubSeq(words, f, e)) <=> \E i \in f .. e : words[i] = x
    <3>1. words \in Seq(Word)
      OBVIOUS
    <3> QED
      BY ONLY <3>1, Excerpt
  <2> HIDE DEF first, last
  <2>4. WindowAt(words, k) \in Seq(Word)
    BY ONLY <2>1, <2>2, <2>3
  <2>5. \A x : x \in ToSet(WindowAt(words, k)) <=> \E i \in first(k) .. last(k) : words[i] = x
    BY ONLY <2>1, <2>2, <2>3
  <2> QED
    BY ONLY <2>4, <2>5
<1>4. ASSUME NEW k \in 1 .. n PROVE ToSet(WindowAt(words, k)) \subseteq ToSet(words)
  <2>1. SUFFICES ASSUME NEW x \in ToSet(WindowAt(words, k)) PROVE x \in ToSet(words)
    OBVIOUS
  <2>2. PICK i \in first(k) .. last(k) : words[i] = x
    BY <1>3
  <2>3. i \in 1 .. L
    <3>1. first(k) \in Nat \ {0} /\ last(k) \in Nat /\ last(k) <= L
      BY <1>2
    <3> HIDE DEF first, last
    <3>2. QED
      BY <1>1, <3>1
  <2>4. QED
    BY <2>2, <2>3, Members
<1>5. ASSUME NEW x \in ToSet(words) PROVE \E k \in 1 .. n : x \in ToSet(WindowAt(words, k))
  <2>1. PICK i \in 1 .. L : words[i] = x
    BY Members
  <2>2. words # <<>>
    BY <2>1
  <2> DEFINE P == {k \in 1 .. n : i <= (k - 1) * Stride + Size}
  <2>3. n \in P
    <3>1. n > 0 /\ (n - 1) * Stride + Size >= L
      BY <1>1, <2>2
    <3>2. (n - 1) * Stride \in Nat
      <4>1. n \in 1 .. n
        BY <1>1, <3>1
      <4>2. QED
        BY <1>2, <4>1
    <3>3. i <= (n - 1) * Stride + Size
      BY <1>1, <3>1, <3>2, StrideOf
    <3>4. QED
      BY <1>1, <3>1, <3>3
  <2>4. PICK k \in P : \A m \in P : k <= m
    <3>1. P \in SUBSET Int /\ IsFiniteSet(P)
      <4>1. IsFiniteSet(1 .. n) /\ P \in SUBSET (1 .. n)
        BY <1>1, FS_Interval
      <4> HIDE DEF P
      <4>2. IsFiniteSet(P)
        BY ONLY <4>1, FS_Subset
      <4>3. P \in SUBSET Int
        BY <1>1, <4>1
      <4>4. QED
        BY <4>2, <4>3
    <3> HIDE DEF P
    <3>2. QED
      BY <2>3, <3>1, Extremes
  <2>5. k \in 1 .. n /\ i <= (k - 1) * Stride + Size /\ i <= last(k)
    BY <1>2
  <2>6. first(k) <= i
    <3>1. CASE k = 1
      <4>1. (k - 1) * Stride = 0
        BY <3>1, StrideOf
      <4>2. QED
        BY <4>1
    <3>2. CASE k # 1
      <4>1. k - 1 \in 1 .. n /\ k - 1 \notin P
        BY <1>1, <2>4, <3>2
      <4>2. ~(i <= (k - 1 - 1) * Stride + Size)
        BY <4>1
      <4>3. (k - 1 - 1) * Stride = (k - 1) * Stride - Stride
        BY <4>1, StrideOf
      <4>4. (k - 1) * Stride \in Nat
        BY <1>2
      <4>5. QED
        BY <4>2, <4>3, <4>4, StrideOf
    <3>3. QED
      BY <3>1, <3>2
  <2>7. i \in first(k) .. last(k)
    BY <1>2, <2>5, <2>6
  <2>8. QED
    BY <1>3, <2>1, <2>5, <2>7
<1>6. QED
  BY <1>3, <1>4, <1>5 DEF n

(* The windows of all pages, page after page.                              *)
LEMMA SpotsOf ==
    ASSUME NEW pages \in Seq(Seq(Word))
    PROVE  LET s == Spots(pages)
           IN  /\ Len(s) \in Nat /\ DOMAIN s = 1 .. Len(s)
               /\ \A i \in DOMAIN s :
                     s[i][1] \in DOMAIN pages /\ s[i][2] \in 1 .. Windows(pages[s[i][1]])
               /\ \A p \in DOMAIN pages : \A k \in 1 .. Windows(pages[p]) :
                     \E i \in DOMAIN s : s[i][1] = p /\ s[i][2] = k
               /\ \A i, j \in DOMAIN s : i < j => s[i][1] <= s[j][1]
<1> DEFINE count(p) == Windows(pages[p])
           row(p) == {p} \X (1 .. count(p))
           S == UNION {row(p) : p \in DOMAIN pages}
           R == {q \in S \X S : \/ q[1][1] < q[2][1]
                                \/ q[1][1] = q[2][1] /\ q[1][2] < q[2][2]}
           s == Spots(pages)
           n == Cardinality(S)
<1>1. /\ DOMAIN pages = 1 .. Len(pages) /\ Len(pages) \in Nat
      /\ \A p \in DOMAIN pages : pages[p] \in Seq(Word)
  OBVIOUS
<1>2. \A p \in DOMAIN pages : count(p) \in Nat
  BY <1>1, WindowsOf
<1> HIDE DEF count
<1>3. \A q : q \in S <=> \E p \in DOMAIN pages : \E k \in 1 .. count(p) : q = <<p, k>>
  OBVIOUS
<1>4. IsFiniteSet(S)
  <2>1. ASSUME NEW p \in DOMAIN pages PROVE IsFiniteSet(row(p))
    <3>1. IsFiniteSet({p}) /\ IsFiniteSet(1 .. count(p))
      <4>1. 1 \in Int /\ count(p) \in Int
        BY <1>2
      <4>2. IsFiniteSet(1 .. count(p))
        BY <4>1, FS_Interval
      <4>3. IsFiniteSet({p})
        BY FS_Singleton
      <4>4. QED
        BY <4>2, <4>3
    <3>2. QED
      BY <3>1, FS_Product
  <2>2. IsFiniteSet({row(p) : p \in DOMAIN pages})
    <3>1. IsFiniteSet(DOMAIN pages)
      BY <1>1, FS_Interval
    <3> DEFINE f == [p \in DOMAIN pages |-> row(p)]
               T == {row(p) : p \in DOMAIN pages}
    <3>2. f \in Surjection(DOMAIN pages, T)
      <4>1. f \in [DOMAIN pages -> T] /\ \A t \in T : \E p \in DOMAIN pages : f[p] = t
        OBVIOUS
      <4> HIDE DEF f, T
      <4>2. QED
        BY <4>1, Fun_IsSurj
    <3> HIDE DEF f, T
    <3>3. IsFiniteSet(T)
      BY <3>1, <3>2, FS_Surjection
    <3>4. QED
      BY <3>3 DEF T
  <2> HIDE DEF row
  <2>3. QED
    BY <2>1, <2>2, FS_UNION
<1> HIDE DEF S
<1>5. \A q \in S : /\ q = <<q[1], q[2]>> /\ q[1] \in DOMAIN pages /\ q[2] \in 1 .. count(q[1])
                   /\ q[1] \in Int /\ q[2] \in Int
  BY <1>1, <1>2, <1>3
<1>6. \A b, c : <<b, c>> \in R <=>
         b \in S /\ c \in S /\ (b[1] < c[1] \/ (b[1] = c[1] /\ b[2] < c[2]))
  OBVIOUS
<1> HIDE DEF R
<1>7. Orders(R, S)
  <2>1. ASSUME NEW c \in S PROVE <<c, c>> \notin R
    <3>1. c[1] \in Int /\ c[2] \in Int
      BY <1>5
    <3>2. ~(c[1] < c[1] \/ (c[1] = c[1] /\ c[2] < c[2]))
      BY <3>1
    <3>3. QED
      BY <1>6, <3>2
  <2>2. ASSUME NEW c \in S, NEW d \in S, c # d PROVE <<c, d>> \in R \/ <<d, c>> \in R
    <3>1. c[1] # d[1] \/ c[2] # d[2]
      BY <1>5, <2>2
    <3>2. c[1] \in Int /\ d[1] \in Int /\ c[2] \in Int /\ d[2] \in Int
      BY <1>5
    <3>3. QED
      BY <1>6, <3>1, <3>2
  <2>3. ASSUME NEW b \in S, NEW c \in S, NEW d \in S, <<b, c>> \in R, <<c, d>> \in R
        PROVE  <<b, d>> \in R
    <3>1. /\ c[1] \in Int /\ d[1] \in Int /\ c[2] \in Int /\ d[2] \in Int
          /\ b[1] \in Int /\ b[2] \in Int
      BY <1>5
    <3>2. /\ b[1] < c[1] \/ (b[1] = c[1] /\ b[2] < c[2])
          /\ c[1] < d[1] \/ (c[1] = d[1] /\ c[2] < d[2])
      BY <1>6, <2>3
    <3>3. b[1] < d[1] \/ (b[1] = d[1] /\ b[2] < d[2])
      BY <3>1, <3>2
    <3>4. QED
      BY <1>6, <3>3
  <2>4. QED
    BY <2>1, <2>2, <2>3 DEF Orders
<1>8. s = InOrder(S, R)
  BY DEF Spots, S, R, row, count
<1> HIDE DEF s, n
<1>9. /\ n \in Nat /\ s \in [1 .. n -> S]
      /\ \A c \in S : \E i \in 1 .. n : s[i] = c
      /\ \A i, j \in 1 .. n : i < j => <<s[i], s[j]>> \in R
  BY <1>4, <1>7, <1>8, InOrderLists DEF n
<1>10. Len(s) = n /\ DOMAIN s = 1 .. n
  BY <1>9
<1>11. \A i, j \in 1 .. n : i < j => s[i][1] <= s[j][1]
  <2> SUFFICES ASSUME NEW i \in 1 .. n, NEW j \in 1 .. n, i < j PROVE s[i][1] <= s[j][1]
    OBVIOUS
  <2>1. s[i] \in S /\ s[j] \in S /\ <<s[i], s[j]>> \in R
    BY <1>9
  <2>2. s[i][1] \in Int /\ s[j][1] \in Int
    BY <1>5, <2>1
  <2>3. s[i][1] < s[j][1] \/ s[i][1] = s[j][1]
    BY <1>6, <2>1
  <2>4. QED
    BY <2>2, <2>3
<1>12. \A i \in 1 .. n : s[i][1] \in DOMAIN pages /\ s[i][2] \in 1 .. count(s[i][1])
  BY <1>5, <1>9
<1>13. ASSUME NEW p \in DOMAIN pages, NEW k \in 1 .. count(p)
       PROVE  \E i \in 1 .. n : s[i][1] = p /\ s[i][2] = k
  <2>1. <<p, k>> \in S
    BY <1>3
  <2>2. PICK i \in 1 .. n : s[i] = <<p, k>>
    BY <1>9, <2>1
  <2>3. s[i][1] = p /\ s[i][2] = k
    BY ONLY <2>2
  <2>4. QED
    BY <2>3
<1>14. /\ Len(s) \in Nat /\ DOMAIN s = 1 .. Len(s)
       /\ \A i \in DOMAIN s : s[i][1] \in DOMAIN pages /\ s[i][2] \in 1 .. count(s[i][1])
       /\ \A p \in DOMAIN pages : \A k \in 1 .. count(p) :
             \E i \in DOMAIN s : s[i][1] = p /\ s[i][2] = k
       /\ \A i, j \in DOMAIN s : i < j => s[i][1] <= s[j][1]
  BY <1>9, <1>10, <1>11, <1>12, <1>13
<1>15. QED
  BY <1>14 DEF s, count

(* The pages of a source.                                                  *)
LEMMA PagesOf ==
    ASSUME NEW source \in Source
    PROVE  /\ source.bytes \in Bytes /\ source.name \in Word
           /\ Pages(source) \in Seq(Seq(Word))
           /\ \A x : x \in WordsOf(source.bytes) <=>
                 \E p \in DOMAIN Pages(source) : x \in ToSet(Pages(source)[p])
<1>1. source.bytes \in Bytes /\ source.name \in Word
  BY CommandLineAssumption DEF Bytes
<1>2. CASE source.image
  <2> DEFINE t == Transcribe(source.bytes)
  <2>1. Pages(source) = <<t>>
    BY <1>2 DEF Pages
  <2>2. t \in Seq(Word) /\ ToSet(t) = WordsOf(source.bytes)
    BY <1>1, TranscribeOf
  <2> HIDE DEF t
  <2>3. <<t>> \in Seq(Seq(Word)) /\ DOMAIN <<t>> = {1} /\ <<t>>[1] = t
    BY <2>2
  <2>4. QED
    BY <1>1, <2>1, <2>2, <2>3
<1>3. CASE ~source.image
  <2>1. Pages(source) = Blocks(source.bytes)
    BY <1>3 DEF Pages
  <2>2. QED
    BY <1>1, <2>1, BlocksOf
<1>4. QED
  BY <1>2, <1>3

(* The chunks of a source: numbered, page after page, with the words of    *)
(* the document and no others.                                             *)
LEMMA ChunksOf ==
    ASSUME NEW source \in Source, NEW c \in {"none", "fake", "heading-window"}
    PROVE  LET chunks == Chunks(c, source)
           IN  /\ chunks \in Seq(Chunk)
               /\ \A i \in DOMAIN chunks :
                     /\ chunks[i].document = source.bytes /\ chunks[i].ordinal = i - 1
                     /\ ToSet(chunks[i].text) \subseteq WordsOf(source.bytes)
               /\ \A i, j \in DOMAIN chunks : i < j => chunks[i].page <= chunks[j].page
               /\ \A x \in WordsOf(source.bytes) :
                     \E i \in DOMAIN chunks : x \in ToSet(chunks[i].text)
<1> DEFINE pages == Pages(source)
           s == Spots(pages)
           n == Len(s)
           passages == Passages(pages)
           text(i) == WindowAt(pages[s[i][1]], s[i][2])
           embed(i) == EmbedText(c, source, passages[i])
           chunks == Chunks(c, source)
<1>1. /\ source.bytes \in Bytes /\ source.name \in Word /\ pages \in Seq(Seq(Word))
      /\ \A x : x \in WordsOf(source.bytes) <=> \E p \in DOMAIN pages : x \in ToSet(pages[p])
  BY PagesOf
<1> HIDE DEF pages
<1>2. /\ n \in Nat /\ DOMAIN s = 1 .. n
      /\ \A i \in 1 .. n : s[i][1] \in DOMAIN pages /\ s[i][2] \in 1 .. Windows(pages[s[i][1]])
      /\ \A p \in DOMAIN pages : \A k \in 1 .. Windows(pages[p]) :
            \E i \in 1 .. n : s[i][1] = p /\ s[i][2] = k
      /\ \A i, j \in 1 .. n : i < j => s[i][1] <= s[j][1]
  <2>1. pages \in Seq(Seq(Word))
    BY <1>1
  <2>2. /\ n \in Nat /\ DOMAIN s = 1 .. n
        /\ \A i \in DOMAIN s : s[i][1] \in DOMAIN pages /\ s[i][2] \in 1 .. Windows(pages[s[i][1]])
        /\ \A p \in DOMAIN pages : \A k \in 1 .. Windows(pages[p]) :
              \E i \in DOMAIN s : s[i][1] = p /\ s[i][2] = k
        /\ \A i, j \in DOMAIN s : i < j => s[i][1] <= s[j][1]
    BY ONLY <2>1, SpotsOf
  <2> HIDE DEF s, n
  <2>3. QED
    BY <2>2
<1>3. passages = [i \in 1 .. n |-> [page |-> s[i][1], ordinal |-> s[i][2] - 1, text |-> text(i)]]
  <2>1. passages = [i \in DOMAIN s |->
                   [page |-> s[i][1], ordinal |-> s[i][2] - 1, text |-> text(i)]]
    BY DEF Passages
  <2>2. QED
    BY <1>2, <2>1
<1>4. chunks = [i \in 1 .. n |->
                   [document |-> source.bytes, ordinal |-> i - 1, page |-> passages[i].page,
                    text |-> passages[i].text, embedText |-> embed(i)]]
  <2>1. DOMAIN passages = 1 .. n
    BY <1>3
  <2>2. chunks = [i \in DOMAIN passages |->
                     [document |-> source.bytes, ordinal |-> i - 1, page |-> passages[i].page,
                      text |-> passages[i].text, embedText |-> embed(i)]]
    BY DEF Chunks, pages
  <2> HIDE DEF chunks, passages, n, embed
  <2>3. QED
    BY <2>1, <2>2
<1> HIDE DEF s, n, passages, chunks, text
<1>5. \A i \in 1 .. n : passages[i].page = s[i][1] /\ passages[i].text = text(i)
  BY <1>3
<1>6. \A p \in DOMAIN pages : p \in Nat /\ pages[p] \in Seq(Word)
  BY <1>1
<1>7. ASSUME NEW i \in 1 .. n
      PROVE  text(i) \in Seq(Word) /\ ToSet(text(i)) \subseteq ToSet(pages[s[i][1]])
  <2>1. pages[s[i][1]] \in Seq(Word) /\ s[i][2] \in 1 .. Windows(pages[s[i][1]])
    BY <1>2, <1>6
  <2>2. QED
    BY <2>1, WindowAtOf DEF text
<1>8. ASSUME NEW i \in 1 .. n PROVE embed(i) \in Seq(Word)
  <2>1. Transcribe(source.bytes) \in Seq(Word) /\ <<source.name>> \in Seq(Word)
    BY <1>1, TranscribeOf
  <2>2. passages[i].text \in Seq(Word)
    BY <1>5, <1>7
  <2>3. QED
    BY <2>1, <2>2 DEF EmbedText
<1> HIDE DEF embed
<1>9. ASSUME NEW i \in 1 .. n
      PROVE  /\ chunks[i].document = source.bytes /\ chunks[i].ordinal = i - 1
             /\ chunks[i].page = s[i][1] /\ chunks[i].text = text(i)
             /\ chunks[i] \in Chunk
  <2> DEFINE k == [document |-> source.bytes, ordinal |-> i - 1, page |-> passages[i].page,
                   text |-> passages[i].text, embedText |-> embed(i)]
  <2>1. chunks[i] = k
    BY <1>4
  <2>2. s[i][1] \in Nat /\ i - 1 \in Nat
    BY <1>2, <1>6
  <2>3. k \in Chunk
    BY <1>1, <1>5, <1>7, <1>8, <2>2 DEF Chunk
  <2>4. QED
    BY <1>5, <2>1, <2>3
<1>10. chunks \in Seq(Chunk) /\ DOMAIN chunks = 1 .. n
  <2>1. chunks \in [1 .. n -> Chunk]
    BY <1>4, <1>9
  <2>2. QED
    BY <1>2, <2>1
<1>11. ASSUME NEW i \in 1 .. n PROVE ToSet(chunks[i].text) \subseteq WordsOf(source.bytes)
  BY <1>1, <1>2, <1>7, <1>9
<1>12. \A i, j \in 1 .. n : i < j => chunks[i].page <= chunks[j].page
  BY <1>2, <1>9, SMTT(20)
<1>13. ASSUME NEW x \in WordsOf(source.bytes) PROVE \E i \in 1 .. n : x \in ToSet(chunks[i].text)
  <2>1. PICK p \in DOMAIN pages : x \in ToSet(pages[p])
    BY <1>1
  <2>2. PICK k \in 1 .. Windows(pages[p]) : x \in ToSet(WindowAt(pages[p], k))
    BY <1>6, <2>1, WindowAtOf
  <2>3. PICK i \in 1 .. n : s[i][1] = p /\ s[i][2] = k
    BY <1>2
  <2>4. chunks[i].text = WindowAt(pages[p], k)
    BY <1>9, <2>3 DEF text
  <2>5. QED
    BY <2>2, <2>4
<1>14. QED
  BY <1>9, <1>10, <1>11, <1>12, <1>13 DEF chunks

-----------------------------------------------------------------------------
(***************************************************************************)
(* What a shelf is.                                                        *)
(***************************************************************************)

SameId(k, m) == k.document = m.document /\ k.ordinal = m.ordinal

(* The records of a store: no id twice, the chunks of a document numbered  *)
(* one after the other, in the order of its pages.                         *)
Numbered(records) ==
    /\ \A i, j \in DOMAIN records : SameId(records[i], records[j]) => i = j
    /\ \A i \in DOMAIN records : records[i].ordinal > 0 =>
          /\ i > 1
          /\ records[i - 1].document = records[i].document
          /\ records[i - 1].ordinal = records[i].ordinal - 1
          /\ records[i - 1].page <= records[i].page

(* They have the words of the documents, and no others.                    *)
Worded(records, documents) ==
    /\ \A i \in DOMAIN records :
          /\ records[i].document \in documents
          /\ ToSet(records[i].text) \subseteq WordsOf(records[i].document)
    /\ \A d \in documents : \A x \in WordsOf(d) :
          \E i \in DOMAIN records : records[i].document = d /\ x \in ToSet(records[i].text)

Shelf(shelf) ==
    /\ shelf.vector = shelf.lexical
    /\ shelf.lexical \in Seq(Chunk) /\ shelf.documents \in Seq(Bytes)
    /\ IsInjective(shelf.documents)
    /\ Numbered(shelf.lexical)
    /\ Worded(shelf.lexical, ToSet(shelf.documents))

(* A list after another.                                                   *)
LEMMA JoinedLists ==
    ASSUME NEW T, NEW a \in Seq(T), NEW b \in Seq(T)
    PROVE  /\ a \o b \in Seq(T) /\ Len(a \o b) = Len(a) + Len(b)
           /\ \A i \in 1 .. Len(a) : (a \o b)[i] = a[i]
           /\ \A i \in 1 .. Len(b) : (a \o b)[Len(a) + i] = b[i]
           /\ \A i \in DOMAIN (a \o b) :
                 \/ i \in 1 .. Len(a) /\ (a \o b)[i] = a[i]
                 \/ i - Len(a) \in 1 .. Len(b) /\ (a \o b)[i] = b[i - Len(a)]
<1>1. Len(a) \in Nat /\ Len(b) \in Nat
  OBVIOUS
<1>2. /\ a \o b \in Seq(T) /\ Len(a \o b) = Len(a) + Len(b)
      /\ \A i \in 1 .. Len(a) + Len(b) :
            (a \o b)[i] = IF i <= Len(a) THEN a[i] ELSE b[i - Len(a)]
  OBVIOUS
<1>3. DOMAIN (a \o b) = 1 .. Len(a) + Len(b)
  BY <1>2
<1> DEFINE c == a \o b
<1> HIDE DEF c
<1>4. \A i \in 1 .. Len(a) : c[i] = a[i]
  BY <1>1, <1>2 DEF c
<1>5. ASSUME NEW i \in 1 .. Len(b) PROVE c[Len(a) + i] = b[i]
  <2>1. Len(a) + i \in 1 .. Len(a) + Len(b) /\ ~(Len(a) + i <= Len(a)) /\ Len(a) + i - Len(a) = i
    BY <1>1
  <2>2. QED
    BY <1>2, <2>1 DEF c
<1>6. ASSUME NEW i \in DOMAIN c
      PROVE  \/ i \in 1 .. Len(a) /\ c[i] = a[i]
             \/ i - Len(a) \in 1 .. Len(b) /\ c[i] = b[i - Len(a)]
  <2>1. i \in 1 .. Len(a) + Len(b) /\ c[i] = IF i <= Len(a) THEN a[i] ELSE b[i - Len(a)]
    BY <1>2, <1>3 DEF c
  <2>2. QED
    BY <1>1, <2>1
<1>7. QED
  BY <1>2, <1>4, <1>5, <1>6 DEF c

(* A list without none of its members is the list.                         *)
LEMMA WholeList ==
    ASSUME NEW T, NEW s \in Seq(T)
    PROVE  Sublist(s, DOMAIN s) = s
<1> DEFINE t == Sublist(s, DOMAIN s)
<1>1. DOMAIN s = 1 .. Len(s) /\ Len(s) \in Nat
  OBVIOUS
<1>2. t = Sublist(s, 1 .. Len(s))
  BY <1>1
<1> HIDE DEF t
<1>3. /\ t \in Seq(T) /\ Len(t) = Len(s) - 1 + 1
      /\ \A k \in 1 .. Len(s) - 1 + 1 : t[k] = s[1 + k - 1]
  <2> DEFINE a == 1
             b == Len(s)
  <2>1. a \in Nat \ {0} /\ b \in Nat /\ a <= b + 1 /\ b <= Len(s) /\ s \in Seq(T)
    BY <1>1
  <2> HIDE DEF a, b
  <2>2. /\ Sublist(s, a .. b) \in Seq(T) /\ Len(Sublist(s, a .. b)) = b - a + 1
        /\ \A k \in 1 .. b - a + 1 : Sublist(s, a .. b)[k] = s[a + k - 1]
    BY ONLY <2>1, SublistInterval, ZenonT(30)
  <2>3. QED
    BY <1>2, <2>2 DEF a, b
<1>4. Len(t) = Len(s) /\ \A k \in 1 .. Len(s) : t[k] = s[k]
  BY <1>1, <1>3
<1>5. t = s
  BY <1>3, <1>4, SeqEqual
<1>6. QED
  BY <1>5 DEF t

(* New ids replace nothing.                                                *)
LEMMA UpsertFresh ==
    ASSUME NEW records \in Seq(Chunk), NEW chunks \in Seq(Chunk),
           \A i \in DOMAIN records : \A j \in DOMAIN chunks :
              records[i].document # chunks[j].document
    PROVE  Upsert(records, chunks) = records \o chunks
<1> DEFINE ids == {ChunkId(chunks[i]) : i \in DOMAIN chunks}
           kept == {i \in DOMAIN records : ChunkId(records[i]) \notin ids}
<1>1. kept = DOMAIN records
  <2>1. ASSUME NEW i \in DOMAIN records PROVE ChunkId(records[i]) \notin ids
    <3>1. ASSUME NEW j \in DOMAIN chunks, ChunkId(records[i]) = ChunkId(chunks[j]) PROVE FALSE
      <4>1. records[i].document = chunks[j].document
        BY <3>1 DEF ChunkId
      <4>2. QED
        BY <4>1
    <3>2. QED
      BY <3>1
  <2> HIDE DEF ids
  <2>2. QED
    BY <2>1
<1>2. Upsert(records, chunks) = Sublist(records, kept) \o chunks
  BY DEF Upsert
<1> HIDE DEF kept
<1>3. Sublist(records, DOMAIN records) = records
  BY WholeList
<1>4. QED
  BY <1>1, <1>2, <1>3

(* A document that is ingested takes its place on the shelf.               *)
LEMMA IngestedShelf ==
    ASSUME NEW shelf, Shelf(shelf), NEW source \in Source,
           NEW c \in {"none", "fake", "heading-window"}
    PROVE  /\ Shelf(Ingested(shelf, c, source))
           /\ ToSet(Ingested(shelf, c, source).documents)
                 = ToSet(shelf.documents) \cup {source.bytes}
<1> DEFINE d == source.bytes
           old == shelf.lexical
           chunks == Chunks(c, source)
           new == [vector |-> Upsert(shelf.vector, chunks),
                   lexical |-> Upsert(old, chunks),
                   documents |-> Append(shelf.documents, d)]
           n == Len(old)
           all == old \o chunks
<1>1. CASE Registered(shelf, source)
  <2>1. Ingested(shelf, c, source) = shelf /\ d \in ToSet(shelf.documents)
    BY <1>1 DEF Ingested, Registered
  <2>2. QED
    BY <2>1
<1>2. CASE ~Registered(shelf, source)
  <2>1. Ingested(shelf, c, source) = new /\ d \notin ToSet(shelf.documents)
    BY <1>2 DEF Ingested, Registered
  <2>2. /\ old \in Seq(Chunk) /\ shelf.documents \in Seq(Bytes) /\ shelf.vector = old
        /\ IsInjective(shelf.documents)
        /\ Numbered(old) /\ Worded(old, ToSet(shelf.documents))
    BY DEF Shelf
  <2>3. /\ chunks \in Seq(Chunk)
        /\ \A i \in DOMAIN chunks :
              /\ chunks[i].document = d /\ chunks[i].ordinal = i - 1
              /\ ToSet(chunks[i].text) \subseteq WordsOf(d)
        /\ \A i, j \in DOMAIN chunks : i < j => chunks[i].page <= chunks[j].page
        /\ \A x \in WordsOf(d) : \E i \in DOMAIN chunks : x \in ToSet(chunks[i].text)
    BY ChunksOf
  <2>4. d \in Bytes
    BY PagesOf
  <2>5. /\ ToSet(Append(shelf.documents, d)) = ToSet(shelf.documents) \cup {d}
        /\ Append(shelf.documents, d) \in Seq(Bytes)
        /\ IsInjective(Append(shelf.documents, d))
    <3> DEFINE docs == shelf.documents
    <3>1. docs \in Seq(Bytes) /\ IsInjective(docs) /\ d \notin ToSet(docs)
      BY <2>1, <2>2
    <3> HIDE DEF docs, d
    <3>2. ToSet(Append(docs, d)) = ToSet(docs) \cup {d}
      BY <2>4, <3>1, AppendedSet
    <3>3. /\ Append(docs, d) \in Seq(Bytes) /\ DOMAIN Append(docs, d) = 1 .. Len(docs) + 1
          /\ \A i \in 1 .. Len(docs) : Append(docs, d)[i] = docs[i] /\ docs[i] \in ToSet(docs)
          /\ Append(docs, d)[Len(docs) + 1] = d
          /\ DOMAIN docs = 1 .. Len(docs) /\ Len(docs) \in Nat
      BY <2>4, <3>1 DEF ToSet
    <3>4. IsInjective(Append(docs, d))
      <4> SUFFICES ASSUME NEW i \in 1 .. Len(docs) + 1, NEW j \in 1 .. Len(docs) + 1,
                          Append(docs, d)[i] = Append(docs, d)[j]
                   PROVE  i = j
        BY <3>3 DEF IsInjective
      <4>1. CASE i \in 1 .. Len(docs) /\ j \in 1 .. Len(docs)
        BY <3>1, <3>3, <4>1 DEF IsInjective
      <4>2. CASE i = Len(docs) + 1 \/ j = Len(docs) + 1
        <5>1. \A m \in 1 .. Len(docs) : Append(docs, d)[m] # d
          BY <3>1, <3>3
        <5>2. i = Len(docs) + 1 /\ j = Len(docs) + 1
          BY <3>3, <4>2, <5>1
        <5>3. QED
          BY <5>2
      <4>3. QED
        BY <3>3, <4>1, <4>2
    <3>5. QED
      BY <3>2, <3>3, <3>4 DEF docs
  <2>6. Upsert(old, chunks) = all
    <3>1. \A i \in DOMAIN old : old[i].document \in ToSet(shelf.documents)
      BY <2>2 DEF Worded
    <3>2. \A i \in DOMAIN old : \A j \in DOMAIN chunks : old[i].document # chunks[j].document
      BY <2>1, <2>3, <3>1
    <3> HIDE DEF old, chunks
    <3>3. QED
      BY <2>2, <2>3, <3>2, UpsertFresh
  <2> HIDE DEF chunks, old, n, all
  <2>7. /\ n \in Nat /\ DOMAIN old = 1 .. n
        /\ DOMAIN chunks = 1 .. Len(chunks) /\ Len(chunks) \in Nat
    BY <2>2, <2>3 DEF n
  <2>8. /\ all \in Seq(Chunk) /\ Len(all) = n + Len(chunks) /\ DOMAIN all = 1 .. n + Len(chunks)
        /\ \A i \in 1 .. n : all[i] = old[i]
        /\ \A i \in 1 .. Len(chunks) : all[n + i] = chunks[i]
        /\ \A i \in DOMAIN all :
              \/ i \in 1 .. n /\ all[i] = old[i]
              \/ i - n \in 1 .. Len(chunks) /\ all[i] = chunks[i - n]
    <3>1. /\ all \in Seq(Chunk) /\ Len(all) = n + Len(chunks)
          /\ \A i \in 1 .. n : all[i] = old[i]
          /\ \A i \in 1 .. Len(chunks) : all[n + i] = chunks[i]
          /\ \A i \in DOMAIN all :
                \/ i \in 1 .. n /\ all[i] = old[i]
                \/ i - n \in 1 .. Len(chunks) /\ all[i] = chunks[i - n]
      BY <2>2, <2>3, JoinedLists DEF all, n
    <3>2. DOMAIN all = 1 .. n + Len(chunks)
      BY <3>1
    <3>3. QED
      BY <3>1, <3>2
  <2>9. \A i \in 1 .. n : old[i].document \in ToSet(shelf.documents)
    BY <2>2, <2>7 DEF Worded
  <2>10. Numbered(all)
    <3>1. ASSUME NEW i \in DOMAIN all, NEW j \in DOMAIN all, SameId(all[i], all[j]) PROVE i = j
      <4>1. CASE i \in 1 .. n /\ all[i] = old[i] /\ j \in 1 .. n /\ all[j] = old[j]
        BY <2>2, <2>7, <3>1, <4>1 DEF Numbered
      <4>2. CASE i - n \in 1 .. Len(chunks) /\ j - n \in 1 .. Len(chunks)
                 /\ all[i] = chunks[i - n] /\ all[j] = chunks[j - n]
        <5>1. i - n - 1 = j - n - 1
          BY <2>3, <2>7, <3>1, <4>2 DEF SameId
        <5>2. i \in Int /\ j \in Int
          BY <2>7, <2>8
        <5>3. QED
          BY <2>7, <5>1, <5>2
      <4>3. CASE /\ i \in 1 .. n /\ all[i] = old[i]
                 /\ j - n \in 1 .. Len(chunks) /\ all[j] = chunks[j - n]
        BY <2>1, <2>3, <2>7, <2>9, <3>1, <4>3 DEF SameId
      <4>4. CASE /\ j \in 1 .. n /\ all[j] = old[j]
                 /\ i - n \in 1 .. Len(chunks) /\ all[i] = chunks[i - n]
        BY <2>1, <2>3, <2>7, <2>9, <3>1, <4>4 DEF SameId
      <4>5. QED
        BY <2>8, <4>1, <4>2, <4>3, <4>4
    <3>2. ASSUME NEW i \in DOMAIN all, all[i].ordinal > 0
          PROVE  /\ i > 1
                 /\ all[i - 1].document = all[i].document
                 /\ all[i - 1].ordinal = all[i].ordinal - 1
                 /\ all[i - 1].page <= all[i].page
      <4>1. CASE i \in 1 .. n /\ all[i] = old[i]
        <5>1. /\ i > 1 /\ old[i - 1].document = old[i].document
              /\ old[i - 1].ordinal = old[i].ordinal - 1 /\ old[i - 1].page <= old[i].page
          BY <2>2, <2>7, <3>2, <4>1 DEF Numbered
        <5>2. i - 1 \in 1 .. n
          BY <2>7, <4>1, <5>1
        <5>3. all[i - 1] = old[i - 1]
          BY <2>8, <5>2
        <5>4. QED
          BY <4>1, <5>1, <5>3
      <4>2. CASE i - n \in 1 .. Len(chunks) /\ all[i] = chunks[i - n]
        <5>1. PICK k \in 1 .. Len(chunks) : k = i - n
          BY <4>2
        <5>2. i = n + k
          BY <2>7, <2>8, <5>1
        <5>3. all[i] = chunks[k] /\ chunks[k].document = d /\ chunks[k].ordinal = k - 1
          BY <2>3, <2>7, <4>2, <5>1
        <5>4. k > 1
          BY <3>2, <5>3
        <5>5. k - 1 \in 1 .. Len(chunks) /\ n + (k - 1) = i - 1 /\ i > 1
          BY <2>7, <5>2, <5>4
        <5>6. all[i - 1] = chunks[k - 1]
          BY <2>8, <5>5
        <5>7. chunks[k - 1].document = d /\ chunks[k - 1].ordinal = k - 1 - 1
              /\ chunks[k - 1].page <= chunks[k].page
          BY <2>3, <2>7, <5>5, SMTT(30)
        <5>8. QED
          BY <5>3, <5>5, <5>6, <5>7, SMTT(30)
      <4>3. QED
        BY <2>8, <4>1, <4>2
    <3>3. QED
      BY <3>1, <3>2 DEF Numbered
  <2>11. Worded(all, ToSet(shelf.documents) \cup {d})
    <3>1. ASSUME NEW i \in DOMAIN all
          PROVE  /\ all[i].document \in ToSet(shelf.documents) \cup {d}
                 /\ ToSet(all[i].text) \subseteq WordsOf(all[i].document)
      <4>1. CASE i \in 1 .. n /\ all[i] = old[i]
        BY <2>2, <2>7, <4>1 DEF Worded
      <4>2. CASE i - n \in 1 .. Len(chunks) /\ all[i] = chunks[i - n]
        BY <2>3, <2>7, <4>2
      <4>3. QED
        BY <2>8, <4>1, <4>2
    <3>2. ASSUME NEW e \in ToSet(shelf.documents) \cup {d}, NEW x \in WordsOf(e)
          PROVE  \E i \in DOMAIN all : all[i].document = e /\ x \in ToSet(all[i].text)
      <4>1. CASE e \in ToSet(shelf.documents)
        <5>1. PICK i \in 1 .. n : old[i].document = e /\ x \in ToSet(old[i].text)
          BY <2>2, <2>7, <4>1 DEF Worded
        <5>2. i \in DOMAIN all /\ all[i] = old[i]
          BY <2>7, <2>8
        <5>3. QED
          BY <5>1, <5>2
      <4>2. CASE e = d
        <5>1. PICK i \in 1 .. Len(chunks) : x \in ToSet(chunks[i].text)
          BY <2>3, <2>7, <4>2
        <5>2. n + i \in DOMAIN all /\ all[n + i] = chunks[i]
          BY <2>7, <2>8
        <5>3. chunks[i].document = e
          BY <2>3, <2>7, <4>2
        <5>4. QED
          BY <5>1, <5>2, <5>3
      <4>3. QED
        BY <4>1, <4>2
    <3>3. QED
      BY <3>1, <3>2 DEF Worded
  <2>12. /\ new.vector = all /\ new.lexical = all /\ new.documents = Append(shelf.documents, d)
    BY <2>2, <2>6
  <2> HIDE DEF new
  <2>13. Shelf(new)
    BY <2>5, <2>8, <2>10, <2>11, <2>12 DEF Shelf
  <2>14. QED
    BY <2>1, <2>5, <2>12, <2>13
<1>3. QED
  BY <1>1, <1>2

-----------------------------------------------------------------------------
(***************************************************************************)
(* What is retrieved.                                                      *)
(***************************************************************************)

(* What a prefix leaves out is beyond its length.                          *)
LEMMA PrefixLength ==
    ASSUME NEW T, NEW s \in Seq(T), NEW k \in Nat
    PROVE  Len(Prefix(s, k)) = IF Len(s) < k THEN Len(s) ELSE k
<1> DEFINE n == IF Len(s) < k THEN Len(s) ELSE k
<1>1. n \in Nat /\ n <= Len(s)
  OBVIOUS
<1>2. Prefix(s, k) = SubSeq(s, 1, n)
  BY DEF Prefix
<1> HIDE DEF n
<1>3. Len(SubSeq(s, 1, n)) = n
  BY <1>1
<1>4. QED
  BY <1>2, <1>3 DEF n

(* It has members of the list only, and none twice.                       *)
LEMMA DistinctPrefix ==
    ASSUME NEW T, NEW s \in Seq(T), NEW k \in Nat
    PROVE  /\ IsInjective(s) => IsInjective(Prefix(s, k))
           /\ ToSet(Prefix(s, k)) \subseteq ToSet(s)
           /\ s # <<>> /\ k > 0 => Prefix(s, k) # <<>>
<1> DEFINE p == Prefix(s, k)
<1>1. /\ p \in Seq(T) /\ Len(p) = (IF Len(s) < k THEN Len(s) ELSE k)
      /\ \A i \in 1 .. Len(p) : p[i] = s[i]
  BY PrefixOf, PrefixLength
<1>2. /\ Len(s) \in Nat /\ DOMAIN s = 1 .. Len(s) /\ s # <<>> => Len(s) > 0
      /\ \A i \in 1 .. Len(s) : s[i] \in ToSet(s)
  BY Members
<1> HIDE DEF p
<1>3. Len(p) \in Nat /\ DOMAIN p = 1 .. Len(p) /\ Len(p) <= Len(s)
  BY <1>1, <1>2
<1>4. \A i \in DOMAIN p : i \in DOMAIN s /\ p[i] = s[i]
  BY <1>1, <1>2, <1>3
<1>5. ToSet(p) \subseteq ToSet(s)
  BY <1>4 DEF ToSet
<1>6. IsInjective(s) => IsInjective(p)
  BY <1>4 DEF IsInjective
<1>7. s # <<>> /\ k > 0 => p # <<>>
  BY <1>1, <1>2
<1>8. QED
  BY <1>5, <1>6, <1>7 DEF p

(* A list put in an order, of some of its positions.                       *)
LEMMA ArrangedList ==
    ASSUME NEW T, NEW s \in Seq(T), NEW S \in SUBSET (DOMAIN s), NEW R, Orders(R, S)
    PROVE  LET a == Arranged(s, InOrder(S, R))
           IN  /\ a \in Seq(T)
               /\ \A x : x \in ToSet(a) <=> \E i \in S : s[i] = x
               /\ IsInjective(s) => IsInjective(a)
<1> DEFINE o == InOrder(S, R)
           n == Cardinality(S)
           a == Arranged(s, o)
<1>1. DOMAIN s = 1 .. Len(s) /\ Len(s) \in Nat /\ \A i \in DOMAIN s : s[i] \in T
  OBVIOUS
<1>2. IsFiniteSet(S)
  <2>1. IsFiniteSet(1 .. Len(s))
    BY <1>1, FS_Interval
  <2>2. QED
    BY <1>1, <2>1, FS_Subset
<1>3. /\ n \in Nat /\ o \in [1 .. n -> S]
      /\ \A c \in S : \E k \in 1 .. n : o[k] = c
      /\ \A j, k \in 1 .. n : j < k => o[j] # o[k]
  <2>1. /\ n \in Nat /\ o \in [1 .. n -> S]
        /\ \A c \in S : \E k \in 1 .. n : o[k] = c
        /\ \A j, k \in 1 .. n : j < k => <<o[j], o[k]>> \in R /\ o[j] # o[k]
    BY <1>2, InOrderLists
  <2> HIDE DEF o, n
  <2>2. QED
    BY ONLY <2>1
<1>4. a = [k \in 1 .. n |-> s[o[k]]]
  BY <1>3 DEF Arranged
<1> HIDE DEF o, n, a
<1>5. \A k \in 1 .. n : a[k] = s[o[k]] /\ o[k] \in S /\ s[o[k]] \in T
  BY <1>1, <1>3, <1>4
<1>6. a \in Seq(T) /\ DOMAIN a = 1 .. n
  <2>1. a \in [1 .. n -> T]
    BY <1>4, <1>5
  <2>2. QED
    BY <1>3, <2>1
<1>7. ASSUME NEW x PROVE x \in ToSet(a) <=> \E i \in S : s[i] = x
  <2>1. ASSUME x \in ToSet(a) PROVE \E i \in S : s[i] = x
    <3>1. PICK k \in 1 .. n : a[k] = x
      BY <1>6, <2>1 DEF ToSet
    <3>2. QED
      BY <1>5, <3>1
  <2>2. ASSUME NEW i \in S, s[i] = x PROVE x \in ToSet(a)
    <3>1. PICK k \in 1 .. n : o[k] = i
      BY <1>3
    <3>2. a[k] = x
      BY <1>5, <2>2, <3>1
    <3>3. QED
      BY <1>6, <3>2 DEF ToSet
  <2>3. QED
    BY <2>1, <2>2
<1>8. ASSUME IsInjective(s) PROVE IsInjective(a)
  <2> SUFFICES ASSUME NEW j \in 1 .. n, NEW k \in 1 .. n, a[j] = a[k], j # k PROVE FALSE
    BY <1>6 DEF IsInjective
  <2>1. j < k \/ k < j
    BY <1>3
  <2>2. o[j] # o[k]
    BY <1>3, <2>1
  <2>3. o[j] \in DOMAIN s /\ o[k] \in DOMAIN s /\ s[o[j]] = s[o[k]]
    BY <1>5
  <2>4. QED
    BY <1>8, <2>2, <2>3 DEF IsInjective
<1>9. QED
  BY <1>6, <1>7, <1>8 DEF a, o

(* Numbers, the greatest first, ties in the order of the list.             *)
LEMMA ByNumberOrders ==
    ASSUME NEW S \in SUBSET Int, NEW f \in [S -> Int], NEW R,
           \A i, j \in S : <<i, j>> \in R <=> f[i] > f[j] \/ (i < j /\ f[i] = f[j])
    PROVE  Orders(R, S)
<1>1. \A i \in S : f[i] \in Int /\ i \in Int
  OBVIOUS
<1>2. \A i \in S : <<i, i>> \notin R
  BY <1>1
<1>3. \A i, j \in S : i # j => <<i, j>> \in R \/ <<j, i>> \in R
  BY <1>1
<1>4. \A i, j, k \in S : <<i, j>> \in R /\ <<j, k>> \in R => <<i, k>> \in R
  BY <1>1
<1>5. QED
  BY <1>2, <1>3, <1>4 DEF Orders

(* The positions of a list are finitely many, and so are its members.      *)
LEMMA ListFinite ==
    ASSUME NEW T, NEW s \in Seq(T)
    PROVE  IsFiniteSet(DOMAIN s) /\ IsFiniteSet(ToSet(s))
<1>1. DOMAIN s = 1 .. Len(s) /\ Len(s) \in Nat
  OBVIOUS
<1>2. IsFiniteSet(1 .. Len(s))
  BY <1>1, FS_Interval
<1>3. s \in Surjection(1 .. Len(s), ToSet(s))
  <2>1. s \in [1 .. Len(s) -> T]
    OBVIOUS
  <2>2. QED
    BY <1>1, <2>1, Fun_IsSurj DEF ToSet
<1>4. IsFiniteSet(ToSet(s))
  BY <1>2, <1>3, FS_Surjection
<1>5. QED
  BY <1>1, <1>2, <1>4

(* A finite set counts more than nothing if it has a member.               *)
LEMMA Counted ==
    ASSUME NEW S, IsFiniteSet(S)
    PROVE  Cardinality(S) \in Nat /\ (Cardinality(S) > 0 <=> S # {})
<1>1. Cardinality(S) \in Nat /\ (Cardinality(S) = 0 <=> S = {})
  BY FS_CardinalityType, FS_EmptySet
<1>2. QED
  BY <1>1

(* How much a chunk shares with a question.                                *)
LEMMA SharedOf ==
    ASSUME NEW chunk \in Chunk, NEW question \in Seq(Word)
    PROVE  /\ Shared(chunk, question) \in Nat
           /\ Shared(chunk, question) > 0 <=> SharedWords(question, chunk.text) # {}
<1> DEFINE S == SharedWords(question, chunk.text)
<1>1. IsFiniteSet(ToSet(question))
  BY ListFinite
<1>2. S \subseteq ToSet(question)
  BY DEF SharedWords, ContentTokens
<1>3. IsFiniteSet(S)
  BY <1>1, <1>2, FS_Subset
<1> HIDE DEF S
<1>4. Cardinality(S) \in Nat /\ (Cardinality(S) > 0 <=> S # {})
  BY <1>3, Counted
<1>5. QED
  BY <1>4 DEF S, Shared

(* The products of two texts.                                              *)
LEMMA DotOf ==
    ASSUME NEW s \in Seq(Word), NEW t \in Seq(Word)
    PROVE  /\ Dot(s, t) \in Nat
           /\ Dot(s, t) > 0 => Dot(t, t) > 0
<1>1. ASSUME NEW u \in Seq(Word), NEW v \in Seq(Word)
      PROVE  /\ Dot(u, v) \in Nat
             /\ Dot(u, v) > 0 <=> \E i \in DOMAIN u, j \in DOMAIN v : Bucket[u[i]] = Bucket[v[j]]
  <2> DEFINE S == {p \in (DOMAIN u) \X (DOMAIN v) : Bucket[u[p[1]]] = Bucket[v[p[2]]]}
  <2>1. IsFiniteSet(DOMAIN u) /\ IsFiniteSet(DOMAIN v)
    BY ListFinite
  <2>2. IsFiniteSet((DOMAIN u) \X (DOMAIN v))
    BY <2>1, FS_Product
  <2>3. IsFiniteSet(S)
    <3>1. S \subseteq (DOMAIN u) \X (DOMAIN v)
      OBVIOUS
    <3> HIDE DEF S
    <3>2. QED
      BY <2>2, <3>1, FS_Subset
  <2>4. S # {} <=> \E i \in DOMAIN u, j \in DOMAIN v : Bucket[u[i]] = Bucket[v[j]]
    <3>1. ASSUME NEW i \in DOMAIN u, NEW j \in DOMAIN v, Bucket[u[i]] = Bucket[v[j]]
          PROVE  S # {}
      <4>1. <<i, j>> \in S
        BY <3>1
      <4>2. QED
        BY <4>1
    <3>2. ASSUME S # {} PROVE \E i \in DOMAIN u, j \in DOMAIN v : Bucket[u[i]] = Bucket[v[j]]
      <4>1. PICK p \in S : TRUE
        BY <3>2
      <4>2. p[1] \in DOMAIN u /\ p[2] \in DOMAIN v /\ Bucket[u[p[1]]] = Bucket[v[p[2]]]
        BY <4>1
      <4>3. QED
        BY <4>2
    <3> HIDE DEF S
    <3>3. QED
      BY <3>1, <3>2
  <2>5. Dot(u, v) = Cardinality(S)
    BY DEF Dot
  <2> HIDE DEF S
  <2>6. Cardinality(S) \in Nat /\ (Cardinality(S) > 0 <=> S # {})
    BY <2>3, Counted
  <2>7. QED
    BY <2>4, <2>5, <2>6
<1>2. ASSUME Dot(s, t) > 0 PROVE Dot(t, t) > 0
  <2>1. PICK j \in DOMAIN t : TRUE
    BY <1>1, <1>2
  <2>2. QED
    BY <1>1, <2>1
<1>3. QED
  BY <1>1, <1>2

(* Fractions are compared across.                                          *)
LEMMA Ratios ==
    ASSUME NEW x \in Nat, NEW y \in Nat, NEW z \in Nat,
           NEW d \in Nat \ {0}, NEW e \in Nat \ {0}, NEW f \in Nat \ {0},
           x * e >= y * d, y * f >= z * e
    PROVE  /\ x * f >= z * d
           /\ x * e > y * d \/ y * f > z * e => x * f > z * d
<1>1. /\ x * f \in Nat /\ z * d \in Nat /\ y * d \in Nat /\ x * e \in Nat
      /\ y * f \in Nat /\ z * e \in Nat
  OBVIOUS
<1>2. \A a, b \in Nat, k \in Nat \ {0} : (a >= b => a * k >= b * k) /\ (a > b => a * k > b * k)
  OBVIOUS
<1>3. \A a, b \in Nat, k \in Nat \ {0} : (a * k >= b * k => a >= b) /\ (a * k > b * k => a > b)
  OBVIOUS
<1>4. /\ (x * e) * f >= (y * d) * f /\ (y * f) * d >= (z * e) * d
      /\ x * e > y * d => (x * e) * f > (y * d) * f
      /\ y * f > z * e => (y * f) * d > (z * e) * d
  BY <1>1, <1>2
<1>5. /\ (x * e) * f = (x * f) * e /\ (y * d) * f = (y * f) * d /\ (z * e) * d = (z * d) * e
  OBVIOUS
<1>6. /\ (x * e) * f \in Nat /\ (y * d) * f \in Nat /\ (z * e) * d \in Nat
  BY <1>1
<1>7. /\ (x * f) * e >= (z * d) * e
      /\ x * e > y * d \/ y * f > z * e => (x * f) * e > (z * d) * e
  BY <1>4, <1>5, <1>6
<1>8. QED
  BY <1>1, <1>3, <1>7

(* The chunks that share a word with the question, and no others.          *)
LEMMA OverlappingOf ==
    ASSUME NEW chunks \in Seq(Chunk), NEW question \in Seq(Word)
    PROVE  LET o == Overlapping(chunks, question)
           IN  /\ o \in Seq(Chunk)
               /\ IsInjective(chunks) => IsInjective(o)
               /\ \A c : c \in ToSet(o) <=> c \in ToSet(chunks) /\ Shared(c, question) > 0
<1> DEFINE f == [i \in DOMAIN chunks |-> Shared(chunks[i], question)]
           S == {i \in DOMAIN chunks : Shared(chunks[i], question) > 0}
           R == {p \in S \X S :
                    \/ Shared(chunks[p[1]], question) > Shared(chunks[p[2]], question)
                    \/ /\ p[1] < p[2]
                       /\ Shared(chunks[p[1]], question) = Shared(chunks[p[2]], question)}
           o == Overlapping(chunks, question)
<1>1. o = Arranged(chunks, InOrder(S, R))
  BY DEF Overlapping
<1>2. \A i \in DOMAIN chunks :
         i \in Int /\ chunks[i] \in Chunk /\ Shared(chunks[i], question) \in Int
  <2>1. \A i \in DOMAIN chunks : i \in Int /\ chunks[i] \in Chunk
    OBVIOUS
  <2>2. \A c \in Chunk : Shared(c, question) \in Nat
    BY SharedOf
  <2>3. QED
    BY <2>1, <2>2
<1>3. f \in [DOMAIN chunks -> Int] /\ \A i \in DOMAIN chunks : f[i] = Shared(chunks[i], question)
  BY <1>2
<1>4. \A i, j \in S : <<i, j>> \in R <=> f[i] > f[j] \/ (i < j /\ f[i] = f[j])
  <2>1. \A i, j \in S : <<i, j>> \in R <=>
           \/ Shared(chunks[i], question) > Shared(chunks[j], question)
           \/ i < j /\ Shared(chunks[i], question) = Shared(chunks[j], question)
    OBVIOUS
  <2>2. \A i \in S : i \in DOMAIN chunks
    OBVIOUS
  <2> HIDE DEF R, S, f
  <2>3. ASSUME NEW i \in S, NEW j \in S
        PROVE  <<i, j>> \in R <=> f[i] > f[j] \/ (i < j /\ f[i] = f[j])
    <3>1. f[i] = Shared(chunks[i], question) /\ f[j] = Shared(chunks[j], question)
      BY ONLY <1>3, <2>2, i \in S, j \in S
    <3>2. <<i, j>> \in R <=>
             \/ Shared(chunks[i], question) > Shared(chunks[j], question)
             \/ i < j /\ Shared(chunks[i], question) = Shared(chunks[j], question)
      BY ONLY <2>1, i \in S, j \in S
    <3> QED
      BY ONLY <3>1, <3>2
  <2>4. QED
    BY ONLY <2>3
<1>5. S \in SUBSET (DOMAIN chunks) /\ S \in SUBSET Int
  BY <1>2
<1>6. \A i \in DOMAIN chunks : i \in S <=> Shared(chunks[i], question) > 0
  OBVIOUS
<1> HIDE DEF o, R, S, f
<1>7. Orders(R, S)
  <2> DEFINE g == [i \in S |-> f[i]]
  <2>1. g \in [S -> Int] /\ \A i \in S : g[i] = f[i]
    BY <1>3, <1>5
  <2>2. \A i, j \in S : <<i, j>> \in R <=> g[i] > g[j] \/ (i < j /\ g[i] = g[j])
    BY <1>4, <2>1
  <2> HIDE DEF g
  <2>3. QED
    BY ONLY <1>5, <2>1, <2>2, ByNumberOrders
<1>8. /\ o \in Seq(Chunk)
      /\ \A c : c \in ToSet(o) <=> \E i \in S : chunks[i] = c
      /\ IsInjective(chunks) => IsInjective(o)
  <2> DEFINE a == Arranged(chunks, InOrder(S, R))
  <2>1. /\ a \in Seq(Chunk)
        /\ \A c : c \in ToSet(a) <=> \E i \in S : chunks[i] = c
        /\ IsInjective(chunks) => IsInjective(a)
    BY <1>5, <1>7, ArrangedList
  <2>2. QED
    BY <1>1, <2>1
<1>9. ASSUME NEW c
      PROVE  (\E i \in S : chunks[i] = c) <=> c \in ToSet(chunks) /\ Shared(c, question) > 0
  BY <1>5, <1>6 DEF ToSet
<1>10. QED
  BY <1>8, <1>9 DEF o

(* What the dense search finds, it finds in the store.                     *)
LEMMA DenseOf ==
    ASSUME NEW records \in Seq(Chunk), NEW question \in Seq(Word)
    PROVE  LET d == DenseSearch(records, question)
           IN  /\ d \in Seq(Chunk) /\ Len(d) <= RetrieveK
               /\ ToSet(d) \subseteq ToSet(records)
               /\ IsInjective(records) => IsInjective(d)
<1> DEFINE text(i) == records[i].embedText
           nearer(i, j) == Nearer(question, text(i), text(j))
           S == {i \in DOMAIN records : Dot(question, text(i)) > 0}
           R == {p \in S \X S : nearer(p[1], p[2]) \/ (p[1] < p[2] /\ ~nearer(p[2], p[1]))}
           a == Arranged(records, InOrder(S, R))
           d == DenseSearch(records, question)
<1>1. d = Prefix(a, RetrieveK)
  BY DEF DenseSearch
<1>2. S \in SUBSET (DOMAIN records) /\ \A i \in DOMAIN records : i \in Int
  OBVIOUS
<1>3. \A i \in DOMAIN records : text(i) \in Seq(Word)
  <2>1. \A i \in DOMAIN records : records[i] \in Chunk
    OBVIOUS
  <2>2. \A c \in Chunk : c.embedText \in Seq(Word)
    BY DEF Chunk
  <2>3. QED
    BY <2>1, <2>2
<1>4. \A i \in S : Dot(question, text(i)) > 0
  OBVIOUS
<1>5. \A i, j \in S : <<i, j>> \in R <=> nearer(i, j) \/ (i < j /\ ~nearer(j, i))
  OBVIOUS
<1> HIDE DEF S, R, text
<1> DEFINE x == [i \in S |-> Dot(question, text(i)) * Dot(question, text(i))]
           y == [i \in S |-> Dot(text(i), text(i))]
<1>6. \A i \in S : x[i] \in Nat /\ y[i] \in Nat \ {0}
  <2> SUFFICES ASSUME NEW i \in S PROVE x[i] \in Nat /\ y[i] \in Nat \ {0}
    OBVIOUS
  <2>1. text(i) \in Seq(Word)
    BY <1>2, <1>3
  <2>2. \A s, t \in Seq(Word) : Dot(s, t) \in Nat /\ (Dot(s, t) > 0 => Dot(t, t) > 0)
    BY DotOf
  <2>3. /\ Dot(question, text(i)) \in Nat
        /\ Dot(text(i), text(i)) \in Nat /\ Dot(text(i), text(i)) > 0
    BY <1>4, <2>1, <2>2
  <2>4. \A n \in Nat : n * n \in Nat
    OBVIOUS
  <2>5. QED
    BY <2>3, <2>4
<1>7. \A i, j \in S : nearer(i, j) <=> x[i] * y[j] > x[j] * y[i]
  BY DEF Nearer
<1> HIDE DEF nearer, x, y
<1>8. ASSUME NEW i \in S, NEW j \in S
      PROVE  /\ x[i] * y[j] \in Nat /\ x[j] * y[i] \in Nat
             /\ ~nearer(j, i) <=> x[i] * y[j] >= x[j] * y[i]
             /\ nearer(i, j) <=> x[i] * y[j] > x[j] * y[i]
  <2>1. \A m, n \in Nat : m * n \in Nat
    OBVIOUS
  <2>2. x[i] * y[j] \in Nat /\ x[j] * y[i] \in Nat
    BY <1>6, <2>1
  <2>3. QED
    BY <1>7, <2>2
<1>9. Orders(R, S)
  <2>1. ASSUME NEW i \in S PROVE <<i, i>> \notin R
    <3>1. ~nearer(i, i) /\ ~(i < i)
      BY <1>2, <1>8
    <3>2. QED
      BY <1>5, <3>1
  <2>2. ASSUME NEW i \in S, NEW j \in S, i # j PROVE <<i, j>> \in R \/ <<j, i>> \in R
    <3>1. i < j \/ j < i
      BY <1>2, <2>2
    <3>2. QED
      BY <1>5, <3>1
  <2>3. ASSUME NEW i \in S, NEW j \in S, NEW k \in S, <<i, j>> \in R, <<j, k>> \in R
        PROVE  <<i, k>> \in R
    <3>1. /\ nearer(i, j) \/ (i < j /\ ~nearer(j, i))
          /\ nearer(j, k) \/ (j < k /\ ~nearer(k, j))
      BY <1>5, <2>3
    <3>2. x[i] * y[j] >= x[j] * y[i] /\ x[j] * y[k] >= x[k] * y[j]
      BY <1>8, <3>1
    <3>3. /\ x[i] * y[k] >= x[k] * y[i]
          /\ x[i] * y[j] > x[j] * y[i] \/ x[j] * y[k] > x[k] * y[j] => x[i] * y[k] > x[k] * y[i]
      BY <1>6, <3>2, Ratios
    <3>4. nearer(i, j) \/ nearer(j, k) => nearer(i, k)
      BY <1>8, <3>3
    <3>5. i < j /\ j < k => i < k
      BY <1>2
    <3>6. ~nearer(k, i)
      BY <1>8, <3>3
    <3>7. QED
      BY <1>5, <3>1, <3>4, <3>5, <3>6
  <2>4. QED
    BY <2>1, <2>2, <2>3 DEF Orders
<1> HIDE DEF a, d
<1>10. /\ a \in Seq(Chunk)
       /\ \A c : c \in ToSet(a) <=> \E i \in S : records[i] = c
       /\ IsInjective(records) => IsInjective(a)
  BY <1>2, <1>9, ArrangedList DEF a
<1>11. ToSet(a) \subseteq ToSet(records)
  BY <1>2, <1>10 DEF ToSet
<1>12. RetrieveK \in Nat
  BY FusionAssumption
<1>13. d \in Seq(Chunk) /\ Len(d) <= RetrieveK /\ ToSet(d) \subseteq ToSet(a)
  <2>1. Prefix(a, RetrieveK) \in Seq(Chunk) /\ Len(Prefix(a, RetrieveK)) <= RetrieveK
    BY <1>10, <1>12, PrefixOf
  <2>2. ToSet(Prefix(a, RetrieveK)) \subseteq ToSet(a)
    BY <1>10, <1>12, DistinctPrefix
  <2>3. QED
    BY <1>1, <2>1, <2>2
<1>14. IsInjective(records) => IsInjective(d)
  BY <1>1, <1>10, <1>12, DistinctPrefix
<1>15. QED
  BY <1>11, <1>13, <1>14 DEF d

(* One of the first two that are fused has been found by its words: what   *)
(* the lexical search puts first has the score of a first place at least,  *)
(* and of those found by the dense search alone only one has as much.      *)
LEMMA FusionFirst ==
    ASSUME RetrieveK >= 2,
           NEW d \in Seq(Chunk), Len(d) <= RetrieveK, IsInjective(d),
           NEW l \in Seq(Chunk), Len(l) <= RetrieveK, IsInjective(l), l # <<>>
    PROVE  \E i \in DOMAIN ReciprocalRankFusion(d, l) :
              i <= 2 /\ ReciprocalRankFusion(d, l)[i] \in ToSet(l)
<1> DEFINE f == ReciprocalRankFusion(d, l)
           c == l[1]
           top == Unit \div RrfK
           next == Unit \div (RrfK + 1)
<1>1. /\ f \in Seq(Chunk)
      /\ \A i, j \in DOMAIN f : i # j => f[i] # f[j]
      /\ \A x \in Found(d, l) : \E i \in DOMAIN f : f[i] = x
      /\ \A i \in DOMAIN f : f[i] \in Found(d, l)
      /\ \A i, j \in DOMAIN f :
            FusedScore(d, l, f[i]) > FusedScore(d, l, f[j]) => i < j
  BY FusionLists
<1> HIDE DEF f
<1>2. DOMAIN f = 1 .. Len(f) /\ Len(f) \in Nat
  BY <1>1
<1>3. 1 \in DOMAIN l /\ c \in ToSet(l) /\ c \in Found(d, l)
  <2>1. 1 \in DOMAIN l
    OBVIOUS
  <2>2. QED
    BY <2>1 DEF ToSet, Found
<1>4. top \in Nat /\ next \in Nat /\ next < top
  <2>1. /\ RrfK \in Nat \ {0} /\ RrfK + 1 \in Nat \ {0} /\ Unit \in Nat \ {0}
        /\ RrfK <= RrfK + 1 /\ RetrieveK \in Nat
    BY FusionAssumption
  <2>2. 0 \in 0 .. RetrieveK - 1 /\ 1 \in 0 .. RetrieveK - 1 /\ RrfK + 0 = RrfK
    BY <2>1
  <2>3. Unit % RrfK = 0 /\ Unit % (RrfK + 1) = 0
    BY <2>2, FusionAssumption
  <2> DEFINE e == RrfK + 1
  <2>4. /\ Unit \div RrfK \in Nat /\ Unit \div e \in Nat
        /\ Unit = RrfK * (Unit \div RrfK) /\ Unit = e * (Unit \div e)
        /\ Unit \div e <= Unit \div RrfK
    <3>1. e \in Nat \ {0} /\ RrfK <= e /\ Unit % e = 0
      BY <2>1, <2>3
    <3> HIDE DEF e
    <3>2. QED
      BY <2>1, <2>3, <3>1, Quotients
  <2>5. PICK p \in Nat, q \in Nat : p = top /\ q = next
    BY <2>4
  <2>6. Unit = RrfK * p /\ Unit = (RrfK + 1) * q /\ q <= p
    BY <2>4, <2>5
  <2>7. (RrfK + 1) * q = RrfK * q + q
    BY <2>1
  <2>8. p # q
    <3> SUFFICES ASSUME p = q PROVE FALSE
      OBVIOUS
    <3>1. RrfK * q \in Nat /\ RrfK * q = RrfK * q + q
      BY <2>1, <2>6, <2>7
    <3>2. q = 0
      BY <3>1
    <3>3. Unit = 0
      BY <2>1, <2>6, <3>2
    <3>4. QED
      BY <2>1, <3>3
  <2>9. QED
    BY <2>5, <2>6, <2>8
<1> HIDE DEF top, next
<1>5. FusedScore(d, l, c) >= top
  <2>1. Rank(l, c) = 0
    <3>1. Rank(l, c) \in 0 .. Len(l) - 1 /\ l[Rank(l, c) + 1] = c
      BY <1>3, RankOf
    <3>2. Rank(l, c) + 1 \in DOMAIN l
      BY <3>1
    <3>3. Rank(l, c) + 1 = 1
      BY <1>3, <3>1, <3>2 DEF IsInjective
    <3>4. QED
      BY <3>1, <3>3
  <2>2. Share(l, c) = top
    <3>1. RrfK + 0 = RrfK
      BY FusionAssumption
    <3>2. QED
      BY <1>3, <2>1, <3>1 DEF Share, top
  <2>3. Share(d, c) \in Nat
    BY ShareOf
  <2>4. QED
    BY <1>4, <2>2, <2>3 DEF FusedScore
<1>6. ASSUME NEW x \in ToSet(d), x \notin ToSet(l), x # d[1]
      PROVE  FusedScore(d, l, x) < FusedScore(d, l, c)
  <2>1. Rank(d, x) \in 0 .. Len(d) - 1 /\ d[Rank(d, x) + 1] = x
    BY RankOf
  <2>2. PICK r \in 0 .. Len(d) - 1 : r = Rank(d, x)
    BY <2>1
  <2>3. r # 0 /\ r \in Nat /\ r >= 1 /\ r <= RetrieveK - 1
    <3>1. r # 0
      <4>1. r = 0 => d[0 + 1] = x
        BY <2>1, <2>2
      <4>2. QED
        BY <1>6, <4>1
    <3>2. Len(d) \in Nat /\ RetrieveK \in Nat
      BY FusionAssumption
    <3>3. QED
      BY <3>1, <3>2
  <2>4. Share(d, x) = Unit \div (RrfK + r)
    BY <2>2 DEF Share
  <2>5. Unit \div (RrfK + r) <= next
    <3>1. /\ RrfK + 1 \in Nat \ {0} /\ RrfK + r \in Nat \ {0} /\ Unit \in Nat
          /\ RrfK + 1 <= RrfK + r
      BY <2>3, FusionAssumption
    <3>2. 1 \in 0 .. RetrieveK - 1 /\ r \in 0 .. RetrieveK - 1
      BY <2>3, FusionAssumption
    <3>3. Unit % (RrfK + 1) = 0 /\ Unit % (RrfK + r) = 0
      BY <3>2, FusionAssumption
    <3> DEFINE a == RrfK + 1
               b == RrfK + r
    <3>4. a \in Nat \ {0} /\ b \in Nat \ {0} /\ a <= b /\ Unit % a = 0 /\ Unit % b = 0
      BY <3>1, <3>3
    <3> HIDE DEF a, b
    <3>5. Unit \div b <= Unit \div a
      BY <3>1, <3>4, Quotients
    <3>6. QED
      BY <3>5 DEF a, b, next
  <2>6. Share(l, x) = 0 /\ Share(d, x) \in Nat
    BY <1>6, ShareOf
  <2>7. FusedScore(d, l, x) = Share(d, x)
    BY <2>6 DEF FusedScore
  <2>8. FusedScore(d, l, c) \in Int
    BY <1>3, ShareOf DEF FusedScore
  <2>9. QED
    BY <1>4, <1>5, <2>4, <2>5, <2>6, <2>7, <2>8
<1>7. PICK k \in DOMAIN f : f[k] = c
  BY <1>1, <1>3
<1>8. CASE k <= 2
  BY <1>3, <1>7, <1>8 DEF f
<1>9. CASE ~(k <= 2)
  <2>1. 1 \in DOMAIN f /\ 2 \in DOMAIN f /\ k > 2 /\ k \in Int
    BY <1>2, <1>7, <1>9
  <2>2. ASSUME NEW i \in {1, 2}, f[i] \notin ToSet(l) PROVE f[i] = d[1]
    <3>1. f[i] \in ToSet(d) /\ i \in DOMAIN f
      BY <1>1, <2>1, <2>2 DEF Found
    <3>2. ASSUME f[i] # d[1] PROVE FALSE
      <4>1. FusedScore(d, l, f[i]) < FusedScore(d, l, f[k])
        BY <1>6, <1>7, <2>2, <3>1, <3>2
      <4>2. FusedScore(d, l, f[i]) \in Int /\ FusedScore(d, l, f[k]) \in Int
        BY ShareOf DEF FusedScore
      <4>3. k < i
        BY <1>1, <1>7, <3>1, <4>1, <4>2
      <4>4. QED
        BY <2>1, <4>3
    <3>3. QED
      BY <3>2
  <2>3. f[1] # f[2]
    BY <1>1, <2>1
  <2>4. f[1] \in ToSet(l) \/ f[2] \in ToSet(l)
    BY <2>2, <2>3
  <2>5. QED
    BY <2>1, <2>4 DEF f
<1>10. QED
  BY <1>8, <1>9

(* The edges have what was ranked, each once.                              *)
LEMMA EdgesOf ==
    ASSUME NEW T, NEW s \in Seq(T)
    PROVE  /\ ArrangeForEdges(s) \in Seq(T) /\ Len(ArrangeForEdges(s)) = Len(s)
           /\ ToSet(ArrangeForEdges(s)) \subseteq ToSet(s)
           /\ IsInjective(s) => IsInjective(ArrangeForEdges(s))
<1> DEFINE n == Len(s)
           from(i) == IF i <= (n + 1) \div 2 THEN 2 * i - 1 ELSE 2 * (n - i + 1)
           a == ArrangeForEdges(s)
<1>1. n \in Nat /\ DOMAIN s = 1 .. n
  OBVIOUS
<1>2. /\ a \in Seq(T) /\ Len(a) = n
      /\ \A i \in 1 .. n : \E j \in 1 .. n : a[i] = s[j]
  BY ArrangedOf
<1>3. \A i \in 1 .. n : a[i] = s[from(i)]
  BY <1>1 DEF ArrangeForEdges
<1> HIDE DEF a, n
<1>4. PICK h \in Nat : h = (n + 1) \div 2 /\ 2 * h >= n /\ 2 * h <= n + 1
  BY <1>1
<1>5. ASSUME NEW i \in 1 .. n, NEW j \in 1 .. n
      PROVE  /\ from(i) \in 1 .. n
             /\ from(i) = from(j) => i = j
  <2>1. from(i) = (IF i <= h THEN 2 * i - 1 ELSE 2 * (n - i + 1))
        /\ from(j) = (IF j <= h THEN 2 * j - 1 ELSE 2 * (n - j + 1))
    BY <1>4
  <2>2. i \in Int /\ j \in Int /\ 1 <= i /\ i <= n /\ 1 <= j /\ j <= n
    BY <1>1
  <2> HIDE DEF from
  <2>3. from(i) \in 1 .. n
    BY <1>1, <1>4, <2>1, <2>2
  <2>4. ASSUME from(i) = from(j) PROVE i = j
    <3>1. CASE i <= h /\ j <= h
      BY <1>1, <2>1, <2>2, <2>4, <3>1
    <3>2. CASE ~(i <= h) /\ ~(j <= h)
      BY <1>1, <2>1, <2>2, <2>4, <3>2
    <3>3. CASE i <= h /\ ~(j <= h)
      <4>1. 2 * i - 1 = 2 * (n - j + 1)
        BY <2>1, <2>4, <3>3
      <4>2. QED
        BY <1>1, <2>2, <4>1
    <3>4. CASE ~(i <= h) /\ j <= h
      <4>1. 2 * j - 1 = 2 * (n - i + 1)
        BY <2>1, <2>4, <3>4
      <4>2. QED
        BY <1>1, <2>2, <4>1
    <3>5. QED
      BY <3>1, <3>2, <3>3, <3>4
  <2>5. QED
    BY <2>3, <2>4
<1> HIDE DEF from
<1>6. DOMAIN a = 1 .. n
  BY <1>2
<1>7. ToSet(a) \subseteq ToSet(s)
  <2> SUFFICES ASSUME NEW x \in ToSet(a) PROVE x \in ToSet(s)
    OBVIOUS
  <2>1. PICK i \in 1 .. n : a[i] = x
    BY <1>6 DEF ToSet
  <2>2. from(i) \in DOMAIN s /\ s[from(i)] = x
    BY <1>1, <1>3, <1>5, <2>1
  <2>3. QED
    BY <2>2 DEF ToSet
<1>8. IsInjective(s) => IsInjective(a)
  BY <1>1, <1>3, <1>5, <1>6 DEF IsInjective
<1>9. QED
  BY <1>2, <1>7, <1>8 DEF a, n

(* What is retrieved is on the shelf, each once; and if a chunk there has  *)
(* a content word of the question, one of them is retrieved.               *)
LEMMA RetrievedOf ==
    ASSUME RetrieveK >= 2, NEW shelf, Shelf(shelf), NEW question \in Seq(Word)
    PROVE  LET r == Retrieved(shelf, question)
           IN  /\ r \in Seq(Chunk) /\ IsInjective(r)
               /\ ToSet(r) \subseteq ToSet(shelf.lexical)
               /\ (\E k \in ToSet(shelf.lexical) : Shared(k, question) > 0)
                     => \E k \in ToSet(r) : Shared(k, question) > 0
<1> DEFINE records == shelf.lexical
           d == DenseSearch(records, question)
           o == Overlapping(records, question)
           l == Prefix(o, RetrieveK)
           f == ReciprocalRankFusion(d, l)
           r == Retrieved(shelf, question)
<1>1. records \in Seq(Chunk) /\ IsInjective(records) /\ shelf.vector = records
  BY DEF Shelf, Numbered, SameId, IsInjective
<1>2. r = Prefix(f, RetrieveK)
  BY <1>1 DEF Retrieved, LexicalSearch
<1>3. RetrieveK \in Nat
  BY FusionAssumption
<1> HIDE DEF records
<1>4. /\ d \in Seq(Chunk) /\ Len(d) <= RetrieveK
      /\ ToSet(d) \subseteq ToSet(records) /\ IsInjective(d)
  BY <1>1, DenseOf
<1>5. /\ o \in Seq(Chunk) /\ IsInjective(o)
      /\ \A c : c \in ToSet(o) <=> c \in ToSet(records) /\ Shared(c, question) > 0
  BY <1>1, OverlappingOf
<1> HIDE DEF o, d, r
<1>6. l \in Seq(Chunk) /\ Len(l) <= RetrieveK
  BY <1>3, <1>5, PrefixOf
<1>7. /\ IsInjective(l) /\ ToSet(l) \subseteq ToSet(o)
      /\ o # <<>> /\ RetrieveK > 0 => l # <<>>
  BY <1>3, <1>5, DistinctPrefix
<1> HIDE DEF l
<1>8. /\ f \in Seq(Chunk)
      /\ \A i, j \in DOMAIN f : i # j => f[i] # f[j]
      /\ \A i \in DOMAIN f : f[i] \in Found(d, l)
  BY <1>4, <1>6, FusionLists
<1>9. l # <<>> => \E i \in DOMAIN f : i <= 2 /\ f[i] \in ToSet(l)
  BY <1>4, <1>6, <1>7, FusionFirst
<1> HIDE DEF f
<1>10. IsInjective(f) /\ ToSet(f) \subseteq ToSet(records)
  <2>1. ToSet(l) \subseteq ToSet(records)
    BY <1>5, <1>7
  <2>2. Found(d, l) \subseteq ToSet(records)
    BY <1>4, <2>1 DEF Found
  <2>3. \A x \in ToSet(f) : \E i \in DOMAIN f : f[i] = x
    BY DEF ToSet
  <2>4. QED
    BY <1>8, <2>2, <2>3 DEF IsInjective
<1>11. /\ r \in Seq(Chunk) /\ Len(r) = (IF Len(f) < RetrieveK THEN Len(f) ELSE RetrieveK)
       /\ \A i \in 1 .. Len(r) : r[i] = f[i]
  BY <1>2, <1>3, <1>8, PrefixOf, PrefixLength
<1>12. IsInjective(r) /\ ToSet(r) \subseteq ToSet(f)
  BY <1>2, <1>3, <1>8, <1>10, DistinctPrefix
<1>13. ASSUME NEW k \in ToSet(records), Shared(k, question) > 0
       PROVE  \E c \in ToSet(r) : Shared(c, question) > 0
  <2>1. o # <<>>
    <3>1. k \in ToSet(o)
      BY <1>5, <1>13
    <3>2. ToSet(<<>>) = {}
      BY DEF ToSet
    <3>3. QED
      BY <3>1, <3>2
  <2>2. PICK i \in DOMAIN f : i <= 2 /\ f[i] \in ToSet(l)
    BY <1>3, <1>7, <1>9, <2>1
  <2>3. i \in 1 .. Len(r)
    <3>1. i \in 1 .. Len(f) /\ Len(f) \in Nat
      BY <1>8
    <3>2. QED
      BY <1>3, <1>11, <2>2, <3>1
  <2>4. r[i] \in ToSet(r) /\ r[i] \in ToSet(l)
    <3>1. DOMAIN r = 1 .. Len(r)
      BY <1>11
    <3>2. QED
      BY <1>11, <2>2, <2>3, <3>1 DEF ToSet
  <2>5. Shared(r[i], question) > 0
    BY <1>5, <1>7, <2>4
  <2>6. QED
    BY <2>4, <2>5
<1>14. QED
  BY <1>10, <1>11, <1>12, <1>13 DEF r, records

(* What is laid before the model: chunks that have a content word of the   *)
(* question, one at least if there is any.                                 *)
LEMMA ContextOf ==
    ASSUME RetrieveK >= 2, NEW shelf, Shelf(shelf), NEW question \in Seq(Word)
    PROVE  LET context == Context(shelf, question)
           IN  /\ context \in Seq(Chunk) /\ IsInjective(context)
               /\ \A k \in ToSet(context) :
                     k \in ToSet(shelf.lexical) /\ Shared(k, question) > 0
               /\ (\E k \in ToSet(shelf.lexical) : Shared(k, question) > 0) => context # <<>>
<1> DEFINE r == Retrieved(shelf, question)
           o == Overlapping(r, question)
           p == Prefix(o, RerankK)
           q == Prefix(p, ContextK)
           context == Context(shelf, question)
<1>1. /\ r \in Seq(Chunk) /\ IsInjective(r)
      /\ ToSet(r) \subseteq ToSet(shelf.lexical)
      /\ (\E k \in ToSet(shelf.lexical) : Shared(k, question) > 0)
            => \E k \in ToSet(r) : Shared(k, question) > 0
  BY RetrievedOf
<1>2. context = ArrangeForEdges(q)
  BY DEF Context, Reranked
<1>3. /\ RerankK \in Nat /\ RerankK > 0 /\ ContextK \in Nat /\ ContextK > 0
  BY FakesAssumption
<1> HIDE DEF r, context
<1>4. /\ o \in Seq(Chunk) /\ IsInjective(o)
      /\ \A c : c \in ToSet(o) <=> c \in ToSet(r) /\ Shared(c, question) > 0
  BY <1>1, OverlappingOf
<1> HIDE DEF o
<1>5. p \in Seq(Chunk)
  BY <1>3, <1>4, PrefixOf
<1>6. IsInjective(p) /\ ToSet(p) \subseteq ToSet(o) /\ (o # <<>> => p # <<>>)
  BY <1>3, <1>4, DistinctPrefix
<1> HIDE DEF p
<1>7. q \in Seq(Chunk)
  BY <1>3, <1>5, PrefixOf
<1>8. IsInjective(q) /\ ToSet(q) \subseteq ToSet(p) /\ (p # <<>> => q # <<>>)
  BY <1>3, <1>5, <1>6, DistinctPrefix
<1> HIDE DEF q
<1>9. /\ context \in Seq(Chunk) /\ Len(context) = Len(q)
      /\ IsInjective(context) /\ ToSet(context) \subseteq ToSet(q)
  BY <1>2, <1>7, <1>8, EdgesOf
<1>10. q # <<>> => context # <<>>
  BY <1>7, <1>9
<1>11. (\E k \in ToSet(r) : Shared(k, question) > 0) => o # <<>>
  <2>1. ToSet(<<>>) = {}
    BY DEF ToSet
  <2>2. QED
    BY <1>4, <2>1
<1>12. \A k \in ToSet(context) : k \in ToSet(shelf.lexical) /\ Shared(k, question) > 0
  BY <1>1, <1>4, <1>6, <1>8, <1>9
<1>13. QED
  BY <1>1, <1>6, <1>8, <1>9, <1>10, <1>11, <1>12 DEF context

(* What a query answers.                                                   *)
LEMMA QueryOf ==
    ASSUME RetrieveK >= 2, NEW shelf, Shelf(shelf), NEW question \in Seq(Word),
           question \notin SmallTalk
    PROVE  LET given == Query(shelf, question)
               matching == {d \in ToSet(shelf.documents) : Matches(d, question)}
           IN  /\ (given.outcome = "answered") = (matching # {})
               /\ CitedDocuments(given) \subseteq matching
               /\ IsInjective(given.citations)
               /\ given.citations # <<>> =>
                     \E i \in DOMAIN given.citations : given.citations[i].text = given.text
               /\ \/ given = Refusal
                  \/ /\ given.outcome = "answered" /\ ContentTokens(given.text) # {}
                     /\ given.citations \in Seq(Chunk) /\ given.citations # <<>>
<1> DEFINE records == shelf.lexical
           context == Context(shelf, question)
           relevant == Relevant(context, question)
           best == Best(context, question)
           given == Query(shelf, question)
           matching == {d \in ToSet(shelf.documents) : Matches(d, question)}
<1>1. /\ records \in Seq(Chunk) /\ shelf.documents \in Seq(Bytes)
      /\ Worded(records, ToSet(shelf.documents))
  BY DEF Shelf
<1>2. /\ context \in Seq(Chunk) /\ IsInjective(context)
      /\ \A k \in ToSet(context) : k \in ToSet(records) /\ Shared(k, question) > 0
      /\ (\E k \in ToSet(records) : Shared(k, question) > 0) => context # <<>>
  BY ContextOf
<1>3. \A d \in ToSet(shelf.documents) : d \in Bytes /\ ToSet(Transcribe(d)) = WordsOf(d)
  <2>1. ToSet(shelf.documents) \subseteq Bytes
    BY <1>1, Members
  <2>2. QED
    BY <2>1, TranscribeOf
<1>4. given = IF relevant = {} THEN Refusal
               ELSE Answer(best.text, Sublist(context, relevant), "answered")
  BY DEF Query
<1>5. ASSUME NEW k \in ToSet(records), Shared(k, question) > 0 PROVE k.document \in matching
  <2>1. k \in Chunk /\ \E i \in DOMAIN records : records[i] = k
    BY <1>1, Members DEF ToSet
  <2>2. k.document \in ToSet(shelf.documents) /\ ToSet(k.text) \subseteq WordsOf(k.document)
    BY <1>1, <2>1 DEF Worded
  <2>3. SharedWords(question, k.text) # {}
    BY <1>5, <2>1, SharedOf
  <2>4. SharedWords(Transcribe(k.document), question) # {}
    BY <1>3, <2>2, <2>3 DEF SharedWords, ContentTokens
  <2>5. QED
    BY <2>2, <2>4 DEF Matches
<1>6. ASSUME NEW d \in matching PROVE \E k \in ToSet(records) : Shared(k, question) > 0
  <2>1. d \in ToSet(shelf.documents) /\ SharedWords(Transcribe(d), question) # {}
    BY DEF Matches
  <2>2. PICK x \in WordsOf(d) : x \in ToSet(question) /\ x \notin Stopword
    BY <1>3, <2>1 DEF SharedWords, ContentTokens
  <2>3. PICK i \in DOMAIN records : records[i].document = d /\ x \in ToSet(records[i].text)
    BY <1>1, <2>1, <2>2 DEF Worded
  <2>4. records[i] \in Chunk /\ records[i] \in ToSet(records)
    BY <1>1 DEF ToSet
  <2>5. x \in SharedWords(question, records[i].text)
    BY <2>2, <2>3 DEF SharedWords, ContentTokens
  <2>6. Shared(records[i], question) > 0
    BY <2>4, <2>5, SharedOf
  <2>7. QED
    BY <2>4, <2>6
<1>7. relevant = DOMAIN context /\ context \in Seq(Chunk)
      /\ \A n \in DOMAIN context : context[n] \in Chunk /\ context[n] \in ToSet(context)
  <2>1. \A n \in DOMAIN context : context[n] \in Chunk /\ context[n] \in ToSet(context)
    BY <1>2 DEF ToSet
  <2>2. QED
    BY <1>2, <2>1 DEF Relevant
<1> HIDE DEF records, context
<1>8. Sublist(context, relevant) = context
  BY <1>7, WholeList
<1> HIDE DEF matching, given, best, relevant
<1>9. CASE relevant = {}
  <2>1. matching = {}
    <3>1. context = <<>>
      <4>1. DOMAIN context = {}
        BY <1>7, <1>9
      <4>2. \A c \in Seq(Chunk) : c # <<>> => 1 \in DOMAIN c
        OBVIOUS
      <4>3. QED
        BY <1>7, <4>1, <4>2
    <3>2. QED
      BY <1>2, <1>6, <3>1
  <2>2. given.outcome = "not_found" /\ given.citations = <<>>
    BY <1>4, <1>9 DEF Refusal, Answer
  <2>3. CitedDocuments(given) = {} /\ IsInjective(given.citations)
    BY <2>2 DEF CitedDocuments, IsInjective
  <2>4. given = Refusal
    BY <1>4, <1>9
  <2>5. QED
    BY <2>1, <2>2, <2>3, <2>4 DEF given, matching
<1>10. CASE relevant # {}
  <2>1. given.outcome = "answered" /\ given.citations = context /\ given.text = best.text
    BY <1>4, <1>8, <1>10 DEF Answer
  <2>2. \A n \in DOMAIN context : context[n].document \in matching
    BY <1>2, <1>5, <1>7 DEF records
  <2>3. matching # {} /\ CitedDocuments(given) \subseteq matching
    BY <1>7, <1>10, <2>1, <2>2 DEF CitedDocuments
  <2>4. \E n \in DOMAIN context : context[n] = best
    <3> DEFINE most == {n \in relevant : \A m \in relevant :
                           Shared(context[m], question) <= Shared(context[n], question)}
               scores == {Shared(context[n], question) : n \in relevant}
    <3>1. best = context[Min(most)]
      BY DEF best, Best, relevant
    <3>2. \A n \in relevant : n \in Nat /\ Shared(context[n], question) \in Nat
      BY <1>7, SharedOf
    <3>3. IsFiniteSet(relevant)
      BY <1>7, ListFinite
    <3>4. PICK k \in relevant : \A m \in relevant :
                Shared(context[m], question) <= Shared(context[k], question)
      <4> DEFINE f == [n \in relevant |-> Shared(context[n], question)]
      <4>1. f \in Surjection(relevant, scores)
        <5>1. f \in [relevant -> scores]
          OBVIOUS
        <5>2. \A y \in scores : \E n \in relevant : f[n] = y
          OBVIOUS
        <5> HIDE DEF f, scores
        <5>3. QED
          BY <5>1, <5>2, Fun_IsSurj
      <4>2. IsFiniteSet(scores)
        BY <3>3, <4>1, FS_Surjection
      <4>3. scores \in SUBSET Int /\ scores # {}
        BY <1>10, <3>2
      <4>4. PICK s \in scores : \A t \in scores : t <= s
        <5> HIDE DEF scores
        <5>1. QED
          BY <4>2, <4>3, Extremes
      <4>5. PICK k \in relevant : Shared(context[k], question) = s
        OBVIOUS
      <4>6. \A m \in relevant : Shared(context[m], question) \in scores
        OBVIOUS
      <4>7. QED
        BY <4>4, <4>5, <4>6
    <3>5. k \in most /\ most \subseteq relevant
      BY <3>4
    <3> HIDE DEF most
    <3>6. most \in SUBSET Int /\ IsFiniteSet(most)
      BY <3>2, <3>3, <3>5, FS_Subset
    <3>7. \E n \in most : \A m \in most : n <= m
      BY <3>5, <3>6, Extremes
    <3>8. Min(most) \in most
      BY <3>7 DEF Min
    <3>9. QED
      BY <1>7, <3>1, <3>5, <3>8
  <2>5. ContentTokens(best.text) # {} /\ context # <<>>
    <3>1. PICK n \in DOMAIN context : context[n] = best
      BY <2>4
    <3>2. best \in Chunk /\ Shared(best, question) > 0
      BY <1>2, <1>7, <3>1
    <3>3. SharedWords(question, best.text) # {}
      BY <3>2, SharedOf
    <3>4. DOMAIN <<>> = {}
      OBVIOUS
    <3>5. QED
      BY <3>1, <3>3, <3>4 DEF SharedWords
  <2>6. \E i \in DOMAIN given.citations : given.citations[i].text = given.text
    BY <2>1, <2>4
  <2>7. QED
    BY <1>2, <2>1, <2>3, <2>5, <2>6 DEF given, matching
<1>11. QED
  BY <1>9, <1>10

(* Of the lengths that fail, one is the least.                             *)
LEMMA LeastFailure ==
    ASSUME NEW n \in Nat, NEW P \in SUBSET (1 .. n), P # {}
    PROVE  \E m \in P : \A k \in 1 .. m - 1 : k \notin P
<1>1. IsFiniteSet(1 .. n)
  BY FS_Interval
<1>2. IsFiniteSet(P) /\ P \in SUBSET Int
  <2>1. IsFiniteSet(P)
    BY <1>1, FS_Subset
  <2>2. QED
    BY <2>1
<1>3. PICK m \in P : \A k \in P : m <= k
  BY <1>2, Extremes
<1>4. QED
  BY <1>3

(* The texts joined so far, text by text.                                  *)
Joins(f, ss) ==
    f = [i \in 1 .. Len(ss) |-> IF i = 1 THEN ss[i] ELSE f[i - 1] \o ss[i]]

(* What joins texts one after the other is texts.                          *)
LEMMA JoinsTyped ==
    ASSUME NEW S, NEW ss \in Seq(Seq(S)), NEW f, Joins(f, ss)
    PROVE  f \in [1 .. Len(ss) -> Seq(S)]
<1> DEFINE n == Len(ss)
           P == {i \in 1 .. n : f[i] \notin Seq(S)}
<1>1. n \in Nat /\ \A i \in 1 .. n : ss[i] \in Seq(S)
  OBVIOUS
<1>2. /\ DOMAIN f = 1 .. n /\ f = [i \in 1 .. n |-> f[i]]
      /\ \A i \in 1 .. n : f[i] = IF i = 1 THEN ss[i] ELSE f[i - 1] \o ss[i]
  BY DEF Joins
<1>3. ASSUME P # {} PROVE FALSE
  <2>1. P \in SUBSET (1 .. n)
    OBVIOUS
  <2>2. PICK m \in P : \A k \in 1 .. m - 1 : k \notin P
    BY <1>1, <1>3, <2>1, LeastFailure
  <2>3. m \in 1 .. n /\ f[m] \notin Seq(S)
    OBVIOUS
  <2>4. CASE m = 1
    BY <1>1, <1>2, <2>3, <2>4
  <2>5. CASE m # 1
    <3>1. m - 1 \in 1 .. n /\ m - 1 \in 1 .. m - 1
      BY <1>1, <2>3, <2>5
    <3>2. f[m - 1] \in Seq(S)
      BY <2>2, <3>1
    <3>3. f[m - 1] \o ss[m] \in Seq(S)
      BY <1>1, <2>3, <3>2, ConcatProperties
    <3>4. QED
      BY <1>2, <2>3, <2>5, <3>3
  <2>6. QED
    BY <2>4, <2>5
<1>4. \A i \in 1 .. n : f[i] \in Seq(S)
  BY <1>3
<1> HIDE DEF n
<1>5. QED
  BY <1>2, <1>4 DEF n

(* Every list of texts is joined by some function.                         *)
LEMMA JoinsExist ==
    ASSUME NEW S, NEW ss \in Seq(Seq(S))
    PROVE  \E f : Joins(f, ss)
<1> DEFINE n == Len(ss)
           Upto(f, m) == f \in [1 .. m -> Seq(S)] /\
                         \A i \in 1 .. m : f[i] = IF i = 1 THEN ss[i] ELSE f[i - 1] \o ss[i]
           P == {m \in 1 .. n : ~\E f \in [1 .. m -> Seq(S)] : Upto(f, m)}
<1>1. n \in Nat /\ \A i \in 1 .. n : ss[i] \in Seq(S)
  OBVIOUS
<1>2. ASSUME P # {} PROVE FALSE
  <2>1. P \in SUBSET (1 .. n)
    OBVIOUS
  <2>2. PICK m \in P : \A k \in 1 .. m - 1 : k \notin P
    BY <1>1, <1>2, <2>1, LeastFailure
  <2>3. m \in 1 .. n
    OBVIOUS
  <2>4. ASSUME m = 1 PROVE FALSE
    <3> DEFINE g == [i \in 1 .. 1 |-> ss[i]]
    <3>1. g \in [1 .. m -> Seq(S)] /\ Upto(g, m)
      BY <1>1, <2>3, <2>4
    <3>2. QED
      BY <3>1
  <2>5. ASSUME m # 1 PROVE FALSE
    <3>1. m - 1 \in 1 .. n /\ m - 1 \in 1 .. m - 1
      BY <1>1, <2>3, <2>5
    <3>2. PICK f \in [1 .. m - 1 -> Seq(S)] : Upto(f, m - 1)
      BY <2>2, <3>1
    <3>3. f[m - 1] \o ss[m] \in Seq(S)
      BY <1>1, <2>3, <3>1, <3>2, ConcatProperties
    <3> DEFINE g == [x \in 1 .. m |-> IF x = m THEN f[m - 1] \o ss[m] ELSE f[x]]
    <3>4. g \in [1 .. m -> Seq(S)]
      BY <2>3, <3>1, <3>2, <3>3
    <3>5. ASSUME NEW i \in 1 .. m
          PROVE  g[i] = IF i = 1 THEN ss[i] ELSE g[i - 1] \o ss[i]
      <4>1. CASE i = m
        <5>1. m - 1 # m /\ m - 1 \in 1 .. m
          BY <2>3, <3>1
        <5>2. g[m] = f[m - 1] \o ss[m] /\ g[m - 1] = f[m - 1]
          <6> DEFINE e == f[m - 1] \o ss[m]
          <6>1. g = [x \in 1 .. m |-> IF x = m THEN e ELSE f[x]]
            OBVIOUS
          <6>2. m \in 1 .. m
            BY <2>3
          <6> HIDE DEF e, g
          <6>3. QED
            BY <5>1, <6>1, <6>2 DEF e
        <5>3. QED
          BY <2>5, <4>1, <5>2
      <4>2. CASE i # m
        <5>1. i \in 1 .. m - 1 /\ (i # 1 => i - 1 \in 1 .. m /\ i - 1 # m)
          BY <2>3, <4>2
        <5>2. g[i] = f[i] /\ (i # 1 => g[i - 1] = f[i - 1])
          BY <4>2, <5>1
        <5>3. QED
          BY <3>2, <5>1, <5>2
      <4>3. QED
        BY <4>1, <4>2
    <3> HIDE DEF g
    <3>6. Upto(g, m)
      BY <3>4, <3>5
    <3>7. QED
      BY <3>4, <3>6
  <2>6. QED
    BY <2>4, <2>5
<1>3. CASE n = 0
  <2>1. Joins(<<>>, ss)
    BY <1>3 DEF Joins
  <2>2. QED
    BY <2>1
<1>4. CASE n # 0
  <2>1. n \in 1 .. n
    BY <1>1, <1>4
  <2>2. PICK f \in [1 .. n -> Seq(S)] : Upto(f, n)
    BY <1>2, <2>1
  <2>3. f = [i \in 1 .. n |-> IF i = 1 THEN ss[i] ELSE f[i - 1] \o ss[i]]
    BY <2>2
  <2>4. QED
    BY <2>3 DEF Joins
<1>5. QED
  BY <1>3, <1>4

(* FlattenSeq is the last of the joins, and a sequence of what the texts   *)
(* are made of.                                                            *)
LEMMA FlattenJoins ==
    ASSUME NEW S, NEW ss \in Seq(Seq(S))
    PROVE  /\ FlattenSeq(ss) \in Seq(S)
           /\ ss # <<>> => \E f : Joins(f, ss) /\ FlattenSeq(ss) = f[Len(ss)]
<1> DEFINE flatten == CHOOSE f : Joins(f, ss)
<1>1. Joins(flatten, ss)
  BY JoinsExist
<1>2. FlattenSeq(ss) = IF Len(ss) = 0 THEN ss ELSE flatten[Len(ss)]
  BY DEF FlattenSeq, Joins
<1> HIDE DEF flatten
<1>3. flatten \in [1 .. Len(ss) -> Seq(S)]
  BY <1>1, JoinsTyped
<1>4. Len(ss) \in Nat /\ (Len(ss) = 0 <=> ss = <<>>)
  BY EmptySeq
<1>5. CASE ss = <<>>
  BY <1>2, <1>4, <1>5
<1>6. CASE ss # <<>>
  <2>1. Len(ss) \in 1 .. Len(ss)
    BY <1>4, <1>6
  <2>2. FlattenSeq(ss) = flatten[Len(ss)]
    BY <1>2, <1>4, <1>6
  <2>3. QED
    BY <1>1, <1>3, <2>1, <2>2
<1>7. QED
  BY <1>5, <1>6


(* A list of words after another has the words of both.                    *)
LEMMA JoinedSet ==
    ASSUME NEW T, NEW a \in Seq(T), NEW b \in Seq(T)
    PROVE  ToSet(a) \subseteq ToSet(a \o b) /\ ToSet(b) \subseteq ToSet(a \o b)
<1>1. /\ DOMAIN (a \o b) = 1 .. Len(a) + Len(b)
      /\ \A i \in 1 .. Len(a) : (a \o b)[i] = a[i]
      /\ \A i \in 1 .. Len(b) : (a \o b)[Len(a) + i] = b[i]
      /\ DOMAIN a = 1 .. Len(a) /\ DOMAIN b = 1 .. Len(b) /\ Len(a) \in Nat /\ Len(b) \in Nat
  <2>1. /\ a \o b \in Seq(T) /\ Len(a \o b) = Len(a) + Len(b)
        /\ \A i \in 1 .. Len(a) : (a \o b)[i] = a[i]
        /\ \A i \in 1 .. Len(b) : (a \o b)[Len(a) + i] = b[i]
    BY JoinedLists
  <2>2. QED
    BY <2>1
<1> DEFINE c == a \o b
<1> HIDE DEF c
<1>2. ASSUME NEW i \in 1 .. Len(a) PROVE a[i] \in ToSet(c)
  <2>1. i \in DOMAIN c /\ c[i] = a[i]
    BY <1>1 DEF c
  <2>2. QED
    BY <2>1 DEF ToSet
<1>3. ASSUME NEW i \in 1 .. Len(b) PROVE b[i] \in ToSet(c)
  <2>1. Len(a) + i \in DOMAIN c /\ c[Len(a) + i] = b[i]
    BY <1>1 DEF c
  <2>2. QED
    BY <2>1 DEF ToSet
<1>4. QED
  BY <1>1, <1>2, <1>3 DEF c, ToSet

(* What is flattened has the words of every text.                          *)
LEMMA FlattenHas ==
    ASSUME NEW T, NEW ss \in Seq(Seq(T)), NEW i \in DOMAIN ss
    PROVE  FlattenSeq(ss) \in Seq(T) /\ ToSet(ss[i]) \subseteq ToSet(FlattenSeq(ss))
<1> DEFINE n == Len(ss)
<1>1. n \in Nat /\ i \in 1 .. n /\ \A k \in 1 .. n : ss[k] \in Seq(T)
  OBVIOUS
<1>2. ss # <<>>
  OBVIOUS
<1>3. FlattenSeq(ss) \in Seq(T)
  BY FlattenJoins
<1>4. PICK f : Joins(f, ss) /\ FlattenSeq(ss) = f[Len(ss)]
  BY <1>2, FlattenJoins
<1>5. f \in [1 .. n -> Seq(T)]
  BY <1>4, JoinsTyped
<1>6. \A k \in 1 .. n : f[k] = IF k = 1 THEN ss[k] ELSE f[k - 1] \o ss[k]
  BY <1>4 DEF Joins
<1> HIDE DEF n
<1> DEFINE P == {m \in 1 .. n : i <= m /\ ~(ToSet(ss[i]) \subseteq ToSet(f[m]))}
<1>7. ASSUME P # {} PROVE FALSE
  <2>1. P \in SUBSET (1 .. n)
    OBVIOUS
  <2>2. PICK m \in P : \A k \in 1 .. m - 1 : k \notin P
    BY <1>1, <1>7, <2>1, LeastFailure
  <2>3. m \in 1 .. n /\ i <= m /\ ~(ToSet(ss[i]) \subseteq ToSet(f[m]))
    OBVIOUS
  <2>4. CASE m = 1
    <3>1. i = 1 /\ f[m] = ss[i]
      BY <1>1, <1>6, <2>3, <2>4
    <3>2. QED
      BY <2>3, <3>1
  <2>5. CASE m # 1
    <3>1. m - 1 \in 1 .. n /\ m - 1 \in 1 .. m - 1 /\ m \in Int
      BY <1>1, <2>3, <2>5
    <3>2. f[m] = f[m - 1] \o ss[m] /\ f[m - 1] \in Seq(T) /\ ss[m] \in Seq(T)
      BY <1>1, <1>5, <1>6, <2>3, <2>5, <3>1
    <3>3. ToSet(f[m - 1]) \subseteq ToSet(f[m]) /\ ToSet(ss[m]) \subseteq ToSet(f[m])
      BY <3>2, JoinedSet
    <3>4. i # m
      BY <2>3, <3>3
    <3>5. i <= m - 1 /\ m - 1 \notin P
      BY <1>1, <2>2, <2>3, <3>1, <3>4
    <3>6. ToSet(ss[i]) \subseteq ToSet(f[m - 1])
      BY <3>1, <3>5
    <3>7. QED
      BY <2>3, <3>3, <3>6
  <2>6. QED
    BY <2>4, <2>5
<1>8. n \in 1 .. n /\ i <= n
  BY <1>1
<1>9. ToSet(ss[i]) \subseteq ToSet(f[n])
  BY <1>7, <1>8
<1>10. QED
  BY <1>3, <1>4, <1>9 DEF n

(* Shares of a score.                                                      *)
LEMMA FractionOf ==
    ASSUME NEW whole, IsFiniteSet(whole), NEW part \in SUBSET whole, part # {}
    PROVE  /\ Fraction(whole, whole) = Scale
           /\ Cardinality(whole) <= Scale => Fraction(part, whole) > 0
<1>1. Scale \in Nat \ {0}
  BY EvaluationAssumption
<1>2. IsFiniteSet(part)
  BY FS_Subset
<1>3. PICK p \in Nat \ {0}, n \in Nat \ {0} : p = Cardinality(part) /\ n = Cardinality(whole)
  <2>1. Cardinality(part) \in Nat /\ Cardinality(part) > 0
    BY <1>2, Counted
  <2>2. whole # {}
    OBVIOUS
  <2>3. Cardinality(whole) \in Nat /\ Cardinality(whole) > 0
    BY <2>2, Counted
  <2>4. QED
    BY <2>1, <2>3
<1>4. \A a, b \in Nat \ {0} : (a * b) \div b = a
  <2> SUFFICES ASSUME NEW a \in Nat \ {0}, NEW b \in Nat \ {0} PROVE (a * b) \div b = a
    OBVIOUS
  <2>1. PICK u \in Nat : u = a * b
    OBVIOUS
  <2>2. PICK q \in Int : q = u \div b
    OBVIOUS
  <2>3. b * q <= u /\ u < b * q + b
    BY <2>2
  <2>4. ASSUME q < a PROVE FALSE
    <3>1. b * q + b <= b * a
      <4>1. q + 1 <= a
        BY <2>4
      <4>2. \A x, y \in Int : x <= y => b * x <= b * y
        OBVIOUS
      <4>3. b * (q + 1) <= b * a
        BY <4>1, <4>2
      <4>4. b * (q + 1) = b * q + b
        OBVIOUS
      <4>5. QED
        BY <4>3, <4>4
    <3>2. b * a = u /\ b * q \in Int
      BY <2>1
    <3>3. QED
      BY <2>3, <3>1, <3>2
  <2>5. ASSUME q > a PROVE FALSE
    <3>1. b * a + b <= b * q
      <4>1. a + 1 <= q
        BY <2>5
      <4>2. \A x, y \in Int : x <= y => b * x <= b * y
        OBVIOUS
      <4>3. b * (a + 1) <= b * q
        BY <4>1, <4>2
      <4>4. b * (a + 1) = b * a + b
        OBVIOUS
      <4>5. QED
        BY <4>3, <4>4
    <3>2. b * a = u /\ b * q \in Int
      BY <2>1
    <3>3. QED
      BY <2>3, <3>1, <3>2
  <2>6. QED
    BY <2>1, <2>2, <2>4, <2>5
<1>5. Fraction(whole, whole) = Scale
  BY <1>1, <1>3, <1>4 DEF Fraction
<1>6. ASSUME n <= Scale PROVE Fraction(part, whole) > 0
  <2>1. PICK u \in Nat : u = Scale * p
    BY <1>1
  <2>2. u >= n
    <3>1. \A x \in Nat, y \in Nat \ {0} : x * y >= x
      OBVIOUS
    <3>2. u >= Scale
      BY <1>1, <2>1, <3>1
    <3>3. QED
      BY <1>1, <1>6, <2>1, <3>2
  <2>3. u \div n > 0
    <3>1. PICK q \in Int : q = u \div n
      OBVIOUS
    <3>2. n * q <= u /\ u < n * q + n
      BY <3>1
    <3>3. ASSUME q <= 0 PROVE FALSE
      <4>1. n * q <= 0
        BY <3>3
      <4>2. n * q \in Int
        OBVIOUS
      <4>3. QED
        BY <2>2, <3>2, <4>1, <4>2
    <3>4. QED
      BY <3>1, <3>3
  <2>4. QED
    BY <1>3, <2>1, <2>3 DEF Fraction
<1>7. QED
  BY <1>3, <1>5, <1>6

(* A text is covered by another that has its words.                        *)
LEMMA CoverageOf ==
    ASSUME NEW reference \in Seq(Word), NEW produced,
           ContentTokens(reference) \subseteq ToSet(produced)
    PROVE  Coverage(reference, produced) = Scale
<1> DEFINE S == ContentTokens(reference)
<1>1. SharedWords(reference, produced) = S
  BY DEF SharedWords, ContentTokens
<1>2. IsFiniteSet(S)
  <2>1. IsFiniteSet(ToSet(reference)) /\ S \subseteq ToSet(reference)
    BY ListFinite DEF ContentTokens
  <2>2. QED
    BY <2>1, FS_Subset
<1>3. Coverage(reference, produced) = IF S = {} THEN Scale ELSE Fraction(S, S)
  BY <1>1 DEF Coverage
<1> HIDE DEF S
<1>4. ASSUME S # {} PROVE Fraction(S, S) = Scale
  BY <1>2, <1>4, FractionOf
<1>5. QED
  BY <1>3, <1>4

(* How the gate has to score an example over a corpus.                     *)
Judged(example, corpus, r) ==
    LET labelled == {c.bytes : c \in {x \in ToSet(corpus) : x.name \in example.relevant}}
        matching == {d \in {c.bytes : c \in ToSet(corpus)} : Matches(d, example.question)}
    IN  /\ r.faithfulness = Scale
        /\ (matching # {} /\ matching \subseteq labelled) =>
              /\ r.grounded /\ r.precision = Scale /\ r.recall > 0
              /\ Cardinality(labelled) = 1 => r.recall = Scale
        /\ (matching = {} /\ example.relevant = {} /\ example.truth = Message) =>
              /\ ~r.grounded
              /\ r.relevancy = Scale /\ r.precision = Scale /\ r.recall = Scale

(* What the adapters answer is supported by what it cites.                 *)
LEMMA FaithfulnessOf ==
    ASSUME NEW given,
           \/ given = Refusal \/ given = Chatter
           \/ /\ given.outcome = "answered" /\ ContentTokens(given.text) # {}
              /\ given.citations \in Seq(Chunk)
              /\ \E i \in DOMAIN given.citations : given.citations[i].text = given.text
    PROVE  Faithfulness(given) = Scale
<1>1. CASE given = Refusal \/ given = Chatter
  <2>1. given.outcome # "answered"
    BY <1>1 DEF Refusal, Chatter, Answer
  <2>2. QED
    BY <2>1 DEF Faithfulness
<1>2. CASE /\ given.outcome = "answered" /\ ContentTokens(given.text) # {}
           /\ given.citations \in Seq(Chunk)
           /\ \E i \in DOMAIN given.citations : given.citations[i].text = given.text
  <2> DEFINE texts == [i \in DOMAIN given.citations |-> given.citations[i].text]
  <2>1. PICK i \in DOMAIN given.citations : given.citations[i].text = given.text
    BY <1>2
  <2>2. \A k \in DOMAIN given.citations : given.citations[k].text \in Seq(Word)
    <3>1. \A k \in DOMAIN given.citations : given.citations[k] \in Chunk
      BY <1>2
    <3>2. QED
      BY <3>1 DEF Chunk
  <2>3. texts \in Seq(Seq(Word)) /\ i \in DOMAIN texts /\ texts[i] = given.text
    <3>1. DOMAIN given.citations = 1 .. Len(given.citations) /\ Len(given.citations) \in Nat
      BY <1>2
    <3>2. texts \in [1 .. Len(given.citations) -> Seq(Word)]
      BY <2>2, <3>1
    <3>3. texts \in Seq(Seq(Word))
      BY <3>1, <3>2
    <3>4. QED
      BY <2>1, <3>3
  <2>4. Quotes(given) = FlattenSeq(texts)
    BY DEF Quotes
  <2> HIDE DEF texts
  <2>5. Quotes(given) \in Seq(Word) /\ ToSet(given.text) \subseteq ToSet(Quotes(given))
    BY <2>3, <2>4, FlattenHas
  <2>6. given.text \in Seq(Word)
    BY <2>1, <2>2
  <2>7. ContentTokens(given.text) \subseteq ToSet(Quotes(given)) /\ Quotes(given) # <<>>
    <3>1. ContentTokens(given.text) \subseteq ToSet(Quotes(given))
      BY <2>5 DEF ContentTokens
    <3>2. ToSet(<<>>) = {}
      BY DEF ToSet
    <3>3. QED
      BY <1>2, <3>1, <3>2
  <2>8. Coverage(given.text, Quotes(given)) = Scale
    BY <2>6, <2>7, CoverageOf
  <2>9. QED
    BY <1>2, <2>7, <2>8 DEF Faithfulness
<1>3. QED
  BY <1>1, <1>2

(* An example is scored as it should be, over a shelf that has the corpus. *)
LEMMA JudgedOf ==
    ASSUME RetrieveK >= 2, NEW shelf, Shelf(shelf),
           NEW corpus \in Seq(Source), Cardinality(ToSet(corpus)) <= Scale,
           ToSet(shelf.documents) = {c.bytes : c \in ToSet(corpus)},
           NEW example \in Examples, example.question \notin SmallTalk
    PROVE  Judged(example, corpus,
                  Scored(example, Labels(example, corpus), Query(shelf, example.question)))
<1> DEFINE given == Query(shelf, example.question)
           labels == Labels(example, corpus)
           cited == CitedDocuments(given)
           matching == {d \in {c.bytes : c \in ToSet(corpus)} : Matches(d, example.question)}
           scores == ContextScores(cited, labels)
           r == Scored(example, labels, given)
<1>1. /\ (given.outcome = "answered") = (matching # {})
      /\ cited \subseteq matching
      /\ given.citations # <<>> =>
            \E i \in DOMAIN given.citations : given.citations[i].text = given.text
      /\ \/ given = Refusal
         \/ /\ given.outcome = "answered" /\ ContentTokens(given.text) # {}
            /\ given.citations \in Seq(Chunk) /\ given.citations # <<>>
  <2>1. example.question \in Seq(Word)
    BY DEF Examples
  <2>2. matching = {d \in ToSet(shelf.documents) : Matches(d, example.question)}
    OBVIOUS
  <2> HIDE DEF matching
  <2>3. QED
    BY <2>1, <2>2, QueryOf
<1>2. labels = {c.bytes : c \in {x \in ToSet(corpus) : x.name \in example.relevant}}
  BY DEF Labels
<1>3. /\ r.grounded = (given.outcome = "answered")
      /\ r.faithfulness = Faithfulness(given) /\ r.relevancy = Relevancy(example, given)
      /\ r.precision = scores.precision /\ r.recall = scores.recall
  BY DEF Scored
<1>4. IsFiniteSet(labels) /\ Cardinality(labels) <= Scale
  <2> DEFINE S == {x \in ToSet(corpus) : x.name \in example.relevant}
             f == [x \in S |-> x.bytes]
  <2>1. S \subseteq ToSet(corpus) /\ IsFiniteSet(ToSet(corpus))
    BY ListFinite
  <2>2. IsFiniteSet(S) /\ Cardinality(S) <= Cardinality(ToSet(corpus))
    <3> HIDE DEF S
    <3>1. QED
      BY <2>1, FS_Subset
  <2>3. f \in Surjection(S, labels)
    <3>1. f \in [S -> labels]
      BY <1>2
    <3>2. \A y \in labels : \E x \in S : f[x] = y
      BY <1>2
    <3> HIDE DEF f, S, labels
    <3>3. QED
      BY <3>1, <3>2, Fun_IsSurj
  <2> HIDE DEF S, f, labels
  <2>4. IsFiniteSet(labels) /\ Cardinality(labels) <= Cardinality(S)
    BY <2>2, <2>3, FS_Surjection
  <2>5. /\ Cardinality(labels) \in Nat /\ Cardinality(S) \in Nat
        /\ Cardinality(ToSet(corpus)) \in Nat /\ Scale \in Nat
    BY <2>1, <2>2, <2>4, Counted, EvaluationAssumption
  <2>6. QED
    BY <2>2, <2>4, <2>5
<1> HIDE DEF given, labels, cited, matching, r
<1>5. r.faithfulness = Scale
  <2>1. \/ given = Refusal \/ given = Chatter
        \/ /\ given.outcome = "answered" /\ ContentTokens(given.text) # {}
           /\ given.citations \in Seq(Chunk)
           /\ \E i \in DOMAIN given.citations : given.citations[i].text = given.text
    BY <1>1
  <2>2. QED
    BY <1>3, <2>1, FaithfulnessOf
<1>6. ASSUME matching # {}, matching \subseteq labels
      PROVE  /\ r.grounded /\ r.precision = Scale /\ r.recall > 0
             /\ Cardinality(labels) = 1 => r.recall = Scale
  <2>1. given.outcome = "answered"
    BY <1>1, <1>6
  <2>2. given # Refusal
    BY <2>1 DEF Refusal, Answer
  <2>3. cited # {}
    <3>1. \E i \in DOMAIN given.citations : TRUE
      BY <1>1, <2>2
    <3>2. QED
      BY <3>1 DEF cited, CitedDocuments
  <2>4. labels # {} /\ cited \subseteq labels /\ cited \cap labels = cited
    BY <1>1, <1>6
  <2>5. scores = [precision |-> Fraction(cited, cited), recall |-> Fraction(cited, labels)]
    BY <2>3, <2>4 DEF ContextScores
  <2>6. IsFiniteSet(cited)
    BY <1>4, <2>4, FS_Subset
  <2>7. Fraction(cited, cited) = Scale
    BY <2>3, <2>6, FractionOf
  <2>8. Fraction(cited, labels) > 0 /\ Fraction(labels, labels) = Scale
    BY <1>4, <2>3, <2>4, FractionOf
  <2>9. ASSUME Cardinality(labels) = 1 PROVE cited = labels
    <3>1. PICK d : labels = {d}
      <4>1. \E d : labels = {d}
        BY <1>4, <2>9, FS_Singleton
      <4>2. QED
        BY <4>1
    <3>2. QED
      BY <2>3, <2>4, <3>1
  <2> HIDE DEF scores
  <2>10. r.precision = Scale /\ r.recall = Fraction(cited, labels)
    BY <1>3, <2>5, <2>7
  <2>11. QED
    BY <1>3, <2>1, <2>8, <2>9, <2>10
<1>7. ASSUME matching = {}, example.relevant = {}, example.truth = Message
      PROVE  /\ ~r.grounded
             /\ r.relevancy = Scale /\ r.precision = Scale /\ r.recall = Scale
  <2>1. given.outcome # "answered" /\ given = Refusal
    BY <1>1, <1>7
  <2>2. given.text = Message
    BY <2>1 DEF Refusal, Answer
  <2>3. Message \in Seq(Word) /\ Message # <<>>
    BY FakesAssumption
  <2>4. Relevancy(example, given) = Coverage(Message, Message)
    BY <1>7, <2>2, <2>3 DEF Relevancy
  <2>5. Coverage(Message, Message) = Scale
    <3>1. ContentTokens(Message) \subseteq ToSet(Message)
      BY DEF ContentTokens
    <3>2. QED
      BY <2>3, <3>1, CoverageOf
  <2>6. labels = {}
    BY <1>2, <1>7
  <2>7. scores.precision = Scale /\ scores.recall = Scale
    BY <2>6 DEF ContextScores
  <2>8. QED
    BY <1>3, <2>1, <2>4, <2>5, <2>7
<1>8. QED
  BY <1>2, <1>5, <1>6, <1>7 DEF Judged, r, given, labels, matching
-----------------------------------------------------------------------------
Place == {"idle", "load", "ingest", "write", "read", "golden", "score",
          "done", "failed", "answered", "passed"}

(* A kit has a shelf for every namespace.                                  *)
Kit(k) == DOMAIN k = Namespace /\ \A n \in Namespace : Shelf(k[n])

Contextualizers == {"none", "fake", "heading-window"}

TypeInv ==
    /\ raced \in BOOLEAN
    /\ pc \in [Shell -> Place]
    /\ DOMAIN args = Shell /\ DOMAIN kit = Shell /\ DOMAIN queue = Shell
    /\ DOMAIN answer = Shell /\ DOMAIN results = Shell
    /\ commands \in 0 .. MaxCommands
    /\ store.file \in {"absent", "empty", "garbled", "whole"}
    /\ saved \subseteq Namespace \X Bytes
    /\ Kit(store.kit)
    /\ \A s \in Shell :
          /\ Kit(kit[s])
          /\ pc[s] \in {"ingest", "golden"} => queue[s] \in Seq(Source)
          /\ pc[s] \in Place \ {"idle", "failed", "passed", "done"} => args[s].ns \in Namespace
          /\ pc[s] \in {"load", "ingest", "write"} => args[s].target \in Seq(Source)
          /\ pc[s] \in {"load", "ingest"} => args[s].contextualizer \in Contextualizers
          /\ pc[s] \in {"read", "answered"} => args[s].question \in Seq(Word)
          /\ pc[s] \in {"golden", "score"} => args[s].golden \in Goldens

(* The documents a kit has in a namespace.                                 *)
Documents(k, n) == ToSet(k[n].documents)

(* One process at a time is between its load and the end of its save.      *)
OneSaver == \A s, o \in Shell : Saving(s) /\ Saving(o) => s = o

(* The file is empty while one writes it, and only then.                   *)
EmptyWhileWritten ==
    /\ store.file # "garbled"
    /\ store.file = "empty" <=> \E s \in Shell : pc[s] = "write"

(* A process that ingests has loaded all that was saved.                   *)
Loaded ==
    \A s \in Shell : pc[s] = "ingest" => \A d \in saved : d[2] \in Documents(kit[s], d[1])

(* Of its sources, it has in its kit those that it has taken.              *)
Taken ==
    \A s \in Shell : Saving(s) =>
        \A i \in DOMAIN args[s].target :
            \/ args[s].target[i].bytes \in Documents(kit[s], args[s].ns)
            \/ pc[s] = "ingest" /\ \E j \in DOMAIN queue[s] : queue[s][j] = args[s].target[i]

Lasting ==
    \A d \in saved :
        \/ store.file = "whole" /\ d[2] \in Documents(store.kit, d[1])
        \/ \E s \in Shell : pc[s] = "write" /\ d[2] \in Documents(kit[s], d[1])

Safe == OneSaver /\ EmptyWhileWritten /\ Loaded /\ Taken /\ Lasting

SaveInv == ~raced => Safe
(* Taking a source adds its document in one namespace of one kit.          *)
LEMMA SourceTaken ==
    ASSUME TypeInv, NEW s \in Shell, NEW c \in Contextualizers, pc[s] \in {"ingest", "golden"},
           TakeSource(s, args[s].ns, c)
    PROVE  /\ DOMAIN kit' = Shell /\ DOMAIN queue' = Shell
           /\ \A o \in Shell \ {s} : kit'[o] = kit[o] /\ queue'[o] = queue[o]
           /\ Kit(kit'[s]) /\ queue'[s] \in Seq(Source)
           /\ queue[s] # <<>> /\ queue'[s] = Tail(queue[s])
           /\ Documents(kit'[s], args[s].ns)
                 = Documents(kit[s], args[s].ns) \cup {Head(queue[s]).bytes}
           /\ \A n \in Namespace, d \in Bytes :
                 d \in Documents(kit[s], n) => d \in Documents(kit'[s], n)
           /\ \E source \in Source :
                 /\ source.bytes \in Documents(kit'[s], args[s].ns)
                 /\ \A j \in DOMAIN queue[s] : queue[s][j] = source
                       \/ \E k \in DOMAIN queue'[s] : queue'[s][k] = queue[s][j]
<1> DEFINE n == args[s].ns
           source == Head(queue[s])
           shelf == kit[s][n]
           after == Ingested(shelf, c, source)
<1>1. n \in Namespace /\ Kit(kit[s]) /\ queue[s] \in Seq(Source) /\ queue[s] # <<>>
  BY DEF TypeInv, TakeSource
<1>2. source \in Source /\ Tail(queue[s]) \in Seq(Source)
  BY <1>1
<1>3. /\ Shelf(after)
      /\ ToSet(after.documents) = ToSet(shelf.documents) \cup {source.bytes}
  <2>1. Shelf(shelf) /\ c \in {"none", "fake", "heading-window"}
    BY <1>1 DEF Kit, Contextualizers
  <2> HIDE DEF shelf, source
  <2>2. QED
    BY <1>2, <2>1, IngestedShelf
<1>4. kit' = [kit EXCEPT ![s] = [kit[s] EXCEPT ![n] = after]]
  BY DEF TakeSource
<1>5. queue' = [queue EXCEPT ![s] = Tail(queue[s])]
  BY DEF TakeSource
<1> HIDE DEF after
<1>6. kit'[s] = [kit[s] EXCEPT ![n] = after] /\ DOMAIN kit' = Shell
  BY <1>4 DEF TypeInv
<1>7. \A m \in Namespace : kit'[s][m] = IF m = n THEN after ELSE kit[s][m]
  BY <1>1, <1>6 DEF Kit
<1>8. Kit(kit'[s])
  BY <1>1, <1>3, <1>6, <1>7 DEF Kit
<1>9. \A m \in Namespace, d \in Bytes :
         d \in Documents(kit[s], m) => d \in Documents(kit'[s], m)
  BY <1>3, <1>7 DEF Documents
<1>10. Documents(kit'[s], n) = Documents(kit[s], n) \cup {source.bytes}
  BY <1>1, <1>3, <1>7 DEF Documents
<1>11. \A j \in DOMAIN queue[s] : queue[s][j] = source
          \/ \E k \in DOMAIN Tail(queue[s]) : Tail(queue[s])[k] = queue[s][j]
  <2> SUFFICES ASSUME NEW j \in DOMAIN queue[s], j # 1
               PROVE  \E k \in DOMAIN Tail(queue[s]) : Tail(queue[s])[k] = queue[s][j]
    BY <1>1
  <2>1. j - 1 \in DOMAIN Tail(queue[s]) /\ Tail(queue[s])[j - 1] = queue[s][j]
    BY <1>1
  <2> QED BY <2>1
<1>12. DOMAIN queue' = Shell /\ queue'[s] = Tail(queue[s])
       /\ \A o \in Shell \ {s} : kit'[o] = kit[o] /\ queue'[o] = queue[o]
  BY <1>4, <1>5 DEF TypeInv
<1>13. source.bytes \in Documents(kit'[s], n)
  BY <1>10
<1>14. /\ queue[s] # <<>> /\ queue'[s] = Tail(queue[s])
       /\ Documents(kit'[s], n) = Documents(kit[s], n) \cup {Head(queue[s]).bytes}
  BY <1>1, <1>10, <1>12
<1> HIDE DEF source, n
<1> QED BY <1>2, <1>6, <1>8, <1>9, <1>11, <1>12, <1>13, <1>14, SMTT(20) DEF n

-----------------------------------------------------------------------------
(* The kit of a new process.                                               *)
LEMMA EmptyIsKit == Kit(EmptyKit) /\ \A n \in Namespace : Documents(EmptyKit, n) = {}
<1>1. /\ EmptyShelf.documents = <<>> /\ EmptyShelf.vector = <<>>
      /\ EmptyShelf.lexical = <<>>
  BY DEF EmptyShelf
<1>2. DOMAIN EmptyKit = Namespace /\ \A n \in Namespace : EmptyKit[n] = EmptyShelf
  BY DEF EmptyKit
<1>3. <<>> \in Seq(Bytes) /\ <<>> \in Seq(Chunk) /\ ToSet(<<>>) = {} /\ DOMAIN <<>> = {}
  BY DEF ToSet
<1>4. Numbered(<<>>) /\ Worded(<<>>, {}) /\ IsInjective(<<>>)
  BY <1>3 DEF Numbered, Worded, IsInjective
<1>5. Shelf(EmptyShelf)
  BY <1>1, <1>3, <1>4 DEF Shelf
<1>6. Kit(EmptyKit)
  BY ONLY <1>2, <1>5 DEF Kit
<1>7. \A n \in Namespace : Documents(EmptyKit, n) = {}
  BY ONLY <1>1, <1>2, <1>3 DEF Documents
<1>8. QED
  BY ONLY <1>6, <1>7

(* The type invariant is inductive.                                        *)
LEMMA TypeInit == Init => TypeInv
<1> SUFFICES ASSUME Init PROVE TypeInv
  OBVIOUS
<1>1. Kit(EmptyKit)
  BY EmptyIsKit
<1>2. pc \in [Shell -> Place] /\ \A s \in Shell : pc[s] = "idle"
  BY DEF Init, Place
<1>3. /\ DOMAIN args = Shell /\ DOMAIN kit = Shell /\ DOMAIN queue = Shell
      /\ DOMAIN answer = Shell /\ DOMAIN results = Shell
      /\ \A s \in Shell : kit[s] = EmptyKit
  BY DEF Init
<1>4. /\ store.kit = EmptyKit /\ store.file = "absent" /\ saved = {} /\ raced = FALSE
      /\ commands \in 0 .. MaxCommands
  BY CommandLineAssumption DEF Init
<1> QED BY <1>1, <1>2, <1>3, <1>4 DEF TypeInv

LEMMA TypeStep == TypeInv /\ [Next]_vars => TypeInv'
<1> SUFFICES ASSUME TypeInv, [Next]_vars PROVE TypeInv'
  OBVIOUS
<1> USE DEF Place
<1>0. ASSUME NEW s \in Shell, NEW to, NEW a, Launch(s, to, a)
      PROVE  commands' \in 0 .. MaxCommands
  BY <1>0, CommandLineAssumption DEF Launch, TypeInv
<1>1. ASSUME NEW s \in Shell, StartIngest(s) PROVE TypeInv'
  <2>1. PICK n \in Namespace, t \in Targets, c \in Contextualizer :
           Launch(s, "load", [NoArgs EXCEPT !.ns = n, !.target = t, !.contextualizer = c])
    BY <1>1 DEF StartIngest
  <2>2. pc' = [pc EXCEPT ![s] = "load"] /\ DOMAIN args' = Shell
        /\ args'[s].ns = n /\ args'[s].target = t /\ args'[s].contextualizer = c
        /\ \A o \in Shell \ {s} : args'[o] = args[o]
    BY <2>1 DEF Launch, Go, NoArgs, TypeInv
  <2>3. t \in Seq(Source) /\ c \in Contextualizers
    BY CommandLineAssumption DEF Contextualizers
  <2>4. commands' \in 0 .. MaxCommands
    BY <1>0, <2>1
  <2> QED BY <1>1, <2>2, <2>3, <2>4 DEF StartIngest, TypeInv, Kit
<1>2. ASSUME NEW s \in Shell, StartNowhere(s) \/ QueryNothing(s) PROVE TypeInv'
  <2>1. /\ Launch(s, "failed", NoArgs)
        /\ UNCHANGED <<store, kit, queue, answer, results, saved, raced>>
    BY <1>2 DEF StartNowhere, QueryNothing
  <2>2. commands' \in 0 .. MaxCommands
    BY <1>0, <2>1
  <2>3. /\ pc' \in [Shell -> Place] /\ pc'[s] = "failed" /\ DOMAIN args' = Shell
        /\ \A o \in Shell \ {s} : pc'[o] = pc[o] /\ args'[o] = args[o]
    BY <2>1 DEF Launch, Go, TypeInv
  <2> QED BY <2>1, <2>2, <2>3 DEF TypeInv, Kit
<1>3. ASSUME NEW s \in Shell, LoadForIngest(s) PROVE TypeInv'
  <2>1. Kit(store.kit) /\ kit' = [kit EXCEPT ![s] = store.kit]
    BY <1>3 DEF LoadForIngest, LoadKit, TypeInv
  <2>2. pc' \in [Shell -> Place] /\ \A o \in Shell \ {s} : pc'[o] = pc[o]
    BY <1>3 DEF LoadForIngest, Go, TypeInv
  <2>3. queue' = [queue EXCEPT ![s] = args[s].target] /\ args[s].target \in Seq(Source)
    BY <1>3 DEF LoadForIngest, TypeInv
  <2>4. /\ pc'[s] \in {"failed", "ingest"} /\ raced' \in BOOLEAN
        /\ args[s].ns \in Namespace /\ args[s].contextualizer \in Contextualizers
    BY <1>3 DEF LoadForIngest, Go, TypeInv
  <2>5. UNCHANGED <<store, args, answer, results, commands, saved>>
    BY <1>3 DEF LoadForIngest
  <2> QED BY <2>1, <2>2, <2>3, <2>4, <2>5 DEF TypeInv, Kit
<1>4. ASSUME NEW s \in Shell, LoadFails(s) \/ IngestFails(s) \/ Gate(s) PROVE TypeInv'
  <2>1. /\ pc' \in [Shell -> Place] /\ pc'[s] \in {"failed", "passed"}
        /\ \A o \in Shell \ {s} : pc'[o] = pc[o]
        /\ UNCHANGED <<store, args, kit, queue, answer, results, commands, saved, raced>>
    BY <1>4 DEF LoadFails, IngestFails, Gate, Go, TypeInv
  <2> QED BY <2>1 DEF TypeInv, Kit
<1>5. ASSUME NEW s \in Shell, IngestNext(s) \/ IngestGolden(s) PROVE TypeInv'
  <2>1. /\ pc[s] \in {"ingest", "golden"}
        /\ \E c \in Contextualizers : TakeSource(s, args[s].ns, c)
        /\ UNCHANGED <<store, pc, args, answer, results, commands, saved, raced>>
    BY <1>5 DEF IngestNext, IngestGolden, Contextualizers, TypeInv
  <2>2. /\ DOMAIN kit' = Shell /\ DOMAIN queue' = Shell
        /\ \A o \in Shell \ {s} : kit'[o] = kit[o] /\ queue'[o] = queue[o]
        /\ Kit(kit'[s]) /\ queue'[s] \in Seq(Source)
    BY <2>1, SourceTaken
  <2> QED BY <2>1, <2>2 DEF TypeInv, Kit
<1>6. ASSUME NEW s \in Shell, Truncate(s) PROVE TypeInv'
  <2>1. Kit(EmptyKit)
    BY EmptyIsKit
  <2>2. store'.file = "empty" /\ store'.kit = EmptyKit
    BY <1>6 DEF Truncate
  <2>3. /\ pc[s] = "ingest" /\ pc' \in [Shell -> Place] /\ pc'[s] = "write"
        /\ \A o \in Shell \ {s} : pc'[o] = pc[o]
        /\ UNCHANGED <<args, kit, queue, answer, results, commands, saved, raced>>
    BY <1>6 DEF Truncate, Go, TypeInv
  <2> HIDE DEF EmptyKit
  <2> QED BY <2>1, <2>2, <2>3 DEF TypeInv, Kit
<1>7. ASSUME NEW s \in Shell, Write(s) PROVE TypeInv'
  <2>1. Kit(store'.kit) /\ store'.file \in {"whole", "garbled"}
    <3>1. Kit(EmptyKit)
      BY EmptyIsKit
    <3>2. Kit(kit[s])
      BY DEF TypeInv
    <3>3. \/ store' = [file |-> "whole", kit |-> kit[s]]
          \/ store' = [file |-> "garbled", kit |-> EmptyKit]
      BY <1>7 DEF Write
    <3>4. \/ store'.file = "whole" /\ store'.kit = kit[s]
          \/ store'.file = "garbled" /\ store'.kit = EmptyKit
      BY <3>3
    <3> QED BY <3>1, <3>2, <3>4
  <2>2. /\ args[s].ns \in Namespace
        /\ \A i \in DOMAIN args[s].target : args[s].target[i].bytes \in Bytes
    <3>1. args[s].ns \in Namespace /\ args[s].target \in Seq(Source)
      BY <1>7 DEF Write, TypeInv
    <3> QED BY <3>1, CommandLineAssumption DEF Bytes
  <2>3. saved' \subseteq Namespace \X Bytes
    BY <1>7, <2>2 DEF Write, TypeInv
  <2>4. /\ pc' \in [Shell -> Place] /\ pc'[s] = "done"
        /\ \A o \in Shell \ {s} : pc'[o] = pc[o]
        /\ UNCHANGED <<args, kit, queue, answer, results, commands, raced>>
    BY <1>7 DEF Write, Go, TypeInv
  <2> QED BY <2>1, <2>3, <2>4 DEF TypeInv, Kit
<1>8. ASSUME NEW s \in Shell, StartQuery(s) PROVE TypeInv'
  <2>1. PICK n \in Namespace, q \in Questions :
           Launch(s, "read", [NoArgs EXCEPT !.ns = n, !.question = q])
    BY <1>8 DEF StartQuery
  <2>2. /\ pc' \in [Shell -> Place] /\ pc'[s] = "read" /\ DOMAIN args' = Shell
        /\ args'[s].ns = n /\ args'[s].question = q
        /\ \A o \in Shell \ {s} : pc'[o] = pc[o] /\ args'[o] = args[o]
    BY <2>1 DEF Launch, Go, NoArgs, TypeInv
  <2>3. q \in Seq(Word) /\ commands' \in 0 .. MaxCommands
    BY <1>0, <2>1, CommandLineAssumption
  <2>4. UNCHANGED <<store, kit, queue, answer, results, saved, raced>>
    BY <1>8 DEF StartQuery
  <2> QED BY <2>2, <2>3, <2>4 DEF TypeInv, Kit
<1>9. ASSUME NEW s \in Shell, AnswerQuery(s) PROVE TypeInv'
  <2>1. /\ kit' = [kit EXCEPT ![s] = store.kit] /\ pc[s] = "read"
        /\ pc' \in [Shell -> Place] /\ pc'[s] = "answered"
        /\ \A o \in Shell \ {s} : pc'[o] = pc[o]
        /\ DOMAIN answer' = Shell
        /\ UNCHANGED <<store, args, queue, results, commands, saved, raced>>
    BY <1>9 DEF AnswerQuery, LoadKit, Go, TypeInv
  <2> QED BY <2>1 DEF TypeInv, Kit
<1>10. ASSUME NEW s \in Shell, StartEval(s) PROVE TypeInv'
  <2>1. PICK g \in Goldens :
          /\ Launch(s, "golden", [NoArgs EXCEPT !.ns = GoldenNamespace, !.golden = g])
          /\ queue' = [queue EXCEPT ![s] = g.corpus]
    BY <1>10 DEF StartEval
  <2>2. /\ GoldenNamespace \in Namespace /\ g.corpus \in Seq(Source)
        /\ commands' \in 0 .. MaxCommands
    BY <1>0, <2>1, CommandLineAssumption DEF GoldenNamespace
  <2>3. pc' = [pc EXCEPT ![s] = "golden"] /\ DOMAIN args' = Shell
        /\ args'[s].ns = GoldenNamespace /\ args'[s].golden = g
        /\ \A o \in Shell \ {s} : args'[o] = args[o]
    BY <2>1 DEF Launch, Go, NoArgs, TypeInv
  <2>4. UNCHANGED <<store, kit, answer, results, saved, raced>>
    BY <1>10 DEF StartEval
  <2>5. pc' \in [Shell -> Place] /\ pc'[s] = "golden" /\ \A o \in Shell \ {s} : pc'[o] = pc[o]
    BY <2>3 DEF TypeInv
  <2>6. DOMAIN queue' = Shell /\ queue'[s] \in Seq(Source)
        /\ \A o \in Shell \ {s} : queue'[o] = queue[o]
    BY <2>1, <2>2 DEF TypeInv
  <2> QED BY <2>2, <2>3, <2>4, <2>5, <2>6 DEF TypeInv, Kit
<1>11. ASSUME NEW s \in Shell, EndGolden(s) \/ ScoreExample(s) PROVE TypeInv'
  <2>1. /\ UNCHANGED <<store, args, kit, answer, commands, saved, raced>>
        /\ DOMAIN queue' = Shell /\ DOMAIN results' = Shell
        /\ \A o \in Shell \ {s} : queue'[o] = queue[o]
        /\ pc' = [pc EXCEPT ![s] = "score"] /\ pc[s] \in {"golden", "score"}
    BY <1>11 DEF EndGolden, ScoreExample, Go, TypeInv
  <2> QED BY <2>1 DEF TypeInv, Kit
<1>12. ASSUME NEW s \in Shell, Exit(s) \/ Kill(s) PROVE TypeInv'
  <2>1. Kit(EmptyKit)
    BY EmptyIsKit
  <2>2. Reset(s) /\ raced' \in BOOLEAN
    BY <1>12 DEF Exit, Kill, TypeInv
  <2>3. /\ pc' \in [Shell -> Place] /\ pc'[s] = "idle" /\ kit' = [kit EXCEPT ![s] = EmptyKit]
        /\ DOMAIN args' = Shell /\ DOMAIN queue' = Shell
        /\ DOMAIN answer' = Shell /\ DOMAIN results' = Shell
        /\ \A o \in Shell \ {s} : pc'[o] = pc[o] /\ args'[o] = args[o] /\ queue'[o] = queue[o]
        /\ UNCHANGED <<store, commands, saved>>
    BY <2>2 DEF Reset, Go, TypeInv
  <2> HIDE DEF EmptyKit
  <2> QED BY <2>1, <2>2, <2>3 DEF TypeInv, Kit
<1>13. CASE UNCHANGED vars
  BY <1>13 DEF vars, process, TypeInv, Kit
<1> QED
  BY <1>1, <1>2, <1>3, <1>4, <1>5, <1>6, <1>7, <1>8, <1>9, <1>10, <1>11, <1>12, <1>13
     DEF Next, Finished

(* What the invariant says of a shelf is what the property asks of it.     *)
LEMMA ShelfIsOK == \A shelf : Shelf(shelf) => ShelfOK(shelf)
<1> SUFFICES ASSUME NEW shelf, Shelf(shelf) PROVE ShelfOK(shelf)
  OBVIOUS
<1> DEFINE records == shelf.lexical
           ids == [i \in DOMAIN records |-> ChunkId(records[i])]
<1>1. /\ shelf.vector = records /\ records \in Seq(Chunk) /\ IsInjective(shelf.documents)
      /\ Numbered(records) /\ Worded(records, ToSet(shelf.documents))
  BY DEF Shelf
<1> HIDE DEF records
<1>2. \A i \in DOMAIN records : ids[i] = <<records[i].document, records[i].ordinal>>
  BY DEF ChunkId
<1>3. DOMAIN ids = DOMAIN records /\ DOMAIN records = 1 .. Len(records) /\ Len(records) \in Nat
  BY <1>1
<1> HIDE DEF ids
<1>4. IsInjective(ids)
  BY <1>1, <1>2, <1>3 DEF IsInjective, Numbered, SameId
<1>5. ASSUME NEW i \in DOMAIN ids
      PROVE  /\ records[i].document \in ToSet(shelf.documents)
             /\ records[i].ordinal > 0 =>
                   /\ i > 1 /\ ids[i - 1] = <<ids[i][1], ids[i][2] - 1>>
                   /\ records[i - 1].page <= records[i].page
  <2>1. i \in DOMAIN records /\ records[i].document \in ToSet(shelf.documents)
    BY <1>1, <1>3 DEF Worded
  <2>2. ASSUME records[i].ordinal > 0
        PROVE  /\ i > 1 /\ ids[i - 1] = <<ids[i][1], ids[i][2] - 1>>
               /\ records[i - 1].page <= records[i].page
    <3>1. /\ i > 1 /\ records[i - 1].document = records[i].document
          /\ records[i - 1].ordinal = records[i].ordinal - 1
          /\ records[i - 1].page <= records[i].page
      BY <1>1, <2>1, <2>2 DEF Numbered
    <3>2. i - 1 \in DOMAIN records
      BY <1>3, <2>1, <3>1
    <3>3. QED
      BY <1>2, <2>1, <3>1, <3>2
  <2>3. QED
    BY <2>1, <2>2
<1>6. QED
  BY <1>1, <1>4, <1>5 DEF ShelfOK, ids, records

(* TypeOK: every kit, in a process or on disk, is one the stores can       *)
(* serve, whatever processes read, wrote, raced or were killed.            *)
THEOREM CommandsTyped == Spec => []TypeOK
<1>1. Init => TypeInv
  BY TypeInit
<1>2. TypeInv /\ [Next]_vars => TypeInv'
  BY TypeStep
<1>3. TypeInv => TypeOK
  BY ShelfIsOK DEF TypeInv, TypeOK, Kit, Place
<1> QED BY <1>1, <1>2, <1>3, PTL DEF Spec
-----------------------------------------------------------------------------
(* A process that neither saves nor wrote goes on: nothing is lost.        *)
LEMMA BystanderKeeps ==
    ASSUME TypeInv, Safe, NEW s \in Shell,
           pc[s] # "write", ~Saving(s)',
           \A o \in Shell \ {s} :
              pc'[o] = pc[o] /\ args'[o] = args[o] /\ kit'[o] = kit[o] /\ queue'[o] = queue[o],
           UNCHANGED <<store, saved>>
    PROVE  Safe'
<1>1. pc'[s] \notin {"ingest", "write"} /\ \A o \in Shell : Saving(o)' => o # s /\ Saving(o)
  BY DEF Saving
<1>2. OneSaver'
  BY <1>1 DEF Safe, OneSaver
<1>3. EmptyWhileWritten'
  BY <1>1 DEF Safe, EmptyWhileWritten
<1>4. Loaded'
  BY <1>1 DEF Safe, Loaded, Documents
<1>5. Taken'
  <2>1. ASSUME NEW o \in Shell, Saving(o)'
        PROVE  /\ Saving(o) /\ pc'[o] = pc[o] /\ args'[o] = args[o]
               /\ kit'[o] = kit[o] /\ queue'[o] = queue[o]
    BY <1>1, <2>1
  <2> QED BY <2>1 DEF Safe, Taken, Documents
<1>6. Lasting'
  BY <1>1 DEF Safe, Lasting, Documents
<1> QED BY <1>2, <1>3, <1>4, <1>5, <1>6 DEF Safe

(* Safe lasts until saves overlap or one is cut short.                     *)
LEMMA SaveStep == TypeInv /\ SaveInv /\ [Next]_vars => SaveInv'
<1> SUFFICES ASSUME TypeInv, SaveInv, [Next]_vars, ~raced' PROVE Safe'
  BY DEF SaveInv
<1>1. ~raced
  BY DEF Next, vars, Finished, StartIngest, StartNowhere, LoadForIngest, LoadFails,
         IngestNext, IngestFails, Truncate, Write, StartQuery, QueryNothing, AnswerQuery,
         StartEval, IngestGolden, EndGolden, ScoreExample, Gate, Exit, Kill
<1>2. Safe
  BY <1>1 DEF SaveInv
<1>3. ASSUME NEW s \in Shell,
             \/ StartIngest(s) \/ StartNowhere(s) \/ QueryNothing(s) \/ StartQuery(s)
             \/ StartEval(s)
      PROVE  Safe'
  <2>1. /\ pc[s] = "idle" /\ UNCHANGED <<store, kit, saved>>
        /\ \E to \in {"load", "failed", "read", "golden"} : \E a : Launch(s, to, a)
        /\ \A o \in Shell \ {s} : queue'[o] = queue[o]
    BY <1>3 DEF StartIngest, StartNowhere, QueryNothing, StartQuery, StartEval, Launch, TypeInv
  <2>2. /\ pc'[s] \in {"load", "failed", "read", "golden"}
        /\ \A o \in Shell \ {s} : pc'[o] = pc[o] /\ args'[o] = args[o]
    BY <2>1 DEF Launch, Go, TypeInv
  <2> QED BY <1>2, <2>1, <2>2, BystanderKeeps DEF Saving
<1>4. ASSUME NEW s \in Shell,
             \/ LoadFails(s) \/ IngestFails(s) \/ Gate(s) \/ AnswerQuery(s)
             \/ EndGolden(s) \/ ScoreExample(s)
      PROVE  Safe'
  <2>1. /\ pc[s] # "write" /\ UNCHANGED <<store, args, saved>>
        /\ \E to \in {"failed", "passed", "answered", "score"} : pc' = [pc EXCEPT ![s] = to]
        /\ \A o \in Shell \ {s} : kit'[o] = kit[o] /\ queue'[o] = queue[o]
    BY <1>4 DEF LoadFails, IngestFails, Gate, AnswerQuery, EndGolden, ScoreExample, Go, TypeInv
  <2> QED BY <1>2, <2>1, BystanderKeeps DEF Saving, TypeInv
<1>5. ASSUME NEW s \in Shell, Exit(s) \/ Kill(s) PROVE Safe'
  <2>1. pc[s] # "write" /\ Reset(s)
    BY <1>5 DEF Exit, Kill, Ended, TypeInv
  <2> QED BY <1>2, <2>1, BystanderKeeps DEF Reset, Go, Saving, TypeInv
<1>6. ASSUME NEW s \in Shell, IngestGolden(s) PROVE Safe'
  <2>1. /\ pc[s] = "golden" /\ TakeSource(s, args[s].ns, "fake")
        /\ UNCHANGED <<store, pc, args, saved>>
    BY <1>6 DEF IngestGolden
  <2>2. \A o \in Shell \ {s} : kit'[o] = kit[o] /\ queue'[o] = queue[o]
    <3>1. "fake" \in Contextualizers
      BY DEF Contextualizers
    <3> QED BY <2>1, <3>1, SourceTaken
  <2> QED BY <1>2, <2>1, <2>2, BystanderKeeps DEF Saving
<1>7. ASSUME NEW s \in Shell, LoadForIngest(s) PROVE Safe'
  <2>1. /\ pc[s] = "load" /\ Readable
        /\ UNCHANGED <<store, args, saved>>
        /\ kit'[s] = store.kit /\ queue'[s] = args[s].target
        /\ \A o \in Shell \ {s} : kit'[o] = kit[o] /\ queue'[o] = queue[o] /\ pc'[o] = pc[o]
        /\ pc'[s] \in {"failed", "ingest"}
        /\ \A o \in Shell \ {s} : ~Saving(o)
    BY <1>7 DEF LoadForIngest, LoadKit, Go, TypeInv
  <2>2. \A o \in Shell : pc[o] # "write" /\ (o # s => ~Saving(o)')
    BY <2>1 DEF Saving
  <2>3. OneSaver'
    BY <2>2 DEF OneSaver
  <2>4. EmptyWhileWritten' /\ Lasting'
    <3>1. \A o \in Shell : pc'[o] # "write"
      BY <2>1, <2>2
    <3> QED BY <1>2, <2>1, <2>2, <3>1 DEF Safe, EmptyWhileWritten, Lasting, Documents
  <2>5. Loaded'
    BY <1>2, <2>1, <2>2 DEF Safe, Loaded, Lasting, Documents, Readable, Saving
  <2>6. Taken'
    BY <2>1, <2>2 DEF Taken, Saving
  <2> QED BY <2>3, <2>4, <2>5, <2>6 DEF Safe
<1>8. ASSUME NEW s \in Shell, IngestNext(s) PROVE Safe'
  <2>1. /\ pc[s] = "ingest" /\ queue[s] # <<>> /\ queue[s] \in Seq(Source)
        /\ args[s].ns \in Namespace
        /\ \E c \in Contextualizers : TakeSource(s, args[s].ns, c)
        /\ UNCHANGED <<store, pc, args, saved>>
    BY <1>8 DEF IngestNext, TypeInv, Place
  <2>2. PICK c \in Contextualizers : TakeSource(s, args[s].ns, c)
    BY <2>1
  <2>3. /\ \A o \in Shell \ {s} : kit'[o] = kit[o] /\ queue'[o] = queue[o]
        /\ \A n \in Namespace, d \in Bytes :
              d \in Documents(kit[s], n) => d \in Documents(kit'[s], n)
    BY <2>1, <2>2, SourceTaken
  <2>4. PICK source \in Source :
            /\ source.bytes \in Documents(kit'[s], args[s].ns)
            /\ \A j \in DOMAIN queue[s] : queue[s][j] = source
                  \/ \E k \in DOMAIN queue'[s] : queue'[s][k] = queue[s][j]
    BY <2>1, <2>2, SourceTaken
  <2>5. OneSaver' /\ EmptyWhileWritten'
    BY <1>2, <2>1 DEF Safe, OneSaver, EmptyWhileWritten, Saving
  <2>6. \A o \in Shell \ {s} : ~Saving(o) /\ ~Saving(o)'
    BY <1>2, <2>1 DEF Safe, OneSaver, Saving
  <2>7. \A d \in saved : d[1] \in Namespace /\ d[2] \in Bytes
    BY DEF TypeInv
  <2>8. Loaded'
    <3> SUFFICES ASSUME NEW d \in saved PROVE d[2] \in Documents(kit'[s], d[1])
      BY <2>1, <2>6 DEF Loaded, Saving
    <3>1. d[2] \in Documents(kit[s], d[1])
      BY <1>2, <2>1 DEF Safe, Loaded
    <3> QED BY <2>3, <2>7, <3>1
  <2>9. Lasting'
    <3>1. \A o \in Shell : pc[o] # "write"
      BY <2>1, <2>6 DEF Saving
    <3> QED BY <1>2, <2>1, <3>1 DEF Safe, Lasting, Documents
  <2>10. Taken'
    <3> SUFFICES ASSUME NEW i \in DOMAIN args[s].target
                 PROVE  \/ args[s].target[i].bytes \in Documents(kit'[s], args[s].ns)
                        \/ \E j \in DOMAIN queue'[s] : queue'[s][j] = args[s].target[i]
      BY <2>1, <2>6 DEF Taken
    <3>1. args[s].target[i].bytes \in Bytes
      BY <2>1, CommandLineAssumption, SMTT(30) DEF TypeInv, Bytes
    <3>2. \/ args[s].target[i].bytes \in Documents(kit[s], args[s].ns)
          \/ \E j \in DOMAIN queue[s] : queue[s][j] = args[s].target[i]
      BY <1>2, <2>1 DEF Safe, Taken, Saving
    <3> DEFINE f == args[s].target[i]
    <3>3. CASE f.bytes \in Documents(kit[s], args[s].ns)
      BY <2>1, <2>3, <3>1, <3>3
    <3>4. ASSUME NEW j \in DOMAIN queue[s], queue[s][j] = f
          PROVE  f = source \/ \E k \in DOMAIN queue'[s] : queue'[s][k] = f
      BY ONLY <2>4, <3>4
    <3> QED BY <2>4, <3>2, <3>3, <3>4
  <2> QED BY <2>5, <2>8, <2>9, <2>10 DEF Safe
<1>9. ASSUME NEW s \in Shell, Truncate(s) PROVE Safe'
  <2>1. /\ pc[s] = "ingest" /\ pc'[s] = "write" /\ queue[s] = <<>>
        /\ \A o \in Shell \ {s} : pc'[o] = pc[o]
        /\ store'.file = "empty" /\ UNCHANGED <<args, kit, queue, saved>>
    BY <1>9 DEF Truncate, Go, TypeInv
  <2>2. \A o \in Shell \ {s} : ~Saving(o) /\ ~Saving(o)'
    BY <1>2, <2>1 DEF Safe, OneSaver, Saving
  <2>3. OneSaver' /\ EmptyWhileWritten' /\ Loaded'
    BY <2>1, <2>2 DEF OneSaver, EmptyWhileWritten, Loaded, Saving
  <2>4. Taken'
    BY <1>2, <2>1, <2>2 DEF Safe, Taken, Saving, Documents
  <2>5. Lasting'
    BY <1>2, <2>1 DEF Safe, Loaded, Lasting, Documents
  <2> QED BY <2>3, <2>4, <2>5 DEF Safe
<1>10. ASSUME NEW s \in Shell, Write(s) PROVE Safe'
  <2>1. pc[s] = "write" /\ store.file = "empty"
    BY <1>2, <1>10 DEF Write, Safe, EmptyWhileWritten
  <2>2. /\ store'.file = "whole" /\ store'.kit = kit[s]
        /\ pc'[s] = "done" /\ \A o \in Shell \ {s} : pc'[o] = pc[o]
    BY <1>10, <2>1 DEF Write, Go, TypeInv
  <2>3. \A o \in Shell : ~Saving(o)'
    BY <1>2, <2>1, <2>2 DEF Safe, OneSaver, Saving
  <2>4. OneSaver' /\ EmptyWhileWritten' /\ Loaded' /\ Taken'
    BY <2>2, <2>3 DEF OneSaver, EmptyWhileWritten, Loaded, Taken, Saving
  <2>5. Lasting'
    <3> SUFFICES ASSUME NEW d \in saved' PROVE d[2] \in Documents(kit[s], d[1])
      BY <2>2 DEF Lasting, Documents
    <3>1. CASE d \in saved
      <4>1. PICK o \in Shell : pc[o] = "write" /\ d[2] \in Documents(kit[o], d[1])
        BY <1>2, <2>1, <3>1 DEF Safe, Lasting
      <4>2. o = s
        BY <1>2, <2>1, <4>1 DEF Safe, OneSaver, Saving
      <4> QED BY <4>1, <4>2
    <3>2. ASSUME NEW i \in DOMAIN args[s].target, d = <<args[s].ns, args[s].target[i].bytes>>
          PROVE  d[2] \in Documents(kit[s], d[1])
      BY <1>2, <2>1, <3>2 DEF Safe, Taken, Saving
    <3> QED BY <1>10, <3>1, <3>2 DEF Write
  <2> QED BY <2>4, <2>5 DEF Safe
<1>11. CASE UNCHANGED vars
  <2>1. UNCHANGED <<store, pc, args, kit, queue, saved>>
    BY <1>11 DEF vars, process
  <2> QED BY <1>2, <2>1
        DEF Safe, OneSaver, EmptyWhileWritten, Loaded, Taken, Lasting, Saving, Documents
<1> QED
  BY <1>3, <1>4, <1>5, <1>6, <1>7, <1>8, <1>9, <1>10, <1>11 DEF Next, Finished

-----------------------------------------------------------------------------
(* SerialSavesLast: the store file keeps what was saved, for good, as long *)
(* as no two saves overlap and none is cut short.                          *)
THEOREM SavesLast == Spec => []SerialSavesLast
<1>1. Init => TypeInv /\ SaveInv
  <2>1. Init => SaveInv
    BY DEF Init, SaveInv, Safe, OneSaver, EmptyWhileWritten, Loaded, Taken, Lasting, Saving
  <2> QED BY <2>1, TypeInit
<1>2. TypeInv /\ SaveInv /\ [Next]_vars => (TypeInv /\ SaveInv)'
  BY TypeStep, SaveStep
<1>3. SaveInv => SerialSavesLast
  BY DEF SaveInv, Safe, Lasting, SerialSavesLast, Documents
<1> QED BY <1>1, <1>2, <1>3, PTL DEF Spec

-----------------------------------------------------------------------------
(* A process that has answered has answered from the kit it loaded.        *)
Replied ==
    \A s \in Shell : pc[s] = "answered" =>
        answer[s] = Query(kit[s][args[s].ns], args[s].question)

(* What a process does in a step.                                          *)
Step(s) ==
    \/ StartIngest(s) \/ StartNowhere(s) \/ LoadForIngest(s) \/ LoadFails(s)
    \/ IngestNext(s) \/ IngestFails(s) \/ Truncate(s) \/ Write(s)
    \/ StartQuery(s) \/ QueryNothing(s) \/ AnswerQuery(s)
    \/ StartEval(s) \/ IngestGolden(s) \/ EndGolden(s) \/ ScoreExample(s) \/ Gate(s)
    \/ Exit(s) \/ Kill(s)

(* One process steps; the others are as they were.                         *)
LEMMA OneSteps ==
    ASSUME TypeInv, Next
    PROVE  \/ UNCHANGED vars
           \/ \E s \in Shell :
                 /\ Step(s)
                 /\ \A o \in Shell \ {s} :
                       /\ pc'[o] = pc[o] /\ args'[o] = args[o] /\ kit'[o] = kit[o]
                       /\ queue'[o] = queue[o] /\ answer'[o] = answer[o]
                       /\ results'[o] = results[o]
                 /\ pc'[s] = "answered" => AnswerQuery(s)
<1> DEFINE Others(s) == \A o \in Shell \ {s} :
                 /\ pc'[o] = pc[o] /\ args'[o] = args[o] /\ kit'[o] = kit[o]
                 /\ queue'[o] = queue[o] /\ answer'[o] = answer[o] /\ results'[o] = results[o]
<1>1. ASSUME NEW s \in Shell,
             StartIngest(s) \/ StartNowhere(s) \/ StartQuery(s) \/ QueryNothing(s) \/ StartEval(s)
      PROVE  Others(s) /\ pc'[s] # "answered"
  <2>1. /\ \E to \in {"load", "failed", "read", "golden"} : \E a : Launch(s, to, a)
        /\ UNCHANGED <<kit, answer, results>>
        /\ \A o \in Shell \ {s} : queue'[o] = queue[o]
    BY <1>1 DEF StartIngest, StartNowhere, StartQuery, QueryNothing, StartEval, TypeInv
  <2>2. PICK to \in {"load", "failed", "read", "golden"} : \E a : Launch(s, to, a)
    BY <2>1
  <2>3. PICK a : pc' = [pc EXCEPT ![s] = to] /\ args' = [args EXCEPT ![s] = a]
    BY <2>2 DEF Launch, Go
  <2> QED BY <2>1, <2>3 DEF TypeInv
<1>2. ASSUME NEW s \in Shell, LoadForIngest(s) \/ LoadFails(s) \/ IngestFails(s)
      PROVE  Others(s) /\ pc'[s] # "answered"
  <2>1. /\ \E to \in {"ingest", "failed"} : pc' = [pc EXCEPT ![s] = to]
        /\ UNCHANGED <<args, answer, results>>
        /\ \A o \in Shell \ {s} : queue'[o] = queue[o] /\ kit'[o] = kit[o]
    BY <1>2 DEF LoadForIngest, LoadFails, IngestFails, Go, TypeInv
  <2> QED BY <2>1 DEF TypeInv
<1>3. ASSUME NEW s \in Shell, IngestNext(s) \/ IngestGolden(s)
      PROVE  Others(s) /\ pc'[s] # "answered"
  <2>1. /\ pc[s] \in {"ingest", "golden"}
        /\ \E c \in Contextualizers : TakeSource(s, args[s].ns, c)
        /\ UNCHANGED <<pc, args, answer, results>>
    BY <1>3 DEF IngestNext, IngestGolden, Contextualizers, TypeInv, Place
  <2>2. \A o \in Shell \ {s} : kit'[o] = kit[o] /\ queue'[o] = queue[o]
    BY <2>1, SourceTaken
  <2> QED BY <2>1, <2>2
<1>4. ASSUME NEW s \in Shell, Truncate(s) \/ Write(s)
      PROVE  Others(s) /\ pc'[s] # "answered"
  BY <1>4 DEF Truncate, Write, Go, TypeInv
<1>5. ASSUME NEW s \in Shell, AnswerQuery(s) PROVE Others(s)
  <2>1. /\ kit' = [kit EXCEPT ![s] = store.kit] /\ pc' = [pc EXCEPT ![s] = "answered"]
        /\ \E a : answer' = [answer EXCEPT ![s] = a]
        /\ UNCHANGED <<args, queue, results>>
    BY <1>5 DEF AnswerQuery, LoadKit, Go
  <2> QED BY <2>1 DEF TypeInv
<1>6. ASSUME NEW s \in Shell, EndGolden(s) \/ ScoreExample(s) \/ Gate(s)
      PROVE  Others(s) /\ pc'[s] # "answered"
  <2>1. /\ \E to \in {"score", "passed", "failed"} : pc' = [pc EXCEPT ![s] = to]
        /\ UNCHANGED <<args, kit, answer>>
        /\ \A o \in Shell \ {s} : queue'[o] = queue[o] /\ results'[o] = results[o]
    BY <1>6 DEF EndGolden, ScoreExample, Gate, Go, TypeInv
  <2> QED BY <2>1 DEF TypeInv
<1>7. ASSUME NEW s \in Shell, Exit(s) \/ Kill(s)
      PROVE  Others(s) /\ pc'[s] # "answered"
  <2>1. Reset(s)
    BY <1>7 DEF Exit, Kill
  <2> QED BY <2>1 DEF Reset, Go, TypeInv
<1>8. CASE Finished
  BY <1>8 DEF Finished
<1> HIDE DEF Others
<1>9. ASSUME NEW s \in Shell, Step(s)
      PROVE  Others(s) /\ (pc'[s] = "answered" => AnswerQuery(s))
  BY <1>1, <1>2, <1>3, <1>4, <1>5, <1>6, <1>7, <1>9 DEF Step
<1>10. Finished \/ \E s \in Shell : Step(s)
  BY DEF Next, Step
<1> QED
  BY <1>8, <1>9, <1>10 DEF Others

(* Replied is inductive.                                                   *)
LEMMA RepliedStep == TypeInv /\ Replied /\ [Next]_vars => Replied'
<1> SUFFICES ASSUME TypeInv, Replied, [Next]_vars PROVE Replied'
  OBVIOUS
<1>1. CASE UNCHANGED vars
  BY <1>1 DEF vars, process, Replied
<1>2. ASSUME NEW s \in Shell,
             \A o \in Shell \ {s} :
                /\ pc'[o] = pc[o] /\ args'[o] = args[o] /\ kit'[o] = kit[o]
                /\ answer'[o] = answer[o],
             pc'[s] = "answered" => AnswerQuery(s)
      PROVE  Replied'
  <2>1. ASSUME AnswerQuery(s)
        PROVE  answer'[s] = Query(kit'[s][args'[s].ns], args'[s].question)
    BY <2>1 DEF AnswerQuery, TypeInv
  <2>2. ASSUME NEW o \in Shell, pc'[o] = "answered"
        PROVE  answer'[o] = Query(kit'[o][args'[o].ns], args'[o].question)
    <3>1. CASE o = s
      BY <1>2, <2>1, <2>2, <3>1
    <3>2. CASE o # s
      BY <1>2, <2>2, <3>2 DEF Replied
    <3> QED BY <3>1, <3>2
  <2> QED BY <2>2 DEF Replied
<1> QED BY <1>1, <1>2, OneSteps

(* AnswersTheMatch: a query is answered if and only if a document of its   *)
(* namespace has a content word of it, from such documents alone.  The cut *)
(* at retrieve_k leaves room for two at least.                             *)
THEOREM CommandsAnswerTheMatch ==
    ASSUME RetrieveK >= 2
    PROVE  Spec => []AnswersTheMatch
<1>1. Init => TypeInv /\ Replied
  <2>1. Init => Replied
    BY DEF Init, Replied
  <2> QED BY <2>1, TypeInit
<1>2. TypeInv /\ Replied /\ [Next]_vars => (TypeInv /\ Replied)'
  BY TypeStep, RepliedStep
<1>3. TypeInv /\ Replied => AnswersTheMatch
  <2> SUFFICES ASSUME TypeInv, Replied, NEW s \in Shell, pc[s] = "answered",
                      args[s].question \notin SmallTalk
               PROVE  LET matching == {d \in ToSet(kit[s][args[s].ns].documents) :
                                          Matches(d, args[s].question)}
                          cited == answer[s].citations
                      IN  /\ (answer[s].outcome = "answered") = (matching # {})
                          /\ CitedDocuments(answer[s]) \subseteq matching
                          /\ IsInjective(cited)
                          /\ cited # <<>> => \E i \in DOMAIN cited : cited[i].text = answer[s].text
    BY DEF AnswersTheMatch
  <2>1. PICK shelf, question :
           shelf = kit[s][args[s].ns] /\ question = args[s].question
    OBVIOUS
  <2>2. args[s].ns \in Namespace /\ question \in Seq(Word) /\ Kit(kit[s])
    BY <2>1 DEF TypeInv, Place
  <2>3. Shelf(shelf) /\ question \notin SmallTalk
    BY <2>1, <2>2 DEF Kit
  <2>4. answer[s] = Query(shelf, question)
    BY <2>1 DEF Replied
  <2>5. LET given == Query(shelf, question)
            matching == {d \in ToSet(shelf.documents) : Matches(d, question)}
        IN  /\ (given.outcome = "answered") = (matching # {})
            /\ CitedDocuments(given) \subseteq matching
            /\ IsInjective(given.citations)
            /\ given.citations # <<>> =>
                  \E i \in DOMAIN given.citations : given.citations[i].text = given.text
    BY <2>2, <2>3, QueryOf
  <2> QED BY <2>1, <2>4, <2>5
<1> QED BY <1>1, <1>2, <1>3, PTL DEF Spec

-----------------------------------------------------------------------------
CorpusBytes(golden) == {c.bytes : c \in ToSet(golden.corpus)}

(* An eval starts from an empty kit, ingests the corpus of its golden set, *)
(* and then scores its examples in order.                                  *)
Fair(place, a, k, q, r) ==
    /\ place = "idle" => k = EmptyKit
    /\ place \notin {"score", "passed", "failed"} => r = <<>>
    /\ place = "golden" =>
          Documents(k, a.ns) \cup {q[i].bytes : i \in DOMAIN q} = CorpusBytes(a.golden)
    /\ place = "score" =>
          /\ Documents(k, a.ns) = CorpusBytes(a.golden)
          /\ q \in Seq(Examples) /\ r \in Seq(ToSet(r))
          /\ Len(r) + Len(q) = Len(a.golden.examples)
          /\ \A i \in DOMAIN q : q[i] = a.golden.examples[Len(r) + i]
    /\ \A i \in DOMAIN r : Judged(a.golden.examples[i], a.golden.corpus, r[i])

GoldenInv == \A s \in Shell : Fair(pc[s], args[s], kit[s], queue[s], results[s])

(* What the gate assumes of a golden set: the unit of the scores tells the *)
(* fractions of its corpus apart, and no question is chatter.              *)
Scorable(golden) ==
    /\ Cardinality(ToSet(golden.corpus)) <= Scale
    /\ \A i \in DOMAIN golden.examples : golden.examples[i].question \notin SmallTalk

(* The first element of a queue, and the rest.                             *)
LEMMA Taking ==
    ASSUME NEW T, NEW q \in Seq(T), q # <<>>
    PROVE  /\ Head(q) \in T /\ Head(q) = q[1] /\ 1 \in DOMAIN q
           /\ Tail(q) \in Seq(T) /\ Len(Tail(q)) = Len(q) - 1
           /\ \A i \in DOMAIN Tail(q) : i + 1 \in DOMAIN q /\ Tail(q)[i] = q[i + 1]
           /\ \A i \in DOMAIN q : i = 1 \/ i - 1 \in DOMAIN Tail(q)
<1>1. Len(q) \in Nat /\ Len(q) # 0 /\ DOMAIN q = 1 .. Len(q)
  OBVIOUS
<1> QED BY <1>1

(* Scoring an example judges it.                                           *)
LEMMA ScoreFair ==
    ASSUME TypeInv, RetrieveK >= 2, NEW s \in Shell, ScoreExample(s),
           Scorable(args[s].golden),
           Fair(pc[s], args[s], kit[s], queue[s], results[s])
    PROVE  Fair(pc'[s], args'[s], kit'[s], queue'[s], results'[s])
<1>1. PICK a, k, q, r : a = args[s] /\ k = kit[s] /\ q = queue[s] /\ r = results[s]
  OBVIOUS
<1>2. PICK golden : golden = a.golden
  OBVIOUS
<1>3. PICK example : example = Head(q)
  OBVIOUS
<1>4. PICK scored : scored = Scored(example, Labels(example, golden.corpus),
                                    Query(k[a.ns], example.question))
  OBVIOUS
<1>5. /\ pc[s] = "score" /\ pc'[s] = "score" /\ args'[s] = a /\ kit'[s] = k
      /\ q # <<>> /\ queue'[s] = Tail(q) /\ results'[s] = Append(r, scored)
  <2>1. /\ pc[s] = "score" /\ UNCHANGED <<pc, args, kit>> /\ queue[s] # <<>>
        /\ queue' = [queue EXCEPT ![s] = Tail(queue[s])]
        /\ results' = [results EXCEPT ![s] = Append(results[s],
              Scored(Head(queue[s]), Labels(Head(queue[s]), args[s].golden.corpus),
                     Query(kit[s][args[s].ns], Head(queue[s]).question)))]
    BY DEF ScoreExample
  <2>2. DOMAIN queue = Shell /\ DOMAIN results = Shell
    BY DEF TypeInv
  <2> QED BY ONLY <1>1, <1>2, <1>3, <1>4, <2>1, <2>2
<1>6. /\ Documents(k, a.ns) = CorpusBytes(golden)
      /\ q \in Seq(Examples) /\ r \in Seq(ToSet(r))
      /\ Len(r) + Len(q) = Len(golden.examples)
      /\ \A i \in DOMAIN q : q[i] = golden.examples[Len(r) + i]
      /\ \A i \in DOMAIN r : Judged(golden.examples[i], golden.corpus, r[i])
  BY <1>1, <1>2, <1>5 DEF Fair
<1>7. golden \in Goldens /\ Kit(k) /\ a.ns \in Namespace
  BY <1>1, <1>2, <1>5 DEF TypeInv, Place
<1>8. golden.corpus \in Seq(Source) /\ golden.examples \in Seq(Examples)
  BY <1>7, CommandLineAssumption
<1>9. /\ example \in Examples /\ example = q[1] /\ 1 \in DOMAIN q
      /\ Tail(q) \in Seq(Examples) /\ Len(Tail(q)) = Len(q) - 1
      /\ \A i \in DOMAIN Tail(q) : i + 1 \in DOMAIN q /\ Tail(q)[i] = q[i + 1]
  BY <1>3, <1>5, <1>6, Taking
<1>10. Len(r) \in Nat /\ Len(q) \in Nat /\ DOMAIN r = 1 .. Len(r) /\ DOMAIN q = 1 .. Len(q)
  BY <1>6
<1>11. /\ Len(r) + 1 \in DOMAIN golden.examples
       /\ example = golden.examples[Len(r) + 1]
  <2>1. DOMAIN golden.examples = 1 .. Len(golden.examples)
    BY <1>8
  <2> QED BY ONLY <1>6, <1>9, <1>10, <2>1
<1>12. example.question \notin SmallTalk /\ Cardinality(ToSet(golden.corpus)) <= Scale
  BY <1>1, <1>2, <1>11 DEF Scorable
<1>13. PICK shelf : shelf = k[a.ns]
  OBVIOUS
<1>14. Shelf(shelf) /\ ToSet(shelf.documents) = {c.bytes : c \in ToSet(golden.corpus)}
  BY <1>6, <1>7, <1>13 DEF Kit, Documents, CorpusBytes
<1>15. PICK corpus : corpus = golden.corpus
  OBVIOUS
<1>16. Judged(example, corpus,
              Scored(example, Labels(example, corpus), Query(shelf, example.question)))
  BY <1>8, <1>9, <1>12, <1>14, <1>15, JudgedOf
<1>17. Judged(example, golden.corpus, scored)
  BY ONLY <1>4, <1>13, <1>15, <1>16
<1>18. PICK after : after = Append(r, scored)
  OBVIOUS
<1>19. /\ after \in Seq(ToSet(after)) /\ Len(after) = Len(r) + 1
       /\ DOMAIN after = 1 .. Len(r) + 1
       /\ after[Len(r) + 1] = scored /\ \A i \in DOMAIN r : after[i] = r[i]
  <2>1. r \in Seq(ToSet(r) \cup {scored}) /\ scored \in ToSet(r) \cup {scored}
    BY <1>6
  <2>2. /\ after \in Seq(ToSet(r) \cup {scored}) /\ Len(after) = Len(r) + 1
        /\ DOMAIN after = 1 .. Len(r) + 1
        /\ after[Len(r) + 1] = scored /\ \A i \in DOMAIN r : after[i] = r[i]
    BY ONLY <1>10, <1>18, <2>1
  <2>3. \A i \in DOMAIN after : after[i] \in ToSet(after)
    BY DEF ToSet
  <2>4. after \in Seq(ToSet(after))
    BY ONLY <2>2, <2>3, <1>10
  <2> QED BY <2>2, <2>4
<1>20. \A i \in DOMAIN after : Judged(golden.examples[i], golden.corpus, after[i])
  <2> TAKE i \in DOMAIN after
  <2>1. CASE i = Len(r) + 1
    BY ONLY <2>1, <1>11, <1>17, <1>19
  <2>2. CASE i # Len(r) + 1
    <3>1. i \in DOMAIN r
      BY ONLY <2>2, <1>10, <1>19, i \in DOMAIN after
    <3> QED BY <3>1, <1>6, <1>19
  <2> QED BY <2>1, <2>2
<1>21. PICK rest : rest = Tail(q)
  OBVIOUS
<1>22. \A i \in DOMAIN rest : rest[i] = golden.examples[Len(after) + i]
  <2> TAKE i \in DOMAIN rest
  <2>1. i + 1 \in DOMAIN q /\ rest[i] = q[i + 1] /\ i \in Nat
    BY <1>9, <1>21
  <2>2. rest[i] = golden.examples[Len(r) + (i + 1)]
    BY <1>6, <2>1
  <2>3. Len(r) + (i + 1) = Len(after) + i
    BY ONLY <1>10, <1>19, <2>1
  <2> QED BY <2>2, <2>3
<1>23. Len(after) + Len(rest) = Len(golden.examples) /\ rest \in Seq(Examples)
  <2>1. rest \in Seq(Examples) /\ Len(rest) = Len(q) - 1 /\ Len(after) = Len(r) + 1
    BY ONLY <1>9, <1>19, <1>21
  <2>2. Len(r) + Len(q) = Len(golden.examples)
    BY <1>6
  <2> QED BY ONLY <1>10, <2>1, <2>2
<1>24. Fair("score", a, k, rest, after)
  BY <1>2, <1>6, <1>19, <1>20, <1>22, <1>23 DEF Fair
<1> QED BY <1>5, <1>18, <1>21, <1>24

(* GoldenInv is inductive, for golden sets that can be scored.             *)
LEMMA GoldenStep ==
    ASSUME RetrieveK >= 2, \A g \in Goldens : Scorable(g)
    PROVE  TypeInv /\ GoldenInv /\ [Next]_vars => GoldenInv'
<1> SUFFICES ASSUME TypeInv, GoldenInv, [Next]_vars PROVE GoldenInv'
  OBVIOUS
<1> DEFINE After(s) == Fair(pc'[s], args'[s], kit'[s], queue'[s], results'[s])
<1>1. \A s \in Shell : Fair(pc[s], args[s], kit[s], queue[s], results[s])
  BY DEF GoldenInv
<1> DEFINE Start(s) ==
        /\ pc[s] = "idle" => kit[s] = EmptyKit
        /\ pc[s] \notin {"score", "passed", "failed"} => results[s] = <<>>
        /\ pc[s] = "golden" =>
              Documents(kit[s], args[s].ns) \cup {queue[s][i].bytes : i \in DOMAIN queue[s]}
                 = CorpusBytes(args[s].golden)
<1>0. ASSUME NEW s \in Shell PROVE Start(s)
  <2>1. Fair(pc[s], args[s], kit[s], queue[s], results[s])
    BY <1>1
  <2> QED BY ONLY <2>1 DEF Fair
<1>2. CASE UNCHANGED vars
  <2>1. UNCHANGED <<pc, args, kit, queue, results>>
    BY <1>2 DEF vars, process
  <2> QED BY <1>1, <2>1 DEF GoldenInv
<1>3. ASSUME NEW s \in Shell,
             StartIngest(s) \/ StartNowhere(s) \/ StartQuery(s) \/ QueryNothing(s)
             \/ LoadForIngest(s) \/ LoadFails(s) \/ IngestFails(s) \/ Truncate(s) \/ Write(s)
             \/ AnswerQuery(s)
      PROVE  After(s)
  <2>1. pc[s] \notin {"score", "passed", "failed"} /\ results' = results
    BY <1>3 DEF StartIngest, StartNowhere, StartQuery, QueryNothing, Launch, LoadForIngest,
                LoadFails, IngestFails, Truncate, Write, AnswerQuery
  <2>2. pc'[s] \in Place \ {"idle", "golden", "score"}
    BY <1>3 DEF StartIngest, StartNowhere, StartQuery, QueryNothing, Launch, LoadForIngest,
                LoadFails, IngestFails, Truncate, Write, AnswerQuery, Go, TypeInv, Place
  <2>3. results'[s] = <<>>
    BY <1>0, <2>1
  <2>4. DOMAIN <<>> = {}
    OBVIOUS
  <2> QED BY <2>2, <2>3, <2>4 DEF Fair
<1>4. ASSUME NEW s \in Shell, IngestNext(s) PROVE After(s)
  <2>1. pc'[s] = "ingest" /\ results'[s] = results[s] /\ pc[s] = "ingest"
    BY <1>4 DEF IngestNext
  <2>2. results'[s] = <<>> /\ DOMAIN <<>> = {}
    BY <1>0, <2>1
  <2> QED BY <2>1, <2>2 DEF Fair
<1>5. ASSUME NEW s \in Shell, StartEval(s) PROVE After(s)
  <2>1. PICK g \in Goldens :
           /\ Launch(s, "golden", [NoArgs EXCEPT !.ns = GoldenNamespace, !.golden = g])
           /\ queue' = [queue EXCEPT ![s] = g.corpus]
    BY <1>5 DEF StartEval
  <2>2. /\ pc[s] = "idle" /\ pc'[s] = "golden" /\ args'[s].ns = GoldenNamespace
        /\ args'[s].golden = g /\ queue'[s] = g.corpus
    BY <2>1 DEF Launch, Go, NoArgs, TypeInv
  <2>3. kit'[s] = EmptyKit /\ results'[s] = <<>> /\ DOMAIN <<>> = {}
    <3>1. kit' = kit /\ results' = results
      BY <1>5 DEF StartEval
    <3> QED BY <1>0, <2>2, <3>1
  <2>4. GoldenNamespace \in Namespace
    BY CommandLineAssumption DEF GoldenNamespace
  <2>5. Documents(EmptyKit, GoldenNamespace) = {}
    BY <2>4, EmptyIsKit
  <2>6. {g.corpus[i].bytes : i \in DOMAIN g.corpus} = CorpusBytes(g)
    BY DEF CorpusBytes, ToSet
  <2> HIDE DEF EmptyKit
  <2> QED BY <2>2, <2>3, <2>5, <2>6 DEF Fair
<1>6. ASSUME NEW s \in Shell, IngestGolden(s) PROVE After(s)
  <2>1. /\ pc[s] = "golden" /\ pc'[s] = "golden" /\ args'[s] = args[s]
        /\ results'[s] = <<>> /\ DOMAIN <<>> = {}
        /\ TakeSource(s, args[s].ns, "fake")
    BY <1>0, <1>6 DEF IngestGolden
  <2>2. /\ queue[s] # <<>> /\ queue'[s] = Tail(queue[s])
        /\ Documents(kit'[s], args[s].ns)
              = Documents(kit[s], args[s].ns) \cup {Head(queue[s]).bytes}
    <3>1. "fake" \in Contextualizers
      BY DEF Contextualizers
    <3> QED BY <2>1, <3>1, SourceTaken
  <2>3. PICK q : q = queue[s]
    OBVIOUS
  <2>4. q \in Seq(Source) /\ q # <<>>
    BY <2>1, <2>2, <2>3 DEF TypeInv
  <2>5. /\ Head(q) = q[1] /\ 1 \in DOMAIN q
        /\ \A i \in DOMAIN Tail(q) : i + 1 \in DOMAIN q /\ Tail(q)[i] = q[i + 1]
        /\ \A i \in DOMAIN q : i = 1 \/ i - 1 \in DOMAIN Tail(q)
    BY <2>4, Taking
  <2>6. {Head(q).bytes} \cup {Tail(q)[i].bytes : i \in DOMAIN Tail(q)}
           = {q[i].bytes : i \in DOMAIN q}
    <3>1. ASSUME NEW i \in DOMAIN q
          PROVE  q[i].bytes \in {Head(q).bytes} \cup {Tail(q)[j].bytes : j \in DOMAIN Tail(q)}
      <4>1. CASE i = 1
        BY <2>5, <4>1
      <4>2. CASE i # 1
        <5>1. i \in Int
          BY <2>4
        <5>2. i - 1 \in DOMAIN Tail(q) /\ Tail(q)[i - 1] = q[(i - 1) + 1] /\ (i - 1) + 1 = i
          BY <2>5, <4>2, <5>1
        <5> QED BY <5>2
      <4> QED BY <4>1, <4>2
    <3> QED BY <2>5, <3>1
  <2>7. Documents(kit[s], args[s].ns) \cup {q[i].bytes : i \in DOMAIN q}
           = CorpusBytes(args[s].golden)
    BY <1>0, <2>1, <2>3
  <2>8. Documents(kit'[s], args[s].ns) \cup {Tail(q)[i].bytes : i \in DOMAIN Tail(q)}
           = CorpusBytes(args[s].golden)
    BY <2>2, <2>3, <2>6, <2>7
  <2> QED BY <2>1, <2>2, <2>3, <2>8 DEF Fair
<1>7. ASSUME NEW s \in Shell, EndGolden(s) PROVE After(s)
  <2>1. /\ pc[s] = "golden" /\ pc'[s] = "score" /\ queue[s] = <<>> /\ DOMAIN <<>> = {}
        /\ queue'[s] = args[s].golden.examples
        /\ UNCHANGED <<args, kit, results>>
    BY <1>7 DEF EndGolden, Go, TypeInv
  <2>2. args[s].golden \in Goldens
    BY <2>1 DEF TypeInv
  <2>3. PICK examples : examples = args[s].golden.examples
    OBVIOUS
  <2>4. examples \in Seq(Examples)
    BY <2>2, <2>3, CommandLineAssumption
  <2>5. results[s] = <<>> /\ Documents(kit[s], args[s].ns) = CorpusBytes(args[s].golden)
    <3>1. results[s] = <<>>
      BY <1>0, <2>1
    <3>2. {queue[s][i].bytes : i \in DOMAIN queue[s]} = {}
      BY <2>1
    <3> QED BY <1>0, <2>1, <3>1, <3>2
  <2>6. /\ <<>> \in Seq(ToSet(<<>>)) /\ Len(<<>>) + Len(examples) = Len(examples)
        /\ \A i \in DOMAIN examples : Len(<<>>) + i = i
    BY <2>4
  <2> QED BY <2>1, <2>3, <2>4, <2>5, <2>6 DEF Fair
<1>8. ASSUME NEW s \in Shell, ScoreExample(s) PROVE After(s)
  <2>1. args[s].golden \in Goldens
    BY <1>8 DEF ScoreExample, TypeInv
  <2> QED BY <1>1, <1>8, <2>1, ScoreFair
<1>9. ASSUME NEW s \in Shell, Gate(s) PROVE After(s)
  <2>1. /\ pc'[s] \in {"passed", "failed"}
        /\ UNCHANGED <<args, kit, queue, results>>
    BY <1>9 DEF Gate, Go, TypeInv
  <2> QED BY <1>1, <2>1 DEF Fair
<1>10. ASSUME NEW s \in Shell, Exit(s) \/ Kill(s) PROVE After(s)
  <2>1. Reset(s)
    BY <1>10 DEF Exit, Kill
  <2>2. pc'[s] = "idle" /\ kit'[s] = EmptyKit /\ results'[s] = <<>> /\ DOMAIN <<>> = {}
    BY <2>1 DEF Reset, Go, TypeInv
  <2> QED BY <2>2 DEF Fair
<1> HIDE DEF After
<1>11. \A s \in Shell : Step(s) => After(s)
  BY <1>3, <1>4, <1>5, <1>6, <1>7, <1>8, <1>9, <1>10 DEF Step
<1>12. ASSUME NEW s \in Shell, Step(s),
              \A o \in Shell \ {s} :
                 /\ pc'[o] = pc[o] /\ args'[o] = args[o] /\ kit'[o] = kit[o]
                 /\ queue'[o] = queue[o] /\ results'[o] = results[o]
       PROVE  GoldenInv'
  <2>1. \A o \in Shell : After(o)
    BY <1>1, <1>11, <1>12 DEF After
  <2> QED BY <2>1 DEF GoldenInv, After
<1> QED BY <1>2, <1>12, OneSteps

(* GoldenGate: over the deterministic adapters no answer is unfaithful; an *)
(* example whose matching documents are all labelled is grounded, with     *)
(* full precision and some recall, full when there is just one; and a      *)
(* labelled negative is scored in full for the honest refusal.  The golden *)
(* sets are those that the gate can score.                                 *)
THEOREM CommandsGateFair ==
    ASSUME RetrieveK >= 2, \A g \in Goldens : Scorable(g)
    PROVE  Spec => []GoldenGate
<1>1. Init => TypeInv /\ GoldenInv
  <2>1. Init => GoldenInv
    <3> SUFFICES ASSUME Init, NEW s \in Shell
                 PROVE  Fair(pc[s], args[s], kit[s], queue[s], results[s])
      BY DEF GoldenInv
    <3>1. pc[s] = "idle" /\ kit[s] = EmptyKit /\ results[s] = <<>> /\ DOMAIN <<>> = {}
      BY DEF Init
    <3> QED BY <3>1 DEF Fair
  <2> QED BY <2>1, TypeInit
<1>2. TypeInv /\ GoldenInv /\ [Next]_vars => (TypeInv /\ GoldenInv)'
  BY TypeStep, GoldenStep
<1>3. GoldenInv => GoldenGate
  <2> SUFFICES ASSUME GoldenInv, NEW s \in Shell, NEW i \in DOMAIN results[s]
               PROVE  LET example == args[s].golden.examples[i]
                          corpus == ToSet(args[s].golden.corpus)
                          labelled == {c.bytes : c \in {x \in corpus : x.name \in example.relevant}}
                          matching == {d \in {c.bytes : c \in corpus} :
                                          Matches(d, example.question)}
                          r == results[s][i]
                      IN  /\ r.faithfulness = Scale
                          /\ (matching # {} /\ matching \subseteq labelled) =>
                                /\ r.grounded /\ r.precision = Scale /\ r.recall > 0
                                /\ Cardinality(labelled) = 1 => r.recall = Scale
                          /\ (matching = {} /\ example.relevant = {} /\ example.truth = Message) =>
                                /\ ~r.grounded
                                /\ r.relevancy = Scale /\ r.precision = Scale /\ r.recall = Scale
    BY DEF GoldenGate
  <2>1. Judged(args[s].golden.examples[i], args[s].golden.corpus, results[s][i])
    BY DEF GoldenInv, Fair
  <2> QED BY <2>1 DEF Judged
<1> QED BY <1>1, <1>2, <1>3, PTL DEF Spec
=============================================================================
