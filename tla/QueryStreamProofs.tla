------------------------- MODULE QueryStreamProofs -------------------------
(***************************************************************************)
(* What holds of every stream of the query engine, for every corpus, every *)
(* length of the lists, every score and every answer of the model.         *)
(*                                                                         *)
(* First what the operators of the model return: the enumeration of a set  *)
(* in an order, the fusion of two rankings, texts joined and stripped,     *)
(* the citations of a text, the order of the prompt.  Then the inductive   *)
(* invariant IInv, which says what the events are at each place of the     *)
(* stream, and what follows from it.                                       *)
(***************************************************************************)
EXTENDS QueryStream, FunctionTheorems, FiniteSetTheorems, SequenceTheorems, TLAPS

(* R orders S: no member comes before itself, of two one comes first, and  *)
(* what comes before a member comes before those it comes before.          *)
Orders(R, S) ==
    /\ \A c \in S : <<c, c>> \notin R
    /\ \A c, d \in S : c # d => <<c, d>> \in R \/ <<d, c>> \in R
    /\ \A b, c, d \in S : <<b, c>> \in R /\ <<c, d>> \in R => <<b, d>> \in R

Before(c, S, R) == {d \in S : <<d, c>> \in R}

(* What comes before a member counts less than the whole, and less than    *)
(* what comes before a later member.                                       *)
LEMMA BeforeCounts ==
    ASSUME NEW S, IsFiniteSet(S), NEW R, Orders(R, S)
    PROVE  /\ \A c \in S : Cardinality(Before(c, S, R)) \in 0 .. Cardinality(S) - 1
           /\ \A c, d \in S : <<d, c>> \in R =>
                 Cardinality(Before(d, S, R)) < Cardinality(Before(c, S, R))
<1>1. ASSUME NEW c \in S
      PROVE  /\ IsFiniteSet(Before(c, S, R))
             /\ Cardinality(Before(c, S, R)) \in 0 .. Cardinality(S) - 1
  <2>1. Before(c, S, R) \in SUBSET S /\ Before(c, S, R) # S
    BY DEF Before, Orders
  <2>2. /\ IsFiniteSet(Before(c, S, R))
        /\ Cardinality(Before(c, S, R)) <= Cardinality(S)
        /\ Cardinality(Before(c, S, R)) # Cardinality(S)
    BY <2>1, FS_Subset
  <2>3. Cardinality(Before(c, S, R)) \in Nat /\ Cardinality(S) \in Nat
    BY <2>2, FS_CardinalityType
  <2>4. QED
    BY <2>2, <2>3
<1>2. ASSUME NEW c \in S, NEW d \in S, <<d, c>> \in R
      PROVE  Cardinality(Before(d, S, R)) < Cardinality(Before(c, S, R))
  <2>1. Before(d, S, R) \in SUBSET Before(c, S, R) /\ Before(d, S, R) # Before(c, S, R)
    BY <1>2 DEF Before, Orders
  <2>2. IsFiniteSet(Before(c, S, R))
    BY <1>1
  <2>3. /\ Cardinality(Before(d, S, R)) <= Cardinality(Before(c, S, R))
        /\ Cardinality(Before(d, S, R)) # Cardinality(Before(c, S, R))
    BY <2>1, <2>2, FS_Subset
  <2>4. Cardinality(Before(d, S, R)) \in Int /\ Cardinality(Before(c, S, R)) \in Int
    BY <1>1
  <2>5. QED
    BY <2>3, <2>4
<1>3. QED
  BY <1>1, <1>2

(* Every number below that of the members is the count of one of them.     *)
LEMMA EveryCount ==
    ASSUME NEW S, IsFiniteSet(S), NEW R, Orders(R, S),
           NEW k \in 1 .. Cardinality(S)
    PROVE  \E c \in S : Cardinality(Before(c, S, R)) = k - 1
<1> DEFINE n == Cardinality(S)
           f == [c \in S |-> Cardinality(Before(c, S, R))]
<1>1. n \in Nat
  BY FS_CardinalityType
<1>2. f \in [S -> 0 .. n - 1]
  BY BeforeCounts
<1>3. \A c, d \in S : f[c] = f[d] => c = d
  <2> SUFFICES ASSUME NEW c \in S, NEW d \in S, f[c] = f[d], c # d PROVE FALSE
    OBVIOUS
  <2>1. <<c, d>> \in R \/ <<d, c>> \in R
    BY DEF Orders
  <2>2. f[c] \in Int /\ f[d] \in Int
    BY <1>2
  <2>3. <<c, d>> \in R => f[c] < f[d]
    BY BeforeCounts
  <2>4. <<d, c>> \in R => f[d] < f[c]
    BY BeforeCounts
  <2>5. QED
    BY <2>1, <2>2, <2>3, <2>4
<1>4. f \in Injection(S, 0 .. n - 1)
  BY <1>2, <1>3, Fun_IsInj
<1>5. IsFiniteSet(0 .. n - 1) /\ Cardinality(0 .. n - 1) = n
  <2>1. 0 \in Int /\ n - 1 \in Int
    BY <1>1
  <2>2. Cardinality(0 .. n - 1) = IF 0 > n - 1 THEN 0 ELSE (n - 1) - 0 + 1
    BY <2>1, FS_Interval
  <2>3. QED
    BY <1>1, <2>1, <2>2, FS_Interval
<1>6. f \in Surjection(S, 0 .. n - 1)
  BY <1>4, <1>5, FS_Injection
<1>7. k - 1 \in 0 .. n - 1
  BY <1>1
<1>8. \E c \in S : f[c] = k - 1
  <2> HIDE DEF f, n
  <2>1. \A t \in 0 .. n - 1 : \E c \in S : f[c] = t
    BY <1>6, Fun_SurjectionProperties, ZenonT(30)
  <2>2. QED
    BY <1>7, <2>1
<1>9. QED
  BY <1>8

(* The list has every member of the set once, in its order.                *)
LEMMA InOrderLists ==
    ASSUME NEW S, IsFiniteSet(S), NEW R, Orders(R, S)
    PROVE  /\ Cardinality(S) \in Nat
           /\ InOrder(S, R) \in [1 .. Cardinality(S) -> S]
           /\ \A c \in S : \E k \in 1 .. Cardinality(S) : InOrder(S, R)[k] = c
           /\ \A j, k \in 1 .. Cardinality(S) :
                 j < k => /\ <<InOrder(S, R)[j], InOrder(S, R)[k]>> \in R
                          /\ InOrder(S, R)[j] # InOrder(S, R)[k]
<1> DEFINE n == Cardinality(S)
           s == InOrder(S, R)
           count(c) == Cardinality(Before(c, S, R))
<1>1. n \in Nat
  BY FS_CardinalityType
<1>2. ASSUME NEW k \in 1 .. n
      PROVE  s[k] \in S /\ count(s[k]) = k - 1
  <2>1. s[k] = CHOOSE c \in S : count(c) = k - 1
    BY DEF InOrder, Before
  <2>2. \E c \in S : count(c) = k - 1
    BY EveryCount
  <2> HIDE DEF s, count
  <2>3. QED
    BY <2>1, <2>2
<1>3. s = [k \in 1 .. n |-> s[k]]
  <2> DEFINE member(k) == CHOOSE c \in S : Cardinality({d \in S : <<d, c>> \in R}) = k - 1
  <2>1. s = [k \in 1 .. n |-> member(k)]
    BY DEF InOrder
  <2> HIDE DEF s, n, member
  <2>2. QED
    BY <2>1
<1>4. s \in [1 .. n -> S]
  <2> HIDE DEF s, n
  <2>1. QED
    BY <1>2, <1>3
<1>5. \A c \in S : count(c) \in 0 .. n - 1
  BY BeforeCounts
<1>6. \A c, d \in S : <<d, c>> \in R => count(d) < count(c)
  BY BeforeCounts
<1>7. ASSUME NEW c \in S
      PROVE  \E k \in 1 .. n : s[k] = c
  <2>1. count(c) + 1 \in 1 .. n
    BY <1>1, <1>5
  <2>2. s[count(c) + 1] \in S /\ count(s[count(c) + 1]) = count(c)
    BY <1>2, <1>5, <2>1
  <2>3. s[count(c) + 1] = c
    <3> HIDE DEF s, count
    <3>1. CASE s[count(c) + 1] # c
      <4>1. \/ count(s[count(c) + 1]) < count(c)
            \/ count(c) < count(s[count(c) + 1])
        BY <1>6, <2>2, <3>1 DEF Orders
      <4>2. QED
        BY <1>5, <2>2, <4>1
    <3>2. QED
      BY <3>1
  <2>4. QED
    BY <2>1, <2>3
<1>8. ASSUME NEW j \in 1 .. n, NEW k \in 1 .. n, j < k
      PROVE  <<s[j], s[k]>> \in R /\ s[j] # s[k]
  <2> HIDE DEF s, count
  <2>1. s[j] \in S /\ s[k] \in S /\ count(s[j]) = j - 1 /\ count(s[k]) = k - 1
    BY <1>2
  <2>2. s[j] # s[k]
    BY <1>8, <2>1
  <2>3. <<s[k], s[j]>> \notin R
    BY <1>6, <1>8, <2>1
  <2>4. QED
    BY <2>1, <2>2, <2>3 DEF Orders
<1>9. QED
  BY <1>1, <1>4, <1>7, <1>8

(* Ascending lists numbers in their order.                                 *)
LEMMA AscendingLists ==
    ASSUME NEW S \in SUBSET Int, IsFiniteSet(S)
    PROVE  /\ Cardinality(S) \in Nat
           /\ Ascending(S) \in [1 .. Cardinality(S) -> S]
           /\ \A i \in S : \E k \in 1 .. Cardinality(S) : Ascending(S)[k] = i
           /\ \A j, k \in 1 .. Cardinality(S) : j < k => Ascending(S)[j] < Ascending(S)[k]
<1> DEFINE R == {p \in S \X S : p[1] < p[2]}
<1>1. \A i, j \in S : <<i, j>> \in R <=> i < j
  OBVIOUS
<1>2. Orders(R, S)
  <2> HIDE DEF R
  <2>1. QED
    BY <1>1 DEF Orders
<1>3. Ascending(S) = InOrder(S, R)
  BY DEF Ascending
<1> HIDE DEF R
<1>4. /\ Cardinality(S) \in Nat
      /\ Ascending(S) \in [1 .. Cardinality(S) -> S]
      /\ \A i \in S : \E k \in 1 .. Cardinality(S) : Ascending(S)[k] = i
  BY <1>2, <1>3, InOrderLists
<1>5. ASSUME NEW j \in 1 .. Cardinality(S), NEW k \in 1 .. Cardinality(S), j < k
      PROVE  Ascending(S)[j] < Ascending(S)[k]
  <2>1. <<Ascending(S)[j], Ascending(S)[k]>> \in R
    BY <1>2, <1>3, <1>5, InOrderLists
  <2>2. Ascending(S)[j] \in S /\ Ascending(S)[k] \in S
    BY <1>4
  <2>3. QED
    BY <1>1, <2>1, <2>2
<1>6. QED
  BY <1>4, <1>5

(* Those of an interval are the interval itself.                           *)
LEMMA AscendingInterval ==
    ASSUME NEW a \in Int, NEW b \in Int, a <= b + 1
    PROVE  /\ IsFiniteSet(a .. b) /\ Cardinality(a .. b) = b - a + 1
           /\ \A k \in 1 .. b - a + 1 : Ascending(a .. b)[k] = a + k - 1
<1> DEFINE R == {p \in (a .. b) \X (a .. b) : p[1] < p[2]}
           S == a .. b
<1>1. \A x, y \in Int : x <= y + 1 => IsFiniteSet(x .. y) /\ Cardinality(x .. y) = y - x + 1
  <2> SUFFICES ASSUME NEW x \in Int, NEW y \in Int, x <= y + 1
               PROVE  IsFiniteSet(x .. y) /\ Cardinality(x .. y) = y - x + 1
    OBVIOUS
  <2>1. IsFiniteSet(x .. y) /\ Cardinality(x .. y) = IF x > y THEN 0 ELSE y - x + 1
    BY FS_Interval
  <2>2. QED
    BY <2>1
<1>2. ASSUME NEW k \in 1 .. b - a + 1
      PROVE  Ascending(S)[k] = a + k - 1
  <2> DEFINE before(c) == {d \in S : <<d, c>> \in R}
  <2>1. \A c \in S : before(c) = a .. c - 1
    OBVIOUS
  <2>2. ASSUME NEW c \in S
        PROVE  Cardinality(before(c)) = c - a
    <3>1. c \in Int /\ a <= (c - 1) + 1
      OBVIOUS
    <3>2. Cardinality(a .. c - 1) = (c - 1) - a + 1
      BY <1>1, <3>1
    <3>3. before(c) = a .. c - 1
      BY <2>1
    <3> HIDE DEF before
    <3>4. QED
      BY <3>1, <3>2, <3>3
  <2>3. Ascending(S)[k] = CHOOSE c \in S : Cardinality(before(c)) = k - 1
    BY <1>1 DEF Ascending, InOrder
  <2> HIDE DEF before
  <2>4. QED
    BY <2>2, <2>3
<1>3. QED
  BY <1>1, <1>2
(* What a list has at some positions is a list of as many members.         *)
LEMMA SublistLists ==
    ASSUME NEW T, NEW s \in Seq(T), NEW P \in SUBSET (DOMAIN s)
    PROVE  /\ IsFiniteSet(P) /\ Cardinality(P) \in Nat
           /\ Ascending(P) \in [1 .. Cardinality(P) -> P]
           /\ Sublist(s, P) \in Seq(T)
           /\ Len(Sublist(s, P)) = Cardinality(P)
           /\ \A k \in 1 .. Cardinality(P) : Sublist(s, P)[k] = s[Ascending(P)[k]]
<1>1. DOMAIN s = 1 .. Len(s) /\ Len(s) \in Nat
  OBVIOUS
<1>2. IsFiniteSet(1 .. Len(s))
  BY <1>1, FS_Interval
<1>3. IsFiniteSet(P)
  BY <1>1, <1>2, FS_Subset
<1>4. P \in SUBSET Int
  BY <1>1
<1>5. Cardinality(P) \in Nat /\ Ascending(P) \in [1 .. Cardinality(P) -> P]
  BY <1>3, <1>4, AscendingLists
<1>6. Sublist(s, P) = [k \in 1 .. Cardinality(P) |-> s[Ascending(P)[k]]]
  BY DEF Sublist
<1>7. \A k \in 1 .. Cardinality(P) : s[Ascending(P)[k]] \in T
  BY <1>1, <1>5
<1>8. Sublist(s, P) \in [1 .. Cardinality(P) -> T]
  BY <1>6, <1>7
<1>9. Sublist(s, P) \in Seq(T) /\ Len(Sublist(s, P)) = Cardinality(P)
  BY <1>5, <1>8
<1>10. QED
  BY <1>3, <1>5, <1>6, <1>9

-----------------------------------------------------------------------------
(***************************************************************************)
(* The fused ranking.                                                      *)
(***************************************************************************)

(* A ranked list has no chunk twice.                                       *)
LEMMA RankingTyped ==
    ASSUME NEW k \in Nat, NEW s \in Rankings(k)
    PROVE  s \in Seq(Chunk) /\ Len(s) <= k /\ IsInjective(s)
<1>1. PICK n \in 0 .. k : s \in [1 .. n -> Chunk] /\ IsInjective(s)
  BY DEF Rankings
<1>2. QED
  BY <1>1

(* The rank of a chunk is where it is in the list, from 0.                 *)
LEMMA RankOf ==
    ASSUME NEW s \in Seq(Chunk), NEW c \in ToSet(s)
    PROVE  Rank(s, c) \in 0 .. Len(s) - 1 /\ s[Rank(s, c) + 1] = c
<1> DEFINE i == CHOOSE i \in DOMAIN s : s[i] = c
<1>1. \E j \in DOMAIN s : s[j] = c
  BY DEF ToSet
<1>2. i \in DOMAIN s /\ s[i] = c
  BY <1>1
<1>3. Rank(s, c) = i - 1
  BY DEF Rank
<1> HIDE DEF i
<1>4. i \in 1 .. Len(s)
  BY <1>2
<1>5. QED
  BY <1>2, <1>3, <1>4

(* What a list adds to a score: a share of Unit, the less the farther down *)
(* the chunk is.                                                           *)
LEMMA Quotients ==
    ASSUME NEW u \in Nat, NEW d \in Nat \ {0}, NEW e \in Nat \ {0}, d <= e,
           u % d = 0, u % e = 0
    PROVE  /\ u \div d \in Nat /\ u \div e \in Nat
           /\ u = d * (u \div d) /\ u = e * (u \div e)
           /\ u \div e <= u \div d
           /\ u > 0 /\ e < 2 * d => u \div d < 2 * (u \div e)
<1> DEFINE p == u \div d
           q == u \div e
<1>1. p \in Nat /\ q \in Nat /\ u = d * p /\ u = e * q
  OBVIOUS
<1> HIDE DEF p, q
<1>2. q <= p
  <2>1. CASE q > p
    <3>1. q >= p + 1
      BY <1>1, <2>1
    <3>2. e * q >= e * (p + 1)
      BY <1>1, <3>1
    <3>3. e * (p + 1) = e * p + e
      BY <1>1
    <3>4. e * p >= d * p
      BY <1>1
    <3>5. QED
      BY <1>1, <3>2, <3>3, <3>4
  <2>2. QED
    BY <1>1, <2>1
<1>3. ASSUME u > 0, e < 2 * d, p >= 2 * q
      PROVE  FALSE
  <2>1. q > 0
    BY <1>1, <1>3
  <2>2. d * p >= d * (2 * q)
    BY <1>1, <1>3
  <2>3. d * (2 * q) = (2 * d) * q
    BY <1>1
  <2>4. (2 * d) * q > e * q
    BY <1>1, <1>3, <2>1
  <2>5. QED
    BY <1>1, <2>2, <2>3, <2>4
<1>4. QED
  BY <1>1, <1>2, <1>3 DEF p, q

(* What one list adds is least for its last chunk, most for its first.     *)
LEMMA ShareOf ==
    ASSUME NEW s \in Seq(Chunk), Len(s) <= RetrieveK, NEW c
    PROVE  /\ Share(s, c) \in Nat
           /\ c \notin ToSet(s) => Share(s, c) = 0
           /\ Share(s, c) <= Unit \div RrfK
           /\ c \in ToSet(s) => Unit \div (RrfK + RetrieveK - 1) <= Share(s, c)
<1> USE FusionAssumption
<1>1. \A r \in 0 .. RetrieveK - 1 : RrfK + r \in Nat \ {0} /\ Unit % (RrfK + r) = 0
  OBVIOUS
<1>2. 0 \in 0 .. RetrieveK - 1 /\ RetrieveK - 1 \in 0 .. RetrieveK - 1 /\ RrfK + 0 = RrfK
      /\ RrfK + (RetrieveK - 1) = RrfK + RetrieveK - 1
  OBVIOUS
<1>3. CASE c \in ToSet(s)
  <2>1. Rank(s, c) \in 0 .. RetrieveK - 1
    BY <1>3, RankOf
  <2>2. Share(s, c) = Unit \div (RrfK + Rank(s, c))
    BY <1>3 DEF Share
  <2>3. PICK r \in 0 .. RetrieveK - 1 : r = Rank(s, c)
    BY <2>1
  <2>4. /\ RrfK + r \in Nat \ {0} /\ RrfK + 0 <= RrfK + r
        /\ RrfK + r <= RrfK + (RetrieveK - 1)
    BY <1>1
  <2>5. Unit \div (RrfK + r) \in Nat /\ Unit \div (RrfK + r) <= Unit \div (RrfK + 0)
    BY <1>1, <1>2, <2>4, Quotients
  <2>6. Unit \div (RrfK + (RetrieveK - 1)) <= Unit \div (RrfK + r)
    BY <1>1, <1>2, <2>4, Quotients
  <2>7. QED
    BY <1>2, <1>3, <2>2, <2>3, <2>5, <2>6
<1>4. CASE c \notin ToSet(s)
  <2>1. Unit \div RrfK \in Nat
    <3>1. \A u \in Nat, k \in Nat \ {0} : u \div k \in Nat
      OBVIOUS
    <3>2. QED
      BY <3>1
  <2>2. QED
    BY <1>4, <2>1 DEF Share
<1>5. QED
  BY <1>3, <1>4

(* A chunk of both lists outscores one of a single list, when the lists    *)
(* are no longer than RrfK.                                                *)
LEMMA BothOutscore ==
    ASSUME RetrieveK <= RrfK,
           NEW d \in Seq(Chunk), Len(d) <= RetrieveK,
           NEW l \in Seq(Chunk), Len(l) <= RetrieveK,
           NEW b \in ToSet(d) \cap ToSet(l), NEW c, c \notin ToSet(d) \cap ToSet(l)
    PROVE  FusedScore(d, l, b) > FusedScore(d, l, c)
<1> DEFINE least == Unit \div (RrfK + RetrieveK - 1)
           most == Unit \div RrfK
<1>1. least \in Nat /\ most \in Nat /\ most < 2 * least
  <2> USE FusionAssumption
  <2>1. /\ RrfK \in Nat \ {0} /\ RrfK + RetrieveK - 1 \in Nat \ {0}
        /\ RrfK <= RrfK + RetrieveK - 1 /\ RrfK + RetrieveK - 1 < 2 * RrfK
        /\ Unit \in Nat /\ Unit > 0
    OBVIOUS
  <2>2. 0 \in 0 .. RetrieveK - 1 /\ RetrieveK - 1 \in 0 .. RetrieveK - 1
    OBVIOUS
  <2>3. Unit % (RrfK + 0) = 0 /\ Unit % (RrfK + (RetrieveK - 1)) = 0
    BY <2>2
  <2>4. RrfK + 0 = RrfK /\ RrfK + (RetrieveK - 1) = RrfK + RetrieveK - 1
    OBVIOUS
  <2>5. Unit % RrfK = 0 /\ Unit % (RrfK + RetrieveK - 1) = 0
    BY <2>3, <2>4
  <2>6. QED
    BY <2>1, <2>5, Quotients
<1>2. least <= Share(d, b) /\ least <= Share(l, b) /\ Share(d, b) \in Nat /\ Share(l, b) \in Nat
  BY ShareOf
<1>3. /\ Share(d, c) \in Nat /\ Share(l, c) \in Nat
      /\ Share(d, c) <= most /\ Share(l, c) <= most
      /\ Share(d, c) = 0 \/ Share(l, c) = 0
  BY ShareOf
<1>4. Share(d, b) + Share(l, b) > Share(d, c) + Share(l, c)
  <2> HIDE DEF least, most
  <2>1. QED
    BY <1>1, <1>2, <1>3
<1>5. QED
  BY <1>4 DEF FusedScore

(* The chunks of two lists enter the dict one after the other.             *)
LEMMA EncounterApart ==
    ASSUME NEW d \in Seq(Chunk), NEW l \in Seq(Chunk)
    PROVE  /\ \A c \in Found(d, l) : Encounter(d, l, c) \in Nat
           /\ \A b, c \in Found(d, l) :
                 Encounter(d, l, b) = Encounter(d, l, c) => b = c
<1>1. ASSUME NEW c \in Found(d, l)
      PROVE  \/ /\ c \in ToSet(d) /\ Encounter(d, l, c) = Rank(d, c)
                /\ Rank(d, c) \in 0 .. Len(d) - 1 /\ d[Rank(d, c) + 1] = c
             \/ /\ c \notin ToSet(d) /\ Encounter(d, l, c) = Len(d) + Rank(l, c)
                /\ Rank(l, c) \in 0 .. Len(l) - 1 /\ l[Rank(l, c) + 1] = c
  BY RankOf DEF Found, Encounter
<1>2. Len(d) \in Nat /\ Len(l) \in Nat
  OBVIOUS
<1>3. \A c \in Found(d, l) : Encounter(d, l, c) \in Nat
  BY <1>1, <1>2
<1>4. ASSUME NEW b \in Found(d, l), NEW c \in Found(d, l),
             Encounter(d, l, b) = Encounter(d, l, c)
      PROVE  b = c
  <2>1. CASE b \in ToSet(d) /\ c \in ToSet(d)
    BY <1>1, <1>4, <2>1
  <2>2. CASE b \notin ToSet(d) /\ c \notin ToSet(d)
    <3>1. /\ Len(d) + Rank(l, b) = Len(d) + Rank(l, c)
          /\ Rank(l, b) \in Int /\ Rank(l, c) \in Int
      BY <1>1, <1>4, <2>2
    <3>2. Rank(l, b) = Rank(l, c)
      BY <1>2, <3>1
    <3>3. QED
      BY <1>1, <2>2, <3>2
  <2>3. CASE b \in ToSet(d) /\ c \notin ToSet(d)
    <3>1. Rank(d, b) <= Len(d) - 1 /\ Rank(d, b) \in Int /\ Rank(l, c) \in Nat
      BY <1>1, <1>2, <2>3
    <3>2. Rank(d, b) = Len(d) + Rank(l, c)
      BY <1>1, <1>4, <2>3
    <3>3. QED
      BY <1>2, <3>1, <3>2
  <2>4. CASE b \notin ToSet(d) /\ c \in ToSet(d)
    <3>1. Rank(d, c) <= Len(d) - 1 /\ Rank(d, c) \in Int /\ Rank(l, b) \in Nat
      BY <1>1, <1>2, <2>4
    <3>2. Rank(d, c) = Len(d) + Rank(l, b)
      BY <1>1, <1>4, <2>4
    <3>3. QED
      BY <1>2, <3>1, <3>2
  <2>5. QED
    BY <2>1, <2>2, <2>3, <2>4
<1>5. QED
  BY <1>3, <1>4

(* Score, then the place of encounter, puts all that was found in order.   *)
LEMMA PrecedenceOrders ==
    ASSUME NEW d \in Seq(Chunk), Len(d) <= RetrieveK,
           NEW l \in Seq(Chunk), Len(l) <= RetrieveK
    PROVE  Orders(Precedence(d, l), Found(d, l))
<1> DEFINE score(c) == FusedScore(d, l, c)
           place(c) == Encounter(d, l, c)
<1>1. \A c \in Found(d, l) : score(c) \in Int
  BY ShareOf DEF FusedScore
<1>2. \A c \in Found(d, l) : place(c) \in Int
  BY EncounterApart
<1>3. \A b, c \in Found(d, l) : place(b) = place(c) => b = c
  BY EncounterApart
<1>4. \A b, c \in Found(d, l) :
         <<b, c>> \in Precedence(d, l) <=>
            score(b) > score(c) \/ (score(b) = score(c) /\ place(b) < place(c))
  BY DEF Precedence
<1> HIDE DEF score, place
<1>5. QED
  BY <1>1, <1>2, <1>3, <1>4 DEF Orders

(* What was found is finitely many chunks.                                 *)
LEMMA FoundFinite ==
    ASSUME NEW d \in Seq(Chunk), NEW l \in Seq(Chunk)
    PROVE  IsFiniteSet(Found(d, l)) /\ Found(d, l) \subseteq Chunk
<1>1. ASSUME NEW s \in Seq(Chunk)
      PROVE  IsFiniteSet(ToSet(s)) /\ ToSet(s) \subseteq Chunk
  <2>1. s \in [1 .. Len(s) -> Chunk] /\ Len(s) \in Nat /\ DOMAIN s = 1 .. Len(s)
    OBVIOUS
  <2>2. s \in Surjection(1 .. Len(s), ToSet(s))
    BY <2>1, Fun_IsSurj DEF ToSet
  <2>3. IsFiniteSet(1 .. Len(s))
    BY <2>1, FS_Interval
  <2>4. QED
    BY <2>1, <2>2, <2>3, FS_Surjection DEF ToSet
<1>2. QED
  BY <1>1, FS_Union DEF Found

(* The fused list: what either search found, each once; a chunk of both    *)
(* stands before every one of a single list.                               *)
LEMMA FusionLists ==
    ASSUME NEW d \in Seq(Chunk), Len(d) <= RetrieveK,
           NEW l \in Seq(Chunk), Len(l) <= RetrieveK
    PROVE  LET fused == ReciprocalRankFusion(d, l)
           IN  /\ fused \in Seq(Chunk)
               /\ \A i, j \in DOMAIN fused : i # j => fused[i] # fused[j]
               /\ \A c \in Found(d, l) : \E i \in DOMAIN fused : fused[i] = c
               /\ \A i \in DOMAIN fused : fused[i] \in Found(d, l)
               /\ \A i, j \in DOMAIN fused :
                     FusedScore(d, l, fused[i]) > FusedScore(d, l, fused[j]) => i < j
<1> DEFINE S == Found(d, l)
           R == Precedence(d, l)
           n == Cardinality(S)
           fused == ReciprocalRankFusion(d, l)
<1>1. IsFiniteSet(S) /\ S \subseteq Chunk
  BY FoundFinite
<1>2. Orders(R, S)
  BY PrecedenceOrders
<1>3. fused = InOrder(S, R)
  BY DEF ReciprocalRankFusion
<1>4. /\ n \in Nat /\ fused \in [1 .. n -> S]
      /\ \A c \in S : \E k \in 1 .. n : fused[k] = c
  BY <1>1, <1>2, <1>3, InOrderLists, SMTT(30)
<1>5. ASSUME NEW j \in 1 .. n, NEW k \in 1 .. n, j < k
      PROVE  <<fused[j], fused[k]>> \in R /\ fused[j] # fused[k]
  BY <1>1, <1>2, <1>3, <1>5, InOrderLists
<1>6. DOMAIN fused = 1 .. n
  BY <1>4
<1>7. fused \in Seq(Chunk)
  BY <1>1, <1>4
<1>8. ASSUME NEW i \in DOMAIN fused, NEW j \in DOMAIN fused, i # j
      PROVE  fused[i] # fused[j]
  <2> HIDE DEF fused, n
  <2>1. i \in 1 .. n /\ j \in 1 .. n /\ (i < j \/ j < i)
    BY <1>4, <1>6, <1>8
  <2>2. QED
    BY <1>5, <2>1
<1>9. \A b, c \in S : <<b, c>> \in R => FusedScore(d, l, b) >= FusedScore(d, l, c)
  <2>1. \A c \in S : FusedScore(d, l, c) \in Int
    BY ShareOf DEF FusedScore
  <2>2. QED
    BY <2>1 DEF Precedence
<1>10. ASSUME NEW i \in DOMAIN fused, NEW j \in DOMAIN fused,
              FusedScore(d, l, fused[i]) > FusedScore(d, l, fused[j])
       PROVE  i < j
  <2>1. fused[i] \in S /\ fused[j] \in S
    BY <1>4, <1>6
  <2>2. FusedScore(d, l, fused[i]) \in Int /\ FusedScore(d, l, fused[j]) \in Int
    BY <2>1, ShareOf DEF FusedScore
  <2>3. i # j
    BY <1>10, <2>2
  <2>4. ASSUME j < i PROVE FALSE
    <3>1. <<fused[j], fused[i]>> \in R
      BY <1>5, <1>6, <2>4
    <3>2. FusedScore(d, l, fused[j]) >= FusedScore(d, l, fused[i])
      BY <1>9, <2>1, <3>1
    <3>3. QED
      BY <1>10, <2>2, <3>2
  <2>5. QED
    BY <1>4, <1>6, <2>3, <2>4
<1>11. QED
  BY <1>4, <1>6, <1>7, <1>8, <1>10

-----------------------------------------------------------------------------
(***************************************************************************)
(* Texts.                                                                  *)
(***************************************************************************)

(* A finite set of numbers has a least and a greatest member.              *)
LEMMA Extremes ==
    ASSUME NEW P \in SUBSET Int, IsFiniteSet(P), P # {}
    PROVE  /\ \E m \in P : \A k \in P : m <= k
           /\ \E m \in P : \A k \in P : k <= m
<1> DEFINE n == Cardinality(P)
           s == Ascending(P)
<1>1. /\ n \in Nat /\ s \in [1 .. n -> P]
      /\ \A i \in P : \E k \in 1 .. n : s[k] = i
      /\ \A j, k \in 1 .. n : j < k => s[j] < s[k]
  BY AscendingLists
<1> HIDE DEF n, s
<1>2. 1 \in 1 .. n /\ n \in 1 .. n
  <2>1. PICK i \in P : TRUE
    OBVIOUS
  <2>2. PICK k \in 1 .. n : s[k] = i
    BY <1>1
  <2>3. QED
    BY <1>1, <2>2
<1>3. \A j \in 1 .. n : s[j] \in Int
  BY <1>1
<1>4. \A j \in 1 .. n : s[1] <= s[j] /\ s[j] <= s[n]
  <2> SUFFICES ASSUME NEW j \in 1 .. n PROVE s[1] <= s[j] /\ s[j] <= s[n]
    OBVIOUS
  <2>1. j = 1 \/ 1 < j
    BY <1>1
  <2>2. j = n \/ j < n
    BY <1>1
  <2>3. s[1] <= s[j]
    BY <1>1, <1>2, <1>3, <2>1
  <2>4. s[j] <= s[n]
    BY <1>1, <1>2, <1>3, <2>2
  <2>5. QED
    BY <2>3, <2>4
<1>5. \A k \in P : s[1] <= k /\ k <= s[n]
  BY <1>1, <1>4
<1>6. s[1] \in P /\ s[n] \in P
  BY <1>1, <1>2
<1>7. QED
  BY <1>5, <1>6

(* Of the lengths that fail, one is the least.                             *)
LEMMA LeastFailure ==
    ASSUME NEW n \in Nat, NEW P \in SUBSET (1 .. n), P # {}
    PROVE  \E m \in P : \A k \in 1 .. m - 1 : k \notin P
<1>1. IsFiniteSet(1 .. n)
  BY FS_Interval
<1>2. IsFiniteSet(P) /\ P \in SUBSET Int
  <2>1. IsFiniteSet(P)
    BY <1>1, FS_Subset
  <2>2. QED
    BY <2>1
<1>3. PICK m \in P : \A k \in P : m <= k
  BY <1>2, Extremes
<1>4. QED
  BY <1>3

(* The texts joined so far, text by text.                                  *)
Joins(f, ss) ==
    f = [i \in 1 .. Len(ss) |-> IF i = 1 THEN ss[i] ELSE f[i - 1] \o ss[i]]

(* What joins texts one after the other is texts.                          *)
LEMMA JoinsTyped ==
    ASSUME NEW S, NEW ss \in Seq(Seq(S)), NEW f, Joins(f, ss)
    PROVE  f \in [1 .. Len(ss) -> Seq(S)]
<1> DEFINE n == Len(ss)
           P == {i \in 1 .. n : f[i] \notin Seq(S)}
<1>1. n \in Nat /\ \A i \in 1 .. n : ss[i] \in Seq(S)
  OBVIOUS
<1>2. /\ DOMAIN f = 1 .. n /\ f = [i \in 1 .. n |-> f[i]]
      /\ \A i \in 1 .. n : f[i] = IF i = 1 THEN ss[i] ELSE f[i - 1] \o ss[i]
  BY DEF Joins
<1>3. ASSUME P # {} PROVE FALSE
  <2>1. P \in SUBSET (1 .. n)
    OBVIOUS
  <2>2. PICK m \in P : \A k \in 1 .. m - 1 : k \notin P
    BY <1>1, <1>3, <2>1, LeastFailure
  <2>3. m \in 1 .. n /\ f[m] \notin Seq(S)
    OBVIOUS
  <2>4. CASE m = 1
    BY <1>1, <1>2, <2>3, <2>4
  <2>5. CASE m # 1
    <3>1. m - 1 \in 1 .. n /\ m - 1 \in 1 .. m - 1
      BY <1>1, <2>3, <2>5
    <3>2. f[m - 1] \in Seq(S)
      BY <2>2, <3>1
    <3>3. f[m - 1] \o ss[m] \in Seq(S)
      BY <1>1, <2>3, <3>2, ConcatProperties
    <3>4. QED
      BY <1>2, <2>3, <2>5, <3>3
  <2>6. QED
    BY <2>4, <2>5
<1>4. \A i \in 1 .. n : f[i] \in Seq(S)
  BY <1>3
<1> HIDE DEF n
<1>5. QED
  BY <1>2, <1>4 DEF n

(* Every list of texts is joined by some function.                         *)
LEMMA JoinsExist ==
    ASSUME NEW S, NEW ss \in Seq(Seq(S))
    PROVE  \E f : Joins(f, ss)
<1> DEFINE n == Len(ss)
           Upto(f, m) == f \in [1 .. m -> Seq(S)] /\
                         \A i \in 1 .. m : f[i] = IF i = 1 THEN ss[i] ELSE f[i - 1] \o ss[i]
           P == {m \in 1 .. n : ~\E f \in [1 .. m -> Seq(S)] : Upto(f, m)}
<1>1. n \in Nat /\ \A i \in 1 .. n : ss[i] \in Seq(S)
  OBVIOUS
<1>2. ASSUME P # {} PROVE FALSE
  <2>1. P \in SUBSET (1 .. n)
    OBVIOUS
  <2>2. PICK m \in P : \A k \in 1 .. m - 1 : k \notin P
    BY <1>1, <1>2, <2>1, LeastFailure
  <2>3. m \in 1 .. n
    OBVIOUS
  <2>4. ASSUME m = 1 PROVE FALSE
    <3> DEFINE g == [i \in 1 .. 1 |-> ss[i]]
    <3>1. g \in [1 .. m -> Seq(S)] /\ Upto(g, m)
      BY <1>1, <2>3, <2>4
    <3>2. QED
      BY <3>1
  <2>5. ASSUME m # 1 PROVE FALSE
    <3>1. m - 1 \in 1 .. n /\ m - 1 \in 1 .. m - 1
      BY <1>1, <2>3, <2>5
    <3>2. PICK f \in [1 .. m - 1 -> Seq(S)] : Upto(f, m - 1)
      BY <2>2, <3>1
    <3>3. f[m - 1] \o ss[m] \in Seq(S)
      BY <1>1, <2>3, <3>1, <3>2, ConcatProperties
    <3> DEFINE g == [x \in 1 .. m |-> IF x = m THEN f[m - 1] \o ss[m] ELSE f[x]]
    <3>4. g \in [1 .. m -> Seq(S)]
      BY <2>3, <3>1, <3>2, <3>3
    <3>5. ASSUME NEW i \in 1 .. m
          PROVE  g[i] = IF i = 1 THEN ss[i] ELSE g[i - 1] \o ss[i]
      <4>1. CASE i = m
        <5>1. m - 1 # m /\ m - 1 \in 1 .. m
          BY <2>3, <3>1
        <5>2. g[m] = f[m - 1] \o ss[m] /\ g[m - 1] = f[m - 1]
          <6> DEFINE e == f[m - 1] \o ss[m]
          <6>1. g = [x \in 1 .. m |-> IF x = m THEN e ELSE f[x]]
            OBVIOUS
          <6>2. m \in 1 .. m
            BY <2>3
          <6> HIDE DEF e, g
          <6>3. QED
            BY <5>1, <6>1, <6>2 DEF e
        <5>3. QED
          BY <2>5, <4>1, <5>2
      <4>2. CASE i # m
        <5>1. i \in 1 .. m - 1 /\ (i # 1 => i - 1 \in 1 .. m /\ i - 1 # m)
          BY <2>3, <4>2
        <5>2. g[i] = f[i] /\ (i # 1 => g[i - 1] = f[i - 1])
          BY <4>2, <5>1
        <5>3. QED
          BY <3>2, <5>1, <5>2
      <4>3. QED
        BY <4>1, <4>2
    <3> HIDE DEF g
    <3>6. Upto(g, m)
      BY <3>4, <3>5
    <3>7. QED
      BY <3>4, <3>6
  <2>6. QED
    BY <2>4, <2>5
<1>3. CASE n = 0
  <2>1. Joins(<<>>, ss)
    BY <1>3 DEF Joins
  <2>2. QED
    BY <2>1
<1>4. CASE n # 0
  <2>1. n \in 1 .. n
    BY <1>1, <1>4
  <2>2. PICK f \in [1 .. n -> Seq(S)] : Upto(f, n)
    BY <1>2, <2>1
  <2>3. f = [i \in 1 .. n |-> IF i = 1 THEN ss[i] ELSE f[i - 1] \o ss[i]]
    BY <2>2
  <2>4. QED
    BY <2>3 DEF Joins
<1>5. QED
  BY <1>3, <1>4

(* FlattenSeq is the last of the joins, and a sequence of what the texts   *)
(* are made of.                                                            *)
LEMMA FlattenJoins ==
    ASSUME NEW S, NEW ss \in Seq(Seq(S))
    PROVE  /\ FlattenSeq(ss) \in Seq(S)
           /\ ss # <<>> => \E f : Joins(f, ss) /\ FlattenSeq(ss) = f[Len(ss)]
<1> DEFINE flatten == CHOOSE f : Joins(f, ss)
<1>1. Joins(flatten, ss)
  BY JoinsExist
<1>2. FlattenSeq(ss) = IF Len(ss) = 0 THEN ss ELSE flatten[Len(ss)]
  BY DEF FlattenSeq, Joins
<1> HIDE DEF flatten
<1>3. flatten \in [1 .. Len(ss) -> Seq(S)]
  BY <1>1, JoinsTyped
<1>4. Len(ss) \in Nat /\ (Len(ss) = 0 <=> ss = <<>>)
  BY EmptySeq
<1>5. CASE ss = <<>>
  BY <1>2, <1>4, <1>5
<1>6. CASE ss # <<>>
  <2>1. Len(ss) \in 1 .. Len(ss)
    BY <1>4, <1>6
  <2>2. FlattenSeq(ss) = flatten[Len(ss)]
    BY <1>2, <1>4, <1>6
  <2>3. QED
    BY <1>1, <1>3, <2>1, <2>2
<1>7. QED
  BY <1>5, <1>6

(* Strip leaves a text of what it was made of.                             *)
LEMMA StripTyped ==
    ASSUME NEW S, NEW s \in Seq(S)
    PROVE  Strip(s) \in Seq(S)
<1> DEFINE solid == {i \in DOMAIN s : s[i] # Blank}
           first == CHOOSE i \in solid : \A j \in solid : i <= j
           last == CHOOSE i \in solid : \A j \in solid : i >= j
<1>1. Strip(s) = IF solid = {} THEN <<>> ELSE SubSeq(s, first, last)
  BY DEF Strip
<1>2. CASE solid = {}
  BY <1>1, <1>2
<1>3. CASE solid # {}
  <2>1. DOMAIN s = 1 .. Len(s) /\ Len(s) \in Nat
    OBVIOUS
  <2>2. solid \in SUBSET (1 .. Len(s))
    BY <2>1
  <2>3. IsFiniteSet(solid) /\ solid \in SUBSET Int
    <3>1. IsFiniteSet(1 .. Len(s))
      BY <2>1, FS_Interval
    <3>2. QED
      BY <2>2, <3>1, FS_Subset
  <2> HIDE DEF solid
  <2>4. /\ \E m \in solid : \A k \in solid : m <= k
        /\ \E m \in solid : \A k \in solid : k <= m
    BY <1>3, <2>3, Extremes
  <2>5. \E m \in solid : \A k \in solid : m >= k
    BY <2>3, <2>4
  <2>6. first \in solid /\ last \in solid
    BY <2>4, <2>5
  <2> HIDE DEF first, last
  <2>7. first \in 1 .. Len(s) /\ last \in 1 .. Len(s)
    BY <2>2, <2>6
  <2>8. SubSeq(s, first, last) \in Seq(S)
    BY <2>7, SubSeqProperties
  <2>9. QED
    BY <1>1, <1>3, <2>8
<1>4. QED
  BY <1>2, <1>3

(* What texts are made of.                                                 *)
Atoms == {Atom("word"), Blank, Atom("nothing"), Atom("found")} \cup {Marker(n) : n \in 0 .. MaxMarker}

Streamable == Fragment \cup ToSet(RefusalFragments)

(* Texts of one, two and three members.                                    *)
LEMMA ShortTexts ==
    ASSUME NEW T, NEW a \in T, NEW b \in T, NEW c \in T
    PROVE  /\ <<a>> \in Seq(T)
           /\ <<a, b>> \in Seq(T) /\ Len(<<a, b>>) = 2
           /\ <<a, b>>[1] = a /\ <<a, b>>[2] = b
           /\ <<a, b, c>> \in Seq(T) /\ Len(<<a, b, c>>) = 3
           /\ <<a, b, c>>[1] = a /\ <<a, b, c>>[2] = b /\ <<a, b, c>>[3] = c
OBVIOUS

(* The two fragments of the refusal.                                       *)
LEMMA RefusalIs ==
    /\ Len(RefusalFragments) = 2 /\ DOMAIN RefusalFragments = {1, 2}
    /\ RefusalFragments[1] = <<Atom("nothing"), Blank>>
    /\ RefusalFragments[2] = <<Atom("found"), Blank>>
    /\ RefusalFragments[1] \in Streamable /\ RefusalFragments[2] \in Streamable
<1>1. /\ Len(RefusalFragments) = 2 /\ DOMAIN RefusalFragments = {1, 2}
      /\ RefusalFragments[1] = <<Atom("nothing"), Blank>>
      /\ RefusalFragments[2] = <<Atom("found"), Blank>>
  BY DEF RefusalFragments
<1>2. RefusalFragments[1] \in ToSet(RefusalFragments) /\ RefusalFragments[2] \in ToSet(RefusalFragments)
  BY <1>1 DEF ToSet
<1>3. QED
  BY <1>1, <1>2 DEF Streamable

(* Fragments are texts.                                                    *)
LEMMA StreamableTyped == Streamable \subseteq Seq(Atoms)
<1>1. ASSUME NEW f \in Fragment PROVE f \in Seq(Atoms)
  <2>1. /\ Atom("word") \in Atoms /\ Blank \in Atoms /\ Atom("nothing") \in Atoms
        /\ Atom("found") \in Atoms /\ \A n \in 0 .. MaxMarker : Marker(n) \in Atoms
    BY DEF Atoms
  <2>2. /\ <<Atom("word")>> \in Seq(Atoms) /\ <<Blank>> \in Seq(Atoms)
        /\ <<Atom("nothing")>> \in Seq(Atoms)
    BY <2>1, ShortTexts
  <2>3. <<Blank, Atom("found")>> \in Seq(Atoms)
    BY <2>1, ShortTexts
  <2>4. \A n \in 0 .. MaxMarker : <<Marker(n)>> \in Seq(Atoms)
    BY <2>1, ShortTexts
  <2>5. QED
    BY <2>2, <2>3, <2>4 DEF Fragment
<1>2. ASSUME NEW f \in ToSet(RefusalFragments) PROVE f \in Seq(Atoms)
  <2>1. f = <<Atom("nothing"), Blank>> \/ f = <<Atom("found"), Blank>>
    BY <1>2, RefusalIs DEF ToSet
  <2>2. Atom("nothing") \in Atoms /\ Atom("found") \in Atoms /\ Blank \in Atoms
    BY DEF Atoms
  <2>3. <<Atom("nothing"), Blank>> \in Seq(Atoms) /\ <<Atom("found"), Blank>> \in Seq(Atoms)
    BY <2>2, ShortTexts
  <2>4. QED
    BY <2>1, <2>3
<1>3. QED
  BY <1>1, <1>2 DEF Streamable

(* An atom of the kind of a marker is one.                                 *)
LEMMA AtomKinds ==
    /\ \A a \in Atoms : a.kind = "marker" => a = Marker(a.marker)
    /\ \A n : Marker(n).kind = "marker" /\ Marker(n).marker = n
    /\ Atom("nothing") # Blank /\ Atom("found") # Blank
BY DEF Atoms, Atom, Marker, Blank

(* The two fragments of the refusal, joined and stripped, are the message. *)
LEMMA RefusalJoined == Strip(FlattenSeq(RefusalFragments)) = NotFoundMessage
<1> DEFINE ss == RefusalFragments
           a == <<Atom("nothing"), Blank>>
           b == <<Atom("found"), Blank>>
           x == a \o b
<1>1. a \in Seq(Atoms) /\ b \in Seq(Atoms) /\ Len(a) = 2 /\ Len(b) = 2
      /\ a[1] = Atom("nothing") /\ a[2] = Blank /\ b[1] = Atom("found") /\ b[2] = Blank
  <2>1. Atom("nothing") \in Atoms /\ Atom("found") \in Atoms /\ Blank \in Atoms
    BY DEF Atoms
  <2>2. QED
    BY <2>1, ShortTexts
<1>2. ss \in Seq(Seq(Atoms)) /\ ss # <<>> /\ Len(ss) = 2 /\ ss[1] = a /\ ss[2] = b
  BY <1>1, RefusalIs DEF RefusalFragments
<1> HIDE DEF ss, a, b
<1>3. FlattenSeq(ss) = x
  <2>1. PICK f : Joins(f, ss) /\ FlattenSeq(ss) = f[Len(ss)]
    BY <1>2, FlattenJoins
  <2>2. f = [i \in 1 .. 2 |-> IF i = 1 THEN ss[i] ELSE f[i - 1] \o ss[i]]
    BY <1>2, <2>1 DEF Joins
  <2>3. f[1] = ss[1] /\ f[2] = f[1] \o ss[2]
    <3> DEFINE e(i) == IF i = 1 THEN ss[i] ELSE f[i - 1] \o ss[i]
    <3>1. \A i \in 1 .. 2 : f[i] = e(i)
      BY <2>2
    <3>2. e(1) = ss[1] /\ e(2) = f[2 - 1] \o ss[2]
      OBVIOUS
    <3>3. 1 \in 1 .. 2 /\ 2 \in 1 .. 2 /\ 2 - 1 = 1
      OBVIOUS
    <3> HIDE DEF e
    <3>4. f[1] = e(1) /\ f[2] = e(2)
      BY <3>1, <3>3
    <3>5. QED
      BY <3>2, <3>3, <3>4
  <2>4. QED
    BY <1>2, <2>1, <2>3
<1>4. /\ x \in Seq(Atoms) /\ Len(x) = 4
      /\ x[1] = Atom("nothing") /\ x[2] = Blank /\ x[3] = Atom("found") /\ x[4] = Blank
  <2>1. /\ x \in Seq(Atoms) /\ Len(x) = 2 + 2
        /\ \A i \in 1 .. 2 + 2 : x[i] = IF i <= 2 THEN a[i] ELSE b[i - 2]
    <3>1. /\ x \in Seq(Atoms) /\ Len(x) = Len(a) + Len(b)
          /\ \A i \in 1 .. Len(a) + Len(b) : x[i] = IF i <= Len(a) THEN a[i] ELSE b[i - Len(a)]
      <4>1. a \in Seq(Atoms) /\ b \in Seq(Atoms)
        BY <1>1
      <4>2. QED
        BY ONLY <4>1, ConcatProperties
    <3> HIDE DEF x
    <3>2. Len(a) = 2 /\ Len(b) = 2
      BY <1>1
    <3>3. QED
      BY ONLY <3>1, <3>2
  <2> HIDE DEF x
  <2>2. 2 + 2 = 4
    OBVIOUS
  <2>3. x[1] = a[1] /\ x[2] = a[2] /\ x[3] = b[1] /\ x[4] = b[2]
    BY <2>1
  <2>4. QED
    BY <1>1, <2>1, <2>2, <2>3
<1> HIDE DEF x
<1> DEFINE solid == {i \in DOMAIN x : x[i] # Blank}
           first == CHOOSE i \in solid : \A j \in solid : i <= j
           last == CHOOSE i \in solid : \A j \in solid : i >= j
<1>5. solid = {1, 3}
  <2>1. DOMAIN x = {1, 2, 3, 4}
    BY <1>4
  <2>2. QED
    BY <1>4, <2>1, AtomKinds
<1>6. Strip(x) = SubSeq(x, first, last)
  BY <1>5 DEF Strip
<1> HIDE DEF solid
<1>7. first = 1 /\ last = 3
  BY <1>5
<1>8. SubSeq(x, 1, 3) = NotFoundMessage
  <2> DEFINE s == SubSeq(x, 1, 3)
             m == NotFoundMessage
  <2>1. s \in Seq(Atoms) /\ Len(s) = 3 /\ \A i \in 1 .. 3 : s[i] = x[i]
    <3>1. \A i \in 1 .. 3 : x[i] \in Atoms
      <4>1. \A i \in 1 .. 3 : i \in 1 .. Len(x)
        BY <1>4
      <4>2. \A i \in 1 .. Len(x) : x[i] \in Atoms
        BY <1>4, ElementOfSeq
      <4>3. QED
        BY <4>1, <4>2
    <3>2. /\ s \in Seq(Atoms) /\ Len(s) = 3 - 1 + 1
          /\ \A i \in 1 .. 3 - 1 + 1 : s[i] = x[1 + i - 1]
      BY <3>1, SubSeqProperties
    <3> HIDE DEF s
    <3>3. QED
      BY <3>2
  <2>2. /\ m \in Seq(Atoms) /\ Len(m) = 3
        /\ m[1] = Atom("nothing") /\ m[2] = Blank /\ m[3] = Atom("found")
    <3>1. Atom("nothing") \in Atoms /\ Atom("found") \in Atoms /\ Blank \in Atoms
      BY DEF Atoms
    <3>2. QED
      BY <3>1, ShortTexts DEF NotFoundMessage
  <2> HIDE DEF s, m
  <2>3. \A i \in 1 .. 3 : s[i] = m[i]
    BY <1>4, <2>1, <2>2
  <2>4. s = m
    BY <2>1, <2>2, <2>3, SeqEqual
  <2>5. QED
    BY <2>4 DEF s, m
<1> HIDE DEF first, last
<1>9. QED
  BY <1>3, <1>6, <1>7, <1>8 DEF ss

(* The joined text of what was streamed.                                   *)
LEMMA JoinedTyped ==
    ASSUME parts \in Seq(Streamable) PROVE Joined \in Seq(Atoms)
<1>1. parts \in Seq(Seq(Atoms))
  BY StreamableTyped
<1>2. FlattenSeq(parts) \in Seq(Atoms)
  BY <1>1, FlattenJoins
<1>3. QED
  BY <1>2, StripTyped DEF Joined

-----------------------------------------------------------------------------
(***************************************************************************)
(* Citations.                                                              *)
(***************************************************************************)

CitationSet == [kind : {"citation"}, marker : Nat, chunk : Chunk]

(* Where a marker first occurs.                                            *)
FirstAt(t, n) ==
    CHOOSE i \in DOMAIN t : t[i] = Marker(n) /\ \A j \in 1 .. i - 1 : t[j] # Marker(n)

(* Each citation is of a source of the prompt, and they come in the order  *)
(* in which their markers first occur.                                     *)
Bound(t, cs) ==
    /\ \A k \in DOMAIN cs : /\ cs[k].marker \in 1 .. Len(context)
                            /\ cs[k].chunk = context[cs[k].marker].chunk
    /\ \A j, k \in DOMAIN cs : j < k => FirstAt(t, cs[j].marker) < FirstAt(t, cs[k].marker)

(* What _bind_citations returns is bound to the prompt.                    *)
LEMMA CitationsBound ==
    ASSUME context \in Seq(ScoredChunk), NEW t \in Seq(Atoms)
    PROVE  BindCitations(t) \in Seq(CitationSet) /\ Bound(t, BindCitations(t))
<1> DEFINE P == {i \in DOMAIN t : /\ t[i].kind = "marker" /\ t[i].marker \in 1 .. Len(context)
                                  /\ IsFirst(t, i)}
           n == Cardinality(P)
           at == Ascending(P)
           markers == Sublist(t, P)
           cs == BindCitations(t)
<1>1. DOMAIN t = 1 .. Len(t) /\ Len(t) \in Nat
  OBVIOUS
<1>2. /\ IsFiniteSet(P) /\ n \in Nat /\ at \in [1 .. n -> P]
      /\ \A k \in 1 .. n : markers[k] = t[at[k]]
  <2>1. P \in SUBSET (DOMAIN t)
    OBVIOUS
  <2> HIDE DEF P
  <2>2. QED
    BY <2>1, SublistLists
<1>3. \A j, k \in 1 .. n : j < k => at[j] < at[k]
  <2>1. P \in SUBSET Int
    BY <1>1
  <2> HIDE DEF P
  <2>2. QED
    BY <1>2, <2>1, AscendingLists
<1>4. cs = [k \in 1 .. n |-> Citation(markers[k].marker, context[markers[k].marker].chunk)]
  BY DEF BindCitations, CitationsAt
<1>5. ASSUME NEW i \in P
      PROVE  /\ t[i].marker \in 1 .. Len(context) /\ t[i].marker \in Nat
             /\ context[t[i].marker].chunk \in Chunk
             /\ FirstAt(t, t[i].marker) = i
  <2>1. i \in 1 .. Len(t) /\ t[i].kind = "marker" /\ t[i].marker \in 1 .. Len(context) /\ IsFirst(t, i)
    BY <1>1
  <2>2. t[i] = Marker(t[i].marker)
    BY <2>1, AtomKinds
  <2>3. context[t[i].marker].chunk \in Chunk
    <3>1. PICK m \in 1 .. Len(context) : m = t[i].marker
      BY <2>1
    <3>2. context[m] \in ScoredChunk
      OBVIOUS
    <3>3. QED
      BY <3>1, <3>2 DEF ScoredChunk
  <2> DEFINE m == t[i].marker
             Is(x) == t[x] = Marker(m) /\ \A j \in 1 .. x - 1 : t[j] # Marker(m)
  <2>4. Is(i)
    BY <2>1, <2>2 DEF IsFirst
  <2>5. \A x \in 1 .. Len(t) : Is(x) => x = i
    <3> SUFFICES ASSUME NEW x \in 1 .. Len(t), Is(x), x # i PROVE FALSE
      OBVIOUS
    <3>1. x < i \/ i < x
      BY <2>1
    <3>2. x \in 1 .. i - 1 \/ i \in 1 .. x - 1
      BY <2>1, <3>1
    <3>3. QED
      BY <2>2, <2>4, <3>2
  <2>6. FirstAt(t, m) = CHOOSE x \in 1 .. Len(t) : Is(x)
    BY <1>1 DEF FirstAt
  <2> HIDE DEF m, Is
  <2>7. FirstAt(t, m) = i
    BY <2>1, <2>4, <2>5, <2>6
  <2>8. QED
    BY <2>1, <2>3, <2>7 DEF m
<1> HIDE DEF P, n, at, markers
<1>6. ASSUME NEW k \in 1 .. n
      PROVE  /\ cs[k] = Citation(t[at[k]].marker, context[t[at[k]].marker].chunk)
             /\ cs[k] \in CitationSet
             /\ cs[k].marker = t[at[k]].marker
             /\ cs[k].marker \in 1 .. Len(context)
             /\ cs[k].chunk = context[cs[k].marker].chunk
             /\ FirstAt(t, cs[k].marker) = at[k]
  <2>1. at[k] \in P /\ markers[k] = t[at[k]]
    BY <1>2
  <2>2. cs[k] = Citation(t[at[k]].marker, context[t[at[k]].marker].chunk)
    BY <1>4, <2>1
  <2> HIDE DEF cs
  <2>3. QED
    BY <1>5, <2>1, <2>2 DEF Citation, CitationSet
<1>7. cs \in [1 .. n -> CitationSet]
  <2>1. cs = [k \in 1 .. n |-> cs[k]]
    <3> DEFINE e(k) == Citation(markers[k].marker, context[markers[k].marker].chunk)
    <3>1. cs = [k \in 1 .. n |-> e(k)]
      BY <1>4
    <3> HIDE DEF e, cs
    <3>2. QED
      BY <3>1
  <2> HIDE DEF cs
  <2>2. QED
    BY <1>6, <2>1
<1> HIDE DEF cs
<1>8. cs \in Seq(CitationSet) /\ DOMAIN cs = 1 .. n
  BY <1>2, <1>7
<1>9. Bound(t, cs)
  BY <1>3, <1>6, <1>8 DEF Bound
<1>10. QED
  BY <1>8, <1>9 DEF cs

-----------------------------------------------------------------------------
(***************************************************************************)
(* The prompt.                                                             *)
(***************************************************************************)

(* The first members of a list.                                            *)
LEMMA PrefixOf ==
    ASSUME NEW T, NEW s \in Seq(T), NEW k \in Nat
    PROVE  /\ Prefix(s, k) \in Seq(T) /\ Len(Prefix(s, k)) <= Len(s) /\ Len(Prefix(s, k)) <= k
           /\ \A i \in 1 .. Len(Prefix(s, k)) : Prefix(s, k)[i] = s[i]
<1> DEFINE n == IF Len(s) < k THEN Len(s) ELSE k
           p == Prefix(s, k)
<1>1. n \in Nat /\ n <= Len(s) /\ n <= k /\ Len(s) \in Nat
  OBVIOUS
<1>2. p = SubSeq(s, 1, n)
  BY DEF Prefix
<1> HIDE DEF n, p
<1>3. \A i \in 1 .. n : s[i] \in T
  <2>1. \A i \in 1 .. n : i \in 1 .. Len(s)
    BY <1>1
  <2>2. QED
    BY <2>1, ElementOfSeq
<1>4. /\ p \in Seq(T) /\ Len(p) = (IF 1 <= n THEN n - 1 + 1 ELSE 0)
      /\ \A i \in 1 .. n - 1 + 1 : p[i] = s[1 + i - 1]
  BY <1>1, <1>2, <1>3, SubSeqProperties
<1>5. Len(p) = n
  BY <1>1, <1>4
<1>6. \A i \in 1 .. n : p[i] = s[i]
  BY <1>1, <1>4
<1>7. QED
  BY <1>1, <1>4, <1>5, <1>6 DEF p

(* The order of the prompt moves what it is given, and keeps all of it.    *)
LEMMA ArrangedOf ==
    ASSUME NEW T, NEW s \in Seq(T)
    PROVE  /\ ArrangeForEdges(s) \in Seq(T) /\ Len(ArrangeForEdges(s)) = Len(s)
           /\ \A i \in 1 .. Len(s) : \E j \in 1 .. Len(s) : ArrangeForEdges(s)[i] = s[j]
<1> DEFINE n == Len(s)
           from(i) == IF i <= (n + 1) \div 2 THEN 2 * i - 1 ELSE 2 * (n - i + 1)
           a == ArrangeForEdges(s)
<1>1. n \in Nat
  OBVIOUS
<1>2. ASSUME NEW i \in 1 .. n PROVE from(i) \in 1 .. n
  <2>1. (n + 1) \div 2 \in Int /\ 2 * ((n + 1) \div 2) <= n + 1 /\ n < 2 * ((n + 1) \div 2) + 1
    BY <1>1
  <2>2. CASE i <= (n + 1) \div 2
    BY <1>1, <2>1, <2>2
  <2>3. CASE i > (n + 1) \div 2
    BY <1>1, <2>1, <2>3
  <2>4. QED
    BY <1>1, <2>1, <2>2, <2>3
<1>3. a = [i \in 1 .. n |-> s[from(i)]]
  BY DEF ArrangeForEdges
<1> HIDE DEF from, a
<1>4. \A i \in 1 .. n : s[from(i)] \in T
  BY <1>2, ElementOfSeq
<1> HIDE DEF n
<1>5. a \in [1 .. n -> T]
  BY <1>3, <1>4
<1>6. a \in Seq(T) /\ Len(a) = n
  BY <1>1, <1>5
<1>7. \A i \in 1 .. n : a[i] = s[from(i)]
  BY <1>3
<1>8. QED
  BY <1>2, <1>6, <1>7 DEF a, n

(* What is kept of a reranking passes the threshold.                       *)
LEMMA KeptOf ==
    ASSUME NEW r \in Seq(ScoredChunk)
    PROVE  /\ Kept(r) \in Seq(ScoredChunk)
           /\ \A i \in DOMAIN Kept(r) : Kept(r)[i].score >= MinScore
<1> DEFINE P == {i \in DOMAIN r : r[i].score >= MinScore}
           s == Sublist(r, P)
<1>1. P \in SUBSET (DOMAIN r)
  OBVIOUS
<1>2. \A i \in P : r[i].score >= MinScore
  OBVIOUS
<1>3. Kept(r) = Prefix(s, ContextK)
  BY DEF Kept
<1> HIDE DEF P
<1>4. /\ Ascending(P) \in [1 .. Cardinality(P) -> P]
      /\ s \in Seq(ScoredChunk) /\ Len(s) = Cardinality(P)
      /\ \A k \in 1 .. Cardinality(P) : s[k] = r[Ascending(P)[k]]
  BY <1>1, SublistLists
<1> HIDE DEF s
<1>5. \A k \in 1 .. Len(s) : s[k].score >= MinScore
  BY <1>2, <1>4
<1>6. ContextK \in Nat
  BY QueryAssumption
<1>7. /\ Kept(r) \in Seq(ScoredChunk) /\ Len(Kept(r)) <= Len(s)
      /\ \A i \in 1 .. Len(Kept(r)) : Kept(r)[i] = s[i]
  <2>1. s \in Seq(ScoredChunk)
    BY <1>4
  <2>2. /\ Prefix(s, ContextK) \in Seq(ScoredChunk) /\ Len(Prefix(s, ContextK)) <= Len(s)
        /\ \A i \in 1 .. Len(Prefix(s, ContextK)) : Prefix(s, ContextK)[i] = s[i]
    BY ONLY <1>6, <2>1, PrefixOf
  <2>3. QED
    BY <1>3, <2>2, Zenon
<1>8. ASSUME NEW i \in DOMAIN Kept(r) PROVE Kept(r)[i].score >= MinScore
  <2>0. DOMAIN Kept(r) = 1 .. Len(Kept(r)) /\ Len(Kept(r)) \in Nat /\ Len(s) \in Nat
    BY <1>4, <1>7
  <2>1. i \in 1 .. Len(Kept(r)) /\ i \in 1 .. Len(s)
    BY <1>7, <2>0
  <2>2. QED
    BY <1>5, <1>7, <2>1
<1>9. QED
  BY <1>7, <1>8

(* What is kept of a reranking makes a prompt, unless nothing is.          *)
LEMMA PromptSourced ==
    ASSUME candidates \in Seq(Chunk), NEW r \in Rerankings(candidates)
    PROVE  /\ ArrangeForEdges(Kept(r)) \in Seq(ScoredChunk)
           /\ Kept(r) # <<>> => ArrangeForEdges(Kept(r)) # <<>>
           /\ \A i \in DOMAIN ArrangeForEdges(Kept(r)) :
                 ArrangeForEdges(Kept(r))[i].score >= MinScore
<1>1. PICK n \in 0 .. RerankK : r \in [1 .. n -> [chunk : ToSet(candidates), score : Score]]
  BY DEF Rerankings
<1>2. r \in Seq(ScoredChunk)
  <2>1. ToSet(candidates) \subseteq Chunk
    BY DEF ToSet
  <2>2. [chunk : ToSet(candidates), score : Score] \subseteq ScoredChunk
    BY <2>1 DEF ScoredChunk
  <2>3. r \in [1 .. n -> ScoredChunk] /\ n \in Nat
    BY <1>1, <2>2, QueryAssumption
  <2>4. QED
    BY <2>3
<1>3. /\ Kept(r) \in Seq(ScoredChunk)
      /\ \A i \in DOMAIN Kept(r) : Kept(r)[i].score >= MinScore
  BY <1>2, KeptOf
<1>4. PICK k \in Seq(ScoredChunk) : k = Kept(r)
  BY <1>3
<1>5. PICK a : a = ArrangeForEdges(k)
  OBVIOUS
<1>6. /\ a \in Seq(ScoredChunk) /\ Len(a) = Len(k)
      /\ \A i \in 1 .. Len(k) : \E j \in 1 .. Len(k) : a[i] = k[j]
  BY <1>5, ArrangedOf
<1>7. k # <<>> => a # <<>>
  BY <1>6, EmptySeq
<1>8. ASSUME NEW i \in DOMAIN a PROVE a[i].score >= MinScore
  <2>1. DOMAIN a = 1 .. Len(a) /\ DOMAIN k = 1 .. Len(k)
    BY <1>6
  <2>2. PICK j \in DOMAIN k : a[i] = k[j]
    BY <1>6, <2>1
  <2>3. k[j].score >= MinScore
    BY <1>3, <1>4
  <2>4. QED
    BY <2>2, <2>3
<1>9. QED
  BY <1>4, <1>5, <1>6, <1>7, <1>8

-----------------------------------------------------------------------------
(***************************************************************************)
(* The inductive invariant.                                                *)
(***************************************************************************)
Places == {"idle", "dense", "lexical", "rerank", "refuse", "generate", "converse",
           "cite", "usage", "complete", "done", "broken"}

Event ==
    [kind : {"token"}, text : Streamable]
        \cup CitationSet
        \cup [kind : {"usage"}, sources : Nat, completionTokens : Nat]
        \cup [kind : {"complete"}, text : Seq(Atoms), citations : Seq(CitationSet),
              outcome : Outcomes]

(* The type invariant, with the texts and the events typed as well.        *)
TypeInv ==
    /\ pc \in Places
    /\ dense \in Rankings(RetrieveK) /\ lexical \in Rankings(RetrieveK)
    /\ candidates \in Seq(Chunk) /\ context \in Seq(ScoredChunk)
    /\ parts \in Seq(Streamable) /\ text \in Seq(Atoms) /\ outcome \in Outcomes
    /\ citations \in Seq(CitationSet) /\ events \in Seq(Event)

(* The candidates are the fusion of the lists that are still there.        *)
FusedInv ==
    /\ pc \notin {"rerank", "broken"} => candidates = <<>>
    /\ candidates # <<>> =>
          candidates = Prefix(ReciprocalRankFusion(dense, lexical), RetrieveK)

(* A prompt is made of sources above the threshold.                        *)
Sourced == context # <<>> /\ \A i \in DOMAIN context : context[i].score >= MinScore

(* What is known of the answer at each place.                              *)
AnswerInv ==
    /\ Bound(text, citations)
    /\ pc \in {"idle", "dense", "lexical", "rerank"} => parts = <<>>
    /\ pc = "refuse" => parts \in {<<>>, <<RefusalFragments[1]>>}
    /\ pc = "generate" => Sourced
    /\ pc \in Places \ {"cite", "complete", "done", "broken"} => citations = <<>>
    /\ pc \in {"cite", "usage", "complete", "done"} =>
          /\ text = Joined
          /\ outcome = "answered" => Sourced /\ text # NotFoundMessage
          /\ outcome # "answered" => citations = <<>>

(* The events are the fragments streamed, y citations, and z of the two    *)
(* that close a stream.                                                    *)
Streamed(y, z) ==
    /\ Len(events) = Len(parts) + y + z
    /\ \A i \in 1 .. Len(parts) : events[i] = Token(parts[i])
    /\ \A i \in 1 .. y : events[Len(parts) + i] = citations[i]
    /\ z > 0 => /\ y = Len(citations)
                /\ events[Len(parts) + y + 1] = Usage(Len(context), Len(parts))
    /\ z = 2 => events[Len(parts) + y + 2] = AnswerComplete(text, citations, outcome)

Closing == CASE pc = "complete" -> {1} [] pc = "done" -> {2}
             [] pc = "broken" -> {0, 1, 2}
             [] OTHER -> {0}

StreamInv == \E y \in 0 .. Len(citations), z \in Closing : Streamed(y, z)

IInv == TypeInv /\ FusedInv /\ AnswerInv /\ StreamInv

(* A stream starts with nothing retrieved and nothing said.                *)
LEMMA InvInit == Init => IInv
<1> SUFFICES ASSUME Init PROVE IInv
  OBVIOUS
<1> USE DEF Init
<1>1. TypeInv
  <2>1. <<>> \in Rankings(RetrieveK)
    <3>1. <<>> \in [1 .. 0 -> Chunk] /\ IsInjective(<<>>) /\ 0 \in 0 .. RetrieveK
      BY FusionAssumption DEF IsInjective
    <3>2. QED
      BY <3>1 DEF Rankings
  <2>2. QED
    BY <2>1 DEF TypeInv, Places, Outcomes
<1>2. FusedInv
  BY DEF FusedInv
<1>3. AnswerInv
  BY DEF AnswerInv, Bound, Places
<1>4. StreamInv
  <2>1. Streamed(0, 0)
    BY DEF Streamed
  <2>2. 0 \in 0 .. Len(citations) /\ 0 \in Closing
    BY DEF Closing
  <2>3. QED
    BY <2>1, <2>2 DEF StreamInv
<1>5. QED
  BY <1>1, <1>2, <1>3, <1>4 DEF IInv

(* Each event is one of four kinds, by where it stands.                    *)
LEMMA KindOf ==
    ASSUME TypeInv, NEW y \in 0 .. Len(citations), NEW z \in {0, 1, 2}, Streamed(y, z),
           NEW i \in DOMAIN events
    PROVE  \/ i <= Len(parts) /\ events[i].kind = "token"
           \/ i > Len(parts) /\ i <= Len(parts) + y /\ events[i].kind = "citation"
           \/ i = Len(parts) + y + 1 /\ z \in {1, 2} /\ events[i].kind = "usage"
           \/ i = Len(parts) + y + 2 /\ z = 2 /\ events[i].kind = "complete"
<1> DEFINE n == Len(parts)
<1>1. n \in Nat /\ y \in Nat /\ i \in Nat /\ 1 <= i /\ i <= n + y + z
  <2>1. events \in Seq(Event) /\ Len(events) = n + y + z
    BY DEF TypeInv, Streamed
  <2>2. QED
    BY <2>1 DEF TypeInv
<1>2. CASE i <= n
  <2>1. events[i] = Token(parts[i])
    BY <1>1, <1>2 DEF Streamed
  <2>2. QED
    BY <1>2, <2>1 DEF Token
<1>3. CASE i > n /\ i <= n + y
  <2>1. i - n \in 1 .. y /\ n + (i - n) = i /\ i - n \in 1 .. Len(citations)
    BY <1>1, <1>3
  <2>2. events[i] = citations[i - n]
    BY <2>1 DEF Streamed
  <2>3. citations[i - n] \in CitationSet
    BY <2>1, ElementOfSeq DEF TypeInv
  <2>4. events[i].kind = "citation"
    BY <2>2, <2>3 DEF CitationSet
  <2>5. QED
    BY <1>3, <2>4
<1>4. CASE i = n + y + 1 /\ z \in {1, 2}
  <2>1. events[i] = Usage(Len(context), Len(parts))
    BY <1>4 DEF Streamed
  <2>2. QED
    BY <1>4, <2>1 DEF Usage
<1>5. CASE i = n + y + 2 /\ z = 2
  <2>1. events[i] = AnswerComplete(text, citations, outcome)
    BY <1>5 DEF Streamed
  <2>2. QED
    BY <1>5, <2>1 DEF AnswerComplete
<1>6. i <= n \/ (i > n /\ i <= n + y) \/ (i = n + y + 1 /\ z \in {1, 2}) \/ (i = n + y + 2 /\ z = 2)
  BY <1>1
<1>7. QED
  BY <1>2, <1>3, <1>4, <1>5, <1>6

(* The citations among the events, before any closing one.                 *)
LEMMA YieldedIs ==
    ASSUME TypeInv, NEW y \in 0 .. Len(citations), Streamed(y, 0)
    PROVE  Yielded = y
<1> DEFINE n == Len(parts)
           P == {i \in DOMAIN events : events[i].kind = "citation"}
<1>1. n \in Nat /\ y \in Nat /\ Len(events) = n + y /\ DOMAIN events = 1 .. n + y
  BY DEF TypeInv, Streamed
<1>2. ASSUME NEW i \in DOMAIN events
      PROVE  \/ i <= n /\ events[i].kind = "token"
             \/ i > n /\ i <= n + y /\ events[i].kind = "citation"
  <2>1. 0 \in {0, 1, 2} /\ 0 \notin {1, 2} /\ 0 # 2
    OBVIOUS
  <2>2. QED
    BY <2>1, KindOf
<1> HIDE DEF n
<1>3. P = n + 1 .. n + y
  <2>1. ASSUME NEW i \in 1 .. n + y PROVE i \in P <=> i \in n + 1 .. n + y
    BY <1>1, <1>2
  <2>2. n + 1 .. n + y \subseteq 1 .. n + y /\ P \subseteq 1 .. n + y
    BY <1>1
  <2>3. QED
    BY <2>1, <2>2
<1>4. Cardinality(n + 1 .. n + y) = (n + y) - (n + 1) + 1
  <2>1. n + 1 \in Int /\ n + y \in Int /\ n + 1 <= (n + y) + 1
    BY <1>1
  <2>2. QED
    BY <2>1, AscendingInterval
<1>5. (n + y) - (n + 1) + 1 = y
  BY <1>1
<1>6. Yielded = Cardinality(P)
  BY DEF Yielded
<1> HIDE DEF P
<1>7. QED
  BY <1>3, <1>4, <1>5, <1>6

(* Two lists that agree at each place are one.                             *)
LEMMA SameList ==
    ASSUME NEW T, NEW s \in Seq(T), NEW U, NEW t \in Seq(U), Len(s) = Len(t),
           \A k \in 1 .. Len(s) : s[k] = t[k]
    PROVE  s = t
OBVIOUS

(* A list with one more member.                                            *)
LEMMA Appended ==
    ASSUME NEW T, NEW s \in Seq(T), NEW e \in T
    PROVE  /\ Append(s, e) \in Seq(T) /\ Len(Append(s, e)) = Len(s) + 1
           /\ Append(s, e)[Len(s) + 1] = e
           /\ \A i \in 1 .. Len(s) : Append(s, e)[i] = s[i]
BY AppendProperties

(* What the steps yield are events.                                        *)
LEMMA EventsTyped ==
    ASSUME TypeInv
    PROVE  /\ \A f \in Streamable : Token(f) \in Event
           /\ \A i \in 1 .. Len(citations) : citations[i] \in Event
           /\ Usage(Len(context), Len(parts)) \in Event
           /\ AnswerComplete(text, citations, outcome) \in Event
<1>1. \A f \in Streamable : Token(f) \in Event
  BY DEF Token, Event
<1>2. \A i \in 1 .. Len(citations) : citations[i] \in Event
  BY ElementOfSeq DEF TypeInv, Event
<1>3. Usage(Len(context), Len(parts)) \in Event
  <2>1. Len(context) \in Nat /\ Len(parts) \in Nat
    BY DEF TypeInv
  <2>2. QED
    BY <2>1 DEF Usage, Event
<1>4. AnswerComplete(text, citations, outcome) \in Event
  BY DEF TypeInv, AnswerComplete, Event
<1>5. QED
  BY <1>1, <1>2, <1>3, <1>4

(* The candidates are chunks.                                              *)
LEMMA FusionTyped ==
    ASSUME NEW d \in Rankings(RetrieveK), NEW l \in Rankings(RetrieveK)
    PROVE  Prefix(ReciprocalRankFusion(d, l), RetrieveK) \in Seq(Chunk)
<1>1. RetrieveK \in Nat
  BY FusionAssumption
<1>2. d \in Seq(Chunk) /\ Len(d) <= RetrieveK /\ l \in Seq(Chunk) /\ Len(l) <= RetrieveK
  BY <1>1, RankingTyped
<1>3. ReciprocalRankFusion(d, l) \in Seq(Chunk)
  BY <1>2, FusionLists
<1>4. QED
  BY ONLY <1>1, <1>3, PrefixOf

(* A search may find nothing.                                              *)
LEMMA NothingRanked == <<>> \in Rankings(RetrieveK)
<1>1. <<>> \in [1 .. 0 -> Chunk] /\ IsInjective(<<>>) /\ 0 \in 0 .. RetrieveK
  BY FusionAssumption DEF IsInjective
<1>2. QED
  BY <1>1 DEF Rankings

(* How far the refusal is, and what of it is next.                         *)
LEMMA RefusalNext ==
    ASSUME parts \in {<<>>, <<RefusalFragments[1]>>}
    PROVE  /\ RefusalFragments[Len(parts) + 1] \in Streamable
           /\ parts = <<>> => Len(parts) + 1 = 1
           /\ parts # <<>> =>
                 /\ Len(parts) + 1 = 2
                 /\ \A f : Append(parts, f) = <<RefusalFragments[1], f>>
<1>1. CASE parts = <<>>
  <2>1. Len(parts) + 1 = 1
    BY <1>1
  <2>2. QED
    BY <1>1, <2>1, RefusalIs
<1>2. CASE parts = <<RefusalFragments[1]>>
  <2>1. PICK r : r = RefusalFragments[1]
    OBVIOUS
  <2>2. Len(<<r>>) + 1 = 2 /\ \A f : Append(<<r>>, f) = <<r, f>>
    <3>1. <<r>> \in Seq({r}) /\ Len(<<r>>) = 1
      OBVIOUS
    <3>2. ASSUME NEW f PROVE Append(<<r>>, f) = <<r, f>>
      <4>1. /\ <<r>> \in Seq({r, f}) /\ <<r>>[1] = r
            /\ <<r, f>> \in Seq({r, f}) /\ Len(<<r, f>>) = 2
            /\ <<r, f>>[1] = r /\ <<r, f>>[2] = f
        OBVIOUS
      <4>2. /\ Append(<<r>>, f) \in Seq({r, f}) /\ Len(Append(<<r>>, f)) = 2
            /\ Append(<<r>>, f)[1] = r /\ Append(<<r>>, f)[2] = f
        BY <3>1, <4>1, AppendProperties
      <4>3. \A k \in 1 .. 2 : Append(<<r>>, f)[k] = <<r, f>>[k]
        <5>1. \A k \in 1 .. 2 : k = 1 \/ k = 2
          OBVIOUS
        <5>2. QED
          BY <4>1, <4>2, <5>1
      <4>4. QED
        BY <4>1, <4>2, <4>3, SameList
    <3>3. QED
      BY <3>1, <3>2
  <2>3. parts = <<r>> /\ parts # <<>>
    BY <1>2, <2>1
  <2>4. Len(parts) + 1 = 2 /\ \A f : Append(parts, f) = <<RefusalFragments[1], f>>
    BY <2>1, <2>2, <2>3, Zenon
  <2>5. QED
    BY <2>3, <2>4, RefusalIs
<1>3. QED
  BY <1>1, <1>2

(* A step of an answer keeps the places, the texts and the events typed.   *)
LEMMA TypeStep ==
    ASSUME IInv, [Next]_vars
    PROVE  TypeInv'
<1> USE DEF IInv, retrieval, answer
<1>1. CASE Ask
  BY <1>1 DEF Ask, TypeInv, Places
<1>2. CASE SearchDense
  BY <1>2 DEF SearchDense, TypeInv, Places
<1>3. CASE SearchLexical
  <2>1. candidates' \in Seq(Chunk)
    BY <1>3, FusionTyped DEF SearchLexical, TypeInv
  <2>2. QED
    BY <1>3, <2>1 DEF SearchLexical, TypeInv, Places
<1>4. CASE Rerank
  <2>1. PICK r \in Rerankings(candidates) :
          /\ context' = ArrangeForEdges(Kept(r))
          /\ pc' = IF Kept(r) = <<>> THEN "refuse" ELSE "generate"
    BY <1>4 DEF Rerank
  <2>2. candidates \in Seq(Chunk)
    BY DEF TypeInv
  <2>3. context' \in Seq(ScoredChunk)
    BY <2>1, <2>2, PromptSourced
  <2>4. pc' \in Places
    BY <2>1 DEF Places
  <2>5. QED
    BY <1>4, <2>3, <2>4, NothingRanked DEF Rerank, TypeInv
<1>5. CASE Refuse
  <2>1. parts \in {<<>>, <<RefusalFragments[1]>>}
    BY <1>5 DEF Refuse, AnswerInv
  <2>2. RefusalFragments[Len(parts) + 1] \in Streamable
    BY <2>1, RefusalNext
  <2>3. parts' = Append(parts, RefusalFragments[Len(parts) + 1]) /\ parts' \in Seq(Streamable)
    BY <1>5, <2>2, Appended DEF Refuse, TypeInv
  <2>4. events' \in Seq(Event)
    BY <1>5, <2>2, EventsTyped, Appended DEF Refuse, TypeInv
  <2>5. text' \in Seq(Atoms)
    <3>1. NotFoundMessage \in Seq(Atoms)
      <4>1. Atom("nothing") \in Atoms /\ Blank \in Atoms /\ Atom("found") \in Atoms
        BY DEF Atoms
      <4>2. QED
        BY <4>1, ShortTexts DEF NotFoundMessage
    <3>2. QED
      BY <1>5, <3>1 DEF Refuse
  <2>6. QED
    BY <1>5, <2>3, <2>4, <2>5, NothingRanked DEF Refuse, TypeInv, Places, Outcomes
<1>6. ASSUME NEW f \in Fragment, Generate(f) PROVE TypeInv'
  <2>1. f \in Streamable
    BY DEF Streamable
  <2>2. parts' \in Seq(Streamable)
    BY <1>6, <2>1, Appended DEF Generate, TypeInv
  <2>3. events' \in Seq(Event)
    BY <1>6, <2>1, EventsTyped, Appended DEF Generate, TypeInv
  <2>4. QED
    BY <1>6, <2>2, <2>3 DEF Generate, TypeInv
<1>7. CASE EndGeneration
  <2>1. Joined \in Seq(Atoms)
    BY JoinedTyped DEF TypeInv
  <2>2. BindCitations(Joined) \in Seq(CitationSet)
    BY <2>1, CitationsBound DEF TypeInv
  <2>3. citations' \in Seq(CitationSet)
    BY <1>7, <2>2 DEF EndGeneration
  <2>4. QED
    BY <1>7, <2>1, <2>3 DEF EndGeneration, TypeInv, Places, Outcomes
<1>8. CASE EndConversation
  <2>1. Joined \in Seq(Atoms)
    BY JoinedTyped DEF TypeInv
  <2>2. QED
    BY <1>8, <2>1 DEF EndConversation, TypeInv, Places, Outcomes
<1>9. CASE YieldCitation
  <2>1. PICK y \in 0 .. Len(citations) : Streamed(y, 0)
    BY <1>9 DEF YieldCitation, StreamInv, Closing
  <2>2. Yielded = y
    BY <2>1, YieldedIs
  <2>3. Len(citations) \in Nat
    BY DEF TypeInv
  <2>4. y + 1 \in 1 .. Len(citations)
    BY <1>9, <2>2, <2>3 DEF YieldCitation
  <2>5. citations[y + 1] \in Event
    BY <2>4, EventsTyped
  <2>6. events' \in Seq(Event)
    BY <1>9, <2>2, <2>5, Appended DEF YieldCitation, TypeInv
  <2>7. QED
    BY <1>9, <2>6 DEF YieldCitation, TypeInv
<1>10. CASE YieldUsage
  <2>1. events' \in Seq(Event)
    BY <1>10, EventsTyped, Appended DEF YieldUsage, TypeInv
  <2>2. QED
    BY <1>10, <2>1 DEF YieldUsage, TypeInv, Places
<1>11. CASE YieldComplete
  <2>1. events' \in Seq(Event)
    BY <1>11, EventsTyped, Appended DEF YieldComplete, TypeInv
  <2>2. QED
    BY <1>11, <2>1 DEF YieldComplete, TypeInv, Places
<1>12. CASE Break
  BY <1>12 DEF Break, TypeInv, Places
<1>13. CASE Leave
  BY <1>13, NothingRanked DEF Leave, TypeInv, Places, Outcomes
<1>14. CASE UNCHANGED vars
  BY <1>14 DEF vars, TypeInv
<1>15. QED
  BY <1>1, <1>2, <1>3, <1>4, <1>5, <1>6, <1>7, <1>8, <1>9, <1>10, <1>11, <1>12, <1>13, <1>14
  DEF Next, Step

(* ... and the candidates the fusion of the two lists.                     *)
LEMMA FusedStep ==
    ASSUME IInv, [Next]_vars
    PROVE  FusedInv'
<1> USE DEF IInv, FusedInv, retrieval, answer
<1>1. CASE Ask
  BY <1>1 DEF Ask
<1>2. CASE SearchDense
  BY <1>2 DEF SearchDense
<1>3. CASE SearchLexical
  BY <1>3 DEF SearchLexical
<1>4. CASE Rerank
  BY <1>4 DEF Rerank
<1>5. CASE Refuse
  BY <1>5 DEF Refuse
<1>6. ASSUME NEW f \in Fragment, Generate(f) PROVE FusedInv'
  BY <1>6 DEF Generate
<1>7. CASE EndGeneration
  BY <1>7 DEF EndGeneration
<1>8. CASE EndConversation
  BY <1>8 DEF EndConversation
<1>9. CASE YieldCitation
  BY <1>9 DEF YieldCitation
<1>10. CASE YieldUsage
  BY <1>10 DEF YieldUsage
<1>11. CASE YieldComplete
  BY <1>11 DEF YieldComplete
<1>12. CASE Break
  BY <1>12 DEF Break
<1>13. CASE Leave
  BY <1>13 DEF Leave
<1>14. CASE UNCHANGED vars
  BY <1>14 DEF vars
<1>15. QED
  BY <1>1, <1>2, <1>3, <1>4, <1>5, <1>6, <1>7, <1>8, <1>9, <1>10, <1>11, <1>12, <1>13, <1>14
  DEF Next, Step

(* What is known of the answer where, step by step.                        *)
LEMMA AnswerStep ==
    ASSUME IInv, [Next]_vars
    PROVE  AnswerInv'
<1> USE DEF IInv, retrieval, answer
<1>0. ASSUME citations' = <<>> PROVE Bound(text, citations)'
  BY <1>0 DEF Bound
<1>00. ASSUME UNCHANGED <<context, text, citations>> PROVE Bound(text, citations)'
  BY <1>00 DEF AnswerInv, Bound, FirstAt
<1>000. ASSUME UNCHANGED parts PROVE Joined' = Joined
  BY <1>000 DEF Joined
<1>1. CASE Ask
  BY <1>0, <1>1 DEF Ask, AnswerInv, Places
<1>2. CASE SearchDense
  BY <1>0, <1>2 DEF SearchDense, AnswerInv, Places
<1>3. CASE SearchLexical
  BY <1>0, <1>3 DEF SearchLexical, AnswerInv, Places
<1>4. CASE Rerank
  <2>1. PICK r \in Rerankings(candidates) :
          /\ context' = ArrangeForEdges(Kept(r))
          /\ pc' = IF Kept(r) = <<>> THEN "refuse" ELSE "generate"
    BY <1>4 DEF Rerank
  <2>2. candidates \in Seq(Chunk)
    BY DEF TypeInv
  <2>3. pc' = "generate" => Sourced'
    BY <2>1, <2>2, PromptSourced DEF Sourced
  <2>4. pc = "rerank" /\ parts' = <<>> /\ citations' = <<>>
    BY <1>4 DEF Rerank, AnswerInv, Places
  <2>5. pc' \in {"refuse", "generate"}
    BY <2>1
  <2>6. QED
    BY <1>0, <2>3, <2>4, <2>5 DEF AnswerInv, Places
<1>5. CASE Refuse
  <2>1. citations' = <<>> /\ pc = "refuse" /\ Bound(text, citations)'
    BY <1>0, <1>5 DEF Refuse, AnswerInv, Places
  <2>2. CASE parts = <<>>
    <3>1. Len(parts) + 1 = 1 /\ parts' = <<RefusalFragments[1]>>
      BY <1>5, <2>2, RefusalNext DEF Refuse
    <3>2. pc' = "refuse"
      BY <1>5, <3>1, RefusalIs DEF Refuse
    <3>3. QED
      BY <2>1, <3>1, <3>2 DEF AnswerInv, Places
  <2>3. CASE parts = <<RefusalFragments[1]>>
    <3>1. Len(parts) + 1 = 2 /\ parts' = <<RefusalFragments[1], RefusalFragments[2]>>
      BY <1>5, <2>3, RefusalNext DEF Refuse
    <3>2. pc' = "usage" /\ outcome' = "not_found" /\ text' = NotFoundMessage
      BY <1>5, <3>1, RefusalIs DEF Refuse
    <3>3. RefusalFragments = <<RefusalFragments[1], RefusalFragments[2]>>
      BY DEF RefusalFragments
    <3>4. Joined' = NotFoundMessage
      BY <3>1, <3>3, RefusalJoined DEF Joined
    <3>5. QED
      BY <2>1, <3>2, <3>4 DEF AnswerInv, Places
  <2>4. QED
    BY <1>5, <2>2, <2>3 DEF Refuse, AnswerInv
<1>6. ASSUME NEW f \in Fragment, Generate(f) PROVE AnswerInv'
  <2>1. citations' = <<>> /\ pc' \in {"generate", "converse"}
    BY <1>6 DEF Generate, AnswerInv, Places
  <2>2. pc' = "generate" => Sourced'
    BY <1>6 DEF Generate, AnswerInv, Sourced
  <2>3. QED
    BY <1>0, <2>1, <2>2 DEF AnswerInv, Places
<1>7. CASE EndGeneration
  <2>1. Joined \in Seq(Atoms)
    BY JoinedTyped DEF TypeInv
  <2>2. context \in Seq(ScoredChunk)
    BY DEF TypeInv
  <2>3. CASE Declines
    <3>1. citations' = <<>> /\ pc' = "cite" /\ text' = Joined /\ outcome' = "not_found"
          /\ parts' = parts
      BY <1>7, <2>3 DEF EndGeneration
    <3>2. QED
      BY <1>0, <1>000, <3>1 DEF AnswerInv, Places
  <2>4. CASE ~Declines
    <3>1. /\ citations' = BindCitations(Joined) /\ pc' = "cite" /\ text' = Joined
          /\ outcome' = "answered" /\ context' = context /\ parts' = parts
      BY <1>7, <2>4 DEF EndGeneration
    <3>2. Bound(Joined, BindCitations(Joined))
      BY <2>1, <2>2, CitationsBound
    <3>3. Bound(text, citations)'
      BY <3>1, <3>2 DEF Bound, FirstAt
    <3>4. Sourced'
      BY <1>7, <3>1 DEF EndGeneration, AnswerInv, Sourced
    <3>5. text' # NotFoundMessage
      BY <2>4, <3>1 DEF Declines
    <3>6. QED
      BY <1>000, <3>1, <3>3, <3>4, <3>5 DEF AnswerInv, Places
  <2>5. QED
    BY <2>3, <2>4
<1>8. CASE EndConversation
  <2>1. /\ citations' = <<>> /\ pc' = "usage" /\ text' = Joined /\ parts' = parts
        /\ outcome' # "answered"
    BY <1>8 DEF EndConversation, AnswerInv, Places
  <2>2. QED
    BY <1>0, <1>000, <2>1 DEF AnswerInv, Places
<1>9. ASSUME pc \in {"cite", "usage", "complete"}, pc' \in {"cite", "complete", "done"},
             pc' = "cite" => pc = "cite",
             UNCHANGED <<retrieval, answer>>
      PROVE  AnswerInv'
  <2>1. Bound(text, citations)' /\ Joined' = Joined /\ (Sourced' <=> Sourced)
    BY <1>00, <1>000, <1>9 DEF Sourced
  <2>2. QED
    BY <1>9, <2>1 DEF AnswerInv, Places
<1>10. CASE YieldCitation
  BY <1>9, <1>10 DEF YieldCitation
<1>11. CASE YieldUsage
  BY <1>9, <1>11 DEF YieldUsage
<1>12. CASE YieldComplete
  BY <1>9, <1>12 DEF YieldComplete
<1>13. CASE Break
  BY <1>00, <1>13 DEF Break, AnswerInv, Places
<1>14. CASE Leave
  BY <1>0, <1>14 DEF Leave, AnswerInv, Places
<1>15. CASE UNCHANGED vars
  <2>1. Bound(text, citations)' /\ Joined' = Joined /\ (Sourced' <=> Sourced)
    BY <1>00, <1>000, <1>15 DEF vars, Sourced
  <2>2. QED
    BY <1>15, <2>1 DEF vars, AnswerInv
<1>16. QED
  BY <1>1, <1>2, <1>3, <1>4, <1>5, <1>6, <1>7, <1>8, <1>10, <1>11, <1>12, <1>13, <1>14, <1>15
  DEF Next, Step

(* A step that yields nothing, before anything but fragments was.          *)
LEMMA QuietStream ==
    ASSUME TypeInv, StreamInv, Closing = {0}, citations = <<>>,
           UNCHANGED <<events, parts>>, 0 \in Closing', citations' \in Seq(CitationSet)
    PROVE  StreamInv'
<1>1. Streamed(0, 0)
  BY DEF StreamInv
<1>2. Streamed(0, 0)'
  BY <1>1 DEF Streamed
<1>3. 0 \in 0 .. Len(citations')
  OBVIOUS
<1>4. QED
  BY <1>2, <1>3 DEF StreamInv

(* A step that streams a fragment.                                         *)
LEMMA TokenStream ==
    ASSUME TypeInv, StreamInv, Closing = {0}, citations = <<>>, citations' = <<>>,
           0 \in Closing', NEW f \in Streamable,
           parts' = Append(parts, f), events' = Append(events, Token(f))
    PROVE  StreamInv'
<1> DEFINE n == Len(parts)
<1>1. Streamed(0, 0)
  BY DEF StreamInv
<1>2. /\ n \in Nat /\ Len(events) = n
      /\ \A i \in 1 .. n : events[i] = Token(parts[i])
  BY <1>1 DEF Streamed, TypeInv
<1>3. /\ Len(parts') = n + 1 /\ parts'[n + 1] = f
      /\ \A i \in 1 .. n : parts'[i] = parts[i]
  BY Appended DEF TypeInv
<1>4. /\ Len(events') = n + 1 /\ events'[n + 1] = Token(f)
      /\ \A i \in 1 .. n : events'[i] = events[i]
  <2>1. Token(f) \in Event /\ events \in Seq(Event)
    BY EventsTyped DEF TypeInv
  <2>2. QED
    BY <1>2, <2>1, Appended
<1>5. \A i \in 1 .. n + 1 : events'[i] = Token(parts'[i])
  <2> SUFFICES ASSUME NEW i \in 1 .. n + 1 PROVE events'[i] = Token(parts'[i])
    OBVIOUS
  <2>1. i = n + 1 \/ i \in 1 .. n
    BY <1>2
  <2>2. QED
    BY <1>2, <1>3, <1>4, <2>1
<1> HIDE DEF n
<1>6. Streamed(0, 0)'
  BY <1>2, <1>3, <1>4, <1>5 DEF Streamed
<1>7. 0 \in 0 .. Len(citations')
  OBVIOUS
<1>8. QED
  BY <1>6, <1>7 DEF StreamInv

(* What the events are, step by step.                                      *)
LEMMA StreamStep ==
    ASSUME IInv, [Next]_vars
    PROVE  StreamInv'
<1> USE DEF IInv, retrieval, answer
<1>0. citations' \in Seq(CitationSet)
  BY TypeStep DEF TypeInv
<1>1. CASE Ask
  BY <1>0, <1>1, QuietStream DEF Ask, Closing, AnswerInv, Places
<1>2. CASE SearchDense
  BY <1>0, <1>2, QuietStream DEF SearchDense, Closing, AnswerInv, Places
<1>3. CASE SearchLexical
  BY <1>0, <1>3, QuietStream DEF SearchLexical, Closing, AnswerInv, Places
<1>4. CASE Rerank
  BY <1>0, <1>4, QuietStream DEF Rerank, Closing, AnswerInv, Places
<1>5. CASE Refuse
  <2>1. parts \in {<<>>, <<RefusalFragments[1]>>}
    BY <1>5 DEF Refuse, AnswerInv
  <2>2. RefusalFragments[Len(parts) + 1] \in Streamable
    BY <2>1, RefusalNext
  <2>3. citations = <<>> /\ citations' = <<>> /\ Closing = {0} /\ Closing' = {0}
    BY <1>5 DEF Refuse, Closing, AnswerInv, Places
  <2>4. /\ parts' = Append(parts, RefusalFragments[Len(parts) + 1])
        /\ events' = Append(events, Token(RefusalFragments[Len(parts) + 1]))
    BY <1>5 DEF Refuse
  <2>5. QED
    BY <2>2, <2>3, <2>4, TokenStream
<1>6. ASSUME NEW f \in Fragment, Generate(f) PROVE StreamInv'
  <2>1. f \in Streamable
    BY DEF Streamable
  <2>2. citations = <<>> /\ citations' = <<>> /\ Closing = {0} /\ Closing' = {0}
    BY <1>6 DEF Generate, Closing, AnswerInv, Places
  <2>3. parts' = Append(parts, f) /\ events' = Append(events, Token(f))
    BY <1>6 DEF Generate
  <2>4. QED
    BY <2>1, <2>2, <2>3, TokenStream
<1>7. CASE EndGeneration
  BY <1>0, <1>7, QuietStream DEF EndGeneration, Closing, AnswerInv, Places
<1>8. CASE EndConversation
  BY <1>0, <1>8, QuietStream DEF EndConversation, Closing, AnswerInv, Places
<1>9. CASE YieldCitation
  <2>1. PICK y \in 0 .. Len(citations) : Streamed(y, 0)
    BY <1>9 DEF YieldCitation, StreamInv, Closing
  <2>2. Yielded = y
    BY <2>1, YieldedIs
  <2>3. Len(citations) \in Nat /\ Len(parts) \in Nat /\ events \in Seq(Event)
    BY DEF TypeInv
  <2>4. y + 1 \in 1 .. Len(citations) /\ y + 1 \in 0 .. Len(citations)
    BY <1>9, <2>2, <2>3 DEF YieldCitation
  <2>5. citations[y + 1] \in Event
    BY <2>4, EventsTyped
  <2>6. events' = Append(events, citations[y + 1]) /\ UNCHANGED <<pc, parts, citations, context>>
    BY <1>9, <2>2 DEF YieldCitation
  <2>7. /\ Len(events) = Len(parts) + y
        /\ \A i \in 1 .. Len(parts) : events[i] = Token(parts[i])
        /\ \A i \in 1 .. y : events[Len(parts) + i] = citations[i]
    BY <2>1, <2>3 DEF Streamed
  <2>8. /\ Len(events') = Len(parts) + (y + 1)
        /\ events'[Len(parts) + (y + 1)] = citations[y + 1]
        /\ \A i \in 1 .. Len(parts) + y : events'[i] = events[i]
    <3>1. /\ Len(events') = Len(events) + 1 /\ events'[Len(events) + 1] = citations[y + 1]
          /\ \A i \in 1 .. Len(events) : events'[i] = events[i]
      BY <2>3, <2>5, <2>6, Appended
    <3>2. Len(events) + 1 = Len(parts) + (y + 1)
      BY <2>3, <2>7
    <3>3. QED
      BY <2>7, <3>1, <3>2
  <2>9. \A i \in 1 .. Len(parts) : events'[i] = Token(parts[i])
    BY <2>3, <2>7, <2>8
  <2>10. \A i \in 1 .. y + 1 : events'[Len(parts) + i] = citations[i]
    <3> SUFFICES ASSUME NEW i \in 1 .. y + 1 PROVE events'[Len(parts) + i] = citations[i]
      OBVIOUS
    <3>1. CASE i = y + 1
      BY <2>8, <3>1
    <3>2. CASE i # y + 1
      <4>1. i \in 1 .. y /\ Len(parts) + i \in 1 .. Len(parts) + y
        BY <2>3, <3>2
      <4>2. QED
        BY <2>7, <2>8, <4>1
    <3>3. QED
      BY <3>1, <3>2
  <2>11. Streamed(y + 1, 0)'
    <3>1. PICK w : w = y + 1
      OBVIOUS
    <3>2. parts' = parts /\ citations' = citations /\ Len(events') = Len(parts) + w + 0
      BY <2>3, <2>6, <2>8, <3>1
    <3>3. Streamed(w, 0)'
      BY <2>9, <2>10, <3>1, <3>2 DEF Streamed
    <3>4. QED
      BY <3>1, <3>3
  <2>12. 0 \in Closing'
    BY <1>9, <2>6 DEF YieldCitation, Closing
  <2>13. QED
    BY <2>4, <2>6, <2>11, <2>12 DEF StreamInv
<1>10. CASE YieldUsage
  <2>1. PICK y \in 0 .. Len(citations) : Streamed(y, 0)
    BY <1>10 DEF YieldUsage, StreamInv, Closing
  <2>2. Yielded = y
    BY <2>1, YieldedIs
  <2>3. y = Len(citations)
    BY <1>10, <2>2 DEF YieldUsage, AnswerInv, Places
  <2>4. /\ events' = Append(events, Usage(Len(context), Len(parts)))
        /\ UNCHANGED <<parts, citations, context>>
        /\ Closing' = {1}
    BY <1>10 DEF YieldUsage, Closing
  <2>5. y \in Nat /\ Len(parts) \in Nat /\ Len(events) = Len(parts) + y /\ events \in Seq(Event)
    BY <2>1 DEF Streamed, TypeInv
  <2>6. /\ Len(events') = Len(parts) + y + 1
        /\ events'[Len(parts) + y + 1] = Usage(Len(context), Len(parts))
        /\ \A i \in 1 .. Len(parts) + y : events'[i] = events[i]
    BY <2>4, <2>5, EventsTyped, Appended
  <2>7. \A i \in 1 .. Len(parts) : events'[i] = Token(parts[i])
    BY <2>1, <2>5, <2>6 DEF Streamed
  <2>8. \A i \in 1 .. y : events'[Len(parts) + i] = citations[i]
    <3> SUFFICES ASSUME NEW i \in 1 .. y PROVE events'[Len(parts) + i] = citations[i]
      OBVIOUS
    <3>1. Len(parts) + i \in 1 .. Len(parts) + y
      BY <2>5
    <3>2. QED
      BY <2>1, <2>6, <3>1 DEF Streamed
  <2>9. Streamed(y, 1)'
    BY <2>3, <2>4, <2>5, <2>6, <2>7, <2>8 DEF Streamed
  <2>10. QED
    BY <2>4, <2>9 DEF StreamInv
<1>11. CASE YieldComplete
  <2>1. PICK y \in 0 .. Len(citations) : Streamed(y, 1)
    BY <1>11 DEF YieldComplete, StreamInv, Closing
  <2>2. /\ events' = Append(events, AnswerComplete(text, citations, outcome))
        /\ UNCHANGED <<parts, citations, context, text, outcome>>
        /\ Closing' = {2}
    BY <1>11 DEF YieldComplete, Closing
  <2>3. /\ y \in Nat /\ Len(parts) \in Nat /\ Len(events) = Len(parts) + y + 1
        /\ events \in Seq(Event)
    BY <2>1 DEF Streamed, TypeInv
  <2>4. /\ Len(events') = Len(parts) + y + 2
        /\ events'[Len(parts) + y + 2] = AnswerComplete(text, citations, outcome)
        /\ \A i \in 1 .. Len(parts) + y + 1 : events'[i] = events[i]
    <3>1. Len(events) + 1 = Len(parts) + y + 2
      BY <2>3
    <3>2. AnswerComplete(text, citations, outcome) \in Event
      BY EventsTyped
    <3>3. /\ Len(events') = Len(events) + 1
          /\ events'[Len(events) + 1] = AnswerComplete(text, citations, outcome)
          /\ \A i \in 1 .. Len(events) : events'[i] = events[i]
      BY <2>2, <2>3, <3>2, Appended
    <3>4. QED
      BY <2>3, <3>1, <3>3
  <2>5. \A i \in 1 .. Len(parts) : events'[i] = Token(parts[i])
    BY <2>1, <2>3, <2>4 DEF Streamed
  <2>6. \A i \in 1 .. y : events'[Len(parts) + i] = citations[i]
    <3> SUFFICES ASSUME NEW i \in 1 .. y PROVE events'[Len(parts) + i] = citations[i]
      OBVIOUS
    <3>1. Len(parts) + i \in 1 .. Len(parts) + y + 1
      BY <2>3
    <3>2. QED
      BY <2>1, <2>4, <3>1 DEF Streamed
  <2>7. y = Len(citations) /\ events'[Len(parts) + y + 1] = Usage(Len(context), Len(parts))
    BY <2>1, <2>3, <2>4 DEF Streamed
  <2>8. Streamed(y, 2)'
    BY <2>2, <2>3, <2>4, <2>5, <2>6, <2>7 DEF Streamed
  <2>9. QED
    BY <2>2, <2>8 DEF StreamInv
<1>12. ASSUME UNCHANGED <<events, parts, citations, context, text, outcome>>,
              Closing \subseteq Closing'
       PROVE  StreamInv'
  <2>1. PICK y \in 0 .. Len(citations), z \in Closing : Streamed(y, z)
    BY DEF StreamInv
  <2>2. Streamed(y, z)'
    BY <1>12, <2>1 DEF Streamed
  <2>3. QED
    BY <1>12, <2>1, <2>2 DEF StreamInv
<1>13. CASE Break
  BY <1>12, <1>13 DEF Break, Closing
<1>14. CASE Leave
  <2>1. /\ parts' = <<>> /\ events' = <<>> /\ citations' = <<>> /\ Closing' = {0}
    BY <1>14 DEF Leave, Closing
  <2>2. Streamed(0, 0)'
    BY <2>1 DEF Streamed
  <2>3. 0 \in 0 .. Len(citations')
    BY <2>1
  <2>4. QED
    BY <2>1, <2>2, <2>3 DEF StreamInv
<1>15. CASE UNCHANGED vars
  BY <1>12, <1>15 DEF vars, Closing
<1>16. QED
  BY <1>1, <1>2, <1>3, <1>4, <1>5, <1>6, <1>7, <1>8, <1>9, <1>10, <1>11, <1>13, <1>14, <1>15
  DEF Next, Step

(* The four parts hold of every state of a stream.                         *)
THEOREM Invariant == Spec => []IInv
<1>1. IInv /\ [Next]_vars => IInv'
  BY TypeStep, FusedStep, AnswerStep, StreamStep DEF IInv
<1>2. QED
  BY InvInit, <1>1, PTL DEF Spec

-----------------------------------------------------------------------------
(***************************************************************************)
(* What it implies.                                                        *)
(***************************************************************************)

(* The phase of each kind of event.                                        *)
LEMMA Phases ==
    ASSUME NEW e
    PROVE  /\ e.kind = "token" => Phase(e) = 1
           /\ e.kind = "citation" => Phase(e) = 2
           /\ e.kind = "usage" => Phase(e) = 3
           /\ e.kind = "complete" => Phase(e) = 4
BY DEF Phase

(* Fragments, citations, one usage and one completion, wherever the        *)
(* stream breaks, whatever the model and the searches return.              *)
THEOREM StreamEventsInOrder == Spec => []EventsInOrder
<1>1. IInv => EventsInOrder
  <2> SUFFICES ASSUME IInv, NEW i \in DOMAIN events, NEW j \in DOMAIN events, i < j
               PROVE  /\ Phase(events[i]) <= Phase(events[j])
                      /\ Phase(events[i]) \in {3, 4} => Phase(events[i]) # Phase(events[j])
    BY DEF EventsInOrder
  <2>1. PICK y \in 0 .. Len(citations), z \in {0, 1, 2} : Streamed(y, z)
    BY DEF IInv, StreamInv, Closing
  <2>2. TypeInv
    BY DEF IInv
  <2>3. Len(parts) \in Nat /\ y \in Nat /\ i \in Nat /\ j \in Nat
    BY <2>2 DEF TypeInv
  <2>4. /\ \/ i <= Len(parts) /\ Phase(events[i]) = 1
           \/ i > Len(parts) /\ i <= Len(parts) + y /\ Phase(events[i]) = 2
           \/ i = Len(parts) + y + 1 /\ Phase(events[i]) = 3
           \/ i = Len(parts) + y + 2 /\ Phase(events[i]) = 4
        /\ \/ j <= Len(parts) /\ Phase(events[j]) = 1
           \/ j > Len(parts) /\ j <= Len(parts) + y /\ Phase(events[j]) = 2
           \/ j = Len(parts) + y + 1 /\ Phase(events[j]) = 3
           \/ j = Len(parts) + y + 2 /\ Phase(events[j]) = 4
    BY <2>1, <2>2, KindOf, Phases
  <2>5. QED
    BY <2>3, <2>4
<1>2. QED
  BY Invariant, <1>1, PTL

(* What a complete stream has at which of its places.                      *)
LEMMA CompleteStream ==
    ASSUME IInv, pc = "done"
    PROVE  /\ {i \in DOMAIN events : events[i].kind = "token"} = 1 .. Len(parts)
           /\ {i \in DOMAIN events : events[i].kind = "citation"}
                 = Len(parts) + 1 .. Len(parts) + Len(citations)
           /\ Len(parts) \in Nat /\ Len(citations) \in Nat
           /\ Len(events) = Len(parts) + Len(citations) + 2
           /\ \A i \in 1 .. Len(parts) : events[i] = Token(parts[i])
           /\ \A i \in 1 .. Len(citations) : events[Len(parts) + i] = citations[i]
           /\ events[Len(events) - 1] = Usage(Len(context), Len(parts))
           /\ Last(events) = AnswerComplete(text, citations, outcome)
<1>1. TypeInv
  BY DEF IInv
<1>2. PICK y \in 0 .. Len(citations) : Streamed(y, 2)
  BY DEF IInv, StreamInv, Closing
<1> DEFINE n == Len(parts)
           m == Len(citations)
<1>3. n \in Nat /\ m \in Nat /\ y = m /\ Len(events) = n + m + 2 /\ DOMAIN events = 1 .. n + m + 2
  BY <1>1, <1>2 DEF TypeInv, Streamed
<1>4. /\ \A i \in 1 .. n : events[i] = Token(parts[i])
      /\ \A i \in 1 .. m : events[n + i] = citations[i]
      /\ events[n + m + 1] = Usage(Len(context), n)
      /\ events[n + m + 2] = AnswerComplete(text, citations, outcome)
  BY <1>2, <1>3 DEF Streamed
<1>5. ASSUME NEW i \in 1 .. n + m + 2
      PROVE  /\ events[i].kind = "token" <=> i \in 1 .. n
             /\ events[i].kind = "citation" <=> i \in n + 1 .. n + m
  <2>1. \/ i <= n /\ events[i].kind = "token"
        \/ i > n /\ i <= n + m /\ events[i].kind = "citation"
        \/ i = n + m + 1 /\ events[i].kind = "usage"
        \/ i = n + m + 2 /\ events[i].kind = "complete"
    BY <1>1, <1>2, <1>3, KindOf
  <2>2. QED
    BY <1>3, <2>1
<1>6. 1 .. n \subseteq 1 .. n + m + 2 /\ n + 1 .. n + m \subseteq 1 .. n + m + 2
  BY <1>3
<1>7. n + m + 2 - 1 = n + m + 1 /\ Last(events) = events[n + m + 2]
  BY <1>3 DEF Last
<1> HIDE DEF n, m
<1>8. /\ {i \in DOMAIN events : events[i].kind = "token"} = 1 .. n
      /\ {i \in DOMAIN events : events[i].kind = "citation"} = n + 1 .. n + m
  BY <1>3, <1>5, <1>6
<1>9. QED
  BY <1>3, <1>4, <1>7, <1>8 DEF n, m

(* What a list has from one position to another.                           *)
LEMMA SublistInterval ==
    ASSUME NEW T, NEW s \in Seq(T), NEW a \in Nat \ {0}, NEW b \in Nat,
           a <= b + 1, b <= Len(s)
    PROVE  /\ Sublist(s, a .. b) \in Seq(T) /\ Len(Sublist(s, a .. b)) = b - a + 1
           /\ \A k \in 1 .. b - a + 1 : Sublist(s, a .. b)[k] = s[a + k - 1]
<1>1. a .. b \in SUBSET (DOMAIN s)
  OBVIOUS
<1> DEFINE P == a .. b
<1>2. /\ Cardinality(P) = b - a + 1
      /\ \A k \in 1 .. b - a + 1 : Ascending(P)[k] = a + k - 1
  <2>1. a \in Int /\ b \in Int
    OBVIOUS
  <2>2. QED
    BY <2>1, AscendingInterval
<1> HIDE DEF P
<1>3. /\ Sublist(s, P) \in Seq(T) /\ Len(Sublist(s, P)) = Cardinality(P)
      /\ \A k \in 1 .. Cardinality(P) : Sublist(s, P)[k] = s[Ascending(P)[k]]
  <2>1. P \in SUBSET (DOMAIN s)
    BY <1>1 DEF P
  <2>2. QED
    BY ONLY <2>1, s \in Seq(T), SublistLists
<1>4. \A k \in 1 .. b - a + 1 : Sublist(s, P)[k] = s[a + k - 1]
  BY <1>2, <1>3
<1>5. QED
  BY <1>2, <1>3, <1>4 DEF P

(* The last event of a stream says what the events before it said.         *)
THEOREM StreamCompleteMatches == Spec => []CompleteMatchesTheStream
<1>1. IInv => CompleteMatchesTheStream
  <2> SUFFICES ASSUME IInv, pc = "done" PROVE CompleteMatchesTheStream
    BY DEF CompleteMatchesTheStream
  <2> DEFINE n == Len(parts)
             m == Len(citations)
             final == Last(events)
             tokens == Sublist(events, {i \in DOMAIN events : events[i].kind = "token"})
             cited == Sublist(events, {i \in DOMAIN events : events[i].kind = "citation"})
             at(k) == CHOOSE i \in DOMAIN final.text :
                 final.text[i] = Marker(k) /\ \A j \in 1 .. i - 1 : final.text[j] # Marker(k)
  <2>1. TypeInv
    BY DEF IInv
  <2>2. /\ tokens = Sublist(events, 1 .. n) /\ cited = Sublist(events, n + 1 .. n + m)
        /\ n \in Nat /\ m \in Nat /\ Len(events) = n + m + 2
        /\ \A i \in 1 .. n : events[i] = Token(parts[i])
        /\ \A i \in 1 .. m : events[n + i] = citations[i]
        /\ events[Len(events) - 1] = Usage(Len(context), n)
        /\ final = AnswerComplete(text, citations, outcome)
    BY CompleteStream
  <2>3. events \in Seq(Event) /\ parts \in Seq(Streamable) /\ citations \in Seq(CitationSet)
    BY <2>1 DEF TypeInv
  <2>4. final.text = text /\ final.citations = citations
    BY <2>2 DEF AnswerComplete
  <2>5. Len(tokens) = n /\ DOMAIN tokens = 1 .. n /\ \A i \in 1 .. n : tokens[i].text = parts[i]
    <3>1. 1 \in Nat \ {0} /\ 1 <= n + 1 /\ n <= Len(events) /\ n - 1 + 1 = n
      BY <2>2
    <3> HIDE DEF n, tokens
    <3>2. /\ Sublist(events, 1 .. n) \in Seq(Event) /\ Len(Sublist(events, 1 .. n)) = n - 1 + 1
          /\ \A k \in 1 .. n - 1 + 1 : Sublist(events, 1 .. n)[k] = events[1 + k - 1]
      <4>1. PICK a, b : a = 1 /\ b = n
        OBVIOUS
      <4>2. a \in Nat \ {0} /\ b \in Nat /\ a <= b + 1 /\ b <= Len(events)
        BY <2>2, <3>1, <4>1
      <4>3. /\ Sublist(events, a .. b) \in Seq(Event) /\ Len(Sublist(events, a .. b)) = b - a + 1
            /\ \A k \in 1 .. b - a + 1 : Sublist(events, a .. b)[k] = events[a + k - 1]
        <5>1. PICK s : s = events
          OBVIOUS
        <5>2. s \in Seq(Event) /\ b <= Len(s)
          BY <2>3, <4>2, <5>1
        <5>3. /\ Sublist(s, a .. b) \in Seq(Event) /\ Len(Sublist(s, a .. b)) = b - a + 1
              /\ \A k \in 1 .. b - a + 1 : Sublist(s, a .. b)[k] = s[a + k - 1]
          BY ONLY <4>2, <5>2, SublistInterval, ZenonT(30)
        <5>4. QED
          BY ONLY <5>1, <5>3
      <4>4. QED
        BY <4>1, <4>3
    <3>3. /\ tokens \in Seq(Event) /\ Len(tokens) = n
          /\ \A k \in 1 .. n : tokens[k] = events[k]
      BY <2>2, <3>1, <3>2
    <3>5. ASSUME NEW i \in 1 .. n PROVE tokens[i].text = parts[i]
      <4>1. tokens[i] = Token(parts[i])
        BY <2>2, <3>3
      <4>2. QED
        BY <4>1 DEF Token
    <3>6. QED
      BY <3>3, <3>5
  <2>6. cited = citations
    <3>1. /\ n + 1 \in Nat \ {0} /\ n + m \in Nat /\ n + 1 <= n + m + 1 /\ n + m <= Len(events)
          /\ n + m - (n + 1) + 1 = m
      BY <2>2
    <3> HIDE DEF n, m, cited
    <3>2. PICK a, b : a = n + 1 /\ b = n + m
      OBVIOUS
    <3>3. /\ cited \in Seq(Event) /\ Len(cited) = m
          /\ \A k \in 1 .. m : cited[k] = events[n + k]
      <4>1. /\ a \in Nat \ {0} /\ b \in Nat /\ a <= b + 1 /\ b <= Len(events)
            /\ b - a + 1 = m /\ \A k \in 1 .. m : a + k - 1 = n + k
        BY <2>2, <3>1, <3>2
      <4>2. /\ Sublist(events, a .. b) \in Seq(Event) /\ Len(Sublist(events, a .. b)) = b - a + 1
            /\ \A k \in 1 .. b - a + 1 : Sublist(events, a .. b)[k] = events[a + k - 1]
        BY ONLY <2>3, <4>1, SublistInterval
      <4>3. cited = Sublist(events, a .. b)
        BY <2>2, <3>2
      <4>4. QED
        BY <4>1, <4>2, <4>3
    <3>4. Len(cited) = Len(citations) /\ \A k \in 1 .. Len(cited) : cited[k] = citations[k]
      BY <2>2, <3>3 DEF m
    <3>5. QED
      BY <2>3, <3>3, <3>4, SameList
  <2>7. final.text = Strip(FlattenSeq([i \in DOMAIN tokens |-> tokens[i].text]))
    <3>1. [i \in DOMAIN tokens |-> tokens[i].text] = parts
      <4> HIDE DEF tokens
      <4>1. DOMAIN parts = 1 .. n /\ parts = [i \in DOMAIN parts |-> parts[i]]
        BY <2>3
      <4>2. QED
        BY <2>5, <4>1
    <3>2. text = Joined
      BY DEF IInv, AnswerInv
    <3>3. QED
      BY <2>4, <3>1, <3>2 DEF Joined
  <2>8. Bound(text, citations)
    BY DEF IInv, AnswerInv
  <2>9. \A k : at(k) = FirstAt(text, k)
    BY <2>4 DEF FirstAt
  <2> HIDE DEF n, m, final, tokens, cited, at
  <2>10. \A i, j \in DOMAIN cited : i < j => at(cited[i].marker) < at(cited[j].marker)
    BY <2>6, <2>8, <2>9 DEF Bound
  <2>11. \A i \in DOMAIN cited : cited[i].chunk = context[cited[i].marker].chunk
    BY <2>6, <2>8 DEF Bound
  <2>12. events[Len(events) - 1] = Usage(Len(context), Len(tokens))
    BY <2>2, <2>5
  <2>13. final.citations = cited
    BY <2>4, <2>6
  <2>14. QED
    BY <2>7, <2>10, <2>11, <2>12, <2>13
    DEF CompleteMatchesTheStream, final, tokens, cited, at
<1>2. QED
  BY Invariant, <1>1, PTL

(* Only an answer over sources above the threshold is called one.          *)
THEOREM StreamGrounded == Spec => []GroundedMeansSources
<1>1. IInv => GroundedMeansSources
  <2> SUFFICES ASSUME IInv, pc = "done" PROVE GroundedMeansSources
    BY DEF GroundedMeansSources
  <2>1. Last(events) = AnswerComplete(text, citations, outcome)
    BY CompleteStream
  <2>2. /\ Last(events).text = text /\ Last(events).citations = citations
        /\ Last(events).outcome = outcome
    BY <2>1 DEF AnswerComplete
  <2>3. /\ outcome = "answered" => Sourced /\ text # NotFoundMessage
        /\ outcome # "answered" => citations = <<>>
    BY DEF IInv, AnswerInv
  <2>4. QED
    BY <2>2, <2>3 DEF GroundedMeansSources, Sourced
<1>2. QED
  BY Invariant, <1>1, PTL

(* When the lists are no longer than the constant of the fusion (20 and 60 *)
(* in the code), what both searches found comes before what one did.       *)
THEOREM StreamChannelsReinforce ==
    ASSUME RetrieveK <= RrfK PROVE Spec => []ChannelsReinforce
<1>1. IInv => ChannelsReinforce
  <2> SUFFICES ASSUME IInv PROVE ChannelsReinforce
    OBVIOUS
  <2>1. CASE candidates = <<>>
    BY <2>1 DEF ChannelsReinforce, IsInjective
  <2>2. CASE candidates # <<>>
    <3> DEFINE fused == ReciprocalRankFusion(dense, lexical)
               score(c) == FusedScore(dense, lexical, c)
               both == ToSet(dense) \cap ToSet(lexical)
    <3>1. candidates = Prefix(fused, RetrieveK)
      BY <2>2 DEF IInv, FusedInv
    <3>2. RetrieveK \in Nat
      BY FusionAssumption
    <3>3. /\ dense \in Seq(Chunk) /\ Len(dense) <= RetrieveK
          /\ lexical \in Seq(Chunk) /\ Len(lexical) <= RetrieveK
      BY <3>2, RankingTyped DEF IInv, TypeInv
    <3>4. /\ fused \in Seq(Chunk)
          /\ \A i, j \in DOMAIN fused : i # j => fused[i] # fused[j]
          /\ \A c \in Found(dense, lexical) : \E i \in DOMAIN fused : fused[i] = c
          /\ \A i, j \in DOMAIN fused : score(fused[i]) > score(fused[j]) => i < j
      BY <3>3, FusionLists
    <3>5. \A b \in both : \A c : c \notin both => score(b) > score(c)
      BY <3>3, BothOutscore
    <3>6. both \subseteq Found(dense, lexical)
      BY DEF Found
    <3> HIDE DEF fused, score, both
    <3>7. /\ candidates \in Seq(Chunk) /\ Len(candidates) <= Len(fused)
          /\ \A i \in 1 .. Len(candidates) : candidates[i] = fused[i]
      <4>1. fused \in Seq(Chunk)
        BY <3>4
      <4>2. /\ Prefix(fused, RetrieveK) \in Seq(Chunk)
            /\ Len(Prefix(fused, RetrieveK)) <= Len(fused)
            /\ \A i \in 1 .. Len(Prefix(fused, RetrieveK)) : Prefix(fused, RetrieveK)[i] = fused[i]
        BY ONLY <3>2, <4>1, PrefixOf
      <4>3. QED
        BY <3>1, <4>2, Zenon
    <3>8. /\ DOMAIN candidates = 1 .. Len(candidates) /\ DOMAIN fused = 1 .. Len(fused)
          /\ Len(candidates) \in Nat /\ Len(fused) \in Nat
      BY <3>4, <3>7
    <3>9. DOMAIN candidates \subseteq DOMAIN fused
      BY <3>7, <3>8
    <3>10. \A i, j \in DOMAIN candidates : candidates[i] = candidates[j] => i = j
      BY <3>4, <3>7, <3>8, <3>9
    <3>11. ASSUME NEW i \in DOMAIN candidates, candidates[i] \notin both, NEW c \in both
           PROVE  \E j \in 1 .. i - 1 : candidates[j] = c
      <4>1. PICK j \in DOMAIN fused : fused[j] = c
        BY <3>4, <3>6
      <4>2. score(fused[j]) > score(fused[i])
        BY <3>5, <3>7, <3>8, <3>11, <4>1
      <4>3. j < i
        BY <3>4, <3>9, <4>1, <4>2
      <4>4. j \in 1 .. i - 1 /\ j \in 1 .. Len(candidates)
        BY <3>8, <4>3
      <4>5. QED
        BY <3>7, <4>1, <4>4
    <3>12. QED
      BY <3>10, <3>11 DEF ChannelsReinforce, IsInjective, both
  <2>3. QED
    BY <2>1, <2>2
<1>2. QED
  BY Invariant, <1>1, PTL

(* The types of the state.                                                 *)
THEOREM StreamTypeOK == Spec => []TypeOK
<1>1. IInv => TypeOK
  <2> SUFFICES ASSUME IInv PROVE TypeOK
    OBVIOUS
  <2>1. TypeInv /\ Bound(text, citations) /\ RetrieveK \in Nat
    BY FusionAssumption DEF IInv, AnswerInv
  <2>2. dense \in Seq(Chunk) /\ lexical \in Seq(Chunk)
    BY <2>1, RankingTyped DEF TypeInv
  <2>3. QED
    BY <2>1, <2>2 DEF TypeOK, TypeInv, Places, Streamable, Bound
<1>2. QED
  BY Invariant, <1>1, PTL
=============================================================================
