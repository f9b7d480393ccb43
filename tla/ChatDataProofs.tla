--------------------------- MODULE ChatDataProofs ---------------------------
(***************************************************************************)
(* What the operators on rows and caches return, for any input: the pages  *)
(* of ChatStore, and the merge and the sort of ClientCache.  No state of   *)
(* Messaging occurs here.                                                  *)
(***************************************************************************)
EXTENDS ChatStore, ClientCache, TLAPS, FiniteSetTheorems, SequenceTheorems,
        WellFoundedInduction

-----------------------------------------------------------------------------
(* Numbers.                                                                *)

\* A set of numbers that is not empty has a least element.
LEMMA LeastElement ==
  ASSUME NEW T \in SUBSET Nat, T # {}
  PROVE  \E x \in T : \A y \in T : x <= y
<1> DEFINE R == OpToRel(<, Nat)
<1>1. IsWellFoundedOn(R, Nat)
  BY NatLessThanWellFounded
<1>2. \A x, y \in Nat : y < x => <<y, x>> \in R
  BY DEF OpToRel
<1> HIDE DEF R
<1>3. PICK x \in T : \A y \in T : <<y, x>> \notin R
  BY <1>1, WFMin
<1>4. ASSUME NEW y \in T
      PROVE  x <= y
  <2>1. x \in Nat /\ y \in Nat /\ <<y, x>> \notin R
    BY <1>3
  <2>2. ~(y < x)
    BY <1>2, <2>1
  <2> QED
    BY <2>1, <2>2
<1> QED
  BY <1>4

\* A set of numbers with a bound has a greatest element.
LEMMA MaxIsGreatest ==
  ASSUME NEW T \in SUBSET Nat, T # {}, NEW b \in Nat, \A y \in T : y <= b
  PROVE  Max(T) \in T /\ \A y \in T : y <= Max(T)
<1> DEFINE above == {n \in Nat : \A y \in T : y <= n}
<1>1. above # {} /\ above \in SUBSET Nat
  OBVIOUS
<1>2. PICK x \in above : \A y \in above : x <= y
  BY <1>1, LeastElement
<1>3. x \in T
  <2> SUFFICES ASSUME x \notin T PROVE FALSE
    OBVIOUS
  <2>1. x \in Nat /\ (\A y \in T : y \in Nat /\ y <= x /\ y # x) /\ \E y \in T : TRUE
    BY <1>2
  <2>2. x - 1 \in Nat /\ \A y \in T : y <= x - 1
    BY <2>1
  <2>3. ~(x <= x - 1)
    BY <2>1
  <2> QED
    BY <1>2, <2>2, <2>3
<1>4. \E m \in T : \A y \in T : m >= y
  BY <1>2, <1>3
<1> QED
  BY <1>4 DEF Max

\* The least one of them is Min.
LEMMA MinIsLeast ==
  ASSUME NEW T \in SUBSET Nat, T # {}
  PROVE  Min(T) \in T /\ \A y \in T : Min(T) <= y
BY LeastElement DEF Min

\* The values of a function on a finite set are finitely many, not more than
\* the set has elements.
LEMMA ValuesAreFinite ==
  ASSUME NEW S, IsFiniteSet(S), NEW f
  PROVE  /\ IsFiniteSet({f[x] : x \in S})
         /\ Cardinality({f[x] : x \in S}) <= Cardinality(S)
<1> DEFINE V == {f[x] : x \in S}
           g == [x \in S |-> f[x]]
<1>1. g \in Surjection(S, V)
  BY DEF Surjection
<1> HIDE DEF g, V
<1>2. IsFiniteSet(V) /\ Cardinality(V) <= Cardinality(S)
  BY <1>1, FS_Surjection
<1> QED
  BY <1>2 DEF V

\* A finite set of numbers has a bound.
LEMMA FiniteIsBounded ==
  ASSUME NEW S \in SUBSET Nat, IsFiniteSet(S)
  PROVE  \E b \in Nat : \A y \in S : y <= b
<1> DEFINE Bounded(T) == \E b \in Nat : \A y \in T : y <= b
           bad == {n \in Nat : \E T \in SUBSET S : Cardinality(T) = n /\ ~Bounded(T)}
<1>1. SUFFICES bad = {}
  <2>1. Cardinality(S) \in Nat
    BY FS_CardinalityType
  <2> QED
    BY <1>1, <2>1
<1>2. SUFFICES ASSUME bad # {} PROVE FALSE
  OBVIOUS
<1>3. PICK n \in bad : \A m \in bad : n <= m
  BY <1>2, LeastElement
<1>4. PICK T \in SUBSET S : Cardinality(T) = n /\ ~Bounded(T)
  BY <1>3
<1>5. PICK x \in T : TRUE
  BY <1>4
<1>6. /\ IsFiniteSet(T) /\ Cardinality(T \ {x}) = n - 1 /\ n - 1 \in Nat /\ T \ {x} \in SUBSET S
  <2>1. IsFiniteSet(T)
    BY FS_Subset
  <2>2. Cardinality(T \ {x}) = n - 1 /\ IsFiniteSet(T \ {x})
    BY <1>4, <1>5, <2>1, FS_RemoveElement
  <2>3. Cardinality(T \ {x}) \in Nat
    BY <2>2, FS_CardinalityType
  <2> QED
    BY <2>1, <2>2, <2>3
<1>7. Bounded(T \ {x})
  BY <1>3, <1>6
<1>8. PICK b \in Nat : \A y \in T \ {x} : y <= b
  BY <1>7
<1>9. Bounded(T)
  BY <1>5, <1>8
<1> QED
  BY <1>4, <1>9

-----------------------------------------------------------------------------
(* Orders.                                                                 *)

\* R orders S strictly and totally.
Orders(R, S) ==
    /\ \A x \in S : <<x, x>> \notin R
    /\ \A x, y, z \in S : <<x, y>> \in R /\ <<y, z>> \in R => <<x, z>> \in R
    /\ \A x, y \in S : x = y \/ <<x, y>> \in R \/ <<y, x>> \in R

\* What is before x.
Under(x, R, S) == {y \in S : <<y, x>> \in R}

\* More is before the later of two elements.
LEMMA MoreIsBefore ==
  ASSUME NEW S, IsFiniteSet(S), NEW R, Orders(R, S), NEW x \in S, NEW y \in S, <<x, y>> \in R
  PROVE  Cardinality(Under(x, R, S)) < Cardinality(Under(y, R, S))
<1>1. /\ Under(x, R, S) \in SUBSET Under(y, R, S)
      /\ x \in Under(y, R, S) /\ x \notin Under(x, R, S) /\ Under(y, R, S) \subseteq S
  BY DEF Orders, Under
<1>2. IsFiniteSet(Under(y, R, S))
  BY <1>1, FS_Subset
<1>3. /\ Cardinality(Under(x, R, S)) <= Cardinality(Under(y, R, S))
      /\ Cardinality(Under(x, R, S)) # Cardinality(Under(y, R, S))
      /\ IsFiniteSet(Under(x, R, S))
  BY <1>1, <1>2, FS_Subset
<1>4. Cardinality(Under(x, R, S)) \in Nat /\ Cardinality(Under(y, R, S)) \in Nat
  BY <1>2, <1>3, FS_CardinalityType
<1> QED
  BY <1>3, <1>4

\* Counting what is before an element numbers a finite set from 0: every
\* number below its size is the number of exactly one element.
LEMMA EveryPlaceIsTaken ==
  ASSUME NEW S, IsFiniteSet(S), NEW R, Orders(R, S), NEW i \in 1..Cardinality(S)
  PROVE  \E x \in S : Cardinality(Under(x, R, S)) = i - 1
<1> DEFINE below(x) == {y \in S : <<y, x>> \in R}
           n == Cardinality(S)
           T == 0..(n - 1)
           rank == [x \in S |-> Cardinality(below(x))]
<1>1. n \in Nat /\ i \in 1..n
  BY FS_CardinalityType
<1>2. IsFiniteSet(T) /\ Cardinality(T) = n
  <2> HIDE DEF n
  <2>1. 0 \in Int /\ n - 1 \in Int /\ (0 > n - 1 => n = 0) /\ (n - 1) - 0 + 1 = n
    BY <1>1
  <2> QED
    BY <2>1, FS_Interval
<1>3. \A x \in S : IsFiniteSet(below(x)) /\ Cardinality(below(x)) \in Nat
  BY FS_Subset, FS_CardinalityType
<1>4. \A x \in S : Cardinality(below(x)) < n
  <2> SUFFICES ASSUME NEW x \in S PROVE Cardinality(below(x)) < n
    OBVIOUS
  <2>1. below(x) \in SUBSET S /\ below(x) # S
    BY DEF Orders
  <2>2. Cardinality(below(x)) <= Cardinality(S) /\ Cardinality(S) # Cardinality(below(x))
    BY <2>1, FS_Subset
  <2> QED
    BY <1>1, <1>3, <2>2
<1>5. \A x, y \in S : <<x, y>> \in R => Cardinality(below(x)) < Cardinality(below(y))
  BY MoreIsBefore DEF Under
<1> HIDE DEF n, below
<1>6. rank \in Injection(S, T)
  <2>1. rank \in [S -> T]
    BY <1>1, <1>3, <1>4
  <2>2. \A x, y \in S : rank[x] = rank[y] => x = y
    <3> SUFFICES ASSUME NEW x \in S, NEW y \in S, rank[x] = rank[y] PROVE x = y
      OBVIOUS
    <3>1. /\ Cardinality(below(x)) = Cardinality(below(y)) /\ Cardinality(below(x)) \in Nat
      BY <1>3
    <3>2. <<x, y>> \notin R /\ <<y, x>> \notin R
      BY <1>5, <3>1
    <3> QED
      BY <3>2 DEF Orders
  <2> QED
    BY <2>1, <2>2 DEF Injection, IsInjective
<1>7. rank \in Surjection(S, T)
  BY <1>2, <1>6, FS_Injection DEF n
<1>8. i - 1 \in T
  <2>1. i \in Nat /\ 1 <= i /\ i <= n
    BY <1>1
  <2> QED
    BY <1>1, <2>1
<1> QED
  BY <1>7, <1>8 DEF Surjection, below, Under

\* The numbers of two elements are in the order of the elements.
LEMMA PlacesAreInOrder ==
  ASSUME NEW S, IsFiniteSet(S), NEW R, Orders(R, S), NEW x \in S, NEW y \in S,
         Cardinality(Under(x, R, S)) < Cardinality(Under(y, R, S))
  PROVE  <<x, y>> \in R
<1> DEFINE below(v) == {z \in S : <<z, v>> \in R}
<1>1. \A v \in S : IsFiniteSet(below(v)) /\ Cardinality(below(v)) \in Nat
  BY FS_Subset, FS_CardinalityType
<1>2. x # y
  <2>1. Cardinality(below(x)) < Cardinality(below(y))
    BY DEF Under
  <2> HIDE DEF below
  <2> QED
    BY <1>1, <2>1
<1>3. ASSUME <<y, x>> \in R PROVE FALSE
  <2>1. below(y) \in SUBSET below(x)
    BY <1>3 DEF Orders
  <2>2. Cardinality(below(x)) < Cardinality(below(y))
    BY DEF Under
  <2> HIDE DEF below
  <2>3. Cardinality(below(y)) <= Cardinality(below(x))
    BY <1>1, <2>1, FS_Subset
  <2> QED
    BY <1>1, <2>2, <2>3
<1> QED
  BY <1>2, <1>3 DEF Orders

-----------------------------------------------------------------------------
(* Sets as sequences.                                                      *)

\* The rows of a query without ORDER BY.
LEMMA SetToSeqLists ==
  ASSUME NEW S, IsFiniteSet(S)
  PROVE  /\ SetToSeq(S) \in Seq(S)
         /\ \A x \in S : \E i \in DOMAIN SetToSeq(S) : SetToSeq(S)[i] = x
<1>1. Cardinality(S) \in Nat /\ \E f \in [1..Cardinality(S) -> S] : IsInjective(f)
  BY FS_CardinalityType DEF ExistsBijection, Bijection, Injection
<1>2. PICK f, I : f = SetToSeq(S) /\ I = 1..Cardinality(S)
  OBVIOUS
<1>3. f \in [I -> S] /\ IsInjective(f)
  BY <1>1, <1>2 DEF SetToSeq
<1>4. Cardinality(I) = Cardinality(S)
  BY <1>1, <1>2, FS_Interval
<1>5. f \in Injection(I, S)
  BY <1>3 DEF Injection
<1>6. f \in Surjection(I, S)
  BY <1>4, <1>5, FS_Injection
<1>7. \A x \in S : \E i \in I : f[i] = x
  BY <1>6 DEF Surjection
<1>8. f \in Seq(S)
  BY <1>1, <1>2, <1>3, SeqDef
<1> QED
  BY <1>2, <1>3, <1>7, <1>8

\* The order of numbers, as a relation.
LEMMA LessOrders ==
  ASSUME NEW S \in SUBSET Nat
  PROVE  LET R == {p \in S \X S : p[1] < p[2]}
         IN  Orders(R, S) /\ \A x \in S : Under(x, R, S) = {y \in S : y < x}
BY DEF Orders, Under

\* A page of ids is ids.
LEMMA PageLists ==
  ASSUME NEW ids \in SUBSET Nat, IsFiniteSet(ids), StoreAssumption
  PROVE  Page(ids) \in Seq(ids)
<1> DEFINE n == IF Cardinality(ids) < PageSize THEN Cardinality(ids) ELSE PageSize
           R == {p \in ids \X ids : p[1] < p[2]}
           nth(i) == CHOOSE x \in ids : Cardinality({y \in ids : y < x}) = i - 1
<1>1. Cardinality(ids) \in Nat /\ n \in Nat /\ \A i \in 1..n : i \in 1..Cardinality(ids)
  BY FS_CardinalityType DEF StoreAssumption
<1>2. Orders(R, ids) /\ \A x \in ids : Under(x, R, ids) = {y \in ids : y < x}
  BY LessOrders
<1>3. \A i \in 1..n : nth(i) \in ids
  <2> SUFFICES ASSUME NEW i \in 1..n PROVE nth(i) \in ids
    OBVIOUS
  <2>1. i \in 1..Cardinality(ids)
    BY <1>1
  <2> HIDE DEF R
  <2>2. \E x \in ids : Cardinality(Under(x, R, ids)) = i - 1
    BY <1>2, <2>1, EveryPlaceIsTaken
  <2>3. \E x \in ids : Cardinality({y \in ids : y < x}) = i - 1
    BY <1>2, <2>2
  <2> QED
    BY <2>3
<1>4. Page(ids) = [i \in 1..n |-> nth(i)]
  BY DEF Page
<1> HIDE DEF n, nth
<1>5. [i \in 1..n |-> nth(i)] \in [1..n -> ids]
  BY <1>3
<1> QED
  BY <1>1, <1>4, <1>5, SeqDef

\* Every id is on the page, or comes after the last one there when the page
\* does not hold them all.
LEMMA PageIsComplete ==
  ASSUME NEW ids \in SUBSET Nat, IsFiniteSet(ids), StoreAssumption, NEW x \in ids,
         Cardinality(ids) > PageSize => x <= Page(ids)[Len(Page(ids))]
  PROVE  \E i \in DOMAIN Page(ids) : Page(ids)[i] = x
<1> DEFINE c == Cardinality(ids)
           n == IF c < PageSize THEN c ELSE PageSize
           R == {p \in ids \X ids : p[1] < p[2]}
           rank(y) == Cardinality({z \in ids : z < y})
           nth(i) == CHOOSE y \in ids : rank(y) = i - 1
<1>1. c \in Nat /\ n \in Nat /\ n <= c /\ (c > PageSize => n = PageSize /\ n > 0)
      /\ (c <= PageSize => n = c)
  BY FS_CardinalityType DEF StoreAssumption
<1>2. Orders(R, ids) /\ \A y \in ids : Under(y, R, ids) = {z \in ids : z < y}
  BY LessOrders
<1>3. \A y, z \in ids : <<y, z>> \in R <=> y < z
  OBVIOUS
<1>4. Page(ids) = [i \in 1..n |-> nth(i)]
  BY DEF Page
<1> HIDE DEF R
<1>5. \A y, z \in ids : y < z => rank(y) < rank(z)
  BY <1>2, <1>3, MoreIsBefore
<1>6. \A y \in ids : rank(y) \in Nat /\ rank(y) < c
  <2> SUFFICES ASSUME NEW y \in ids PROVE rank(y) \in Nat /\ rank(y) < c
    OBVIOUS
  <2> DEFINE below == {z \in ids : z < y}
  <2>1. below \in SUBSET ids /\ y \notin below
    OBVIOUS
  <2> HIDE DEF below
  <2>2. IsFiniteSet(below) /\ Cardinality(below) <= c /\ Cardinality(below) # c
    BY <2>1, FS_Subset
  <2>3. Cardinality(below) \in Nat
    BY <2>2, FS_CardinalityType
  <2> QED
    BY <1>1, <2>2, <2>3 DEF below
<1>7. \A i \in 1..c : nth(i) \in ids /\ rank(nth(i)) = i - 1
  <2> SUFFICES ASSUME NEW i \in 1..c PROVE nth(i) \in ids /\ rank(nth(i)) = i - 1
    OBVIOUS
  <2>1. \E y \in ids : Cardinality(Under(y, R, ids)) = i - 1
    BY <1>2, EveryPlaceIsTaken
  <2>2. \E y \in ids : rank(y) = i - 1
    BY <1>2, <2>1
  <2> HIDE DEF rank
  <2> QED
    BY <2>2
<1> HIDE DEF rank, nth, c, n
<1>8. rank(x) < n
  <2>1. CASE c <= PageSize
    BY <1>1, <1>6, <2>1
  <2>2. CASE c > PageSize
    <3>1. n \in 1..c /\ n \in 1..n
      BY <1>1, <2>2
    <3>2. Len(Page(ids)) = n
      BY <1>1, <1>4
    <3>3. x <= nth(n) /\ nth(n) \in ids /\ rank(nth(n)) = n - 1
      BY <1>4, <1>7, <2>2, <3>1, <3>2 DEF c
    <3>4. PICK y \in ids : y = nth(n)
      BY <3>3
    <3>5. x = y \/ x < y
      BY <3>3, <3>4
    <3>6. x = y \/ rank(x) < rank(y)
      BY <1>5, <3>5
    <3>7. rank(x) \in Nat /\ rank(y) = n - 1
      BY <1>6, <3>3, <3>4
    <3> QED
      BY <1>1, <3>6, <3>7
  <2> QED
    BY <1>1, <2>1, <2>2 DEF StoreAssumption
<1>9. rank(x) + 1 \in 1..n /\ rank(x) + 1 \in 1..c
  BY <1>1, <1>6, <1>8
<1>10. nth(rank(x) + 1) \in ids /\ rank(nth(rank(x) + 1)) = rank(x)
  BY <1>6, <1>7, <1>9
<1>11. nth(rank(x) + 1) = x
  <2>1. PICK y \in ids : y = nth(rank(x) + 1)
    BY <1>10
  <2>2. x < y \/ y < x \/ x = y
    OBVIOUS
  <2>3. rank(y) = rank(x) /\ rank(x) \in Nat
    BY <1>6, <1>10, <2>1
  <2>4. ~(x < y) /\ ~(y < x)
    BY <1>5, <2>3
  <2> QED
    BY <2>1, <2>2, <2>4
<1> QED
  BY <1>4, <1>9, <1>11

-----------------------------------------------------------------------------
(* The sort of a chat.                                                     *)

\* A permutation p of the messages that puts them into the order of the sort.
Sorts(p, msgs) ==
    /\ p \in [DOMAIN msgs -> DOMAIN msgs]
    /\ \A i \in DOMAIN msgs : \E k \in DOMAIN msgs : p[k] = i
    /\ \A k, l \in DOMAIN msgs : k < l => Before(msgs, p[k], p[l])

\* The comparison with the old place as the tie break is a strict order.
LEMMA BeforeOrders ==
  ASSUME NEW G, NEW msgs \in Seq(G), \A m \in G : m.id \in Nat
  PROVE  LET D == DOMAIN msgs
             R == {p \in D \X D : Before(msgs, p[1], p[2])}
         IN  Orders(R, D) /\ \A x \in D : Under(x, R, D) = {y \in D : Before(msgs, y, x)}
<1> DEFINE D == DOMAIN msgs
           R == {p \in D \X D : Before(msgs, p[1], p[2])}
<1>1. D \subseteq Nat /\ \A i \in D : msgs[i].id \in Nat
  BY LenProperties, ElementOfSeq
<1>2. \A x, y \in D : <<x, y>> \in R <=> Before(msgs, x, y)
  OBVIOUS
<1> HIDE DEF D
<1>3. \A x \in D : ~Before(msgs, x, x)
  BY <1>1 DEF Before, Less
<1>4. \A x, y \in D : x = y \/ Before(msgs, x, y) \/ Before(msgs, y, x)
  BY <1>1 DEF Before, Less
<1>5. \A x, y, z \in D : Before(msgs, x, y) /\ Before(msgs, y, z) => Before(msgs, x, z)
  BY <1>1 DEF Before, Less
<1> HIDE DEF R
<1>6. Orders(R, D)
  BY <1>2, <1>3, <1>4, <1>5 DEF Orders
<1> QED
  BY <1>2, <1>6 DEF D, R, Under

\* InOrder is a permutation of the messages, in order.
LEMMA InOrderSorts ==
  ASSUME NEW G, NEW msgs \in Seq(G), \A m \in G : m.id \in Nat
  PROVE  /\ InOrder(msgs) \in Seq(G) /\ DOMAIN InOrder(msgs) = DOMAIN msgs
         /\ \E p : Sorts(p, msgs) /\ \A k \in DOMAIN msgs : InOrder(msgs)[k] = msgs[p[k]]
<1> DEFINE D == DOMAIN msgs
           n == Len(msgs)
           R == {p \in D \X D : Before(msgs, p[1], p[2])}
           below(i) == {j \in D : Before(msgs, j, i)}
           p == [k \in D |-> CHOOSE i \in D : Cardinality(below(i)) = k - 1]
<1>1. n \in Nat /\ D = 1..n /\ IsFiniteSet(D) /\ Cardinality(D) = n /\ msgs \in [D -> G]
  <2>1. n \in Nat /\ D = 1..n /\ msgs \in [D -> G]
    BY LenProperties
  <2> HIDE DEF n, D
  <2>2. 1 \in Int /\ n \in Int /\ (1 > n => n = 0) /\ n - 1 + 1 = n
    BY <2>1
  <2>3. IsFiniteSet(1..n) /\ Cardinality(1..n) = n
    BY <2>2, FS_Interval
  <2> QED
    BY <2>1, <2>3
<1>2. Orders(R, D) /\ \A x \in D : Under(x, R, D) = below(x)
  BY BeforeOrders
<1>3. \A x, y \in D : <<x, y>> \in R => Before(msgs, x, y)
  OBVIOUS
<1>4. \A k \in D : p[k] = CHOOSE i \in D : Cardinality(below(i)) = k - 1
  OBVIOUS
<1>5. InOrder(msgs) = [k \in D |-> msgs[p[k]]]
  BY DEF InOrder
<1>6. DOMAIN p = D
  OBVIOUS
<1> HIDE DEF D, n, R, below, p
<1>7. \A k \in D : p[k] \in D /\ Cardinality(below(p[k])) = k - 1
  <2> SUFFICES ASSUME NEW k \in D PROVE p[k] \in D /\ Cardinality(below(p[k])) = k - 1
    OBVIOUS
  <2>1. k \in 1..Cardinality(D) /\ IsFiniteSet(D) /\ Orders(R, D)
    BY <1>1, <1>2
  <2>2. \E x \in D : Cardinality(Under(x, R, D)) = k - 1
    BY <2>1, EveryPlaceIsTaken
  <2>3. \E x \in D : Cardinality(below(x)) = k - 1
    BY <1>2, <2>2
  <2> QED
    BY <1>4, <2>3
<1>8. \A k, l \in D : k < l => Before(msgs, p[k], p[l])
  <2> SUFFICES ASSUME NEW k \in D, NEW l \in D, k < l PROVE Before(msgs, p[k], p[l])
    OBVIOUS
  <2>1. Cardinality(below(p[k])) < Cardinality(below(p[l]))
    BY <1>1, <1>7
  <2>2. Cardinality(Under(p[k], R, D)) < Cardinality(Under(p[l], R, D))
    BY <1>2, <1>7, <2>1
  <2>3. <<p[k], p[l]>> \in R
    BY <1>1, <1>2, <1>7, <2>2, PlacesAreInOrder
  <2> QED
    BY <1>3, <1>7, <2>3
<1>9. \A i \in D : \E k \in D : p[k] = i
  <2>1. \A k, l \in D : p[k] = p[l] => k = l
    <3> SUFFICES ASSUME NEW k \in D, NEW l \in D, p[k] = p[l] PROVE k = l
      OBVIOUS
    <3>1. k - 1 = l - 1 /\ k \in Nat /\ l \in Nat
      BY <1>1, <1>7
    <3> QED
      BY <3>1
  <2>2. p \in [D -> D]
    BY <1>6, <1>7 DEF p
  <2>3. p \in Injection(D, D)
    BY <2>1, <2>2 DEF Injection, IsInjective
  <2>4. p \in Surjection(D, D)
    BY <1>1, <2>3, FS_Injection
  <2> QED
    BY <2>4 DEF Surjection
<1>10. p \in [D -> D]
  BY <1>7 DEF p
<1>11. Sorts(p, msgs)
  BY <1>8, <1>9, <1>10 DEF Sorts, D
<1>12. InOrder(msgs) \in [1..n -> G] /\ \A k \in D : InOrder(msgs)[k] = msgs[p[k]]
  BY <1>1, <1>5, <1>7
<1> QED
  BY <1>1, <1>11, <1>12, SeqDef DEF D

-----------------------------------------------------------------------------
(* The merge of a batch into a chat.                                       *)

Statuses == {"sending", "failed", "sent", "unread"}
Message == [cid : Users \X Users \X Nat, id : Nat, from : Users, status : Statuses]

\* Messages of one chat: a client id has one server id, which is no other's,
\* a copy may bring another's id and status to the same client id, and a status
\* may change.
Mergeable(G) ==
    /\ G \subseteq Message
    /\ \A m, n \in G : m.cid = n.cid => [m EXCEPT !.id = n.id, !.status = n.status] \in G
    /\ \A m \in G, st \in Statuses : [m EXCEPT !.status = st] \in G
    /\ \A m, n \in G : m.id > 0 /\ n.id > 0 => (m.cid = n.cid <=> m.id = n.id)

\* No client id is there twice.
Distinct(msgs) == \A j, k \in DOMAIN msgs : msgs[j].cid = msgs[k].cid => j = k

\* The message c is there under the server id i.
Shows(msgs, c, i) == \E k \in DOMAIN msgs : msgs[k].cid = c /\ msgs[k].id = i /\ i > 0
ShowsNew(m, c, i) == m.cid = c /\ m.id = i /\ i > 0

\* One message: nothing that is shown goes, and nothing but the new comes.
LEMMA MergeKeeps ==
  ASSUME NEW G, Mergeable(G), NEW msgs \in Seq(G), Distinct(msgs), NEW new \in G
  PROVE  /\ Merge(msgs, new) \in Seq(G) /\ Distinct(Merge(msgs, new))
         /\ \A c, i : Shows(Merge(msgs, new), c, i) <=> Shows(msgs, c, i) \/ ShowsNew(new, c, i)
<1> DEFINE at == {i \in DOMAIN msgs : msgs[i].cid = new.cid}
           out == Merge(msgs, new)
<1>1. /\ Len(msgs) \in Nat /\ DOMAIN msgs = 1..Len(msgs) /\ \A k \in DOMAIN msgs : msgs[k] \in G
      /\ G \subseteq Message
  BY LenProperties, ElementOfSeq DEF Mergeable
<1>2. CASE at = {}
  <2>1. out = Append(msgs, new)
    BY <1>2 DEF Merge
  <2>2. /\ out \in Seq(G) /\ Len(out) = Len(msgs) + 1 /\ out[Len(msgs) + 1] = new
        /\ \A k \in 1..Len(msgs) : out[k] = msgs[k]
    BY <2>1, AppendProperties
  <2>3. DOMAIN out = 1..(Len(msgs) + 1)
    BY <2>2, LenProperties
  <2> HIDE DEF out
  <2>4. \A k \in DOMAIN out : \/ k \in DOMAIN msgs /\ out[k] = msgs[k]
                              \/ k = Len(msgs) + 1 /\ out[k] = new
    BY <1>1, <2>2, <2>3
  <2>5. Distinct(out)
    BY <1>1, <1>2, <2>4 DEF Distinct
  <2>6. DOMAIN msgs \subseteq DOMAIN out /\ Len(msgs) + 1 \in DOMAIN out
    BY <1>1, <2>3
  <2>7. \A c, i : Shows(out, c, i) <=> Shows(msgs, c, i) \/ ShowsNew(new, c, i)
    BY <1>1, <2>2, <2>4, <2>6 DEF Shows, ShowsNew
  <2> QED
    BY <2>2, <2>5, <2>7 DEF out
<1>3. CASE at # {}
  <2> DEFINE put(m) == [m EXCEPT !.id = new.id, !.status = new.status]
  <2>1. PICK x \in at : TRUE
    BY <1>3
  <2>2. at = {x} /\ x \in DOMAIN msgs /\ msgs[x].cid = new.cid
    BY <2>1 DEF Distinct
  <2>3. Min(at) = x
    <3>1. at \in SUBSET Nat
      BY <1>1
    <3> QED
      BY <1>3, <2>2, <3>1, MinIsLeast
  <2>4. out = [i \in DOMAIN msgs |-> IF i = x /\ (msgs[i].id = 0 \/ new.id > 0)
                                       THEN put(msgs[i]) ELSE msgs[i]]
    BY <1>3, <2>3 DEF Merge
  <2>5. \A k \in DOMAIN msgs : msgs[k] \in Message
    BY <1>1
  <2>6. \A m \in Message : put(m).cid = m.cid /\ put(m).id = new.id
    BY DEF Message
  <2>7. put(msgs[x]) \in G
    BY <1>1, <2>2 DEF Mergeable
  <2> HIDE DEF at, out, put
  <2>8. \A k \in DOMAIN msgs : /\ out[k] \in G /\ out[k].cid = msgs[k].cid
                               /\ k # x => out[k] = msgs[k]
    BY <1>1, <2>4, <2>5, <2>6, <2>7
  <2>9. out \in Seq(G) /\ DOMAIN out = DOMAIN msgs
    <3>1. out \in [1..Len(msgs) -> G]
      BY <1>1, <2>4, <2>8
    <3> QED
      BY <1>1, <3>1, SeqDef
  <2>10. Distinct(out)
    BY <2>8, <2>9 DEF Distinct
  <2>11. new \in Message /\ new.id \in Nat /\ msgs[x].id \in Nat
    BY <1>1, <2>2, <2>5 DEF Message
  <2>12. out[x].id = IF new.id > 0 THEN new.id ELSE msgs[x].id
    BY <2>2, <2>4, <2>5, <2>6, <2>11
  <2>13. msgs[x].id > 0 /\ new.id > 0 => msgs[x].id = new.id
    BY <1>1, <2>2 DEF Mergeable
  <2>14. \A c, i : Shows(out, c, i) <=> Shows(msgs, c, i) \/ ShowsNew(new, c, i)
    BY <2>2, <2>8, <2>9, <2>11, <2>12, <2>13 DEF Shows, ShowsNew
  <2> QED
    BY <2>9, <2>10, <2>14 DEF out
<1> QED
  BY <1>2, <1>3

\* The chat after each message of a batch.
Merging(g, msgs, batch, n) ==
    /\ g = [k \in 0..n |-> g[k]] /\ g[0] = msgs
    /\ \A k \in 1..n : g[k] = Merge(g[k - 1], batch[k])

\* There is such a function of the number of messages merged.
LEMMA MergingExists ==
  ASSUME NEW msgs, NEW batch, NEW n \in Nat
  PROVE  \E g : Merging(g, msgs, batch, n)
<1> DEFINE bad == {k \in Nat : ~\E g : Merging(g, msgs, batch, k)}
<1>1. SUFFICES ASSUME bad # {} PROVE FALSE
  OBVIOUS
<1>2. PICK k \in bad : \A j \in bad : k <= j
  BY <1>1, LeastElement
<1>3. CASE k = 0
  <2>1. Merging([j \in 0..0 |-> msgs], msgs, batch, 0)
    BY DEF Merging
  <2> QED
    BY <1>2, <1>3, <2>1
<1>4. CASE k # 0
  <2>1. k - 1 \in Nat /\ k - 1 \notin bad
    BY <1>2, <1>4
  <2>2. PICK g : Merging(g, msgs, batch, k - 1)
    BY <2>1
  <2> DEFINE h == [j \in 0..k |-> IF j = k THEN Merge(g[k - 1], batch[k]) ELSE g[j]]
  <2>3. h[0] = msgs /\ h[k] = Merge(h[k - 1], batch[k])
    BY <1>4, <2>1, <2>2 DEF Merging
  <2>4. \A j \in 1..(k - 1) : h[j] = Merge(h[j - 1], batch[j])
    <3> SUFFICES ASSUME NEW j \in 1..(k - 1) PROVE h[j] = Merge(h[j - 1], batch[j])
      OBVIOUS
    <3>1. j \in 0..k /\ j - 1 \in 0..k /\ j # k /\ j - 1 # k
      BY <2>1
    <3>2. h[j] = g[j] /\ h[j - 1] = g[j - 1]
      BY <3>1
    <3> QED
      BY <2>2, <3>2 DEF Merging
  <2>5. h = [j \in 0..k |-> h[j]]
    OBVIOUS
  <2> HIDE DEF h
  <2>6. \A j \in 1..k : j = k \/ j \in 1..(k - 1)
    BY <2>1
  <2>7. Merging(h, msgs, batch, k)
    BY <2>3, <2>4, <2>5, <2>6 DEF Merging
  <2> QED
    BY <1>2, <2>7
<1> QED
  BY <1>3, <1>4

\* What MergeAll computes is the last value of such a function.
LEMMA MergeAllMerges ==
  ASSUME NEW G, NEW msgs, NEW batch \in Seq(G)
  PROVE  \E g : Merging(g, msgs, batch, Len(batch)) /\ MergeAll(msgs, batch) = g[Len(batch)]
<1> DEFINE n == Len(batch)
           value(g) == [k \in 0..n |-> IF k = 0 THEN msgs ELSE Merge(g[k - 1], batch[k])]
           merged == CHOOSE g : g = value(g)
<1>1. n \in Nat
  BY LenProperties
<1>2. MergeAll(msgs, batch) = merged[n]
  BY DEF MergeAll
<1>3. PICK g : Merging(g, msgs, batch, n)
  BY <1>1, MergingExists
<1> HIDE DEF n
<1>4. g = value(g)
  <2>1. \A k \in 0..n : g[k] = value(g)[k]
    <3> SUFFICES ASSUME NEW k \in 0..n PROVE g[k] = value(g)[k]
      OBVIOUS
    <3>1. k = 0 \/ k \in 1..n
      BY <1>1
    <3> QED
      BY <1>3, <3>1 DEF Merging
  <2> QED
    BY <1>3, <2>1 DEF Merging
<1>5. merged = value(merged)
  BY <1>4
<1> HIDE DEF merged
<1>6. /\ \A k \in 0..n : merged[k] = IF k = 0 THEN msgs ELSE Merge(merged[k - 1], batch[k])
      /\ merged = [k \in 0..n |-> merged[k]]
  <2>1. \A k \in 0..n : value(merged)[k] = IF k = 0 THEN msgs ELSE Merge(merged[k - 1], batch[k])
    OBVIOUS
  <2>2. value(merged) = [k \in 0..n |-> value(merged)[k]]
    OBVIOUS
  <2> HIDE DEF value
  <2> QED
    BY <1>5, <2>1, <2>2
<1>7. Merging(merged, msgs, batch, n)
  BY <1>1, <1>6 DEF Merging
<1> QED
  BY <1>2, <1>7 DEF n

\* A batch: nothing that is shown goes, and nothing but the batch comes.
LEMMA MergeAllKeeps ==
  ASSUME NEW G, Mergeable(G), NEW msgs \in Seq(G), Distinct(msgs), NEW batch \in Seq(G)
  PROVE  /\ MergeAll(msgs, batch) \in Seq(G) /\ Distinct(MergeAll(msgs, batch))
         /\ \A c, i : Shows(MergeAll(msgs, batch), c, i) <=>
                        Shows(msgs, c, i) \/ Shows(batch, c, i)
<1> DEFINE n == Len(batch)
           some(k, c, i) == \E j \in 1..k : ShowsNew(batch[j], c, i)
           good(s, k) == /\ s \in Seq(G) /\ Distinct(s)
                         /\ \A c, i : Shows(s, c, i) <=> Shows(msgs, c, i) \/ some(k, c, i)
<1>1. n \in Nat /\ DOMAIN batch = 1..n /\ \A k \in 1..n : batch[k] \in G
  BY LenProperties, ElementOfSeq
<1>2. PICK g : Merging(g, msgs, batch, n) /\ MergeAll(msgs, batch) = g[n]
  BY MergeAllMerges
<1> HIDE DEF n
<1>3. good(g[0], 0)
  <2>1. g[0] = msgs /\ \A c, i : ~some(0, c, i)
    BY <1>2 DEF Merging
  <2> QED
    BY <2>1
<1>4. ASSUME NEW k \in 1..n, good(g[k - 1], k - 1)
      PROVE  good(g[k], k)
  <2>1. g[k] = Merge(g[k - 1], batch[k]) /\ batch[k] \in G
    BY <1>1, <1>2 DEF Merging
  <2>2. g[k - 1] \in Seq(G) /\ Distinct(g[k - 1])
    BY <1>4
  <2>3. /\ g[k] \in Seq(G) /\ Distinct(g[k])
        /\ \A c, i : Shows(g[k], c, i) <=> Shows(g[k - 1], c, i) \/ ShowsNew(batch[k], c, i)
    BY <2>1, <2>2, MergeKeeps
  <2>4. \A j \in 1..k : j \in 1..(k - 1) \/ j = k
    OBVIOUS
  <2>5. \A c, i : some(k, c, i) <=> some(k - 1, c, i) \/ ShowsNew(batch[k], c, i)
    BY <1>1, <2>4
  <2> QED
    BY <1>4, <2>3, <2>5
<1>5. good(g[n], n)
  <2> DEFINE bad == {k \in 0..n : ~good(g[k], k)}
  <2> HIDE DEF good
  <2>1. SUFFICES ASSUME bad # {} PROVE FALSE
    BY <1>1
  <2>2. bad \in SUBSET Nat
    BY <1>1
  <2>3. PICK k \in bad : \A j \in bad : k <= j
    BY <2>1, <2>2, LeastElement
  <2>4. k # 0
    BY <1>3, <2>3
  <2>5. k \in 1..n /\ k - 1 \in 0..n /\ ~(k <= k - 1)
    BY <1>1, <2>3, <2>4
  <2>6. good(g[k - 1], k - 1)
    BY <2>3, <2>5
  <2> QED
    BY <1>4, <2>3, <2>5, <2>6
<1>6. \A c, i : some(n, c, i) <=> Shows(batch, c, i)
  BY <1>1 DEF Shows, ShowsNew
<1> QED
  BY <1>2, <1>5, <1>6

\* In the order of the server's ids, the unconfirmed ones last.
Ordered(msgs) == \A j, k \in DOMAIN msgs :
    j < k /\ msgs[k].id > 0 => 0 < msgs[j].id /\ msgs[j].id < msgs[k].id

\* The sort of a chat with distinct client ids.
LEMMA InOrderKeeps ==
  ASSUME NEW G, Mergeable(G), NEW msgs \in Seq(G), Distinct(msgs)
  PROVE  /\ InOrder(msgs) \in Seq(G) /\ Distinct(InOrder(msgs)) /\ Ordered(InOrder(msgs))
         /\ \A c, i : Shows(InOrder(msgs), c, i) <=> Shows(msgs, c, i)
<1> DEFINE D == DOMAIN msgs
           out == InOrder(msgs)
<1>1. G \subseteq Message /\ \A m \in G : m.id \in Nat
  BY DEF Mergeable, Message
<1>2. out \in Seq(G) /\ DOMAIN out = D
  BY <1>1, InOrderSorts
<1>3. PICK p : Sorts(p, msgs) /\ \A k \in D : out[k] = msgs[p[k]]
  BY <1>1, InOrderSorts
<1>4. D \subseteq Nat /\ \A k \in D : msgs[k] \in G
  BY LenProperties, ElementOfSeq
<1> HIDE DEF out
<1>5. /\ \A k \in D : p[k] \in D
      /\ \A i \in D : \E k \in D : p[k] = i
      /\ \A k, l \in D : k < l => Before(msgs, p[k], p[l])
  BY <1>3 DEF Sorts
<1> HIDE DEF D
<1>6. \A i \in D : ~Before(msgs, i, i)
  BY <1>1, <1>4 DEF Before, Less
<1>7. Distinct(out)
  <2> SUFFICES ASSUME NEW j \in D, NEW k \in D, out[j].cid = out[k].cid PROVE j = k
    BY <1>2 DEF Distinct
  <2>1. p[j] = p[k]
    <3>1. p[j] \in D /\ p[k] \in D /\ msgs[p[j]].cid = msgs[p[k]].cid
      BY <1>3, <1>5
    <3> QED
      BY <3>1 DEF Distinct, D
  <2>2. ~(j < k) /\ ~(k < j)
    BY <1>5, <1>6, <2>1
  <2> QED
    BY <1>4, <2>2
<1>8. Ordered(out)
  <2> SUFFICES ASSUME NEW j \in D, NEW k \in D, j < k, out[k].id > 0
               PROVE  0 < out[j].id /\ out[j].id < out[k].id
    BY <1>2 DEF Ordered
  <2> DEFINE m == msgs[p[j]]
             n == msgs[p[k]]
  <2>1. Before(msgs, p[j], p[k]) /\ out[j] = m /\ out[k] = n /\ m \in G /\ n \in G
    BY <1>3, <1>4, <1>5
  <2>2. p[j] # p[k]
    BY <1>5, <1>6, <2>1
  <2>3. m.cid # n.cid
    BY <1>5, <2>2 DEF Distinct, D
  <2>4. m.id > 0 => m.id # n.id
    BY <2>1, <2>3 DEF Mergeable
  <2>5. Less(m, n) \/ ~Less(n, m)
    BY <2>1 DEF Before
  <2> HIDE DEF m, n
  <2>6. m.id \in Nat /\ n.id \in Nat
    BY <1>1, <2>1
  <2> QED
    BY <2>1, <2>4, <2>5, <2>6 DEF Less
<1>9. \A c, i : Shows(out, c, i) <=> Shows(msgs, c, i)
  <2> SUFFICES ASSUME NEW c, NEW i PROVE Shows(out, c, i) <=> Shows(msgs, c, i)
    OBVIOUS
  <2>1. ASSUME NEW k \in D, out[k].cid = c, out[k].id = i, i > 0
        PROVE  Shows(msgs, c, i)
    BY <1>3, <1>5, <2>1 DEF Shows, D
  <2>2. ASSUME NEW k \in D, msgs[k].cid = c, msgs[k].id = i, i > 0
        PROVE  Shows(out, c, i)
    <3>1. PICK l \in D : p[l] = k
      BY <1>5
    <3>2. out[l] = msgs[k] /\ l \in DOMAIN out
      BY <1>2, <1>3, <3>1
    <3> QED
      BY <2>2, <3>2 DEF Shows
  <2> QED
    BY <1>2, <2>1, <2>2 DEF Shows, D
<1> QED
  BY <1>2, <1>7, <1>8, <1>9 DEF out

\* AppendChatMsgs leaves a chat in order, with what was shown and the batch.
LEMMA AppendChatMsgsKeeps ==
  ASSUME NEW G, Mergeable(G), NEW msgs \in Seq(G), Distinct(msgs), NEW batch \in Seq(G)
  PROVE  LET out == AppendChatMsgs(msgs, batch) IN
         /\ out \in Seq(G) /\ Distinct(out) /\ Ordered(out)
         /\ \A c, i : Shows(out, c, i) <=> Shows(msgs, c, i) \/ Shows(batch, c, i)
<1>1. /\ MergeAll(msgs, batch) \in Seq(G) /\ Distinct(MergeAll(msgs, batch))
      /\ \A c, i : Shows(MergeAll(msgs, batch), c, i) <=>
                     Shows(msgs, c, i) \/ Shows(batch, c, i)
  BY MergeAllKeeps
<1>2. \A c, i : Shows(AppendChatMsgs(msgs, batch), c, i) <=> Shows(MergeAll(msgs, batch), c, i)
  BY <1>1, InOrderKeeps DEF AppendChatMsgs
<1> QED
  BY <1>1, <1>2, InOrderKeeps DEF AppendChatMsgs

-----------------------------------------------------------------------------
(* A user's cache.  F is the set of friends, T the thread with each, G the *)
(* messages that may be in the chat with each.                             *)

ApplyRow == [uid : Users, status : {0, 1}]

\* What a cache is about.
Scope(F, T, G) == /\ F \subseteq Users /\ T \in [Users -> Nat]
                  /\ \A v \in Users : Mergeable(G[v])

\* A chat, but for the order of its messages; a cache of such chats; one that
\* is in order but perhaps for the chat at k; and one that is in order.
Chat(F, T, G) ==
    {e \in [uid : F, thread : Nat, msgs : Seq(Message)] :
        e.thread \in {0, T[e.uid]} /\ e.msgs \in Seq(G[e.uid]) /\ Distinct(e.msgs)}
Loose(F, T, G) == [list : Seq(Chat(F, T, G)), applies : Seq(ApplyRow), pending : SUBSET Users]
OrderedBut(c, k) == \A j \in DOMAIN c.list : j # k => Ordered(c.list[j].msgs)
Caches(F, T, G) == {c \in Loose(F, T, G) : OrderedBut(c, 0)}

\* Everything confirmed that c shows is shown by d, every contact still there.
CacheShows(c, x, i) == \E k \in DOMAIN c.list : Shows(c.list[k].msgs, x, i)
Keeps(c, d) ==
    /\ \A x, i : CacheShows(c, x, i) => CacheShows(d, x, i)
    /\ \A k \in DOMAIN c.list : \E j \in DOMAIN d.list : d.list[j].uid = c.list[k].uid

\* What c shows in the chat the map has for a contact, d shows there.
ShownWith(c, v, x, i) == Shows(c.list[Entry(c, v)].msgs, x, i)
Retains(c, d) == \A v : Entry(c, v) \in DOMAIN c.list =>
    /\ Entry(d, v) \in DOMAIN d.list
    /\ \A x, i : ShownWith(c, v, x, i) => ShownWith(d, v, x, i)

\* The position in the map is that of an entry with the uid, if there is one.
LEMMA EntryFinds ==
  ASSUME NEW S, NEW c, c.list \in Seq(S), NEW v
  PROVE  /\ Entry(c, v) # 0 => Entry(c, v) \in DOMAIN c.list /\ c.list[Entry(c, v)].uid = v
         /\ Entry(c, v) \in Nat
         /\ Entry(c, v) = 0 => \A k \in DOMAIN c.list : c.list[k].uid # v
         /\ \A k \in DOMAIN c.list : c.list[k].uid = v => k <= Entry(c, v)
<1> DEFINE at == {i \in DOMAIN c.list : c.list[i].uid = v}
<1>1. Len(c.list) \in Nat /\ DOMAIN c.list = 1..Len(c.list)
  BY LenProperties
<1>2. at \in SUBSET Nat /\ \A k \in at : k <= Len(c.list) /\ k # 0
  BY <1>1
<1>3. CASE at = {}
  BY <1>3 DEF Entry
<1>4. CASE at # {}
  <2>1. Entry(c, v) = Max(at)
    BY <1>4 DEF Entry
  <2> HIDE DEF at
  <2>2. Max(at) \in at /\ \A k \in at : k <= Max(at)
    BY <1>1, <1>2, <1>4, MaxIsGreatest
  <2> QED
    BY <1>2, <2>1, <2>2 DEF at
<1> QED
  BY <1>3, <1>4

\* Keeping is transitive.
LEMMA KeepsOn ==
  ASSUME NEW c, NEW d, NEW e, Keeps(c, d), Keeps(d, e)
  PROVE  /\ Keeps(c, e)
         /\ Retains(c, d) /\ Retains(d, e) => Retains(c, e)
BY DEF Keeps, Retains

\* The entries keep their uids: so do the positions in the map.
LEMMA EntriesStay ==
  ASSUME NEW c, NEW d, DOMAIN c.list = DOMAIN d.list,
         \A k \in DOMAIN c.list : d.list[k].uid = c.list[k].uid
  PROVE  \A v : Entry(d, v) = Entry(c, v)
<1> SUFFICES ASSUME NEW v PROVE Entry(d, v) = Entry(c, v)
  OBVIOUS
<1>1. {i \in DOMAIN d.list : d.list[i].uid = v} = {i \in DOMAIN c.list : c.list[i].uid = v}
  OBVIOUS
<1> QED
  BY <1>1 DEF Entry

\* A list whose chats have kept their users and what they show.
LEMMA ListKeeps ==
  ASSUME NEW c, NEW d, DOMAIN c.list = DOMAIN d.list,
         \A k \in DOMAIN c.list :
            /\ d.list[k].uid = c.list[k].uid
            /\ \A x, i : Shows(c.list[k].msgs, x, i) => Shows(d.list[k].msgs, x, i)
  PROVE  Keeps(c, d) /\ Retains(c, d)
<1>1. Keeps(c, d)
  BY DEF Keeps, CacheShows
<1>2. \A v : Entry(d, v) = Entry(c, v)
  BY EntriesStay
<1>3. Retains(c, d)
  BY <1>2 DEF Retains, ShownWith
<1> QED
  BY <1>1, <1>3

\* AppendFriendChatMsg: the one chat that may be out of order is put in order.
LEMMA AppendFriendChatMsgKeeps ==
  ASSUME NEW F, NEW T, NEW G, Scope(F, T, G), NEW c \in Loose(F, T, G), NEW v \in Users,
         OrderedBut(c, Entry(c, v)), NEW batch \in Seq(G[v])
  PROVE  LET d == AppendFriendChatMsg(c, v, batch) IN
         /\ d \in Caches(F, T, G) /\ Keeps(c, d) /\ d.pending = c.pending /\ Retains(c, d)
         /\ Entry(c, v) # 0 => \A x, i : Shows(batch, x, i) => ShownWith(d, v, x, i)
<1> DEFINE k == Entry(c, v)
           e == c.list[k]
           out == AppendChatMsgs(e.msgs, batch)
           f == [e EXCEPT !.msgs = out]
           new == [c.list EXCEPT ![k] = f]
           d == AppendFriendChatMsg(c, v, batch)
<1>1. c.list \in Seq(Chat(F, T, G)) /\ c.applies \in Seq(ApplyRow) /\ c.pending \in SUBSET Users
  BY DEF Loose
<1>2. /\ k # 0 => k \in DOMAIN c.list /\ e.uid = v
      /\ k \in Nat
  BY <1>1, EntryFinds
<1>3. CASE k = 0
  <2>1. d = c
    BY <1>3 DEF AppendFriendChatMsg
  <2> QED
    BY <1>3, <2>1 DEF Caches, Keeps, Retains
<1>4. CASE k # 0
  <2>1. d = [c EXCEPT !.list[k].msgs = out]
    BY <1>4 DEF AppendFriendChatMsg
  <2>2. d = [c EXCEPT !.list = new]
    BY <2>1
  <2>3. Len(c.list) \in Nat /\ DOMAIN c.list = 1..Len(c.list) /\ k \in 1..Len(c.list)
    BY <1>1, <1>2, <1>4, LenProperties
  <2> HIDE DEF k
  <2>4. \A j \in DOMAIN c.list : c.list[j] \in Chat(F, T, G)
    BY <1>1, <2>3, ElementOfSeq
  <2>5. e \in Chat(F, T, G) /\ e.uid = v
    BY <1>2, <1>4, <2>3, <2>4
  <2>6. /\ e \in [uid : F, thread : Nat, msgs : Seq(Message)] /\ e.thread \in {0, T[v]}
        /\ e.msgs \in Seq(G[v]) /\ Distinct(e.msgs) /\ Mergeable(G[v]) /\ G[v] \subseteq Message
    BY <2>5 DEF Chat, Scope, Mergeable
  <2> HIDE DEF e, out
  <2>7. /\ out \in Seq(G[v]) /\ Distinct(out) /\ Ordered(out)
        /\ \A x, i : Shows(out, x, i) <=> Shows(e.msgs, x, i) \/ Shows(batch, x, i)
    BY <2>6, AppendChatMsgsKeeps DEF out
  <2>8. out \in Seq(Message)
    BY <2>6, <2>7, SeqMonotonic
  <2>9. f \in Chat(F, T, G) /\ f.uid = v /\ f.msgs = out
    BY <2>5, <2>6, <2>7, <2>8 DEF Chat
  <2> HIDE DEF f
  <2>10. /\ new \in Seq(Chat(F, T, G)) /\ DOMAIN new = DOMAIN c.list
         /\ \A j \in DOMAIN c.list : new[j] = IF j = k THEN f ELSE c.list[j]
    BY <1>1, <2>3, <2>9, ExceptSeq, LenProperties
  <2> HIDE DEF new
  <2>11. d \in Loose(F, T, G) /\ d.list = new /\ d.pending = c.pending
    BY <2>2, <2>10 DEF Loose
  <2>12. OrderedBut(d, 0)
    BY <2>7, <2>9, <2>10, <2>11 DEF OrderedBut, k
  <2>13. \A j \in DOMAIN c.list :
           /\ new[j].uid = c.list[j].uid
           /\ \A x, i : Shows(c.list[j].msgs, x, i) => Shows(new[j].msgs, x, i)
    BY <2>5, <2>7, <2>9, <2>10 DEF e
  <2>14. Keeps(c, d) /\ Retains(c, d)
    BY <2>10, <2>11, <2>13, ListKeeps
  <2>15. Entry(d, v) = k
    <3>1. \A w : Entry(d, w) = Entry(c, w)
      BY <2>10, <2>11, <2>13, EntriesStay
    <3> QED
      BY <3>1 DEF k
  <2>16. \A x, i : Shows(batch, x, i) => ShownWith(d, v, x, i)
    BY <1>2, <1>4, <2>7, <2>9, <2>10, <2>11, <2>15 DEF ShownWith
  <2> QED
    BY <2>11, <2>12, <2>14, <2>16 DEF Caches
<1> QED
  BY <1>3, <1>4

\* What is retained, by the positions in the maps.
LEMMA RetainsShown ==
  ASSUME NEW S, NEW c, c.list \in Seq(S), NEW Q, NEW d, d.list \in Seq(Q), Retains(c, d), NEW v,
         Entry(c, v) # 0
  PROVE  Entry(d, v) # 0 /\ \A x, i : ShownWith(c, v, x, i) => ShownWith(d, v, x, i)
<1>1. Entry(c, v) \in DOMAIN c.list
  BY EntryFinds
<1>2. \A i \in DOMAIN d.list : i # 0
  BY LenProperties
<1> QED
  BY <1>1, <1>2 DEF Retains

\* An empty chat, and one with the messages of a frame.
LEMMA NewChat ==
  ASSUME NEW F, NEW T, NEW G, Scope(F, T, G), NEW v \in F, NEW t \in {0, T[v]},
         NEW msgs \in Seq(G[v]), Distinct(msgs)
  PROVE  [uid |-> v, thread |-> t, msgs |-> msgs] \in Chat(F, T, G)
<1>1. v \in Users /\ t \in Nat /\ G[v] \subseteq Message
  <2>1. v \in Users /\ T \in [Users -> Nat]
    BY DEF Scope
  <2>2. Mergeable(G[v])
    BY <2>1 DEF Scope
  <2>3. T[v] \in Nat /\ G[v] \subseteq Message
    BY <2>1, <2>2 DEF Mergeable
  <2> QED
    BY <2>1, <2>3
<1>2. msgs \in Seq(Message)
  BY <1>1, SeqMonotonic
<1> QED
  BY <1>1, <1>2 DEF Chat

\* What a concatenation is.
LEMMA Concatenated ==
  ASSUME NEW S, NEW p \in Seq(S), NEW q \in Seq(S)
  PROVE  /\ p \o q \in Seq(S) /\ DOMAIN (p \o q) = 1..(Len(p) + Len(q))
         /\ \A i \in DOMAIN (p \o q) : (p \o q)[i] = IF i <= Len(p) THEN p[i] ELSE q[i - Len(p)]
<1> DEFINE new == p \o q
<1>1. /\ new \in Seq(S) /\ Len(new) = Len(p) + Len(q)
      /\ \A i \in 1..(Len(p) + Len(q)) : new[i] = IF i <= Len(p) THEN p[i] ELSE q[i - Len(p)]
  BY ConcatProperties
<1> HIDE DEF new
<1>2. DOMAIN new = 1..Len(new)
  BY <1>1, LenProperties
<1>3. DOMAIN new = 1..(Len(p) + Len(q))
  BY <1>1, <1>2
<1> QED
  BY <1>1, <1>3 DEF new

\* AppendFriendList: entries without messages, behind those there are.
LEMMA AppendFriendListKeeps ==
  ASSUME NEW F, NEW T, NEW G, Scope(F, T, G), NEW c \in Caches(F, T, G), NEW uids \in Seq(F)
  PROVE  LET d == AppendFriendList(c, uids) IN
         d \in Caches(F, T, G) /\ Keeps(c, d) /\ d.pending = c.pending
<1> DEFINE chat0(v) == [uid |-> v, thread |-> 0, msgs |-> <<>>]
           more == [i \in DOMAIN uids |-> chat0(uids[i])]
           d == AppendFriendList(c, uids)
<1>1. /\ c.list \in Seq(Chat(F, T, G)) /\ c.applies \in Seq(ApplyRow)
      /\ c.pending \in SUBSET Users /\ c \in Loose(F, T, G) /\ OrderedBut(c, 0)
  BY DEF Caches, Loose
<1>2. /\ Len(uids) \in Nat /\ DOMAIN uids = 1..Len(uids) /\ \A i \in DOMAIN uids : uids[i] \in F
      /\ Len(c.list) \in Nat /\ DOMAIN c.list = 1..Len(c.list)
  BY <1>1, LenProperties, ElementOfSeq
<1>3. \A v \in F : chat0(v) \in Chat(F, T, G)
  <2> SUFFICES ASSUME NEW v \in F PROVE chat0(v) \in Chat(F, T, G)
    OBVIOUS
  <2>1. <<>> \in Seq(G[v])
    BY EmptySeq
  <2>2. Distinct(<<>>)
    BY DEF Distinct
  <2> QED
    BY <2>1, <2>2, NewChat
<1>4. \A v : chat0(v).uid = v /\ chat0(v).msgs = <<>>
  OBVIOUS
<1>5. d = [c EXCEPT !.list = c.list \o more]
  BY DEF AppendFriendList
<1> HIDE DEF chat0
<1>6. more \in Seq(Chat(F, T, G)) /\ Len(more) = Len(uids)
  <2>1. more \in [1..Len(uids) -> Chat(F, T, G)]
    BY <1>2, <1>3
  <2>2. more \in Seq(Chat(F, T, G))
    BY <1>2, <2>1, SeqDef
  <2> QED
    BY <1>2, <2>1, <2>2, LenProperties
<1>7. \A i \in 1..Len(uids) : more[i].msgs = <<>>
  BY <1>2, <1>4
<1> HIDE DEF more
<1> DEFINE new == c.list \o more
<1>8. /\ new \in Seq(Chat(F, T, G)) /\ DOMAIN new = 1..(Len(c.list) + Len(uids))
      /\ \A i \in DOMAIN new : new[i] = IF i <= Len(c.list) THEN c.list[i] ELSE more[i - Len(c.list)]
  <2> DEFINE S == Chat(F, T, G)
  <2>1. c.list \in Seq(S) /\ more \in Seq(S) /\ Len(more) = Len(uids)
    BY <1>1, <1>6
  <2> HIDE DEF S
  <2>2. /\ new \in Seq(S) /\ DOMAIN new = 1..(Len(c.list) + Len(more))
        /\ \A i \in DOMAIN new : new[i] = IF i <= Len(c.list) THEN c.list[i] ELSE more[i - Len(c.list)]
    BY <2>1, Concatenated
  <2> QED
    BY <2>1, <2>2 DEF S
<1> HIDE DEF new
<1>9. d \in Loose(F, T, G) /\ d.list = new /\ d.pending = c.pending
  BY <1>1, <1>5, <1>8 DEF Loose, new
<1>10. \A k \in DOMAIN c.list : k \in DOMAIN new /\ new[k] = c.list[k]
  BY <1>2, <1>8
<1>11. Keeps(c, d)
  BY <1>9, <1>10 DEF Keeps, CacheShows
<1>12. \A k \in DOMAIN new : k \in DOMAIN c.list \/ new[k].msgs = <<>>
  BY <1>2, <1>7, <1>8
<1>13. Ordered(<<>>) /\ \A k \in DOMAIN c.list : Ordered(c.list[k].msgs)
  BY <1>1, <1>2 DEF Ordered, OrderedBut
<1>14. OrderedBut(d, 0)
  BY <1>9, <1>10, <1>12, <1>13 DEF OrderedBut
<1> QED
  BY <1>9, <1>11, <1>14 DEF Caches

\* A chat whose thread is set to what it may be.
Rethread(e, t) == [e EXCEPT !.thread = t]
MayHave(T, e, t) == t = 0 \/ t = T[e.uid]
\* It is a chat still, of the same user, and shows what it did.
LEMMA ThreadKeeps ==
  ASSUME NEW F, NEW T, NEW G, Scope(F, T, G), NEW e \in Chat(F, T, G), NEW t, MayHave(T, e, t)
  PROVE  /\ Rethread(e, t) \in Chat(F, T, G) /\ Rethread(e, t).uid = e.uid
         /\ Rethread(e, t).msgs = e.msgs
<1>1. e.uid \in Users /\ T \in [Users -> Nat]
  BY DEF Chat, Scope
<1>2. t \in Nat
  BY <1>1 DEF MayHave
<1> QED
  BY <1>2 DEF Chat, Rethread, MayHave

\* A sequence of which each element is replaced.
LEMMA Replaced ==
  ASSUME NEW S, NEW R, NEW p \in Seq(S), NEW q, q = [i \in DOMAIN p |-> q[i]],
         \A i \in DOMAIN p : q[i] \in R
  PROVE  q \in Seq(R) /\ DOMAIN q = DOMAIN p /\ Len(q) = Len(p)
<1>1. Len(p) \in Nat /\ DOMAIN p = 1..Len(p)
  BY LenProperties
<1>2. q \in [1..Len(p) -> R]
  BY <1>1
<1>3. q \in Seq(R)
  BY <1>1, <1>2, SeqDef
<1> QED
  BY <1>1, <1>2, <1>3, LenProperties

\* Each chat of d has the user of the chat of c at its place, shows what that
\* shows, and is in order but perhaps for the one at k.
Revises(c, d, k) ==
    /\ DOMAIN d.list = DOMAIN c.list
    /\ \A i \in DOMAIN c.list :
         /\ d.list[i].uid = c.list[i].uid
         /\ \A x, y : Shows(c.list[i].msgs, x, y) => Shows(d.list[i].msgs, x, y)
         /\ i # k => Ordered(d.list[i].msgs)

\* So the positions are the same and nothing shown is lost.
LEMMA Revised ==
  ASSUME NEW c, NEW d, NEW k, Revises(c, d, k)
  PROVE  OrderedBut(d, k) /\ Keeps(c, d) /\ Retains(c, d) /\ \A v : Entry(d, v) = Entry(c, v)
<1>1. OrderedBut(d, k)
  BY DEF Revises, OrderedBut
<1>2. Keeps(c, d) /\ Retains(c, d)
  BY ListKeeps DEF Revises
<1>3. \A v : Entry(d, v) = Entry(c, v)
  BY EntriesStay DEF Revises
<1> QED
  BY <1>1, <1>2, <1>3

\* One chat of a cache is replaced.
LEMMA OneChatChanges ==
  ASSUME NEW F, NEW T, NEW G, NEW c \in Loose(F, T, G), NEW k, OrderedBut(c, k),
         NEW ps \in SUBSET Users, NEW at \in DOMAIN c.list, NEW f \in Chat(F, T, G),
         f.uid = c.list[at].uid,
         \A x, y : Shows(c.list[at].msgs, x, y) => Shows(f.msgs, x, y),
         at # k => Ordered(f.msgs)
  PROVE  LET d == [list |-> [c.list EXCEPT ![at] = f], applies |-> c.applies, pending |-> ps]
         IN  d \in Loose(F, T, G) /\ Revises(c, d, k)
<1> DEFINE new == [c.list EXCEPT ![at] = f]
           d == [list |-> new, applies |-> c.applies, pending |-> ps]
<1>1. c.list \in Seq(Chat(F, T, G)) /\ c.applies \in Seq(ApplyRow)
  BY DEF Loose
<1>2. /\ new \in Seq(Chat(F, T, G)) /\ DOMAIN new = DOMAIN c.list
      /\ \A j \in DOMAIN c.list : new[j] = IF j = at THEN f ELSE c.list[j]
  <2>1. at \in 1..Len(c.list) /\ DOMAIN c.list = 1..Len(c.list)
    BY <1>1, LenProperties
  <2> QED
    BY <1>1, <2>1, ExceptSeq, LenProperties
<1> HIDE DEF new
<1>3. d \in Loose(F, T, G)
  BY <1>1, <1>2 DEF Loose
<1>4. \A i \in DOMAIN c.list : i # k => Ordered(c.list[i].msgs)
  BY DEF OrderedBut
<1>5. Revises(c, d, k)
  BY <1>2, <1>4 DEF Revises
<1> QED
  BY <1>3, <1>5 DEF new

\* SetThreadId: what is pending is over, the thread may be set.
LEMMA SetThreadIdKeeps ==
  ASSUME NEW F, NEW T, NEW G, Scope(F, T, G), NEW c \in Loose(F, T, G), NEW k, OrderedBut(c, k),
         NEW v \in Users, NEW t \in {0, T[v]}
  PROVE  LET d == SetThreadId(c, v, t) IN
         /\ d \in Loose(F, T, G) /\ OrderedBut(d, k) /\ Keeps(c, d) /\ Retains(c, d)
         /\ d.pending = c.pending \ {v} /\ Entry(d, v) = Entry(c, v)
<1> DEFINE at == Entry(c, v)
           ps == c.pending \ {v}
           d == SetThreadId(c, v, t)
           f == [c.list[at] EXCEPT !.thread = t]
<1>1. /\ c.list \in Seq(Chat(F, T, G)) /\ c.pending \in SUBSET Users
      /\ c = [list |-> c.list, applies |-> c.applies, pending |-> c.pending]
      /\ c.applies \in Seq(ApplyRow)
  BY DEF Loose
<1>2. \A i \in DOMAIN c.list : c.list[i] \in Chat(F, T, G)
  BY <1>1, LenProperties, ElementOfSeq
<1>3. ps \in SUBSET Users
  BY <1>1
<1>4. at # 0 => at \in DOMAIN c.list /\ c.list[at].uid = v
  BY <1>1, EntryFinds
<1>5. \A i \in DOMAIN c.list : i # k => Ordered(c.list[i].msgs)
  BY DEF OrderedBut
<1> HIDE DEF at, ps
<1>6. d \in Loose(F, T, G) /\ Revises(c, d, k) /\ d.pending = ps
  <2>1. CASE t = 0 \/ at = 0
    <3>1. d = [list |-> c.list, applies |-> c.applies, pending |-> ps]
      BY <1>1, <2>1 DEF SetThreadId, at, ps
    <3>2. d \in Loose(F, T, G) /\ d.list = c.list /\ d.pending = ps
      BY <1>1, <1>3, <3>1 DEF Loose
    <3> QED
      BY <1>5, <3>2 DEF Revises
  <2>2. CASE t # 0 /\ at # 0
    <3>1. d = [list |-> [c.list EXCEPT ![at] = f], applies |-> c.applies, pending |-> ps]
      BY <1>1, <2>2 DEF SetThreadId, at, ps
    <3>2. at \in DOMAIN c.list /\ c.list[at] \in Chat(F, T, G) /\ t \in {0, T[c.list[at].uid]}
      BY <1>2, <1>4, <2>2
    <3>3. f \in Chat(F, T, G) /\ f.uid = c.list[at].uid /\ f.msgs = c.list[at].msgs
      <4>1. MayHave(T, c.list[at], t) /\ f = Rethread(c.list[at], t)
        BY <3>2 DEF MayHave, Rethread
      <4> QED
        BY <3>2, <4>1, ThreadKeeps
    <3> HIDE DEF f
    <3>4. /\ \A x, y : Shows(c.list[at].msgs, x, y) => Shows(f.msgs, x, y)
          /\ at # k => Ordered(f.msgs)
      BY <1>5, <3>2, <3>3
    <3>5. d \in Loose(F, T, G) /\ Revises(c, d, k)
      BY <1>3, <3>1, <3>2, <3>3, <3>4, OneChatChanges
    <3> QED
      BY <3>1, <3>5
  <2> QED
    BY <2>1, <2>2
<1> QED
  BY <1>6, Revised DEF ps

\* Rows of a page of conversations.
ThreadRow(T) == {r \in [thread : Nat \ {0}, peer : Users] : r.thread = T[r.peer]}

\* AppendChatThreads: known friends get the thread ids of the page.
LEMMA AppendChatThreadsKeeps ==
  ASSUME NEW F, NEW T, NEW G, Scope(F, T, G), NEW c \in Caches(F, T, G),
         NEW threads \in Seq(ThreadRow(T))
  PROVE  LET d == AppendChatThreads(c, threads) IN
         d \in Caches(F, T, G) /\ Keeps(c, d) /\ d.pending = c.pending /\ Retains(c, d)
<1> DEFINE of(v) == {k \in DOMAIN threads : threads[k].peer = v}
           put(i, e) == IF i = Entry(c, e.uid) /\ of(e.uid) # {}
                          THEN [e EXCEPT !.thread = threads[Max(of(e.uid))].thread] ELSE e
           new == [i \in DOMAIN c.list |-> put(i, c.list[i])]
           d == AppendChatThreads(c, threads)
<1>1. /\ c.list \in Seq(Chat(F, T, G)) /\ c.pending \in SUBSET Users
      /\ c = [list |-> c.list, applies |-> c.applies, pending |-> c.pending]
      /\ c.applies \in Seq(ApplyRow) /\ c \in Loose(F, T, G) /\ OrderedBut(c, 0)
  BY DEF Caches, Loose
<1>2. Len(c.list) \in Nat /\ DOMAIN c.list = 1..Len(c.list)
      /\ \A i \in DOMAIN c.list : c.list[i] \in Chat(F, T, G)
  BY <1>1, LenProperties, ElementOfSeq
<1>3. /\ Len(threads) \in Nat /\ DOMAIN threads = 1..Len(threads)
      /\ \A k \in DOMAIN threads : threads[k] \in ThreadRow(T)
  BY LenProperties, ElementOfSeq
<1>4. ASSUME NEW v, of(v) # {}
      PROVE  threads[Max(of(v))].thread = T[v]
  <2>1. of(v) \in SUBSET Nat /\ \A y \in of(v) : y <= Len(threads)
    BY <1>3
  <2>2. Max(of(v)) \in of(v)
    BY <1>3, <1>4, <2>1, MaxIsGreatest
  <2>3. threads[Max(of(v))] \in ThreadRow(T) /\ threads[Max(of(v))].peer = v
    BY <1>3, <2>2
  <2> QED
    BY <2>3 DEF ThreadRow
<1>5. d = [c EXCEPT !.list = new]
  BY DEF AppendChatThreads
<1> HIDE DEF of
<1>6. ASSUME NEW i \in DOMAIN c.list
      PROVE  /\ new[i] \in Chat(F, T, G) /\ new[i].uid = c.list[i].uid
             /\ new[i].msgs = c.list[i].msgs
  <2> DEFINE e == c.list[i]
             t == threads[Max(of(e.uid))].thread
             g == Rethread(e, t)
  <2>1. e \in Chat(F, T, G) /\ (of(e.uid) # {} => t = T[e.uid])
    BY <1>2, <1>4
  <2>2. (new[i] = g /\ of(e.uid) # {}) \/ new[i] = e
    BY DEF Rethread
  <2> HIDE DEF e, t, new
  <2>3. of(e.uid) # {} => g \in Chat(F, T, G) /\ g.uid = e.uid /\ g.msgs = e.msgs
    BY <2>1, ThreadKeeps DEF MayHave
  <2> QED
    BY <2>1, <2>2, <2>3 DEF e
<1>7. DOMAIN new = DOMAIN c.list /\ new = [i \in DOMAIN c.list |-> new[i]]
  OBVIOUS
<1> HIDE DEF new
<1>8. new \in Seq(Chat(F, T, G))
  BY <1>1, <1>6, <1>7, Replaced
<1>9. d \in Loose(F, T, G) /\ d.list = new /\ d.pending = c.pending
  BY <1>1, <1>5, <1>8 DEF Loose
<1>10. \A i \in DOMAIN c.list : Ordered(c.list[i].msgs)
  BY <1>1, <1>2 DEF OrderedBut
<1>11. Revises(c, d, 0)
  BY <1>6, <1>7, <1>9, <1>10 DEF Revises
<1>12. OrderedBut(d, 0) /\ Keeps(c, d) /\ Retains(c, d)
  BY <1>11, Revised
<1> QED
  BY <1>9, <1>12 DEF Caches

\* SetChatThreads: no thread id known before is left.
LEMMA SetChatThreadsKeeps ==
  ASSUME NEW F, NEW T, NEW G, Scope(F, T, G), NEW c \in Caches(F, T, G),
         NEW threads \in Seq(ThreadRow(T))
  PROVE  LET d == SetChatThreads(c, threads) IN
         d \in Caches(F, T, G) /\ Keeps(c, d) /\ d.pending = c.pending
<1> DEFINE new == [i \in DOMAIN c.list |-> [c.list[i] EXCEPT !.thread = 0]]
           b == [c EXCEPT !.list = new]
<1>1. /\ c.list \in Seq(Chat(F, T, G)) /\ c.pending \in SUBSET Users
      /\ c = [list |-> c.list, applies |-> c.applies, pending |-> c.pending]
      /\ c.applies \in Seq(ApplyRow) /\ c \in Loose(F, T, G) /\ OrderedBut(c, 0)
  BY DEF Caches, Loose
<1>2. Len(c.list) \in Nat /\ DOMAIN c.list = 1..Len(c.list)
      /\ \A i \in DOMAIN c.list : c.list[i] \in Chat(F, T, G)
  BY <1>1, LenProperties, ElementOfSeq
<1>3. \A i \in DOMAIN c.list : new[i] = Rethread(c.list[i], 0)
  BY DEF Rethread
<1>4. \A i \in DOMAIN c.list : /\ new[i] \in Chat(F, T, G) /\ new[i].uid = c.list[i].uid
                               /\ new[i].msgs = c.list[i].msgs
  <2>1. \A e : MayHave(T, e, 0)
    BY DEF MayHave
  <2> HIDE DEF new
  <2>2. \A e \in Chat(F, T, G) : /\ Rethread(e, 0) \in Chat(F, T, G)
                                 /\ Rethread(e, 0).uid = e.uid /\ Rethread(e, 0).msgs = e.msgs
    BY <2>1, ThreadKeeps
  <2> QED
    BY <1>2, <1>3, <2>2
<1>5. DOMAIN new = DOMAIN c.list /\ new = [i \in DOMAIN c.list |-> new[i]]
  OBVIOUS
<1>6. SetChatThreads(c, threads) = AppendChatThreads(b, threads)
  BY DEF SetChatThreads
<1> HIDE DEF new
<1>7. new \in Seq(Chat(F, T, G))
  BY <1>1, <1>4, <1>5, Replaced
<1>8. b \in Loose(F, T, G) /\ b.list = new /\ b.pending = c.pending
  BY <1>1, <1>7 DEF Loose
<1>9. \A i \in DOMAIN c.list : Ordered(c.list[i].msgs)
  BY <1>1, <1>2 DEF OrderedBut
<1> HIDE DEF b
<1>10. Revises(c, b, 0)
  BY <1>4, <1>5, <1>8, <1>9 DEF Revises
<1>11. b \in Caches(F, T, G) /\ Keeps(c, b)
  BY <1>8, <1>10, Revised DEF Caches
<1>12. LET d == AppendChatThreads(b, threads)
       IN  d \in Caches(F, T, G) /\ Keeps(b, d) /\ d.pending = b.pending
  BY <1>11, AppendChatThreadsKeeps
<1> QED
  BY <1>6, <1>8, <1>11, <1>12, KeepsOn

\* The applications and what is pending may change, the chats as they are.
Beside(c, as, ps) == [list |-> c.list, applies |-> as, pending |-> ps]
\* The cache is in order still and shows what it did.
LEMMA SideKeeps ==
  ASSUME NEW F, NEW T, NEW G, NEW c \in Caches(F, T, G), NEW as \in Seq(ApplyRow),
         NEW ps \in SUBSET Users
  PROVE  LET d == Beside(c, as, ps) IN
         d \in Caches(F, T, G) /\ Keeps(c, d) /\ Retains(c, d)
<1>1. \A d : d.list = c.list => Keeps(c, d) /\ Retains(c, d)
  BY DEF Keeps, CacheShows, Retains, ShownWith, Entry
<1>2. LET d == Beside(c, as, ps) IN d \in Caches(F, T, G) /\ d.list = c.list
  BY DEF Beside, Caches, Loose, OrderedBut
<1> QED
  BY <1>1, <1>2

\* What a cache is made of.
LEMMA CacheParts ==
  ASSUME NEW F, NEW T, NEW G, NEW c \in Caches(F, T, G)
  PROVE  /\ c \in Loose(F, T, G) /\ OrderedBut(c, 0) /\ c.list \in Seq(Chat(F, T, G))
         /\ c.applies \in Seq(ApplyRow) /\ c.pending \in SUBSET Users
         /\ c = [list |-> c.list, applies |-> c.applies, pending |-> c.pending]
         /\ \A i \in DOMAIN c.list : c.list[i] \in Chat(F, T, G) /\ Ordered(c.list[i].msgs)
<1>1. /\ c \in Loose(F, T, G) /\ OrderedBut(c, 0) /\ c.list \in Seq(Chat(F, T, G))
      /\ c.applies \in Seq(ApplyRow) /\ c.pending \in SUBSET Users
      /\ c = [list |-> c.list, applies |-> c.applies, pending |-> c.pending]
  BY DEF Caches, Loose
<1>2. DOMAIN c.list = 1..Len(c.list) /\ \A i \in DOMAIN c.list : c.list[i] \in Chat(F, T, G)
  BY <1>1, LenProperties, ElementOfSeq
<1>3. \A i \in DOMAIN c.list : Ordered(c.list[i].msgs)
  BY <1>1, <1>2 DEF OrderedBut
<1> QED
  BY <1>1, <1>2, <1>3

\* MarkPrivateChatPending: a chat waits for its conversation, ...
Waits(c, v) == MarkPrivateChatPending(c, v, TRUE)
\* That shows what was shown, and only adds to what waits.
LEMMA WaitsKeeps ==
  ASSUME NEW F, NEW T, NEW G, NEW c \in Caches(F, T, G), NEW v \in Users
  PROVE  LET d == Waits(c, v) IN
         d \in Caches(F, T, G) /\ Keeps(c, d) /\ Retains(c, d) /\ d.pending = c.pending \cup {v}
<1>1. PICK ps : ps = c.pending \cup {v}
  OBVIOUS
<1>2. /\ ps \in SUBSET Users /\ c.applies \in Seq(ApplyRow)
      /\ c = [list |-> c.list, applies |-> c.applies, pending |-> c.pending]
  BY <1>1, CacheParts
<1>3. Waits(c, v) = [c EXCEPT !.pending = ps]
  BY <1>1 DEF Waits, MarkPrivateChatPending
<1>4. Waits(c, v) = Beside(c, c.applies, ps) /\ Waits(c, v).pending = ps
  BY <1>2, <1>3 DEF Beside
<1>5. LET d == Beside(c, c.applies, ps) IN d \in Caches(F, T, G) /\ Keeps(c, d) /\ Retains(c, d)
  BY <1>2, SideKeeps
<1> QED
  BY <1>1, <1>4, <1>5

\* ... and does so no longer.
WaitsNot(c, v) == MarkPrivateChatPending(c, v, FALSE)
\* That shows what was shown, and only this one waits no more.
LEMMA WaitsNotKeeps ==
  ASSUME NEW F, NEW T, NEW G, NEW c \in Caches(F, T, G), NEW v \in Users
  PROVE  LET d == WaitsNot(c, v) IN
         d \in Caches(F, T, G) /\ Keeps(c, d) /\ Retains(c, d) /\ d.pending = c.pending \ {v}
<1>1. PICK ps : ps = c.pending \ {v}
  OBVIOUS
<1>2. /\ ps \in SUBSET Users /\ c.applies \in Seq(ApplyRow)
      /\ c = [list |-> c.list, applies |-> c.applies, pending |-> c.pending]
  BY <1>1, CacheParts
<1>3. WaitsNot(c, v) = [c EXCEPT !.pending = ps]
  BY <1>1 DEF WaitsNot, MarkPrivateChatPending
<1>4. WaitsNot(c, v) = Beside(c, c.applies, ps) /\ WaitsNot(c, v).pending = ps
  BY <1>2, <1>3 DEF Beside
<1>5. LET d == Beside(c, c.applies, ps) IN d \in Caches(F, T, G) /\ Keeps(c, d) /\ Retains(c, d)
  BY <1>2, SideKeeps
<1> QED
  BY <1>1, <1>4, <1>5

\* AppendApplyList, AddApplyList and SetApplyStatus: only the applications.
LEMMA ApplicationsKeep ==
  ASSUME NEW F, NEW T, NEW G, NEW c \in Caches(F, T, G), NEW as \in Seq(ApplyRow)
  PROVE  LET d == Beside(c, as, c.pending) IN
         d \in Caches(F, T, G) /\ Keeps(c, d) /\ Retains(c, d)
<1>1. c.pending \in SUBSET Users
  BY CacheParts
<1> QED
  BY <1>1, SideKeeps

\* The list of the login answer, ...
LEMMA AppendApplyListKeeps ==
  ASSUME NEW F, NEW T, NEW G, NEW c \in Caches(F, T, G), NEW rows \in Seq(ApplyRow)
  PROVE  LET d == AppendApplyList(c, rows) IN
         d \in Caches(F, T, G) /\ Keeps(c, d) /\ Retains(c, d) /\ d.pending = c.pending
<1>1. /\ c.applies \in Seq(ApplyRow)
      /\ c = [list |-> c.list, applies |-> c.applies, pending |-> c.pending]
  BY CacheParts
<1>2. PICK as : as = c.applies \o rows
  OBVIOUS
<1>3. as \in Seq(ApplyRow)
  BY <1>1, <1>2, Concatenated
<1>4. PICK d : d = AppendApplyList(c, rows)
  OBVIOUS
<1>5. d = Beside(c, as, c.pending)
  BY <1>1, <1>2, <1>4 DEF AppendApplyList, Beside
<1>6. LET e == Beside(c, as, c.pending) IN e \in Caches(F, T, G) /\ Keeps(c, e) /\ Retains(c, e)
  BY <1>3, ApplicationsKeep
<1>7. d.pending = c.pending
  BY <1>5 DEF Beside
<1> QED
  BY <1>4, <1>5, <1>6, <1>7

\* ... one application more, ...
LEMMA AddApplyListKeeps ==
  ASSUME NEW F, NEW T, NEW G, NEW c \in Caches(F, T, G), NEW v \in Users
  PROVE  LET d == AddApplyList(c, v) IN
         d \in Caches(F, T, G) /\ Keeps(c, d) /\ Retains(c, d) /\ d.pending = c.pending
<1>1. /\ c.applies \in Seq(ApplyRow)
      /\ c = [list |-> c.list, applies |-> c.applies, pending |-> c.pending]
  BY CacheParts
<1>2. PICK row, as : row = [uid |-> v, status |-> 0] /\ as = Append(c.applies, row)
  OBVIOUS
<1>3. row \in ApplyRow
  BY <1>2 DEF ApplyRow
<1>4. as \in Seq(ApplyRow)
  BY <1>1, <1>2, <1>3, AppendProperties
<1>5. PICK d : d = AddApplyList(c, v)
  OBVIOUS
<1>6. d = Beside(c, as, c.pending)
  BY <1>1, <1>2, <1>5 DEF AddApplyList, Beside
<1>7. LET e == Beside(c, as, c.pending) IN e \in Caches(F, T, G) /\ Keeps(c, e) /\ Retains(c, e)
  BY <1>4, ApplicationsKeep
<1>8. d.pending = c.pending
  BY <1>6 DEF Beside
<1> QED
  BY <1>5, <1>6, <1>7, <1>8

\* ... and one whose status changes.
LEMMA SetApplyStatusKeeps ==
  ASSUME NEW F, NEW T, NEW G, NEW c \in Caches(F, T, G), NEW v, NEW st \in {0, 1}
  PROVE  LET d == SetApplyStatus(c, v, st) IN
         d \in Caches(F, T, G) /\ Keeps(c, d) /\ Retains(c, d) /\ d.pending = c.pending
<1> DEFINE as == c.applies
           at == {i \in DOMAIN as : as[i].uid = v /\ as[i].status # st}
           d == SetApplyStatus(c, v, st)
<1>1. /\ as \in Seq(ApplyRow)
      /\ c = [list |-> c.list, applies |-> c.applies, pending |-> c.pending]
  BY CacheParts
<1>2. CASE at = {}
  <2>1. d = c
    BY <1>2 DEF SetApplyStatus
  <2> QED
    BY <2>1 DEF Keeps, Retains
<1>3. CASE at # {}
  <2> DEFINE k == Min(at)
             f == [as[k] EXCEPT !.status = st]
             new == [as EXCEPT ![k] = f]
  <2>1. DOMAIN as = 1..Len(as) /\ \A i \in DOMAIN as : as[i] \in ApplyRow
    BY <1>1, LenProperties, ElementOfSeq
  <2>2. k \in DOMAIN as
    <3>1. at \in SUBSET Nat
      BY <2>1
    <3>2. Min(at) \in at
      BY <1>3, <3>1, MinIsLeast
    <3> QED
      BY <3>2
  <2>3. d = Beside(c, new, c.pending)
    <3>1. d = [c EXCEPT !.applies = new]
      BY <1>3 DEF SetApplyStatus
    <3> HIDE DEF new, d
    <3> QED
      BY <1>1, <3>1 DEF Beside
  <2> HIDE DEF k
  <2>4. f \in ApplyRow
    BY <2>1, <2>2 DEF ApplyRow
  <2> HIDE DEF f
  <2>5. new \in Seq(ApplyRow)
    BY <1>1, <2>1, <2>2, <2>4, ExceptSeq
  <2> HIDE DEF new
  <2>6. LET e == Beside(c, new, c.pending) IN e \in Caches(F, T, G) /\ Keeps(c, e) /\ Retains(c, e)
    BY <2>5, ApplicationsKeep
  <2>7. d.pending = c.pending
    BY <2>3 DEF Beside
  <2> QED
    BY <2>3, <2>6, <2>7
<1> QED
  BY <1>2, <1>3

\* AddFriend: a new chat behind the others, perhaps not in order yet.
LEMMA AddFriendKeeps ==
  ASSUME NEW F, NEW T, NEW G, Scope(F, T, G), NEW c \in Caches(F, T, G), NEW v \in F,
         NEW t \in {0, T[v]}, NEW msgs \in Seq(G[v]), Distinct(msgs)
  PROVE  LET d == AddFriend(c, v, t, msgs) IN
         /\ d \in Loose(F, T, G) /\ OrderedBut(d, Entry(d, v)) /\ Keeps(c, d)
         /\ d.pending = c.pending /\ Retains(c, d) /\ Entry(d, v) # 0
<1> DEFINE row == [uid |-> v, thread |-> t, msgs |-> msgs]
           new == Append(c.list, row)
           d == AddFriend(c, v, t, msgs)
<1>1. /\ c \in Loose(F, T, G) /\ OrderedBut(c, 0) /\ c.list \in Seq(Chat(F, T, G))
      /\ c.applies \in Seq(ApplyRow) /\ c.pending \in SUBSET Users
      /\ c = [list |-> c.list, applies |-> c.applies, pending |-> c.pending]
      /\ \A i \in DOMAIN c.list : Ordered(c.list[i].msgs)
  BY CacheParts
<1>2. CASE Entry(c, v) # 0
  <2>1. d = c
    BY <1>2 DEF AddFriend
  <2> QED
    BY <1>1, <1>2, <2>1 DEF OrderedBut, Keeps, Retains
<1>3. CASE Entry(c, v) = 0
  <2>1. d = [c EXCEPT !.list = new]
    BY <1>3 DEF AddFriend
  <2>2. row \in Chat(F, T, G) /\ row.uid = v
    BY NewChat
  <2> HIDE DEF row
  <2>3. /\ Len(c.list) \in Nat /\ DOMAIN c.list = 1..Len(c.list)
        /\ new \in Seq(Chat(F, T, G)) /\ Len(new) = Len(c.list) + 1
        /\ new[Len(c.list) + 1] = row
        /\ \A i \in 1..Len(c.list) : new[i] = c.list[i]
    BY <1>1, <2>2, AppendProperties, LenProperties
  <2> HIDE DEF new
  <2>4. DOMAIN new = 1..(Len(c.list) + 1)
    BY <2>3, LenProperties
  <2>5. d \in Loose(F, T, G) /\ d.list = new /\ d.pending = c.pending
    BY <1>1, <2>1, <2>3 DEF Loose
  <2>6. Entry(d, v) = Len(c.list) + 1
    <3>1. /\ Entry(d, v) # 0 => Entry(d, v) \in DOMAIN new
          /\ Entry(d, v) \in Nat
          /\ Entry(d, v) = 0 => \A k \in DOMAIN new : new[k].uid # v
          /\ \A k \in DOMAIN new : new[k].uid = v => k <= Entry(d, v)
      BY <2>3, <2>5, EntryFinds
    <3>2. Len(c.list) + 1 \in DOMAIN new
      BY <2>3, <2>4
    <3>3. Len(c.list) + 1 <= Entry(d, v) /\ Entry(d, v) \in 1..(Len(c.list) + 1)
      BY <2>2, <2>3, <2>4, <3>1, <3>2
    <3> QED
      BY <2>3, <3>3
  <2>7. OrderedBut(d, Entry(d, v))
    BY <1>1, <2>3, <2>4, <2>5, <2>6 DEF OrderedBut
  <2>8. \A k \in DOMAIN c.list : k \in DOMAIN new /\ new[k] = c.list[k]
    BY <2>3, <2>4
  <2>9. Keeps(c, d)
    BY <2>5, <2>8 DEF Keeps, CacheShows
  <2>10. ASSUME NEW w, Entry(c, w) \in DOMAIN c.list
         PROVE  Entry(d, w) = Entry(c, w)
    <3> DEFINE at == {i \in DOMAIN new : new[i].uid = w}
    <3>1. Entry(c, w) # 0 /\ c.list[Entry(c, w)].uid = w
      BY <1>1, <2>3, <2>10, EntryFinds
    <3>2. w # v
      BY <1>3, <3>1
    <3>3. at = {i \in DOMAIN c.list : c.list[i].uid = w}
      BY <2>2, <2>3, <2>4, <3>2
    <3>4. Entry(d, w) = (IF at = {} THEN 0 ELSE Max(at))
      BY <2>5 DEF Entry
    <3> HIDE DEF at
    <3> QED
      BY <3>3, <3>4 DEF Entry
  <2>11. Retains(c, d)
    BY <2>5, <2>8, <2>10 DEF Retains, ShownWith
  <2> QED
    BY <2>3, <2>5, <2>6, <2>7, <2>9, <2>11
<1> QED
  BY <1>2, <1>3

\* What the client does when a friendship is made: the friend, the
\* conversation, the welcome messages.
LEMMA BefriendKeeps ==
  ASSUME NEW F, NEW T, NEW G, Scope(F, T, G), NEW c \in Caches(F, T, G), NEW v \in F,
         NEW t \in {0, T[v]}, NEW msgs \in Seq(G[v]), Distinct(msgs)
  PROVE  LET d == AppendFriendChatMsg(SetThreadId(AddFriend(c, v, t, msgs), v, t), v, msgs) IN
         /\ d \in Caches(F, T, G) /\ Keeps(c, d) /\ d.pending = c.pending \ {v} /\ Retains(c, d)
         /\ \A x, i : Shows(msgs, x, i) => ShownWith(d, v, x, i)
<1> DEFINE a == AddFriend(c, v, t, msgs)
           b == SetThreadId(a, v, t)
           d == AppendFriendChatMsg(b, v, msgs)
<1>1. v \in Users
  BY DEF Scope
<1>2. /\ a \in Loose(F, T, G) /\ OrderedBut(a, Entry(a, v)) /\ Keeps(c, a)
      /\ a.pending = c.pending /\ Retains(c, a) /\ Entry(a, v) # 0
  BY AddFriendKeeps
<1> HIDE DEF a
<1>3. /\ b \in Loose(F, T, G) /\ OrderedBut(b, Entry(a, v)) /\ Keeps(a, b) /\ Retains(a, b)
      /\ b.pending = a.pending \ {v} /\ Entry(b, v) = Entry(a, v)
  BY <1>1, <1>2, SetThreadIdKeeps
<1> HIDE DEF b
<1>4. /\ d \in Caches(F, T, G) /\ Keeps(b, d) /\ d.pending = b.pending /\ Retains(b, d)
      /\ Entry(b, v) # 0 => \A x, i : Shows(msgs, x, i) => ShownWith(d, v, x, i)
  BY <1>1, <1>3, AppendFriendChatMsgKeeps
<1>5. Keeps(c, d) /\ Retains(c, d)
  BY <1>2, <1>3, <1>4, KeepsOn
<1> QED
  BY <1>2, <1>3, <1>4, <1>5 DEF a, b

\* Messages of which only the status changes.
LEMMA RestatusKeeps ==
  ASSUME NEW G, NEW msgs \in Seq(G), NEW new, new = [j \in DOMAIN msgs |-> new[j]],
         \A j \in DOMAIN msgs : new[j] \in G /\ new[j].cid = msgs[j].cid /\ new[j].id = msgs[j].id
  PROVE  /\ new \in Seq(G) /\ Distinct(msgs) => Distinct(new)
         /\ \A x, y : Shows(new, x, y) <=> Shows(msgs, x, y)
         /\ Ordered(msgs) => Ordered(new)
<1>1. new \in Seq(G) /\ DOMAIN new = DOMAIN msgs
  BY Replaced
<1>2. Distinct(msgs) => Distinct(new)
  BY <1>1 DEF Distinct
<1>3. \A x, y : Shows(new, x, y) <=> Shows(msgs, x, y)
  BY <1>1 DEF Shows
<1>4. Ordered(msgs) => Ordered(new)
  BY <1>1 DEF Ordered
<1> QED
  BY <1>1, <1>2, <1>3, <1>4

\* A message whose status changes.
Restatus(m, st) == [m EXCEPT !.status = st]
\* It may be in the same chats, under the same ids.
LEMMA StatusMayChange ==
  ASSUME NEW G, Mergeable(G), NEW m \in G, NEW st \in Statuses
  PROVE  Restatus(m, st) \in G /\ Restatus(m, st).cid = m.cid /\ Restatus(m, st).id = m.id
BY DEF Mergeable, Message, Restatus

\* A chat whose messages are replaced.
Rechat(e, msgs) == [e EXCEPT !.msgs = msgs]
\* It is a chat of the same user.
LEMMA MsgsMayChange ==
  ASSUME NEW F, NEW T, NEW G, Scope(F, T, G), NEW e \in Chat(F, T, G),
         NEW msgs \in Seq(G[e.uid]), Distinct(msgs)
  PROVE  /\ Rechat(e, msgs) \in Chat(F, T, G) /\ Rechat(e, msgs).uid = e.uid
         /\ Rechat(e, msgs).msgs = msgs
<1>1. e.uid \in Users
  BY DEF Chat, Scope
<1>2. G[e.uid] \subseteq Message
  BY <1>1 DEF Scope, Mergeable
<1>3. msgs \in Seq(Message)
  BY <1>2, SeqMonotonic
<1> QED
  BY <1>3 DEF Chat, Rechat

\* UpdateChatMessage when the answer is an error: the message is shown as failed.
LEMMA UpdateFailedKeeps ==
  ASSUME NEW F, NEW T, NEW G, Scope(F, T, G), NEW c \in Caches(F, T, G), NEW v, NEW cid
  PROVE  LET d == UpdateChatMessage(c, v, cid, 0, "failed") IN
         d \in Caches(F, T, G) /\ Keeps(c, d) /\ d.pending = c.pending /\ Retains(c, d)
<1> DEFINE d == UpdateChatMessage(c, v, cid, 0, "failed")
           k == Entry(c, v)
           e == c.list[k]
           old == e.msgs
           st(m) == IF m.cid # cid THEN m.status ELSE "failed"
           answered(m) == IF m.cid # cid THEN m
                          ELSE [m EXCEPT !.id = IF 0 > 0 THEN 0 ELSE m.id, !.status = "failed"]
           mid == [j \in DOMAIN old |-> answered(old[j])]
           out == InOrder(mid)
           f == Rechat(e, out)
<1>1. /\ c \in Loose(F, T, G) /\ OrderedBut(c, 0) /\ c.list \in Seq(Chat(F, T, G))
      /\ c.applies \in Seq(ApplyRow) /\ c.pending \in SUBSET Users
      /\ c = [list |-> c.list, applies |-> c.applies, pending |-> c.pending]
      /\ \A i \in DOMAIN c.list : c.list[i] \in Chat(F, T, G) /\ Ordered(c.list[i].msgs)
  BY CacheParts
<1>2. CASE k = 0
  <2>1. d = c
    BY <1>2 DEF UpdateChatMessage
  <2> QED
    BY <2>1 DEF Keeps, Retains
<1>3. CASE k # 0
  <2>1. d = [c EXCEPT !.list = [c.list EXCEPT ![k] = f]]
    <3>1. d = [c EXCEPT !.list[k].msgs = out]
      BY <1>3 DEF UpdateChatMessage
    <3> HIDE DEF out, d
    <3> QED
      BY <3>1 DEF Rechat
  <2>2. k \in DOMAIN c.list
    BY <1>1, <1>3, EntryFinds
  <2> HIDE DEF k
  <2>3. e \in Chat(F, T, G)
    BY <1>1, <2>2
  <2>4. old \in Seq(G[e.uid]) /\ Distinct(old) /\ Mergeable(G[e.uid])
        /\ G[e.uid] \subseteq Message
    BY <2>3 DEF Chat, Scope, Mergeable
  <2> HIDE DEF e
  <2>5. \A j \in DOMAIN old : old[j] \in G[e.uid]
    BY <2>4, LenProperties, ElementOfSeq
  <2>6. \A m \in Message : answered(m) = Restatus(m, st(m)) /\ st(m) \in Statuses
    <3> SUFFICES ASSUME NEW m \in Message
                 PROVE  answered(m) = Restatus(m, st(m)) /\ st(m) \in Statuses
      OBVIOUS
    <3>1. m.status \in Statuses /\ "failed" \in Statuses /\ m = [m EXCEPT !.status = m.status]
      BY DEF Message, Statuses
    <3>2. [m EXCEPT !.id = m.id, !.status = "failed"] = [m EXCEPT !.status = "failed"]
      BY DEF Message
    <3>3. CASE m.cid # cid
      BY <3>1, <3>3 DEF Restatus
    <3>4. CASE m.cid = cid
      <4>1. answered(m) = [m EXCEPT !.id = m.id, !.status = "failed"] /\ st(m) = "failed"
        BY <3>4
      <4> QED
        BY <3>1, <3>2, <4>1 DEF Restatus
    <3> QED
      BY <3>3, <3>4
  <2>7. mid = [j \in DOMAIN old |-> mid[j]] /\ \A j \in DOMAIN old : mid[j] = answered(old[j])
    OBVIOUS
  <2> HIDE DEF st, answered, mid, old
  <2>8. \A j \in DOMAIN old :
           mid[j] \in G[e.uid] /\ mid[j].cid = old[j].cid /\ mid[j].id = old[j].id
    <3> SUFFICES ASSUME NEW j \in DOMAIN old
                 PROVE  mid[j] \in G[e.uid] /\ mid[j].cid = old[j].cid /\ mid[j].id = old[j].id
      OBVIOUS
    <3>1. /\ old[j] \in G[e.uid] /\ old[j] \in Message /\ st(old[j]) \in Statuses
          /\ mid[j] = Restatus(old[j], st(old[j]))
      BY <2>4, <2>5, <2>6, <2>7
    <3> QED
      BY <2>4, <3>1, StatusMayChange
  <2>9. /\ mid \in Seq(G[e.uid]) /\ Distinct(mid)
        /\ \A x, y : Shows(mid, x, y) <=> Shows(old, x, y)
    BY <2>4, <2>7, <2>8, RestatusKeeps
  <2>10. /\ out \in Seq(G[e.uid]) /\ Distinct(out) /\ Ordered(out)
         /\ \A x, y : Shows(out, x, y) <=> Shows(mid, x, y)
    BY <2>4, <2>9, InOrderKeeps
  <2> HIDE DEF out
  <2>11. f \in Chat(F, T, G) /\ f.uid = e.uid /\ f.msgs = out
    BY <2>3, <2>10, MsgsMayChange
  <2> HIDE DEF f
  <2>12. \A x, y : Shows(c.list[k].msgs, x, y) => Shows(f.msgs, x, y)
    BY <2>9, <2>10, <2>11 DEF old, e
  <2>13. d = [list |-> [c.list EXCEPT ![k] = f], applies |-> c.applies, pending |-> c.pending]
    BY <1>1, <2>1
  <2>14. f.uid = c.list[k].uid /\ Ordered(f.msgs)
    BY <2>10, <2>11 DEF e
  <2> HIDE DEF d
  <2>15. d \in Loose(F, T, G) /\ Revises(c, d, 0)
    BY <1>1, <2>2, <2>11, <2>12, <2>13, <2>14, OneChatChanges
  <2>16. OrderedBut(d, 0) /\ Keeps(c, d) /\ Retains(c, d)
    BY <2>15, Revised
  <2> QED
    BY <2>13, <2>15, <2>16 DEF Caches, d
<1> QED
  BY <1>2, <1>3

\* FailPendingMessages: statuses only.
LEMMA FailPendingKeeps ==
  ASSUME NEW F, NEW T, NEW G, Scope(F, T, G), NEW c \in Caches(F, T, G)
  PROVE  LET d == FailPendingMessages(c) IN
         d \in Caches(F, T, G) /\ Keeps(c, d) /\ d.pending = c.pending
<1> DEFINE d == FailPendingMessages(c)
           st(m) == IF m.status = "sending" THEN "failed" ELSE m.status
           fail(m) == IF m.status = "sending" THEN [m EXCEPT !.status = "failed"] ELSE m
           failed(msgs) == [j \in DOMAIN msgs |-> fail(msgs[j])]
           new == [i \in DOMAIN c.list |-> Rechat(c.list[i], failed(c.list[i].msgs))]
<1>1. /\ c \in Loose(F, T, G) /\ OrderedBut(c, 0) /\ c.list \in Seq(Chat(F, T, G))
      /\ c.applies \in Seq(ApplyRow) /\ c.pending \in SUBSET Users
      /\ c = [list |-> c.list, applies |-> c.applies, pending |-> c.pending]
      /\ \A i \in DOMAIN c.list : c.list[i] \in Chat(F, T, G) /\ Ordered(c.list[i].msgs)
  BY CacheParts
<1>2. d = [c EXCEPT !.list = new]
  <2>1. d = [c EXCEPT !.list = [i \in DOMAIN c.list |->
               [c.list[i] EXCEPT !.msgs = failed(c.list[i].msgs)]]]
    BY DEF FailPendingMessages
  <2> HIDE DEF failed, d
  <2> QED
    BY <2>1 DEF Rechat
<1>3. \A m \in Message : fail(m) = Restatus(m, st(m)) /\ st(m) \in Statuses
  BY DEF Message, Restatus, Statuses
<1> HIDE DEF fail, st
<1>4. ASSUME NEW H, Mergeable(H), NEW msgs \in Seq(H), Distinct(msgs), Ordered(msgs)
      PROVE  /\ failed(msgs) \in Seq(H) /\ Distinct(failed(msgs)) /\ Ordered(failed(msgs))
             /\ \A x, y : Shows(failed(msgs), x, y) <=> Shows(msgs, x, y)
  <2> DEFINE g == failed(msgs)
  <2>1. \A j \in DOMAIN msgs : msgs[j] \in H /\ msgs[j] \in Message
    BY <1>4, LenProperties, ElementOfSeq DEF Mergeable
  <2>2. g = [j \in DOMAIN msgs |-> g[j]] /\ \A j \in DOMAIN msgs : g[j] = fail(msgs[j])
    OBVIOUS
  <2> HIDE DEF g
  <2>3. \A j \in DOMAIN msgs : g[j] \in H /\ g[j].cid = msgs[j].cid /\ g[j].id = msgs[j].id
    BY <1>3, <1>4, <2>1, <2>2, StatusMayChange
  <2>4. /\ g \in Seq(H) /\ Distinct(g) /\ Ordered(g)
        /\ \A x, y : Shows(g, x, y) <=> Shows(msgs, x, y)
    BY <1>4, <2>2, <2>3, RestatusKeeps
  <2> QED
    BY <2>4 DEF g
<1>5. new = [i \in DOMAIN c.list |-> new[i]] /\ DOMAIN new = DOMAIN c.list
      /\ \A i \in DOMAIN c.list : new[i] = Rechat(c.list[i], failed(c.list[i].msgs))
  OBVIOUS
<1> HIDE DEF failed, new
<1>6. ASSUME NEW i \in DOMAIN c.list
      PROVE  /\ new[i] \in Chat(F, T, G) /\ new[i].uid = c.list[i].uid
             /\ \A x, y : Shows(c.list[i].msgs, x, y) => Shows(new[i].msgs, x, y)
             /\ Ordered(new[i].msgs)
  <2> DEFINE e == c.list[i]
             out == failed(e.msgs)
  <2>1. e \in Chat(F, T, G) /\ Ordered(e.msgs) /\ new[i] = Rechat(e, out)
    BY <1>1, <1>5
  <2> HIDE DEF e
  <2>2. e.msgs \in Seq(G[e.uid]) /\ Distinct(e.msgs) /\ Mergeable(G[e.uid])
    BY <2>1 DEF Chat, Scope
  <2>3. /\ out \in Seq(G[e.uid]) /\ Distinct(out) /\ Ordered(out)
        /\ \A x, y : Shows(out, x, y) <=> Shows(e.msgs, x, y)
    BY <1>4, <2>1, <2>2
  <2> HIDE DEF out
  <2>4. Rechat(e, out) \in Chat(F, T, G) /\ Rechat(e, out).uid = e.uid /\ Rechat(e, out).msgs = out
    BY <2>1, <2>3, MsgsMayChange
  <2> QED
    BY <2>1, <2>3, <2>4 DEF e
<1>7. new \in Seq(Chat(F, T, G))
  BY <1>1, <1>5, <1>6, Replaced
<1>8. d \in Loose(F, T, G) /\ d.list = new /\ d.pending = c.pending
  BY <1>1, <1>2, <1>7 DEF Loose
<1> HIDE DEF d
<1>9. Revises(c, d, 0)
  BY <1>5, <1>6, <1>8 DEF Revises
<1>10. OrderedBut(d, 0) /\ Keeps(c, d)
  BY <1>9, Revised
<1> QED
  BY <1>8, <1>10 DEF Caches, d

\* What is in a sequence, one by one.
LEMMA ElementOfRange ==
  ASSUME NEW f
  PROVE  \A e : e \in Range(f) <=> \E k \in DOMAIN f : e = f[k]
BY DEF Range
=============================================================================
