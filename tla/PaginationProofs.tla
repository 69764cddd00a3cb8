-------------------------- MODULE PaginationProofs --------------------------
(***************************************************************************)
(* The safety properties of Pagination for lists of any length and pages   *)
(* of any size.  The first part is about the operators that pages are made *)
(* of; they rest on the rank of an element, which is a bijection.          *)
(***************************************************************************)
EXTENDS Pagination, FiniteSetTheorems, SequenceTheorems, TLAPS

-----------------------------------------------------------------------------
(* Pages.                                                                  *)

Rank(S, p) == Cardinality({q \in S : q >= p})

(* The ranks in a finite set of positions are 1 .. Cardinality(S), the     *)
(* greater position having the smaller rank.                               *)
LEMMA RankBijective ==
  ASSUME NEW S \in SUBSET Int, IsFiniteSet(S)
  PROVE  /\ Cardinality(S) \in Nat
         /\ \A p \in S : Rank(S, p) \in 1 .. Cardinality(S)
         /\ \A p, q \in S : q > p => Rank(S, q) < Rank(S, p)
         /\ \A i \in 1 .. Cardinality(S) : \E p \in S : Rank(S, p) = i
<1> DEFINE above(p) == {q \in S : q >= p}
           rank == [p \in S |-> Rank(S, p)]
<1>1. Cardinality(S) \in Nat
  BY FS_CardinalityType
<1>2. \A p \in S : IsFiniteSet(above(p)) /\ Cardinality(above(p)) \in 0 .. Cardinality(S)
  <2> TAKE p \in S
  <2>1. above(p) \in SUBSET S
    OBVIOUS
  <2>2. IsFiniteSet(above(p)) /\ Cardinality(above(p)) <= Cardinality(S)
    BY <2>1, FS_Subset
  <2> QED
    BY <1>1, <2>2, FS_CardinalityType
<1>3. \A p \in S : Rank(S, p) \in 1 .. Cardinality(S)
  <2> TAKE p \in S
  <2>1. p \in above(p)
    OBVIOUS
  <2>2. Cardinality(above(p)) # 0
    BY <1>2, <2>1, FS_EmptySet
  <2> QED
    BY <1>1, <1>2, <2>2 DEF Rank
<1>4. ASSUME NEW p \in S, NEW q \in S, q > p
      PROVE  Rank(S, q) < Rank(S, p)
  <2>1. above(q) \in SUBSET above(p) /\ p \in above(p) \ above(q)
    <3>1. p \in Int /\ q \in Int /\ \A r \in S : r \in Int
      OBVIOUS
    <3>2. \A r \in S : r >= q => r >= p
      BY <1>4, <3>1
    <3>3. p >= p /\ ~(p >= q)
      BY <1>4, <3>1
    <3> QED
      BY <3>2, <3>3
  <2>2. Cardinality(above(q)) <= Cardinality(above(p)) /\ Cardinality(above(q)) # Cardinality(above(p))
    BY <1>2, <2>1, FS_Subset
  <2> QED
    BY <1>1, <1>2, <2>2 DEF Rank
<1>5. rank \in Injection(S, 1 .. Cardinality(S))
  <2>1. rank \in [S -> 1 .. Cardinality(S)]
    BY <1>3
  <2>2. \A p, q \in S : rank[p] = rank[q] => p = q
    BY <1>1, <1>3, <1>4
  <2> QED
    BY <2>1, <2>2 DEF Injection, IsInjective
<1>6. rank \in Surjection(S, 1 .. Cardinality(S))
  <2>1. IsFiniteSet(1 .. Cardinality(S)) /\ Cardinality(1 .. Cardinality(S)) = Cardinality(S)
    BY <1>1, FS_Interval
  <2> QED
    BY <1>5, <2>1, FS_Injection
<1>7. \A i \in 1 .. Cardinality(S) : \E p \in S : Rank(S, p) = i
  BY <1>6 DEF Surjection
<1> QED
  BY <1>1, <1>3, <1>4, <1>7

(* Descending puts a finite set in order, newest first, each row once.     *)
LEMMA DescendingOrders ==
  ASSUME NEW S \in SUBSET Int, IsFiniteSet(S)
  PROVE  /\ Descending(S) \in Seq(S) /\ Len(Descending(S)) = Cardinality(S)
         /\ \A i, j \in 1 .. Cardinality(S) : i < j => Descending(S)[i] > Descending(S)[j]
         /\ \A p \in S : \E i \in 1 .. Cardinality(S) : Descending(S)[i] = p
<1> DEFINE n == Cardinality(S)
           d == Descending(S)
<1>1. \A i \in 1 .. n : d[i] \in S /\ Rank(S, d[i]) = i
  <2> TAKE i \in 1 .. n
  <2>1. \E p \in S : Rank(S, p) = i
    BY RankBijective
  <2>2. d[i] = CHOOSE p \in S : Rank(S, p) = i
    BY DEF Descending, Rank
  <2> QED
    BY <2>1, <2>2
<1>2. n \in Nat /\ d = [i \in 1 .. n |-> d[i]]
  BY RankBijective DEF Descending
<1>3. d \in Seq(S) /\ Len(d) = n
  BY <1>1, <1>2
<1>4. \A i, j \in 1 .. n : i < j => d[i] > d[j]
  <2> SUFFICES ASSUME NEW i \in 1 .. n, NEW j \in 1 .. n, i < j
               PROVE  d[i] > d[j]
    OBVIOUS
  <2>1. d[i] \in S /\ d[j] \in S /\ Rank(S, d[i]) = i /\ Rank(S, d[j]) = j
    BY <1>1
  <2> HIDE DEF d
  <2>2. d[i] # d[j] /\ ~(d[j] > d[i])
    <3>1. i \in Int /\ j \in Int /\ i < j /\ ~(j < i)
      BY RankBijective
    <3> QED
      BY <2>1, <3>1, RankBijective
  <2>3. d[i] \in Int /\ d[j] \in Int
    BY <2>1
  <2> QED
    BY <2>2, <2>3
<1>5. \A p \in S : \E i \in 1 .. n : d[i] = p
  <2> TAKE p \in S
  <2>1. Rank(S, p) \in 1 .. n
    BY RankBijective
  <2> DEFINE x == d[Rank(S, p)]
  <2>2. x \in S /\ Rank(S, x) = Rank(S, p)
    BY <1>1, <2>1
  <2> HIDE DEF x, d
  <2>3. ~(x > p) /\ ~(p > x)
    BY <2>1, <2>2, RankBijective
  <2>4. x \in Int /\ p \in Int
    BY <2>2
  <2>5. x = p
    BY <2>3, <2>4
  <2> QED
    BY <2>1, <2>5 DEF x
<1> QED
  BY <1>3, <1>4, <1>5

(* The last row of a page is its least.                                    *)
LEMMA MinIsLeast ==
  ASSUME NEW S \in SUBSET Int, IsFiniteSet(S), S # {}
  PROVE  Min(S) \in S /\ \A p \in S : Min(S) <= p
<1>1. Cardinality(S) \in 1 .. Cardinality(S)
  BY RankBijective, FS_EmptySet
<1>2. PICK m \in S : Rank(S, m) = Cardinality(S)
  BY <1>1, RankBijective
<1>3. {q \in S : q >= m} = S
  BY <1>2, FS_Subset DEF Rank
<1>4. \A p \in S : m <= p
  BY <1>3
<1> QED
  BY <1>4 DEF Min

(* A page is a part of what the query selects from which nothing greater   *)
(* is missing.                                                             *)
LEMMA TopIsUpperPart ==
  ASSUME NEW S \in SUBSET Int, IsFiniteSet(S), NEW n \in Nat
  PROVE  /\ Top(S, n) \in SUBSET S /\ IsFiniteSet(Top(S, n))
         /\ \A m \in Top(S, n) : \A p \in S : p >= m => p \in Top(S, n)
<1> DEFINE over(p) == {q \in S : q > p}
<1>1. Top(S, n) \in SUBSET S
  BY DEF Top
<1>2. IsFiniteSet(Top(S, n))
  BY <1>1, FS_Subset
<1>3. ASSUME NEW m \in Top(S, n), NEW p \in S, p >= m
      PROVE  p \in Top(S, n)
  <2>1. m \in S /\ Cardinality(over(m)) < n
    BY DEF Top
  <2>2. \A r \in S : r > p => r > m
    <3>1. m \in Int /\ p \in Int /\ \A r \in S : r \in Int
      BY <2>1
    <3> QED
      BY <1>3, <3>1
  <2>3. over(m) \in SUBSET S /\ over(p) \in SUBSET over(m)
    BY <2>2
  <2>4. IsFiniteSet(over(m)) /\ IsFiniteSet(over(p)) /\ Cardinality(over(p)) <= Cardinality(over(m))
    BY <2>3, FS_Subset
  <2>5. Cardinality(over(p)) \in Nat /\ Cardinality(over(m)) \in Nat
    BY <2>4, FS_CardinalityType
  <2> QED
    BY <2>1, <2>4, <2>5 DEF Top
<1> QED
  BY <1>1, <1>2, <1>3

(* A page that is not full has all there is.                               *)
LEMMA ShortTopIsAll ==
  ASSUME NEW S \in SUBSET Int, IsFiniteSet(S), NEW n \in Nat, Cardinality(Top(S, n)) < n
  PROVE  Top(S, n) = S
<1> DEFINE over(p) == {q \in S : q > p}
           above(p) == {q \in S : q >= p}
<1>1. \A p \in S : /\ over(p) \in SUBSET S /\ IsFiniteSet(over(p)) /\ IsFiniteSet(above(p))
                   /\ Cardinality(over(p)) \in Nat /\ Cardinality(above(p)) = Cardinality(over(p)) + 1
  <2> TAKE p \in S
  <2>1. over(p) \in SUBSET S /\ above(p) = over(p) \cup {p} /\ p \notin over(p)
    <3>1. p \in Int /\ \A r \in S : r \in Int
      OBVIOUS
    <3>2. ~(p > p) /\ p >= p /\ \A r \in S : r >= p <=> r > p \/ r = p
      BY <3>1
    <3> QED
      BY <3>2
  <2>2. IsFiniteSet(over(p)) /\ Cardinality(over(p)) \in Nat
    BY <2>1, FS_Subset, FS_CardinalityType
  <2> HIDE DEF over, above
  <2> QED
    BY <2>1, <2>2, FS_AddElement
<1>2. ASSUME NEW p \in S, p \notin Top(S, n)
      PROVE  FALSE
  <2>1. ~(Cardinality(over(p)) < n)
    BY <1>2 DEF Top
  <2>2. Rank(S, p) >= n + 1 /\ Rank(S, p) \in 1 .. Cardinality(S) /\ Cardinality(S) \in Nat
    <3>1. Rank(S, p) = Cardinality(over(p)) + 1 /\ Cardinality(over(p)) \in Nat
      BY <1>1 DEF Rank
    <3> HIDE DEF over
    <3> QED
      BY <2>1, <3>1, RankBijective
  <2>3. n # 0
    <3>1. IsFiniteSet(Top(S, n))
      BY TopIsUpperPart
    <3> QED
      BY <3>1, FS_CardinalityType
  <2>4. PICK x \in S : Rank(S, x) = n
    <3>1. n \in 1 .. Cardinality(S)
      BY <2>2, <2>3
    <3> QED
      BY <3>1, RankBijective
  <2>5. Cardinality(above(x)) = n /\ x \in Top(S, n)
    <3>1. Cardinality(above(x)) = n
      BY <2>4 DEF Rank
    <3>2. Cardinality(over(x)) < n
      <4>1. Cardinality(over(x)) \in Nat /\ Cardinality(above(x)) = Cardinality(over(x)) + 1
        BY <1>1
      <4> HIDE DEF over, above
      <4> QED
        BY <3>1, <4>1
    <3> QED
      BY <3>1, <3>2 DEF Top
  <2>6. above(x) \in SUBSET Top(S, n)
    BY <2>5, TopIsUpperPart
  <2>7. Cardinality(above(x)) <= Cardinality(Top(S, n)) /\ Cardinality(Top(S, n)) \in Nat
    BY <2>6, TopIsUpperPart, FS_Subset, FS_CardinalityType
  <2> QED
    BY <2>5, <2>7
<1> QED
  BY <1>2, TopIsUpperPart

(* The last page, to which there is no extra row, is all that was selected,*)
(* and no other page is empty.                                             *)
LEMMA PageOfRows ==
  ASSUME NEW S \in SUBSET Int, IsFiniteSet(S), NEW n \in Nat \ {0}
  PROVE  /\ Cardinality(S) <= n => Top(S, n) = S
         /\ Cardinality(S) > n => Top(S, n) # {}
<1>1. IsFiniteSet(Top(S, n)) /\ Top(S, n) \in SUBSET S
  BY TopIsUpperPart
<1>2. /\ Cardinality(S) \in Nat /\ Cardinality(Top(S, n)) \in Nat
      /\ Cardinality(Top(S, n)) <= Cardinality(S)
      /\ Cardinality(Top(S, n)) = Cardinality(S) => Top(S, n) = S
  BY <1>1, FS_CardinalityType, FS_Subset
<1>3. Cardinality(Top(S, n)) < n => Top(S, n) = S
  BY ShortTopIsAll
<1>4. Cardinality(S) <= n => Top(S, n) = S
  BY <1>2, <1>3
<1>5. Cardinality(S) > n => Top(S, n) # {}
  BY <1>2, <1>3, FS_EmptySet
<1> QED
  BY <1>4, <1>5

-----------------------------------------------------------------------------
LEMMA PositionsFinite ==
  /\ Positions \in SUBSET Int /\ NoCursor \notin Positions
  /\ \A S \in SUBSET Positions : S \in SUBSET Int /\ IsFiniteSet(S)
<1>1. Last \in Int /\ Positions \in SUBSET Int
  BY LimitAssumption DEF Positions
<1>2. IsFiniteSet(Positions)
  BY <1>1, FS_Interval DEF Positions
<1>3. NoCursor \notin Positions
  BY DEF Positions, NoCursor
<1>4. ASSUME NEW S \in SUBSET Positions
      PROVE  S \in SUBSET Int /\ IsFiniteSet(S)
  BY <1>1, <1>2, FS_Subset
<1> QED
  BY <1>1, <1>3, <1>4

LEMMA LimitType == ASSUME TypeOK PROVE Limit(asked) \in Nat \ {0}
BY LimitAssumption DEF TypeOK, Limit

(* What a page is, where its cursor points, and that it comes after all    *)
(* that was given before.                                                  *)
LEMMA PageFacts ==
  ASSUME IndInv, walk # "finished", NEW n \in Nat \ {0}, NEW rows, NEW page,
         rows = Top(Selected(cursor), n + 1), page = Top(rows, n)
  PROVE  /\ page \in SUBSET rows /\ rows \in SUBSET matching
         /\ \A i \in 1 .. Len(received) : \A p \in rows : received[i] > p
         /\ \A m \in rows : \A p \in Selected(cursor) : p >= m => p \in rows
         /\ \A m \in page : \A p \in rows : p >= m => p \in page
         /\ Cardinality(rows) <= n => page = Selected(cursor)
         /\ Cardinality(rows) > n => page # {} /\ rows # {}
<1> DEFINE S == Selected(cursor)
<1>1. S \in SUBSET matching /\ matching \in SUBSET Positions
  BY DEF Selected, IndInv, TypeOK
<1>2. S \in SUBSET Int /\ IsFiniteSet(S)
  BY <1>1, PositionsFinite
<1> HIDE DEF S
<1>3. rows \in SUBSET S /\ IsFiniteSet(rows) /\ \A m \in rows : \A p \in S : p >= m => p \in rows
  BY <1>2, TopIsUpperPart DEF S
<1>4. rows \in SUBSET Int
  BY <1>2, <1>3
<1>5. page \in SUBSET rows /\ \A m \in page : \A p \in rows : p >= m => p \in page
  BY <1>3, <1>4, TopIsUpperPart
<1>6. /\ Cardinality(rows) <= n => page = rows
      /\ Cardinality(rows) > n => page # {}
  BY <1>3, <1>4, PageOfRows
<1>7. Cardinality(rows) <= n => rows = S
  <2>1. Cardinality(rows) \in Nat
    BY <1>3, FS_CardinalityType
  <2> QED
    BY <1>2, <2>1, ShortTopIsAll DEF S
<1>8. \A i \in 1 .. Len(received) : \A p \in S : received[i] > p
  <2>1. CASE walk = "first"
    BY <2>1 DEF IndInv, GivenAbove
  <2>2. CASE walk = "more"
    <3> SUFFICES ASSUME NEW i \in 1 .. Len(received), NEW p \in S
                 PROVE  received[i] > p
      OBVIOUS
    <3>1. received[i] >= cursor /\ cursor # NoCursor
      BY <2>2 DEF IndInv, GivenAbove, TypeOK
    <3>2. p < cursor
      BY <3>1 DEF S, Selected
    <3>3. received[i] \in Int /\ cursor \in Int /\ p \in Int
      <4>1. received[i] \in Positions /\ cursor \in Positions \cup {NoCursor}
        BY DEF IndInv, TypeOK
      <4>2. p \in Int /\ \A q \in Positions : q \in Int
        BY <1>2, PositionsFinite
      <4> QED
        BY <4>1, <4>2 DEF NoCursor
    <3> QED
      BY <3>1, <3>2, <3>3
  <2> QED
    BY <2>1, <2>2 DEF IndInv, TypeOK
<1> QED
  BY <1>1, <1>3, <1>5, <1>6, <1>7, <1>8 DEF S

(* A page put behind what was given: in order, and all of it.              *)
LEMMA PageAppended ==
  ASSUME IndInv, NEW page \in SUBSET Positions,
         \A i \in 1 .. Len(received) : \A p \in page : received[i] > p,
         received' = received \o Descending(page)
  PROVE  /\ received' \in Seq(Positions) /\ InOrderOnce'
         /\ \A i \in 1 .. Len(received') :
              received'[i] \in page \/ \E j \in 1 .. Len(received) : received'[i] = received[j]
         /\ \A p \in page : \E i \in 1 .. Len(received') : received'[i] = p
         /\ \A j \in 1 .. Len(received) : \E i \in 1 .. Len(received') : received'[i] = received[j]
<1> DEFINE d == Descending(page)
           l == Len(received)
           k == Cardinality(page)
<1>1. page \in SUBSET Int /\ IsFiniteSet(page)
  BY PositionsFinite
<1>2. /\ d \in Seq(page) /\ Len(d) = k /\ k \in Nat
      /\ \A i, j \in 1 .. k : i < j => d[i] > d[j]
      /\ \A p \in page : \E i \in 1 .. k : d[i] = p
  BY <1>1, DescendingOrders, FS_CardinalityType
<1> HIDE DEF d
<1>3. d \in Seq(Positions) /\ received \in Seq(Positions) /\ \A i \in 1 .. k : d[i] \in page
  BY <1>2 DEF IndInv, TypeOK
<1>4. /\ received' \in Seq(Positions) /\ Len(received') = l + k /\ l \in Nat
      /\ \A i \in 1 .. l + k : received'[i] = IF i <= l THEN received[i] ELSE d[i - l]
  <2>1. received \o d \in Seq(Positions) /\ Len(received \o d) = l + k
    BY <1>2, <1>3, ConcatProperties
  <2>2. l \in Nat /\ \A i \in 1 .. l + k : (received \o d)[i] = IF i <= l THEN received[i] ELSE d[i - l]
    BY <1>2, <1>3, ConcatProperties
  <2>3. received' = received \o d
    BY DEF d
  <2> QED
    BY <2>1, <2>2, <2>3
<1> HIDE DEF k, l
<1>5. /\ \A i \in 1 .. l : i \in 1 .. l + k /\ received'[i] = received[i]
      /\ \A i \in 1 .. k : l + i \in 1 .. l + k /\ received'[l + i] = d[i]
      /\ \A i \in 1 .. l + k : i \in 1 .. l \/ i - l \in 1 .. k
  BY <1>2, <1>4
<1>6. InOrderOnce'
  <2> SUFFICES ASSUME NEW i \in 1 .. l + k, NEW j \in 1 .. l + k, i < j
               PROVE  received'[i] > received'[j]
    BY <1>4 DEF InOrderOnce
  <2>1. CASE j <= l
    BY <1>2, <1>4, <2>1 DEF IndInv, InOrderOnce, l
  <2>2. CASE i <= l /\ ~(j <= l)
    <3>1. i \in 1 .. l /\ j - l \in 1 .. k
      BY <1>2, <1>4, <2>2
    <3> QED
      BY <1>3, <1>4, <2>2, <3>1 DEF l
  <2>3. CASE ~(i <= l)
    <3>1. i - l \in 1 .. k /\ j - l \in 1 .. k /\ i - l < j - l /\ ~(j <= l)
      BY <1>2, <1>4, <2>3
    <3> QED
      BY <1>2, <1>4, <2>3, <3>1
  <2> QED
    BY <1>2, <1>4, <2>1, <2>2, <2>3
<1>7. \A i \in 1 .. l + k : received'[i] \in page \/ \E j \in 1 .. l : received'[i] = received[j]
  BY <1>2, <1>3, <1>4, <1>5
<1>8. \A p \in page : \E i \in 1 .. l + k : received'[i] = p
  <2> TAKE p \in page
  <2>1. PICK i \in 1 .. k : d[i] = p
    BY <1>2 DEF k
  <2> QED
    BY <1>5, <2>1
<1> QED
  BY <1>4, <1>5, <1>6, <1>7, <1>8 DEF l

-----------------------------------------------------------------------------
LEMMA InitInd == Init => IndInv
<1> SUFFICES ASSUME Init PROVE IndInv
  OBVIOUS
<1>1. TypeOK
  BY DEF Init, TypeOK
<1>2. GivenAbove /\ GivenDownTo /\ InOrderOnce /\ NothingSkipped
  BY DEF Init, GivenAbove, GivenDownTo, InOrderOnce, NothingSkipped
<1> QED
  BY <1>1, <1>2 DEF IndInv

(* A page to which there is a next one.                                    *)
LEMMA MoreInd ==
  ASSUME IndInv, walk # "finished", NEW n \in Nat \ {0}, NEW rows, NEW page,
         rows = Top(Selected(cursor), n + 1), page = Top(rows, n), Cardinality(rows) > n,
         received' = received \o Descending(page),
         cursor' = Min(IF Endpoint = "inventory" THEN rows ELSE page), walk' = "more",
         UNCHANGED <<matching, stable, asked>>
  PROVE  IndInv'
<1>1. /\ page \in SUBSET rows /\ rows \in SUBSET Positions /\ page # {} /\ rows # {}
      /\ \A i \in 1 .. Len(received) : \A p \in rows : received[i] > p
      /\ \A m \in rows : \A p \in Selected(cursor) : p >= m => p \in rows
      /\ \A m \in page : \A p \in rows : p >= m => p \in page
  <2>1. matching \in SUBSET Positions
    BY DEF IndInv, TypeOK
  <2> QED
    BY <2>1, PageFacts
<1>2. /\ received' \in Seq(Positions) /\ InOrderOnce'
      /\ \A i \in 1 .. Len(received') :
           received'[i] \in page \/ \E j \in 1 .. Len(received) : received'[i] = received[j]
      /\ \A p \in page : \E i \in 1 .. Len(received') : received'[i] = p
      /\ \A j \in 1 .. Len(received) : \E i \in 1 .. Len(received') : received'[i] = received[j]
  BY <1>1, PageAppended
<1>3. /\ Min(page) \in page /\ \A p \in page : Min(page) <= p
      /\ Min(rows) \in rows /\ \A p \in rows : Min(rows) <= p
  BY <1>1, MinIsLeast, PositionsFinite
<1>4. cursor' \in rows /\ \A p \in page : p >= cursor'
  <2>1. \A p \in rows : p \in Int
    BY <1>1, PositionsFinite
  <2> QED
    BY <1>1, <1>3, <2>1
<1>5. TypeOK'
  <2>1. cursor' \in Positions /\ cursor' # NoCursor
    BY <1>1, <1>4, PositionsFinite
  <2> QED
    BY <1>2, <2>1 DEF IndInv, TypeOK
<1>6. GivenAbove'
  <2>1. \A p \in Positions : p \in Int
    BY PositionsFinite
  <2>2. \A j \in 1 .. Len(received) : received[j] > cursor' /\ received[j] \in Int /\ cursor' \in Int
    BY <1>1, <1>4, <2>1 DEF IndInv, TypeOK
  <2>3. ASSUME NEW i \in 1 .. Len(received')
        PROVE  received'[i] >= cursor'
    <3>1. CASE received'[i] \in page
      BY <1>4, <3>1
    <3>2. CASE \E j \in 1 .. Len(received) : received'[i] = received[j]
      BY <2>2, <3>2
    <3> QED
      BY <1>2, <3>1, <3>2
  <2> QED
    BY <2>3 DEF GivenAbove
<1>7. ASSUME Endpoint = "items"
      PROVE  GivenDownTo'
  <2> SUFFICES ASSUME NEW p \in stable, p >= cursor'
               PROVE  \E i \in 1 .. Len(received') : received'[i] = p
    BY DEF GivenDownTo
  <2>1. cursor' \in page /\ p \in matching
    BY <1>3, <1>7 DEF IndInv, TypeOK
  <2>2. CASE p \in Selected(cursor)
    BY <1>1, <1>2, <2>1, <2>2
  <2>3. CASE p \notin Selected(cursor)
    <3>1. cursor # NoCursor /\ ~(p < cursor)
      BY <2>1, <2>3 DEF Selected
    <3>2. p \in Positions /\ cursor \in Positions
      BY <2>1, <3>1 DEF IndInv, TypeOK
    <3>3. p >= cursor
      <4>1. \A q \in Positions : q \in Int
        BY PositionsFinite
      <4> QED
        BY <3>1, <3>2, <4>1
    <3>4. \E j \in 1 .. Len(received) : received[j] = p
      BY <1>7, <3>1, <3>3 DEF IndInv, TypeOK, GivenDownTo
    <3> QED
      BY <1>2, <3>4
  <2> QED
    BY <2>2, <2>3
<1> QED
  BY <1>2, <1>5, <1>6, <1>7 DEF IndInv, NothingSkipped

(* The last page.                                                          *)
LEMMA LastInd ==
  ASSUME IndInv, walk # "finished", NEW n \in Nat \ {0}, NEW rows, NEW page,
         rows = Top(Selected(cursor), n + 1), page = Top(rows, n), Cardinality(rows) <= n,
         received' = received \o Descending(page), cursor' = NoCursor, walk' = "finished",
         UNCHANGED <<matching, stable, asked>>
  PROVE  IndInv'
<1>1. /\ page \in SUBSET Positions /\ page = Selected(cursor)
      /\ \A i \in 1 .. Len(received) : \A p \in page : received[i] > p
  <2>1. matching \in SUBSET Positions
    BY DEF IndInv, TypeOK
  <2> QED
    BY <2>1, PageFacts
<1>2. /\ received' \in Seq(Positions) /\ InOrderOnce'
      /\ \A p \in page : \E i \in 1 .. Len(received') : received'[i] = p
      /\ \A j \in 1 .. Len(received) : \E i \in 1 .. Len(received') : received'[i] = received[j]
  BY <1>1, PageAppended
<1>3. TypeOK' /\ GivenAbove' /\ GivenDownTo'
  BY <1>2 DEF IndInv, TypeOK, GivenAbove, GivenDownTo
<1>4. ASSUME Endpoint = "items"
      PROVE  NothingSkipped'
  <2> SUFFICES ASSUME NEW p \in stable
               PROVE  \E i \in 1 .. Len(received') : received'[i] = p
    BY DEF NothingSkipped
  <2>1. CASE p \in page
    BY <1>2, <2>1
  <2>2. CASE p \notin page
    <3>1. p \in matching /\ cursor # NoCursor /\ ~(p < cursor)
      BY <1>1, <2>2 DEF IndInv, TypeOK, Selected
    <3>2. p \in Positions /\ cursor \in Positions
      BY <3>1 DEF IndInv, TypeOK
    <3>3. p >= cursor
      <4>1. \A q \in Positions : q \in Int
        BY PositionsFinite
      <4> QED
        BY <3>1, <3>2, <4>1
    <3>4. \E j \in 1 .. Len(received) : received[j] = p
      BY <1>4, <3>1, <3>3 DEF IndInv, TypeOK, GivenDownTo
    <3> QED
      BY <1>2, <3>4
  <2> QED
    BY <2>1, <2>2
<1> QED
  BY <1>2, <1>3, <1>4 DEF IndInv

LEMMA PageInd == ASSUME IndInv, Page PROVE IndInv'
<1> DEFINE n == Limit(asked)
           rows == Top(Selected(cursor), n + 1)
           page == Top(rows, n)
<1>1. n \in Nat \ {0}
  BY LimitType DEF IndInv
<1>2. /\ walk # "finished" /\ UNCHANGED <<matching, stable, asked>>
      /\ received' = received \o Descending(page)
      /\ \/ /\ Cardinality(rows) > n
            /\ cursor' = Min(IF Endpoint = "inventory" THEN rows ELSE page)
            /\ walk' = "more"
         \/ /\ Cardinality(rows) <= n
            /\ cursor' = NoCursor
            /\ walk' = "finished"
  BY DEF Page, Fetch
<1> HIDE DEF n
<1>3. rows = Top(Selected(cursor), n + 1) /\ page = Top(rows, n)
  OBVIOUS
<1> HIDE DEF rows, page
<1> QED
  BY <1>1, <1>2, <1>3, MoreInd, LastInd

(* Rows that come and go: once the walk has begun, those that matched all  *)
(* along can only become fewer.                                            *)
LEMMA RowsInd ==
  ASSUME IndInv, NEW p \in Positions, Appear(p) \/ Vanish(p)
  PROVE  IndInv'
<1>1. /\ UNCHANGED <<asked, cursor, received, walk>>
      /\ matching' \subseteq Positions /\ stable' \subseteq matching'
      /\ walk = "first" \/ stable' \subseteq stable
  BY DEF Appear, Vanish, IndInv, TypeOK
<1>2. TypeOK' /\ GivenAbove' /\ InOrderOnce'
  BY <1>1 DEF IndInv, TypeOK, GivenAbove, InOrderOnce
<1>3. Endpoint = "items" => GivenDownTo' /\ NothingSkipped'
  BY <1>1 DEF IndInv, GivenDownTo, NothingSkipped
<1> QED
  BY <1>2, <1>3 DEF IndInv

LEMMA StepInd == IndInv /\ [Next]_vars => IndInv'
<1> SUFFICES ASSUME IndInv, [Next]_vars PROVE IndInv'
  OBVIOUS
<1>1. CASE Next
  BY <1>1, PageInd, RowsInd DEF Next
<1>2. CASE UNCHANGED vars
  BY <1>2 DEF vars, IndInv, TypeOK, GivenAbove, InOrderOnce, GivenDownTo, NothingSkipped
<1> QED
  BY <1>1, <1>2

(* The inductive invariant of a walk.                                      *)
THEOREM Invariant == Spec => []IndInv
BY InitInd, StepInd, PTL DEF Spec

(* The client holds a cursor exactly while there is a page to come         *)
(* (repository.go:352-364).                                                *)
THEOREM TypeCorrect == Spec => []TypeOK
<1>1. IndInv => TypeOK
  BY DEF IndInv
<1> QED
  BY <1>1, Invariant, PTL

(* At every endpoint the pages together are in order and no row is given   *)
(* twice, however the rows shift between two pages (repository.go:204, 316).    *)
THEOREM PagesAreInOrder == Spec => []InOrderOnce
<1>1. IndInv => InOrderOnce
  BY DEF IndInv
<1> QED
  BY <1>1, Invariant, PTL

(* Where the cursor is made of the last row of the page, as it is in every *)
(* list but that of the inventory, the walk skips no row that matched all  *)
(* along (docs/04-api-contract.md:11).                                     *)
THEOREM ListsAreWhole ==
  ASSUME Endpoint = "items"
  PROVE  Spec => []NothingSkipped
<1>1. IndInv => NothingSkipped
  BY DEF IndInv
<1> QED
  BY <1>1, Invariant, PTL

=============================================================================
