------------------------- MODULE FirestoreQueryProofs -------------------------
(* What sort.SliceStable asks of the comparison it is given, for all values, *)
(* and what the pages of a query are, for any filter, orders and page size. *)
EXTENDS FirestoreQuery, SequenceTheorems, FunctionTheorems, FiniteSetTheorems, WellFoundedInduction, TLAPS

-----------------------------------------------------------------------------
LEMMA CmpOrders ==
  ASSUME NEW a \in Int, NEW b \in Int, NEW c \in Int
  PROVE  /\ Cmp(a, b) \in {-1, 0, 1} /\ Cmp(a, b) = -Cmp(b, a)
         /\ Cmp(a, b) <= 0 /\ Cmp(b, c) <= 0 => Cmp(a, c) <= 0
         /\ Cmp(a, b) < 0 /\ Cmp(b, c) <= 0 => Cmp(a, c) < 0
         /\ Cmp(a, b) <= 0 /\ Cmp(b, c) < 0 => Cmp(a, c) < 0
  BY DEF Cmp

LEMMA CmpFloatOrders ==
  ASSUME NEW a \in Int \cup {NaN}, NEW b \in Int \cup {NaN}, NEW c \in Int \cup {NaN}
  PROVE  /\ CmpFloat(a, b) \in {-1, 0, 1} /\ CmpFloat(a, b) = -CmpFloat(b, a)
         /\ CmpFloat(a, b) <= 0 /\ CmpFloat(b, c) <= 0 => CmpFloat(a, c) <= 0
         /\ CmpFloat(a, b) < 0 /\ CmpFloat(b, c) <= 0 => CmpFloat(a, c) < 0
         /\ CmpFloat(a, b) <= 0 /\ CmpFloat(b, c) < 0 => CmpFloat(a, c) < 0
<1>1. CASE a \in Int /\ b \in Int /\ c \in Int
  BY <1>1, NaNAssumption DEF CmpFloat, Cmp
<1>2. CASE a = NaN \/ b = NaN \/ c = NaN
  BY <1>2, NaNAssumption DEF CmpFloat, Cmp
<1> QED BY <1>1, <1>2

\* compareValues puts all values, of all types, NaN and missing fields included,
\* into one order: it answers the same both ways round, and whatever is not
\* after something that is not after a third is not after the third.
THEOREM CompareIsAnOrder ==
  ASSUME NEW u, NEW v, NEW w, IsValue(u), IsValue(v), IsValue(w)
  PROVE  /\ CompareValues(u, v) \in {-1, 0, 1}
         /\ CompareValues(u, v) = -CompareValues(v, u)
         /\ CompareValues(u, v) <= 0 /\ CompareValues(v, w) <= 0 => CompareValues(u, w) <= 0
         /\ CompareValues(u, v) < 0 /\ CompareValues(v, w) <= 0 => CompareValues(u, w) < 0
         /\ CompareValues(u, v) <= 0 /\ CompareValues(v, w) < 0 => CompareValues(u, w) < 0
<1>t. /\ u.rank \in -1..10 /\ v.rank \in -1..10 /\ w.rank \in -1..10
      /\ u.key \in Int \cup {NaN} /\ v.key \in Int \cup {NaN} /\ w.key \in Int \cup {NaN}
      /\ u.rank # 2 => u.key \in Int
      /\ v.rank # 2 => v.key \in Int
      /\ w.rank # 2 => w.key \in Int
  BY DEF IsValue, Ranks, Number
<1>f. CmpFloat(u.key, v.key) \in {-1, 0, 1} /\ CmpFloat(u.key, v.key) = -CmpFloat(v.key, u.key)
  BY <1>t, CmpFloatOrders
<1>1. CompareValues(u, v) \in {-1, 0, 1} /\ CompareValues(u, v) = -CompareValues(v, u)
  BY <1>t, <1>f DEF CompareValues, Cmp, Number
<1>2. CASE u.rank = v.rank /\ v.rank = w.rank
  <2>1. CASE u.rank = 2
    <3>1. /\ CompareValues(u, v) = CmpFloat(u.key, v.key)
          /\ CompareValues(v, w) = CmpFloat(v.key, w.key)
          /\ CompareValues(u, w) = CmpFloat(u.key, w.key)
      BY <1>2, <2>1 DEF CompareValues, Number
    <3>2. /\ CmpFloat(u.key, v.key) <= 0 /\ CmpFloat(v.key, w.key) <= 0 => CmpFloat(u.key, w.key) <= 0
          /\ CmpFloat(u.key, v.key) < 0 /\ CmpFloat(v.key, w.key) <= 0 => CmpFloat(u.key, w.key) < 0
          /\ CmpFloat(u.key, v.key) <= 0 /\ CmpFloat(v.key, w.key) < 0 => CmpFloat(u.key, w.key) < 0
      BY <1>t, CmpFloatOrders
    <3> QED BY <3>1, <3>2, <1>1
  <2>2. CASE u.rank # 2
    BY <1>1, <1>2, <2>2, <1>t DEF CompareValues, Cmp, Number
  <2> QED BY <2>1, <2>2
<1>3. CASE u.rank # v.rank \/ v.rank # w.rank
  <2>1. /\ CompareValues(u, v) <= 0 => u.rank <= v.rank
        /\ CompareValues(v, w) <= 0 => v.rank <= w.rank
    BY <1>t DEF CompareValues, Cmp
  <2>2. u.rank <= v.rank /\ v.rank <= w.rank => CompareValues(u, w) = -1
    BY <1>3, <1>t DEF CompareValues, Cmp
  <2>3. /\ CompareValues(u, v) < 0 => CompareValues(u, v) <= 0
        /\ CompareValues(v, w) < 0 => CompareValues(v, w) <= 0
    BY <1>t DEF CompareValues, Cmp, CmpFloat, Number
  <2> QED BY <1>1, <2>1, <2>2, <2>3
<1> QED BY <1>1, <1>2, <1>3

-----------------------------------------------------------------------------
(* applyOrderBy compares documents by several orders.                      *)

\* What a list of orders takes from a document.
ProperDoc(d, os) == \A k \in DOMAIN os : IsValue(OrderValue(d, os[k]))

OrderList(os) == os \in Seq([field : Fields \cup {"__name__"}, descending : BOOLEAN])

LEMMA ComesOrders ==
  ASSUME NEW os, OrderList(os), NEW k \in DOMAIN os, NEW d, NEW e, NEW g,
         ProperDoc(d, os), ProperDoc(e, os), ProperDoc(g, os)
  PROVE  /\ Comes(d, e, os[k]) \in {-1, 0, 1}
         /\ Comes(d, e, os[k]) = -Comes(e, d, os[k])
         /\ Comes(d, d, os[k]) = 0
         /\ Comes(d, e, os[k]) <= 0 /\ Comes(e, g, os[k]) <= 0 => Comes(d, g, os[k]) <= 0
         /\ Comes(d, e, os[k]) < 0 /\ Comes(e, g, os[k]) <= 0 => Comes(d, g, os[k]) < 0
         /\ Comes(d, e, os[k]) <= 0 /\ Comes(e, g, os[k]) < 0 => Comes(d, g, os[k]) < 0
         /\ Comes(d, e, os[k]) = 0 /\ Comes(e, g, os[k]) = 0 => Comes(d, g, os[k]) = 0
<1> DEFINE D == OrderValue(d, os[k])
           E == OrderValue(e, os[k])
           G == OrderValue(g, os[k])
<1>1. IsValue(D) /\ IsValue(E) /\ IsValue(G)
  BY DEF ProperDoc
<1>2. /\ Comes(d, e, os[k]) = IF os[k].descending THEN -CompareValues(D, E) ELSE CompareValues(D, E)
      /\ Comes(e, d, os[k]) = IF os[k].descending THEN -CompareValues(E, D) ELSE CompareValues(E, D)
      /\ Comes(e, g, os[k]) = IF os[k].descending THEN -CompareValues(E, G) ELSE CompareValues(E, G)
      /\ Comes(d, g, os[k]) = IF os[k].descending THEN -CompareValues(D, G) ELSE CompareValues(D, G)
      /\ Comes(d, d, os[k]) = IF os[k].descending THEN -CompareValues(D, D) ELSE CompareValues(D, D)
  BY DEF Comes
<1> HIDE DEF D, E, G
<1>3. /\ CompareValues(D, E) \in {-1, 0, 1} /\ CompareValues(D, E) = -CompareValues(E, D)
      /\ CompareValues(E, G) \in {-1, 0, 1} /\ CompareValues(E, G) = -CompareValues(G, E)
      /\ CompareValues(D, G) \in {-1, 0, 1} /\ CompareValues(D, G) = -CompareValues(G, D)
      /\ CompareValues(D, D) \in {-1, 0, 1} /\ CompareValues(D, D) = -CompareValues(D, D)
  BY <1>1, CompareIsAnOrder
<1>4. /\ CompareValues(D, E) <= 0 /\ CompareValues(E, G) <= 0 => CompareValues(D, G) <= 0
      /\ CompareValues(D, E) < 0 /\ CompareValues(E, G) <= 0 => CompareValues(D, G) < 0
      /\ CompareValues(D, E) <= 0 /\ CompareValues(E, G) < 0 => CompareValues(D, G) < 0
      /\ CompareValues(G, E) <= 0 /\ CompareValues(E, D) <= 0 => CompareValues(G, D) <= 0
      /\ CompareValues(G, E) < 0 /\ CompareValues(E, D) <= 0 => CompareValues(G, D) < 0
      /\ CompareValues(G, E) <= 0 /\ CompareValues(E, D) < 0 => CompareValues(G, D) < 0
  BY <1>1, CompareIsAnOrder
<1>5. CASE os[k].descending
  <2>1. /\ Comes(d, e, os[k]) = -CompareValues(D, E) /\ Comes(e, d, os[k]) = -CompareValues(E, D)
        /\ Comes(e, g, os[k]) = -CompareValues(E, G) /\ Comes(d, g, os[k]) = -CompareValues(D, G)
        /\ Comes(d, d, os[k]) = -CompareValues(D, D)
    BY <1>2, <1>5
  <2>2. CompareValues(E, D) \in {-1, 0, 1} /\ CompareValues(G, E) \in {-1, 0, 1}
        /\ CompareValues(G, D) \in {-1, 0, 1}
    BY <1>1, CompareIsAnOrder
  <2> QED BY <2>1, <2>2, <1>3, <1>4
<1>6. CASE ~os[k].descending
  <2>1. /\ Comes(d, e, os[k]) = CompareValues(D, E) /\ Comes(e, d, os[k]) = CompareValues(E, D)
        /\ Comes(e, g, os[k]) = CompareValues(E, G) /\ Comes(d, g, os[k]) = CompareValues(D, G)
        /\ Comes(d, d, os[k]) = CompareValues(D, D)
    BY <1>2, <1>6
  <2>2. CompareValues(E, D) \in {-1, 0, 1} /\ CompareValues(G, E) \in {-1, 0, 1}
        /\ CompareValues(G, D) \in {-1, 0, 1}
    BY <1>1, CompareIsAnOrder
  <2> QED BY <2>1, <2>2, <1>3, <1>4
<1> QED BY <1>5, <1>6

LEMMA LeastNumber ==
  ASSUME NEW S, S \subseteq Nat, S # {}
  PROVE  \E n \in S : \A k \in S : n <= k
<1> DEFINE Less == {p \in Nat \X Nat : p[1] < p[2]}
<1>1. IsWellFoundedOn(Less, Nat)
  BY NatLessThanWellFounded DEF OpToRel
<1>2. PICK n \in S : \A k \in S : ~(<<k, n>> \in Less)
  BY <1>1, WFMin
<1>3. ASSUME NEW k \in S PROVE n <= k
  <2>1. ~(k < n) /\ k \in Nat /\ n \in Nat
    BY <1>2
  <2> QED BY <2>1
<1> QED BY <1>3

\* Two documents neither of which is before the other are told apart by no
\* order of the list: otherwise the first that does would put one first.
LEMMA UnorderedAreTied ==
  ASSUME NEW os, OrderList(os), NEW d, NEW e, ProperDoc(d, os), ProperDoc(e, os),
         ~Before(d, e, os), ~Before(e, d, os)
  PROVE  \A k \in DOMAIN os : Comes(d, e, os[k]) = 0
<1> DEFINE C(x, y, k) == Comes(x, y, os[k])
           Apart == {k \in DOMAIN os : C(d, e, k) # 0}
<1>d. DOMAIN os = 1..Len(os) /\ Len(os) \in Nat
  BY DEF OrderList
<1>c. ASSUME NEW k \in DOMAIN os
      PROVE  C(d, e, k) \in {-1, 0, 1} /\ C(d, e, k) = -C(e, d, k) /\ C(e, d, k) \in {-1, 0, 1}
  BY ComesOrders
<1>1. SUFFICES ASSUME Apart # {} PROVE FALSE
  OBVIOUS
<1>2. Apart \subseteq Nat
  BY <1>d
<1>3. PICK n \in Apart : \A k \in Apart : n <= k
  BY <1>1, <1>2, LeastNumber
<1>4. \A k \in 1..(n - 1) : k \in DOMAIN os /\ C(d, e, k) = 0
  <2> SUFFICES ASSUME NEW k \in 1..(n - 1) PROVE k \in DOMAIN os /\ C(d, e, k) = 0
    OBVIOUS
  <2>1. n \in Nat /\ n <= Len(os) /\ k \in Nat /\ k < n /\ k >= 1
    BY <1>2, <1>d
  <2>2. k \in DOMAIN os
    BY <2>1, <1>d
  <2>3. k \notin Apart
    BY <2>1, <1>3
  <2> QED BY <2>2, <2>3
<1>5. \A k \in 1..(n - 1) : C(e, d, k) = 0
  <2> SUFFICES ASSUME NEW k \in 1..(n - 1) PROVE C(e, d, k) = 0
    OBVIOUS
  <2>1. C(d, e, k) = 0 /\ C(d, e, k) = -C(e, d, k) /\ C(e, d, k) \in {-1, 0, 1}
    BY <1>4, <1>c
  <2> HIDE DEF C
  <2> QED BY <2>1
<1>6. C(d, e, n) < 0 \/ C(e, d, n) < 0
  <2>1. /\ C(d, e, n) \in {-1, 0, 1} /\ C(e, d, n) \in {-1, 0, 1}
        /\ C(d, e, n) = -C(e, d, n) /\ C(d, e, n) # 0
    BY <1>c
  <2> HIDE DEF C
  <2> QED BY <2>1
<1> QED BY <1>3, <1>4, <1>5, <1>6 DEF Before

\* The comparison of applyOrderBy, by any list of orders, is a strict weak order
\* of the documents: no document is before itself, or before one that is before
\* it, and being before, and being before neither way, carry on.  Without that
\* sort.SliceStable promises nothing.
THEOREM OrderByIsStrictWeak ==
  ASSUME NEW os, OrderList(os), NEW d, NEW e, NEW g,
         ProperDoc(d, os), ProperDoc(e, os), ProperDoc(g, os)
  PROVE  /\ ~Before(d, d, os)
         /\ Before(d, e, os) => ~Before(e, d, os)
         /\ Before(d, e, os) /\ Before(e, g, os) => Before(d, g, os)
         /\ ~Before(d, e, os) /\ ~Before(e, d, os) /\ ~Before(e, g, os) /\ ~Before(g, e, os)
              => ~Before(d, g, os)
<1> DEFINE C(x, y, k) == Comes(x, y, os[k])
<1>d. DOMAIN os = 1..Len(os) /\ Len(os) \in Nat
  BY DEF OrderList
<1>c. ASSUME NEW k \in DOMAIN os
      PROVE  /\ C(d, d, k) = 0
             /\ C(e, d, k) \in {-1, 0, 1}
             /\ C(d, e, k) \in {-1, 0, 1} /\ C(e, g, k) \in {-1, 0, 1}
             /\ C(d, e, k) = -C(e, d, k)
             /\ C(d, e, k) <= 0 /\ C(e, g, k) <= 0 => C(d, g, k) <= 0
             /\ C(d, e, k) < 0 /\ C(e, g, k) <= 0 => C(d, g, k) < 0
             /\ C(d, e, k) <= 0 /\ C(e, g, k) < 0 => C(d, g, k) < 0
             /\ C(d, e, k) = 0 /\ C(e, g, k) = 0 => C(d, g, k) = 0
  BY ComesOrders
<1>b. ASSUME NEW x, NEW y
      PROVE  Before(x, y, os) <=> \E k \in DOMAIN os : C(x, y, k) < 0 /\ \A m \in 1..(k - 1) : C(x, y, m) = 0
  BY DEF Before
<1> HIDE DEF C
<1>1. ~Before(d, d, os)
  BY <1>b, <1>c
<1>2. ASSUME Before(d, e, os), Before(e, d, os) PROVE FALSE
  <2>1. PICK k \in DOMAIN os : C(d, e, k) < 0 /\ \A m \in 1..(k - 1) : C(d, e, m) = 0
    BY <1>2, <1>b
  <2>2. PICK l \in DOMAIN os : C(e, d, l) < 0 /\ \A m \in 1..(l - 1) : C(e, d, m) = 0
    BY <1>2, <1>b
  <2>3. k \in Int /\ l \in Int /\ k >= 1 /\ l >= 1
    BY <1>d
  <2>4. C(d, e, k) = -C(e, d, k) /\ C(d, e, l) = -C(e, d, l)
        /\ C(d, e, k) \in {-1, 0, 1} /\ C(d, e, l) \in {-1, 0, 1}
        /\ C(e, d, k) \in {-1, 0, 1} /\ C(e, d, l) \in {-1, 0, 1}
    BY <1>c
  <2>5. CASE k < l
    <3>1. C(e, d, k) = 0
      BY <2>2, <2>3, <2>5
    <3> QED BY <3>1, <2>1, <2>4
  <2>6. CASE l < k
    <3>1. C(d, e, l) = 0
      BY <2>1, <2>3, <2>6
    <3> QED BY <3>1, <2>2, <2>4
  <2>7. CASE k = l
    BY <2>1, <2>2, <2>4, <2>7
  <2> QED BY <2>3, <2>5, <2>6, <2>7
<1>3. ASSUME Before(d, e, os), Before(e, g, os) PROVE Before(d, g, os)
  <2>1. PICK k \in DOMAIN os : C(d, e, k) < 0 /\ \A m \in 1..(k - 1) : C(d, e, m) = 0
    BY <1>3, <1>b
  <2>2. PICK l \in DOMAIN os : C(e, g, l) < 0 /\ \A m \in 1..(l - 1) : C(e, g, m) = 0
    BY <1>3, <1>b
  <2>3. /\ k \in Int /\ l \in Int /\ k >= 1 /\ l >= 1
        /\ \A m \in 1..(k - 1) : m \in DOMAIN os
        /\ \A m \in 1..(l - 1) : m \in DOMAIN os
    BY <1>d
  <2>4. ASSUME NEW j \in DOMAIN os, C(d, g, j) < 0, \A m \in 1..(j - 1) : C(d, g, m) = 0
        PROVE  Before(d, g, os)
    BY <2>4, <1>b
  <2>5. CASE k <= l
    <3>1. C(e, g, k) <= 0
      <4>1. CASE k < l
        <5>1. C(e, g, k) = 0
          BY <4>1, <2>2, <2>3
        <5> QED BY <5>1
      <4>2. CASE k = l
        <5>1. C(e, g, k) \in {-1, 0, 1} /\ C(e, g, k) < 0
          BY <4>2, <2>2, <1>c
        <5> QED BY <5>1
      <4> QED BY <4>1, <4>2, <2>3, <2>5
    <3>2. C(d, g, k) < 0
      BY <3>1, <2>1, <1>c
    <3>3. ASSUME NEW m \in 1..(k - 1) PROVE C(d, g, m) = 0
      <4>1. m \in DOMAIN os /\ m \in 1..(l - 1)
        BY <2>3, <2>5
      <4> QED BY <4>1, <2>1, <2>2, <1>c
    <3> QED BY <3>2, <3>3, <2>4
  <2>6. CASE l < k
    <3>1. C(d, e, l) = 0
      BY <2>1, <2>3, <2>6
    <3>2. C(d, g, l) < 0
      BY <3>1, <2>2, <1>c
    <3>3. ASSUME NEW m \in 1..(l - 1) PROVE C(d, g, m) = 0
      <4>1. m \in DOMAIN os /\ m \in 1..(k - 1)
        BY <2>3, <2>6
      <4> QED BY <4>1, <2>1, <2>2, <1>c
    <3> QED BY <3>2, <3>3, <2>4
  <2> QED BY <2>3, <2>5, <2>6
<1>4. ASSUME ~Before(d, e, os), ~Before(e, d, os), ~Before(e, g, os), ~Before(g, e, os)
      PROVE  ~Before(d, g, os)
  <2>1. \A k \in DOMAIN os : C(d, e, k) = 0 /\ C(e, g, k) = 0
    BY <1>4, UnorderedAreTied DEF C
  <2>2. \A k \in DOMAIN os : C(d, g, k) = 0
    BY <2>1, <1>c
  <2> QED BY <2>2, <1>b
<1> QED BY <1>1, <1>2, <1>3, <1>4

-----------------------------------------------------------------------------
(* Putting a finite set in order                                           *)

\* R puts the elements of S in a strict order.
StrictOrder(R, S) ==
  /\ \A x \in S : <<x, x>> \notin R
  /\ \A x, y, z \in S : <<x, y>> \in R /\ <<y, z>> \in R => <<x, z>> \in R
  /\ \A x, y \in S : x = y \/ <<x, y>> \in R \/ <<y, x>> \in R

Rank(S, R, x) == Cardinality({y \in S : <<y, x>> \in R})

\* Numbers are in a strict order.
LEMMA AscendingIsStrict ==
  ASSUME NEW S, S \subseteq Nat
  PROVE  StrictOrder(Ascending(S), S)
BY DEF StrictOrder, Ascending

\* As many elements come before one as its place says, and more before any
\* that comes after it.
LEMMA RankGrows ==
  ASSUME NEW S, IsFiniteSet(S), NEW R, StrictOrder(R, S), NEW x \in S
  PROVE  /\ Rank(S, R, x) \in 0..(Cardinality(S) - 1)
         /\ \A y \in S : <<x, y>> \in R => Rank(S, R, x) < Rank(S, R, y)
<1>. DEFINE Below(y) == {z \in S : <<z, y>> \in R}
<1>1. \A y \in S : /\ IsFiniteSet(Below(y)) /\ Cardinality(Below(y)) \in Nat
                   /\ Cardinality(Below(y)) = Rank(S, R, y)
  BY FS_Subset, FS_CardinalityType DEF Rank
<1>2. Cardinality(S) \in Nat
  BY FS_CardinalityType
<1>3. Cardinality(Below(x)) < Cardinality(S)
  <2>1. Below(x) \subseteq S /\ Below(x) # S
    BY DEF StrictOrder
  <2>2. Cardinality(Below(x)) <= Cardinality(S) /\ Cardinality(S) # Cardinality(Below(x))
    BY <2>1, FS_Subset
  <2>. QED  BY <1>1, <1>2, <2>2
<1>4. ASSUME NEW y \in S, <<x, y>> \in R
      PROVE  Cardinality(Below(x)) < Cardinality(Below(y))
  <2>1. Below(x) \subseteq Below(y) /\ x \in Below(y) /\ x \notin Below(x)
    BY <1>4 DEF StrictOrder
  <2>2. Below(x) \in SUBSET Below(y) /\ Below(x) # Below(y) /\ IsFiniteSet(Below(y))
    BY <1>1, <2>1
  <2>. HIDE DEF Below
  <2>3. Cardinality(Below(x)) <= Cardinality(Below(y)) /\ Cardinality(Below(y)) # Cardinality(Below(x))
    BY <2>2, FS_Subset
  <2>. QED  BY <1>1, <2>3
<1>. HIDE DEF Below
<1>. QED  BY <1>1, <1>2, <1>3, <1>4

\* Each place is taken by exactly one element.
LEMMA RankIsPlace ==
  ASSUME NEW S, IsFiniteSet(S), NEW R, StrictOrder(R, S)
  PROVE  /\ \A k \in 1..Cardinality(S) : \E x \in S : Rank(S, R, x) = k - 1
         /\ \A x, y \in S : Rank(S, R, x) = Rank(S, R, y) => x = y
<1>. DEFINE n == Cardinality(S)
            f == [x \in S |-> Rank(S, R, x)]
<1>1. n \in Nat
  BY FS_CardinalityType
<1>2. f \in [S -> 0..(n - 1)]
  BY RankGrows
<1>3. ASSUME NEW x \in S, NEW y \in S, Rank(S, R, x) = Rank(S, R, y)
      PROVE  x = y
  <2>1. ASSUME NEW u \in S, NEW v \in S, <<u, v>> \in R
        PROVE  Rank(S, R, u) # Rank(S, R, v)
    <3>1. Rank(S, R, u) < Rank(S, R, v) /\ Rank(S, R, u) \in 0..(n - 1) /\ Rank(S, R, v) \in 0..(n - 1)
      BY <2>1, RankGrows
    <3>. QED  BY <1>1, <3>1
  <2>. QED  BY <1>3, <2>1 DEF StrictOrder
<1>4. f \in Injection(S, 0..(n - 1))
  BY <1>2, <1>3, Fun_IsInj
<1>5. IsFiniteSet(0..(n - 1)) /\ Cardinality(0..(n - 1)) = n
  BY <1>1, FS_Interval
<1>6. f \in Surjection(S, 0..(n - 1))
  BY <1>4, <1>5, FS_Injection
<1>7. ASSUME NEW k \in 1..n
      PROVE  \E x \in S : Rank(S, R, x) = k - 1
  <2>1. k - 1 \in 0..(n - 1)
    BY <1>1
  <2>2. \A t \in 0..(n - 1) : \E x \in S : f[x] = t
    <3>. HIDE DEF f, n
    <3>. QED  BY <1>6 DEF Surjection
  <2>3. PICK x \in S : f[x] = k - 1
    BY <2>1, <2>2
  <2>. QED  BY <2>3
<1>. QED  BY <1>3, <1>7

\* Ranked lists the elements, each once and in order.
LEMMA RankedLists ==
  ASSUME NEW S, IsFiniteSet(S), NEW R, StrictOrder(R, S)
  PROVE  /\ Cardinality(S) \in Nat
         /\ Ranked(S, R) \in [1..Cardinality(S) -> S]
         /\ \A x \in S : \E k \in 1..Cardinality(S) : Ranked(S, R)[k] = x
         /\ \A i, j \in 1..Cardinality(S) :
              i < j => <<Ranked(S, R)[i], Ranked(S, R)[j]>> \in R
<1>. DEFINE n == Cardinality(S)
            r == Ranked(S, R)
<1>1. n \in Nat
  BY FS_CardinalityType
<1>2. r = [k \in 1..n |-> CHOOSE x \in S : Rank(S, R, x) = k - 1]
  BY DEF Ranked, Rank
<1>3. ASSUME NEW k \in 1..n
      PROVE  r[k] \in S /\ Rank(S, R, r[k]) = k - 1
  <2>1. \E x \in S : Rank(S, R, x) = k - 1
    BY RankIsPlace
  <2>2. r[k] = CHOOSE x \in S : Rank(S, R, x) = k - 1
    BY <1>2
  <2>. QED  BY <2>1, <2>2
<1>. HIDE DEF r
<1>4. r \in [1..n -> S]
  BY <1>2, <1>3
<1>5. ASSUME NEW x \in S
      PROVE  \E k \in 1..n : r[k] = x
  <2>1. Rank(S, R, x) \in 0..(n - 1)
    BY RankGrows
  <2>2. Rank(S, R, x) + 1 \in 1..n /\ (Rank(S, R, x) + 1) - 1 = Rank(S, R, x)
    BY <1>1, <2>1
  <2>. QED  BY <1>3, <2>2, RankIsPlace
<1>6. ASSUME NEW i \in 1..n, NEW j \in 1..n, i < j
      PROVE  <<r[i], r[j]>> \in R
  <2>1. r[i] \in S /\ r[j] \in S /\ Rank(S, R, r[i]) = i - 1 /\ Rank(S, R, r[j]) = j - 1
    BY <1>3
  <2>2. r[i] # r[j]
    BY <1>1, <1>6, <2>1
  <2>3. ~(<<r[j], r[i]>> \in R)
    <3>1. ASSUME <<r[j], r[i]>> \in R
          PROVE  FALSE
      <4>1. Rank(S, R, r[j]) < Rank(S, R, r[i])
        BY <2>1, <3>1, RankGrows
      <4>. QED  BY <1>1, <1>6, <2>1, <4>1
    <3>. QED  BY <3>1
  <2>. QED  BY <2>1, <2>2, <2>3 DEF StrictOrder
<1>. QED  BY <1>1, <1>4, <1>5, <1>6 DEF r

\* s has the n elements of S in the order R.
Lists(s, n, S, R) ==
  /\ s \in [1..n -> S]
  /\ \A i, j \in 1..n : i < j => <<s[i], s[j]>> \in R
  /\ \A x \in S : \E i \in 1..n : s[i] = x

\* There is one way to list the elements of a set in a strict order.
LEMMA OneOrder ==
  ASSUME NEW S, NEW R, StrictOrder(R, S), NEW n \in Nat,
         NEW s, Lists(s, n, S, R), NEW t, Lists(t, n, S, R)
  PROVE  s = t
<1>. DEFINE Apart == {k \in 1..n : s[k] # t[k]}
<1>0. /\ s \in [1..n -> S] /\ t \in [1..n -> S]
      /\ \A i, j \in 1..n : i < j => <<s[i], s[j]>> \in R
      /\ \A i, j \in 1..n : i < j => <<t[i], t[j]>> \in R
      /\ \A x \in S : \E i \in 1..n : s[i] = x
      /\ \A x \in S : \E i \in 1..n : t[i] = x
  BY DEF Lists
<1>1. ASSUME NEW a \in [1..n -> S], NEW b \in [1..n -> S], NEW k \in 1..n,
             \A i, j \in 1..n : i < j => <<a[i], a[j]>> \in R,
             \A i, j \in 1..n : i < j => <<b[i], b[j]>> \in R,
             \A x \in S : \E i \in 1..n : b[i] = x,
             \A i \in 1..n : i < k => a[i] = b[i]
      PROVE  <<a[k], b[k]>> \notin R
  <2>1. SUFFICES ASSUME <<a[k], b[k]>> \in R PROVE FALSE
    OBVIOUS
  <2>2. PICK i \in 1..n : b[i] = a[k]
    BY <1>1
  <2>3. a[k] \in S /\ b[k] \in S /\ a[i] \in S
    OBVIOUS
  <2>4. CASE i < k
    <3>1. <<a[i], a[k]>> \in R /\ a[i] = a[k]
      BY <1>1, <2>2, <2>4
    <3>. QED  BY <2>3, <3>1 DEF StrictOrder
  <2>5. CASE k < i
    <3>1. <<b[k], a[k]>> \in R
      BY <1>1, <2>2, <2>5
    <3>. QED  BY <2>1, <2>3, <3>1 DEF StrictOrder
  <2>6. CASE i = k
    BY <2>1, <2>2, <2>3, <2>6 DEF StrictOrder
  <2>. QED  BY <2>4, <2>5, <2>6
<1>a. (\A k \in 1..n : s[k] = t[k]) => s = t
  BY <1>0
<1>2. SUFFICES ASSUME Apart # {} PROVE FALSE
  BY <1>a
<1>3. PICK k \in Apart : \A i \in Apart : k <= i
  <2>1. Apart \subseteq Nat
    OBVIOUS
  <2>. HIDE DEF Apart
  <2>. QED  BY <1>2, <2>1, LeastNumber
<1>4. k \in 1..n /\ s[k] # t[k] /\ \A i \in 1..n : i < k => s[i] = t[i]
  <2>1. ASSUME NEW i \in 1..n, i < k
        PROVE  i \notin Apart
    <3>1. ~(k <= i)
      BY <2>1
    <3>. QED  BY <1>3, <3>1
  <2>. QED  BY <2>1
<1>5. <<s[k], t[k]>> \notin R
  BY <1>0, <1>1, <1>4
<1>6. <<t[k], s[k]>> \notin R
  BY <1>0, <1>1, <1>4
<1>7. s[k] \in S /\ t[k] \in S
  BY <1>0, <1>4
<1>. QED  BY <1>4, <1>5, <1>6, <1>7 DEF StrictOrder

LEMMA RankedIsList ==
  ASSUME NEW S, IsFiniteSet(S), NEW R, StrictOrder(R, S), NEW n, n = Cardinality(S)
  PROVE  Lists(Ranked(S, R), n, S, R)
BY RankedLists DEF Lists

\* What puts the first n numbers in a strict order lists each of them.
LEMMA OrderedIsRanked ==
  ASSUME NEW n \in Nat, NEW R, StrictOrder(R, 1..n), NEW f \in [1..n -> 1..n],
         \A i, j \in 1..n : i < j => <<f[i], f[j]>> \in R
  PROVE  f = Ranked(1..n, R)
<1>. DEFINE r == Ranked(1..n, R)
<1>1. IsFiniteSet(1..n) /\ Cardinality(1..n) = n
  BY FS_Interval
<1>2. Lists(r, n, 1..n, R)
  BY <1>1, RankedIsList
<1>. HIDE DEF r
<1>3. ASSUME NEW i \in 1..n, NEW j \in 1..n, i # j
      PROVE  f[i] # f[j]
  <2>1. i < j \/ j < i
    BY <1>3
  <2>2. <<f[i], f[j]>> \in R \/ <<f[j], f[i]>> \in R
    BY <2>1
  <2>. QED  BY <2>2 DEF StrictOrder
<1>4. f \in Injection(1..n, 1..n)
  BY <1>3, Fun_IsInj
<1>5. f \in Surjection(1..n, 1..n)
  BY <1>1, <1>4, FS_Injection
<1>6. \A x \in 1..n : \E k \in 1..n : f[k] = x
  BY <1>5 DEF Surjection
<1>7. Lists(f, n, 1..n, R)
  BY <1>6 DEF Lists
<1>. QED  BY <1>2, <1>7, OneOrder DEF r

-----------------------------------------------------------------------------
(* Recursion and induction along a list                                    *)

\* A set of numbers with 0 in it, and with each number the next, has them all.
LEMMA UpTo ==
  ASSUME NEW n \in Nat, NEW P, 0 \in P, \A k \in 1..n : k - 1 \in P => k \in P
  PROVE  0..n \subseteq P
<1>. DEFINE Bad == (0..n) \ P
<1>1. SUFFICES ASSUME Bad # {} PROVE FALSE
  OBVIOUS
<1>2. PICK k \in Bad : \A i \in Bad : k <= i
  <2>1. Bad \subseteq Nat
    OBVIOUS
  <2>. QED  BY <1>1, <2>1, LeastNumber
<1>3. k \in 1..n /\ k - 1 \in 0..n /\ ~(k <= k - 1)
  <2>1. k \in 0..n /\ k # 0
    OBVIOUS
  <2>. QED  BY <2>1
<1>4. k - 1 \in P
  BY <1>2, <1>3
<1>. QED  BY <1>3, <1>4

Iterates(g, start, n, F) == g[0] = start /\ \A k \in 1..n : g[k] = F[<<k, g[k - 1]>>]

\* A recursion that goes from each element of a list to the next has a function.
LEMMA Recursion ==
  ASSUME NEW S, NEW start \in S, NEW n \in Nat, NEW F \in [(1..n) \X S -> S]
  PROVE  \E g \in [0..n -> S] : Iterates(g, start, n, F)
<1>. DEFINE Goes(g, m) == g[0] = start /\ \A k \in 1..m : g[k] = F[<<k, g[k - 1]>>]
            P == {m \in 0..n : \E g \in [0..m -> S] : Goes(g, m)}
<1>1. 0 \in P
  <2>. DEFINE g == [k \in 0..0 |-> start]
  <2>1. g \in [0..0 -> S] /\ Goes(g, 0)
    OBVIOUS
  <2>2. \E e \in [0..0 -> S] : Goes(e, 0)
    <3>. HIDE DEF g
    <3>. QED  BY <2>1
  <2>. QED  BY <2>2
<1>2. ASSUME NEW m \in 1..n, m - 1 \in P
      PROVE  m \in P
  <2>1. PICK g \in [0..(m - 1) -> S] : Goes(g, m - 1)
    BY <1>2
  <2>. DEFINE h == [k \in 0..m |-> IF k < m THEN g[k] ELSE F[<<m, g[m - 1]>>]]
  <2>2. m \in Nat /\ m >= 1 /\ g[m - 1] \in S /\ m - 1 \in 0..(m - 1)
    OBVIOUS
  <2>3. F[<<m, g[m - 1]>>] \in S
    <3>1. <<m, g[m - 1]>> \in (1..n) \X S
      BY <2>2
    <3>. QED  BY <3>1
  <2>4. h \in [0..m -> S]
    BY <2>2, <2>3
  <2>5. h[0] = start
    BY <2>1, <2>2
  <2>6. ASSUME NEW k \in 1..m
        PROVE  h[k] = F[<<k, h[k - 1]>>]
    <3>1. k - 1 \in 0..m /\ k - 1 < m /\ h[k - 1] = g[k - 1]
      BY <2>2
    <3>2. CASE k < m
      <4>1. k \in 1..(m - 1) /\ h[k] = g[k]
        BY <2>2, <3>2
      <4>2. g[k] = F[<<k, g[k - 1]>>]
        BY <2>1, <4>1
      <4>. QED  BY <3>1, <4>1, <4>2
    <3>3. CASE k = m
      BY <2>2, <3>1, <3>3
    <3>. QED  BY <2>2, <3>2, <3>3
  <2>7. \E e \in [0..m -> S] : Goes(e, m)
    <3>. HIDE DEF h
    <3>. QED  BY <2>4, <2>5, <2>6
  <2>. QED  BY <2>2, <2>7
<1>. HIDE DEF P
<1>3. 0..n \subseteq P
  BY <1>1, <1>2, UpTo
<1>4. n \in P
  BY <1>3
<1>. QED  BY <1>4 DEF P, Iterates

-----------------------------------------------------------------------------
(* What a query selects                                                    *)

\* Each document once.
Distinct(ds) == \A i, j \in DOMAIN ds : i # j => ds[i].name # ds[j].name

\* One condition of a filter, of a document.
Meets(d, f) == MatchesOp(d.fields[f.field], f.op, f.value)

\* s has the documents that ds has at some places, and each as often.
Takes(s, ds, I) ==
  /\ \A k \in DOMAIN s : \E i \in I : s[k] = ds[i]
  /\ \A i \in I : \E k \in DOMAIN s : s[k] = ds[i]
  /\ Distinct(ds) => Distinct(s)

\* The documents of s come as R has their places in ds.
Follows(s, ds, R) ==
  \A k, m \in DOMAIN s :
    k < m => \E i, j \in DOMAIN ds : <<i, j>> \in R /\ s[k] = ds[i] /\ s[m] = ds[j]

\* The documents at some places, put in an order of the places.
LEMMA RankedAt ==
  ASSUME NEW D, NEW ds \in Seq(D), NEW I, I \subseteq DOMAIN ds, NEW R, StrictOrder(R, I),
         NEW s, s = At(ds, Ranked(I, R))
  PROVE  s \in Seq(D) /\ Takes(s, ds, I) /\ Follows(s, ds, R)
<1>. DEFINE n == Cardinality(I)
            r == Ranked(I, R)
<1>1. DOMAIN ds = 1..Len(ds) /\ Len(ds) \in Nat
  OBVIOUS
<1>2. IsFiniteSet(I)
  <2>1. IsFiniteSet(DOMAIN ds)
    BY <1>1, FS_Interval
  <2>. QED  BY <2>1, FS_Subset
<1>3. /\ n \in Nat
      /\ r \in [1..n -> I]
      /\ \A i \in I : \E k \in 1..n : r[k] = i
      /\ \A k, m \in 1..n : k < m => <<r[k], r[m]>> \in R
  BY <1>2, RankedLists
<1>. HIDE DEF n, r
<1>4. DOMAIN s = 1..n /\ \A k \in 1..n : s[k] = ds[r[k]]
  BY <1>3 DEF At, r
<1>5. s \in [1..n -> D]
  <2>1. s = [k \in 1..n |-> ds[r[k]]]
    BY <1>3 DEF At, r
  <2>2. \A k \in 1..n : ds[r[k]] \in D
    BY <1>3
  <2>. QED  BY <2>1, <2>2
<1>6. s \in Seq(D)
  BY <1>3, <1>5
<1>7. \A k \in 1..n : r[k] \in I
  BY <1>3
<1>8. ASSUME Distinct(ds), NEW k \in DOMAIN s, NEW m \in DOMAIN s, k # m
      PROVE  s[k].name # s[m].name
  <2>1. r[k] # r[m]
    <3>1. k \in 1..n /\ m \in 1..n /\ (k < m \/ m < k)
      BY <1>3, <1>4, <1>8
    <3>2. <<r[k], r[m]>> \in R \/ <<r[m], r[k]>> \in R
      BY <1>3, <3>1
    <3>. QED  BY <1>7, <3>1, <3>2 DEF StrictOrder
  <2>2. r[k] \in DOMAIN ds /\ r[m] \in DOMAIN ds
    BY <1>4, <1>7
  <2>. QED  BY <1>4, <1>8, <2>1, <2>2 DEF Distinct
<1>9. Distinct(ds) => Distinct(s)
  BY <1>8 DEF Distinct
<1>a. \A k \in DOMAIN s : \E i \in I : s[k] = ds[i]
  BY <1>4, <1>7
<1>b. ASSUME NEW i \in I
      PROVE  \E k \in DOMAIN s : s[k] = ds[i]
  <2>1. PICK k \in 1..n : r[k] = i
    BY <1>3
  <2>. QED  BY <1>4, <2>1
<1>c. ASSUME NEW k \in DOMAIN s, NEW m \in DOMAIN s, k < m
      PROVE  \E i, j \in DOMAIN ds : <<i, j>> \in R /\ s[k] = ds[i] /\ s[m] = ds[j]
  <2>1. k \in 1..n /\ m \in 1..n
    BY <1>4
  <2>2. <<r[k], r[m]>> \in R /\ r[k] \in I /\ r[m] \in I
    BY <1>3, <1>7, <1>c, <2>1
  <2>3. s[k] = ds[r[k]] /\ s[m] = ds[r[m]]
    BY <1>4, <2>1
  <2>. QED  BY <2>2, <2>3
<1>. QED  BY <1>6, <1>9, <1>a, <1>b, <1>c DEF Takes, Follows

LEMMA SelectedList ==
  ASSUME NEW D, NEW ds \in Seq(D), NEW I, I \subseteq DOMAIN ds, NEW s, s = Selected(ds, I)
  PROVE  s \in Seq(D) /\ Takes(s, ds, I)
<1>1. StrictOrder(Ascending(I), I)
  <2>1. DOMAIN ds \subseteq Nat
    OBVIOUS
  <2>. QED  BY <2>1, AscendingIsStrict
<1>2. s = At(ds, Ranked(I, Ascending(I)))
  BY DEF Selected
<1>. DEFINE R == Ascending(I)
<1>3. StrictOrder(R, I) /\ s = At(ds, Ranked(I, R))
  BY <1>1, <1>2
<1>. HIDE DEF R
<1>. QED  BY <1>3, RankedAt

\* What is taken from what was taken.
LEMMA TakesOfTakes ==
  ASSUME NEW ds, NEW s, NEW t, NEW I, NEW J, NEW K,
         Takes(s, ds, I), Takes(t, s, K), K \subseteq DOMAIN s,
         \A k \in K : \E j \in J : s[k] = ds[j],
         \A j \in J : \E k \in K : s[k] = ds[j]
  PROVE  Takes(t, ds, J)
<1>1. ASSUME NEW m \in DOMAIN t PROVE \E j \in J : t[m] = ds[j]
  <2>1. PICK k \in K : t[m] = s[k]
    BY DEF Takes
  <2>. QED  BY <2>1
<1>2. ASSUME NEW j \in J PROVE \E m \in DOMAIN t : t[m] = ds[j]
  <2>1. PICK k \in K : s[k] = ds[j]
    OBVIOUS
  <2>2. PICK m \in DOMAIN t : t[m] = s[k]
    BY DEF Takes
  <2>. QED  BY <2>1, <2>2
<1>3. Distinct(ds) => Distinct(t)
  BY DEF Takes
<1>. QED  BY <1>1, <1>2, <1>3 DEF Takes

LEMMA FieldFilterTakes ==
  ASSUME NEW D, NEW ds \in Seq(D), NEW f, NEW s, s = FieldFilter(ds, f)
  PROVE  s \in Seq(D) /\ Takes(s, ds, {i \in DOMAIN ds : Meets(ds[i], f)})
<1>. DEFINE I == {i \in DOMAIN ds : Meets(ds[i], f)}
<1>1. s = Selected(ds, I) /\ I \subseteq DOMAIN ds
  BY DEF FieldFilter, Meets
<1>. HIDE DEF I
<1>2. s \in Seq(D) /\ Takes(s, ds, I)
  BY <1>1, SelectedList
<1>. QED  BY <1>2 DEF I

LEMMA NotInTakes ==
  ASSUME NEW D, NEW ds \in Seq(D), NEW found, NEW s, s = NotIn(ds, found)
  PROVE  /\ s \in Seq(D)
         /\ Takes(s, ds, {i \in DOMAIN ds : \A j \in DOMAIN found : found[j].name # ds[i].name})
<1>. DEFINE I == {i \in DOMAIN ds : \A j \in DOMAIN found : found[j].name # ds[i].name}
<1>1. s = Selected(ds, I) /\ I \subseteq DOMAIN ds
  BY DEF NotIn
<1>. HIDE DEF I
<1>2. s \in Seq(D) /\ Takes(s, ds, I)
  BY <1>1, SelectedList
<1>. QED  BY <1>2 DEF I

\* AND leaves the documents that meet all the filters of its list.
LEMMA NarrowedTakes ==
  ASSUME NEW D, NEW ds \in Seq(D), NEW X, NEW fs \in Seq(X), NEW s, s = Narrowed(ds, fs)
  PROVE  /\ s \in Seq(D)
         /\ Takes(s, ds, {i \in DOMAIN ds : \A m \in DOMAIN fs : Meets(ds[i], fs[m])})
<1>. DEFINE n == Len(fs)
            F == [p \in (1..n) \X Seq(D) |-> FieldFilter(p[2], fs[p[1]])]
            Left == CHOOSE Left : Left = [k \in 0..n |-> IF k = 0 THEN ds ELSE FieldFilter(Left[k - 1], fs[k])]
            AllOf(k) == {i \in DOMAIN ds : \A m \in 1..k : Meets(ds[i], fs[m])}
            P == {k \in 0..n : Left[k] \in Seq(D) /\ Takes(Left[k], ds, AllOf(k))}
<1>0. n \in Nat /\ DOMAIN fs = 1..n
  OBVIOUS
<1>1. s = Left[n]
  BY DEF Narrowed
<1>2. F \in [(1..n) \X Seq(D) -> Seq(D)]
  BY FieldFilterTakes
<1>3. \A k \in 1..n, l \in Seq(D) : F[<<k, l>>] = FieldFilter(l, fs[k])
  OBVIOUS
<1>. HIDE DEF n, F
<1>4. PICK g \in [0..n -> Seq(D)] : g[0] = ds /\ \A k \in 1..n : g[k] = F[<<k, g[k - 1]>>]
  <2>. DEFINE S == Seq(D)
  <2>1. ds \in S /\ F \in [(1..n) \X S -> S]
    BY <1>2
  <2>. HIDE DEF S
  <2>2. \E g \in [0..n -> S] : Iterates(g, ds, n, F)
    BY <1>0, <2>1, Recursion
  <2>. QED  BY <2>2 DEF S, Iterates
<1>5. g = [k \in 0..n |-> IF k = 0 THEN ds ELSE FieldFilter(g[k - 1], fs[k])]
  <2>1. ASSUME NEW k \in 0..n, k # 0
        PROVE  g[k] = FieldFilter(g[k - 1], fs[k])
    <3>1. k \in 1..n /\ k - 1 \in 0..n
      BY <1>0, <2>1
    <3>. QED  BY <1>3, <1>4, <3>1
  <2>. QED  BY <1>4, <2>1
<1>6. Left = [k \in 0..n |-> IF k = 0 THEN ds ELSE FieldFilter(Left[k - 1], fs[k])]
  BY <1>5
<1>. HIDE DEF Left
<1>7. Left[0] = ds /\ \A k \in 1..n : Left[k] = FieldFilter(Left[k - 1], fs[k])
  BY <1>0, <1>6
<1>8. 0 \in P
  <2>1. AllOf(0) = DOMAIN ds
    <3>1. 1..0 = {}
      OBVIOUS
    <3>. QED  BY <3>1
  <2>. HIDE DEF AllOf
  <2>. QED  BY <1>0, <1>7, <2>1 DEF Takes
<1>9. ASSUME NEW k \in 1..n, k - 1 \in P
      PROVE  k \in P
  <2>. DEFINE l == Left[k - 1]
              K == {i \in DOMAIN l : Meets(l[i], fs[k])}
  <2>1. l \in Seq(D) /\ Takes(l, ds, AllOf(k - 1))
    BY <1>9
  <2>2. Left[k] \in Seq(D) /\ Takes(Left[k], l, K)
    <3>. DEFINE f == fs[k]
                t == Left[k]
    <3>1. t = FieldFilter(l, f)
      BY <1>7
    <3>. HIDE DEF l, f, t, AllOf
    <3>2. t \in Seq(D) /\ Takes(t, l, {i \in DOMAIN l : Meets(l[i], f)})
      BY <2>1, <3>1, FieldFilterTakes
    <3>. QED  BY <3>2 DEF f, t
  <2>3. 1..k = 1..(k - 1) \cup {k}
    BY <1>0
  <2>. HIDE DEF l
  <2>4. \A i \in DOMAIN ds : i \in AllOf(k) <=> i \in AllOf(k - 1) /\ Meets(ds[i], fs[k])
    BY <2>3
  <2>. HIDE DEF AllOf
  <2>5. \A q \in K : \E j \in AllOf(k) : l[q] = ds[j]
    <3>1. AllOf(k - 1) \subseteq DOMAIN ds
      BY DEF AllOf
    <3>. QED  BY <2>1, <2>4, <3>1 DEF Takes
  <2>6. \A j \in AllOf(k) : \E q \in K : l[q] = ds[j]
    <3>1. AllOf(k) \subseteq DOMAIN ds
      BY DEF AllOf
    <3>. QED  BY <2>1, <2>4, <3>1 DEF Takes
  <2>7. K \subseteq DOMAIN l
    OBVIOUS
  <2>. HIDE DEF K
  <2>8. Takes(Left[k], ds, AllOf(k))
    BY <2>1, <2>2, <2>5, <2>6, <2>7, TakesOfTakes
  <2>. QED  BY <1>0, <2>2, <2>8
<1>. HIDE DEF P
<1>10. n \in P
  <2>1. 0..n \subseteq P
    BY <1>0, <1>8, <1>9, UpTo
  <2>. QED  BY <1>0, <2>1
<1>11. s \in Seq(D) /\ Takes(s, ds, AllOf(n))
  BY <1>1, <1>10 DEF P
<1>. QED  BY <1>0, <1>11

\* Two lists that share no name, one behind the other.
LEMMA ConcatTakes ==
  ASSUME NEW D, NEW ds \in Seq(D), NEW a \in Seq(D), NEW b \in Seq(D), NEW I, NEW J, NEW K,
         Takes(a, ds, I), Takes(b, ds, J), K = I \cup J,
         \A i \in DOMAIN a, j \in DOMAIN b : a[i].name # b[j].name
  PROVE  a \o b \in Seq(D) /\ Takes(a \o b, ds, K)
<1>. DEFINE s == a \o b
<1>1. /\ s \in Seq(D) /\ Len(s) = Len(a) + Len(b) /\ Len(a) \in Nat /\ Len(b) \in Nat
      /\ DOMAIN s = 1..Len(s) /\ DOMAIN a = 1..Len(a) /\ DOMAIN b = 1..Len(b)
      /\ \A k \in 1..Len(s) : s[k] = IF k <= Len(a) THEN a[k] ELSE b[k - Len(a)]
  OBVIOUS
<1>. HIDE DEF s
<1>2. ASSUME NEW k \in DOMAIN s
      PROVE  \/ k \in DOMAIN a /\ s[k] = a[k]
             \/ k > Len(a) /\ k - Len(a) \in DOMAIN b /\ s[k] = b[k - Len(a)]
  BY <1>1
<1>3. \A k \in DOMAIN s : \E i \in K : s[k] = ds[i]
  <2>. SUFFICES ASSUME NEW k \in DOMAIN s PROVE \E i \in K : s[k] = ds[i]
    OBVIOUS
  <2>1. CASE k \in DOMAIN a /\ s[k] = a[k]
    BY <2>1 DEF Takes
  <2>2. CASE k - Len(a) \in DOMAIN b /\ s[k] = b[k - Len(a)]
    <3>1. \A m \in DOMAIN b : \E i \in J : b[m] = ds[i]
      BY DEF Takes
    <3>2. PICK i \in J : b[k - Len(a)] = ds[i]
      BY <2>2, <3>1
    <3>. QED  BY <2>2, <3>2
  <2>. QED  BY <1>2, <2>1, <2>2
<1>4. \A i \in K : \E k \in DOMAIN s : s[k] = ds[i]
  <2>. SUFFICES ASSUME NEW i \in K PROVE \E k \in DOMAIN s : s[k] = ds[i]
    OBVIOUS
  <2>1. CASE i \in I
    <3>1. PICK k \in DOMAIN a : a[k] = ds[i]
      BY <2>1 DEF Takes
    <3>2. k \in DOMAIN s /\ s[k] = a[k]
      BY <1>1
    <3>. QED  BY <3>1, <3>2
  <2>2. CASE i \in J
    <3>1. PICK k \in DOMAIN b : b[k] = ds[i]
      BY <2>2 DEF Takes
    <3>2. Len(a) + k \in DOMAIN s /\ s[Len(a) + k] = b[k]
      BY <1>1
    <3>. QED  BY <3>1, <3>2
  <2>. QED  BY <2>1, <2>2
<1>5. ASSUME Distinct(ds), NEW k \in DOMAIN s, NEW m \in DOMAIN s, k # m
      PROVE  s[k].name # s[m].name
  <2>1. Distinct(a) /\ Distinct(b)
    BY <1>5 DEF Takes
  <2>2. CASE k \in DOMAIN a /\ s[k] = a[k]
    <3>1. CASE m \in DOMAIN a /\ s[m] = a[m]
      BY <1>5, <2>1, <2>2, <3>1 DEF Distinct
    <3>2. CASE m - Len(a) \in DOMAIN b /\ s[m] = b[m - Len(a)]
      BY <2>2, <3>2
    <3>. QED  BY <1>2, <3>1, <3>2
  <2>3. CASE k > Len(a) /\ k - Len(a) \in DOMAIN b /\ s[k] = b[k - Len(a)]
    <3>1. CASE m \in DOMAIN a /\ s[m] = a[m]
      BY <2>3, <3>1
    <3>2. CASE m > Len(a) /\ m - Len(a) \in DOMAIN b /\ s[m] = b[m - Len(a)]
      <4>1. k - Len(a) # m - Len(a)
        BY <1>1, <1>5
      <4>. QED  BY <2>1, <2>3, <3>2, <4>1 DEF Distinct
    <3>. QED  BY <1>2, <3>1, <3>2
  <2>. QED  BY <1>2, <2>2, <2>3
<1>6. Distinct(ds) => Distinct(s)
  BY <1>5 DEF Distinct
<1>. QED  BY <1>1, <1>3, <1>4, <1>6 DEF Takes, s

\* One step of OR: what the next filter finds and no earlier one did.
LEMMA MergeTakes ==
  ASSUME NEW D, NEW ds \in Seq(D), Distinct(ds), NEW a \in Seq(D), NEW I, Takes(a, ds, I),
         I \subseteq DOMAIN ds, NEW f, NEW K, K = I \cup {i \in DOMAIN ds : Meets(ds[i], f)}
  PROVE  /\ a \o NotIn(FieldFilter(ds, f), a) \in Seq(D)
         /\ Takes(a \o NotIn(FieldFilter(ds, f), a), ds, K)
<1>. DEFINE m == FieldFilter(ds, f)
            b == NotIn(m, a)
            M == {i \in DOMAIN ds : Meets(ds[i], f)}
            New == {k \in DOMAIN m : \A j \in DOMAIN a : a[j].name # m[k].name}
            J == M \ I
<1>1. m \in Seq(D) /\ Takes(m, ds, M)
  BY FieldFilterTakes
<1>2. b \in Seq(D) /\ Takes(b, m, New)
  BY <1>1, NotInTakes
<1>. HIDE DEF m, b
<1>3. ASSUME NEW k \in New PROVE \E j \in J : m[k] = ds[j]
  <2>1. PICK j \in M : m[k] = ds[j]
    BY <1>1 DEF Takes
  <2>2. j \notin I
    BY <2>1 DEF Takes
  <2>. QED  BY <2>1, <2>2
<1>4. ASSUME NEW j \in J PROVE \E k \in New : m[k] = ds[j]
  <2>1. PICK k \in DOMAIN m : m[k] = ds[j]
    BY <1>1 DEF Takes
  <2>2. ASSUME NEW q \in DOMAIN a, a[q].name = m[k].name
        PROVE  FALSE
    <3>1. PICK i \in I : a[q] = ds[i]
      BY DEF Takes
    <3>2. i = j
      BY <2>1, <2>2, <3>1 DEF Distinct
    <3>. QED  BY <3>2
  <2>. QED  BY <2>1, <2>2
<1>5. \A i \in DOMAIN a, j \in DOMAIN b : a[i].name # b[j].name
  BY <1>2 DEF Takes
<1>6. New \subseteq DOMAIN m
  OBVIOUS
<1>. HIDE DEF New
<1>7. K = I \cup J
  OBVIOUS
<1>. HIDE DEF J
<1>8. Takes(b, ds, J)
  BY <1>1, <1>2, <1>3, <1>4, <1>6, TakesOfTakes
<1>9. a \o b \in Seq(D) /\ Takes(a \o b, ds, K)
  BY <1>2, <1>5, <1>7, <1>8, ConcatTakes
<1>. QED  BY <1>9 DEF b, m

\* OR finds the documents that meet a filter of its list, each once.
LEMMA MergedTakes ==
  ASSUME NEW D, NEW ds \in Seq(D), Distinct(ds), NEW X, NEW fs \in Seq(X), NEW s, s = Merged(ds, fs)
  PROVE  /\ s \in Seq(D)
         /\ Takes(s, ds, {i \in DOMAIN ds : \E m \in DOMAIN fs : Meets(ds[i], fs[m])})
<1>. DEFINE n == Len(fs)
            Onto(a, k) == a \o NotIn(FieldFilter(ds, fs[k]), a)
            F == [p \in (1..n) \X Seq(D) |-> Onto(p[2], p[1])]
            Found == CHOOSE Found : Found = [k \in 0..n |-> IF k = 0 THEN <<>> ELSE Onto(Found[k - 1], k)]
            AnyOf(k) == {i \in DOMAIN ds : \E m \in 1..k : Meets(ds[i], fs[m])}
            P == {k \in 0..n : Found[k] \in Seq(D) /\ Takes(Found[k], ds, AnyOf(k))}
<1>0. n \in Nat /\ DOMAIN fs = 1..n
  OBVIOUS
<1>1. s = Found[n]
  BY DEF Merged
<1>2. ASSUME NEW k \in 1..n, NEW a \in Seq(D)
      PROVE  Onto(a, k) \in Seq(D)
  <2>1. FieldFilter(ds, fs[k]) \in Seq(D)
    BY FieldFilterTakes
  <2>2. NotIn(FieldFilter(ds, fs[k]), a) \in Seq(D)
    BY <2>1, NotInTakes
  <2>. QED  BY <2>2
<1>. HIDE DEF Onto, n
<1>3. F \in [(1..n) \X Seq(D) -> Seq(D)]
  BY <1>2
<1>4. \A k \in 1..n, a \in Seq(D) : F[<<k, a>>] = Onto(a, k)
  OBVIOUS
<1>. HIDE DEF F
<1>5. PICK g \in [0..n -> Seq(D)] : Iterates(g, <<>>, n, F)
  <2>. DEFINE S == Seq(D)
  <2>1. <<>> \in S /\ F \in [(1..n) \X S -> S]
    BY <1>3
  <2>. HIDE DEF S
  <2>2. \E g \in [0..n -> S] : Iterates(g, <<>>, n, F)
    BY <1>0, <2>1, Recursion
  <2>. QED  BY <2>2 DEF S
<1>6. g = [k \in 0..n |-> IF k = 0 THEN <<>> ELSE Onto(g[k - 1], k)]
  <2>1. ASSUME NEW k \in 0..n, k # 0
        PROVE  g[k] = Onto(g[k - 1], k)
    <3>1. k \in 1..n /\ k - 1 \in 0..n
      BY <1>0, <2>1
    <3>. QED  BY <1>4, <1>5, <3>1 DEF Iterates
  <2>. QED  BY <1>5, <2>1 DEF Iterates
<1>7. Found = [k \in 0..n |-> IF k = 0 THEN <<>> ELSE Onto(Found[k - 1], k)]
  BY <1>6
<1>. HIDE DEF Found
<1>8. Found[0] = <<>> /\ \A k \in 1..n : Found[k] = Onto(Found[k - 1], k)
  BY <1>0, <1>7
<1>9. 0 \in P
  <2>1. AnyOf(0) = {}
    <3>1. 1..0 = {}
      OBVIOUS
    <3>. QED  BY <3>1
  <2>2. Takes(<<>>, ds, {}) /\ <<>> \in Seq(D)
    BY DEF Takes, Distinct
  <2>. HIDE DEF AnyOf
  <2>3. Found[0] \in Seq(D) /\ Takes(Found[0], ds, AnyOf(0))
    BY <1>8, <2>1, <2>2
  <2>. QED  BY <1>0, <2>3
<1>10. ASSUME NEW k \in 1..n, k - 1 \in P
       PROVE  k \in P
  <2>. DEFINE a == Found[k - 1]
  <2>1. a \in Seq(D) /\ Takes(a, ds, AnyOf(k - 1)) /\ AnyOf(k - 1) \subseteq DOMAIN ds
    BY <1>10
  <2>2. Found[k] = a \o NotIn(FieldFilter(ds, fs[k]), a)
    BY <1>8 DEF Onto
  <2>3. AnyOf(k) = AnyOf(k - 1) \cup {i \in DOMAIN ds : Meets(ds[i], fs[k])}
    <3>1. 1..k = 1..(k - 1) \cup {k}
      BY <1>0
    <3>. QED  BY <3>1
  <2>. DEFINE f == fs[k]
              I == AnyOf(k - 1)
              K == AnyOf(k)
              b == NotIn(FieldFilter(ds, f), a)
  <2>4. /\ a \in Seq(D) /\ Takes(a, ds, I) /\ I \subseteq DOMAIN ds
        /\ K = I \cup {i \in DOMAIN ds : Meets(ds[i], f)} /\ Found[k] = a \o b
    BY <2>1, <2>2, <2>3
  <2>5. Found[k] \in Seq(D) /\ Takes(Found[k], ds, K)
    <3>. HIDE DEF a, I, K, f
    <3>. QED  BY <2>4, MergeTakes
  <2>. HIDE DEF a, AnyOf
  <2>. QED  BY <1>0, <2>5
<1>. HIDE DEF P
<1>11. n \in P
  <2>1. 0..n \subseteq P
    BY <1>0, <1>9, <1>10, UpTo
  <2>. QED  BY <1>0, <2>1
<1>12. s \in Seq(D) /\ Takes(s, ds, AnyOf(n))
  BY <1>1, <1>11 DEF P
<1>. QED  BY <1>0, <1>12

\* applyFilter leaves the documents that satisfy the filter.
LEMMA ApplyFilterTakes ==
  ASSUME NEW D, NEW ds \in Seq(D), Distinct(ds), NEW f \in Filters, NEW s, s = ApplyFilter(ds, f)
  PROVE  s \in Seq(D) /\ Takes(s, ds, {i \in DOMAIN ds : Satisfies(ds[i].fields, f)})
<1>1. CASE f.type = "field"
  <2>1. s = FieldFilter(ds, f)
    BY <1>1 DEF ApplyFilter
  <2>2. \A i \in DOMAIN ds : Satisfies(ds[i].fields, f) <=> Meets(ds[i], f)
    BY <1>1 DEF Satisfies, Meets
  <2>3. {i \in DOMAIN ds : Satisfies(ds[i].fields, f)} = {i \in DOMAIN ds : Meets(ds[i], f)}
    BY <2>2
  <2>. QED  BY <2>1, <2>3, FieldFilterTakes
<1>2. CASE f.type = "and"
  <2>1. s = Narrowed(ds, f.filters)
    BY <1>2 DEF ApplyFilter
  <2>2. {i \in DOMAIN ds : Satisfies(ds[i].fields, f)}
          = {i \in DOMAIN ds : \A m \in DOMAIN f.filters : Meets(ds[i], f.filters[m])}
    BY <1>2 DEF Satisfies, Meets
  <2>3. f.filters \in Seq({f.filters[i] : i \in DOMAIN f.filters})
    BY <1>2, RequestAssumption
  <2>. QED  BY <2>1, <2>2, <2>3, NarrowedTakes
<1>3. CASE f.type = "or"
  <2>1. s = Merged(ds, f.filters)
    BY <1>3 DEF ApplyFilter
  <2>2. {i \in DOMAIN ds : Satisfies(ds[i].fields, f)}
          = {i \in DOMAIN ds : \E m \in DOMAIN f.filters : Meets(ds[i], f.filters[m])}
    BY <1>3 DEF Satisfies, Meets
  <2>3. f.filters \in Seq({f.filters[i] : i \in DOMAIN f.filters})
    BY <1>3, RequestAssumption
  <2>. QED  BY <2>1, <2>2, <2>3, MergedTakes
<1>4. CASE f.type \notin {"field", "and", "or"}
  <2>1. s = ds
    BY <1>4 DEF ApplyFilter
  <2>2. \A i \in DOMAIN ds : Satisfies(ds[i].fields, f)
    BY <1>4 DEF Satisfies
  <2>. QED  BY <2>1, <2>2 DEF Takes
<1>. QED  BY <1>1, <1>2, <1>3, <1>4

-----------------------------------------------------------------------------
(* What a query puts in order                                              *)

\* A document of a result.
Entry == [name : Names, fields : FieldMap, shared : BOOLEAN]

LEMMA EntriesAreProper ==
  ASSUME NEW os \in Orders, NEW d \in Entry
  PROVE  OrderList(os) /\ ProperDoc(d, os)
<1>1. OrderList(os)
  BY RequestAssumption DEF OrderList
<1>2. ASSUME NEW k \in DOMAIN os
      PROVE  IsValue(OrderValue(d, os[k]))
  <2>. DEFINE T == [field : Fields \cup {"__name__"}, descending : BOOLEAN]
  <2>0. os[k] \in T
    <3>1. os \in Seq(T)
      BY <1>1 DEF OrderList
    <3>. HIDE DEF T
    <3>. QED  BY <3>1
  <2>1. os[k].field \in Fields \cup {"__name__"}
    BY <2>0
  <2>2. CASE os[k].field = "__name__"
    <3>1. d.name \in Int
      <4>. DEFINE n == d.name
      <4>1. n \in Names
        BY DEF Entry
      <4>. HIDE DEF n
      <4>2. n \in Nat
        BY <4>1, QueryAssumption
      <4>. QED  BY <4>2 DEF n
    <3>2. OrderValue(d, os[k]) = [rank |-> 4, key |-> d.name]
      BY <2>2 DEF OrderValue
    <3>. QED  BY <3>1, <3>2 DEF IsValue, Ranks, Number
  <2>3. CASE os[k].field # "__name__"
    <3>1. OrderValue(d, os[k]) \in Stored \cup {Missing}
      BY <2>1, <2>3 DEF OrderValue, Entry, FieldMap
    <3>2. IsValue(Missing)
      BY DEF Missing, IsValue, Ranks, Number
    <3>. QED  BY <3>1, <3>2, QueryAssumption
  <2>. QED  BY <2>2, <2>3
<1>. QED  BY <1>1, <1>2 DEF ProperDoc

\* What is not before something that is not before a third is not before the third.
LEMMA BehindCarriesOn ==
  ASSUME NEW os \in Orders, NEW d \in Entry, NEW e \in Entry, NEW g \in Entry
  PROVE  /\ ~Before(d, d, os)
         /\ Before(d, e, os) => ~Before(e, d, os)
         /\ ~Before(d, e, os) /\ ~Before(e, g, os) => ~Before(d, g, os)
<1>1. OrderList(os) /\ ProperDoc(d, os) /\ ProperDoc(e, os) /\ ProperDoc(g, os)
  BY EntriesAreProper
<1>2. /\ ~Before(d, d, os)
      /\ Before(d, e, os) => ~Before(e, d, os)
      /\ ~Before(d, e, os) /\ ~Before(e, d, os) /\ ~Before(e, g, os) /\ ~Before(g, e, os)
           => ~Before(d, g, os)
  BY <1>1, OrderByIsStrictWeak
<1>3. /\ Before(d, g, os) /\ Before(g, e, os) => Before(d, e, os)
      /\ Before(e, d, os) /\ Before(d, g, os) => Before(e, g, os)
  BY <1>1, OrderByIsStrictWeak
<1>. QED  BY <1>2, <1>3

\* Which of two places of a list a stable sort puts first.
Ahead(ds, os) ==
  {p \in (DOMAIN ds) \X (DOMAIN ds) :
     \/ Before(ds[p[1]], ds[p[2]], os)
     \/ p[1] < p[2] /\ ~Before(ds[p[2]], ds[p[1]], os)}

StablySorted(ds, os) == At(ds, Ranked(DOMAIN ds, Ahead(ds, os)))

LEMMA AheadIsStrict ==
  ASSUME NEW ds \in Seq(Entry), NEW os \in Orders
  PROVE  /\ StrictOrder(Ahead(ds, os), DOMAIN ds)
         /\ \A i, j \in DOMAIN ds :
              /\ <<i, j>> \in Ahead(ds, os) => ~Before(ds[j], ds[i], os)
              /\ Before(ds[i], ds[j], os) => <<i, j>> \in Ahead(ds, os)
              /\ i < j /\ ~Before(ds[j], ds[i], os) => <<i, j>> \in Ahead(ds, os)
<1>. DEFINE I == DOMAIN ds
            B(i, j) == Before(ds[i], ds[j], os)
            A == Ahead(ds, os)
<1>2. ASSUME NEW i \in I, NEW j \in I
      PROVE  /\ <<i, j>> \in A => B(i, j) \/ (i < j /\ ~B(j, i))
             /\ B(i, j) => <<i, j>> \in A
             /\ i < j /\ ~B(j, i) => <<i, j>> \in A
  <2>. DEFINE C(p) == B(p[1], p[2]) \/ (p[1] < p[2] /\ ~B(p[2], p[1]))
  <2>1. <<i, j>> \in I \X I
    OBVIOUS
  <2>2. A = {p \in I \X I : C(p)}
    BY DEF Ahead
  <2>3. C(<<i, j>>) <=> B(i, j) \/ (i < j /\ ~B(j, i))
    OBVIOUS
  <2>. HIDE DEF A, I, C
  <2>4. <<i, j>> \in A <=> C(<<i, j>>)
    BY <2>1, <2>2
  <2>. QED  BY <2>3, <2>4
<1>3. ASSUME NEW i \in I, NEW j \in I, NEW k \in I
      PROVE  /\ ~B(i, i)
             /\ B(i, j) => ~B(j, i)
             /\ ~B(i, j) /\ ~B(j, k) => ~B(i, k)
  <2>1. ds[i] \in Entry /\ ds[j] \in Entry /\ ds[k] \in Entry
    OBVIOUS
  <2>. QED  BY <2>1, BehindCarriesOn
<1>4. I \subseteq Nat
  OBVIOUS
<1>. HIDE DEF A, B, I
<1>5. StrictOrder(A, I)
  <2>1. \A i \in I : <<i, i>> \notin A
    BY <1>2, <1>3, <1>4
  <2>2. ASSUME NEW i \in I, NEW j \in I, NEW k \in I, <<i, j>> \in A, <<j, k>> \in A
        PROVE  <<i, k>> \in A
    <3>1. B(i, j) \/ (i < j /\ ~B(j, i))
      BY <1>2, <2>2
    <3>2. B(j, k) \/ (j < k /\ ~B(k, j))
      BY <1>2, <2>2
    <3>3. ~B(j, i) /\ ~B(k, j)
      BY <1>3, <3>1, <3>2
    <3>4. ~B(k, i)
      BY <1>3, <3>3
    <3>5. CASE i < j /\ j < k
      <4>1. i < k
        BY <1>4, <3>5
      <4>. QED  BY <1>2, <3>4, <4>1
    <3>6. CASE B(i, j)
      <4>1. B(i, k)
        BY <1>3, <3>3, <3>6
      <4>. QED  BY <1>2, <4>1
    <3>7. CASE B(j, k)
      <4>1. B(i, k)
        BY <1>3, <3>3, <3>7
      <4>. QED  BY <1>2, <4>1
    <3>. QED  BY <3>1, <3>2, <3>5, <3>6, <3>7
  <2>3. ASSUME NEW i \in I, NEW j \in I, i # j
        PROVE  <<i, j>> \in A \/ <<j, i>> \in A
    <3>1. i < j \/ j < i
      BY <1>4, <2>3
    <3>. QED  BY <1>2, <3>1
  <2>. QED  BY <2>1, <2>2, <2>3 DEF StrictOrder
<1>6. ASSUME NEW i \in I, NEW j \in I, <<i, j>> \in A
      PROVE  ~B(j, i)
  BY <1>2, <1>3, <1>6
<1>. QED  BY <1>2, <1>5, <1>6 DEF I, A, B

\* A stable sort has every document in its place, and none before one that
\* comes before it.
LEMMA StablySortedList ==
  ASSUME NEW ds \in Seq(Entry), NEW os \in Orders, NEW s, s = StablySorted(ds, os)
  PROVE  /\ s \in Seq(Entry) /\ Takes(s, ds, DOMAIN ds)
         /\ \A k, m \in DOMAIN s : k < m => ~Before(s[m], s[k], os)
<1>. DEFINE A == Ahead(ds, os)
            I == DOMAIN ds
<1>1. StrictOrder(A, I) /\ s = At(ds, Ranked(I, A)) /\ I \subseteq DOMAIN ds
  BY AheadIsStrict DEF StablySorted
<1>2. \A i, j \in I : <<i, j>> \in A => ~Before(ds[j], ds[i], os)
  BY AheadIsStrict
<1>. HIDE DEF A
<1>3. s \in Seq(Entry) /\ Takes(s, ds, I) /\ Follows(s, ds, A)
  BY <1>1, RankedAt
<1>4. ASSUME NEW k \in DOMAIN s, NEW m \in DOMAIN s, k < m
      PROVE  ~Before(s[m], s[k], os)
  <2>1. PICK i \in I, j \in I : <<i, j>> \in A /\ s[k] = ds[i] /\ s[m] = ds[j]
    BY <1>3, <1>4 DEF Follows
  <2>. QED  BY <1>2, <2>1
<1>. QED  BY <1>3, <1>4

-----------------------------------------------------------------------------
(* Putting documents in order one after the other                          *)

\* The list f with what is at a place put ahead of the one in front of it.
Exchanged(f, j) == [f EXCEPT ![j - 1] = f[j], ![j] = f[j - 1]]

\* The first i are in the order R, but for the one at place j, which is only
\* known to be ahead of those behind it.
PartSorted(f, R, i, j) ==
  /\ \A k, m \in DOMAIN f : k < m /\ m <= i /\ k # j /\ m # j => <<f[k], f[m]>> \in R
  /\ \A m \in DOMAIN f : j < m /\ m <= i => <<f[j], f[m]>> \in R

LEMMA ExchangeKeepsSorted ==
  ASSUME NEW n \in Nat, NEW V, NEW f \in [1..n -> V], NEW R,
         NEW i \in 1..n, NEW j \in 2..i, PartSorted(f, R, i, j), <<f[j], f[j - 1]>> \in R
  PROVE  /\ Exchanged(f, j) \in [1..n -> V]
         /\ PartSorted(Exchanged(f, j), R, i, j - 1)
<1>. DEFINE g == Exchanged(f, j)
<1>1. j - 1 \in 1..n /\ j \in 1..n /\ j - 1 # j /\ j - 1 < j
  OBVIOUS
<1>2. /\ g \in [1..n -> V] /\ g[j - 1] = f[j] /\ g[j] = f[j - 1]
      /\ \A k \in 1..n : k # j /\ k # j - 1 => g[k] = f[k]
  BY <1>1 DEF Exchanged
<1>3. DOMAIN f = 1..n /\ DOMAIN g = 1..n
  BY <1>2
<1>. HIDE DEF g
<1>4. ASSUME NEW k \in 1..n, NEW m \in 1..n, k < m, m <= i, k # j - 1, m # j - 1
      PROVE  <<g[k], g[m]>> \in R
  <2>1. CASE k # j /\ m # j
    BY <1>2, <1>3, <1>4, <2>1 DEF PartSorted
  <2>2. CASE k = j
    <3>1. j - 1 < m /\ m # j /\ g[m] = f[m]
      BY <1>2, <1>4, <2>2
    <3>2. <<f[j - 1], f[m]>> \in R
      BY <1>1, <1>3, <1>4, <3>1 DEF PartSorted
    <3>. QED  BY <1>2, <2>2, <3>1, <3>2
  <2>3. CASE m = j
    <3>1. k < j - 1 /\ k # j /\ g[k] = f[k] /\ j - 1 <= i
      BY <1>2, <1>4, <2>3
    <3>2. <<f[k], f[j - 1]>> \in R
      BY <1>1, <1>3, <3>1 DEF PartSorted
    <3>. QED  BY <1>2, <2>3, <3>1, <3>2
  <2>. QED  BY <2>1, <2>2, <2>3
<1>5. ASSUME NEW m \in 1..n, j - 1 < m, m <= i
      PROVE  <<g[j - 1], g[m]>> \in R
  <2>1. CASE m = j
    BY <1>2, <2>1
  <2>2. CASE m # j
    <3>1. j < m /\ g[m] = f[m]
      BY <1>2, <1>5, <2>2
    <3>. QED  BY <1>2, <1>3, <1>5, <3>1 DEF PartSorted
  <2>. QED  BY <2>1, <2>2
<1>. QED  BY <1>2, <1>3, <1>4, <1>5 DEF PartSorted, g

LEMMA PlacedKeepsSorted ==
  ASSUME NEW n \in Nat, NEW V, NEW f \in [1..n -> V], NEW R,
         \A x, y, z \in V : <<x, y>> \in R /\ <<y, z>> \in R => <<x, z>> \in R,
         NEW i \in 1..n, NEW j \in 1..i, PartSorted(f, R, i, j),
         j > 1 => <<f[j - 1], f[j]>> \in R
  PROVE  PartSorted(f, R, i + 1, i + 1)
<1>1. DOMAIN f = 1..n /\ \A k \in 1..n : f[k] \in V
  OBVIOUS
<1>2. ASSUME NEW k \in 1..n, k < j
      PROVE  <<f[k], f[j]>> \in R
  <2>1. j - 1 \in 1..n /\ j \in 1..n /\ j > 1 /\ j - 1 <= i /\ j - 1 # j /\ k # j
    BY <1>2
  <2>2. CASE k = j - 1
    BY <2>1, <2>2
  <2>3. CASE k # j - 1
    <3>1. k < j - 1
      BY <1>2, <2>3
    <3>2. <<f[k], f[j - 1]>> \in R
      BY <1>1, <2>1, <3>1 DEF PartSorted
    <3>3. <<f[j - 1], f[j]>> \in R
      BY <2>1
    <3>. QED  BY <1>1, <2>1, <3>2, <3>3
  <2>. QED  BY <2>2, <2>3
<1>3. ASSUME NEW k \in 1..n, NEW m \in 1..n, k < m, m <= i
      PROVE  <<f[k], f[m]>> \in R
  <2>1. CASE m = j
    BY <1>2, <1>3, <2>1
  <2>2. CASE k = j
    BY <1>1, <1>3, <2>2 DEF PartSorted
  <2>3. CASE k # j /\ m # j
    BY <1>1, <1>3, <2>3 DEF PartSorted
  <2>. QED  BY <2>1, <2>2, <2>3
<1>4. \A m \in 1..n : m <= i + 1 /\ m # i + 1 => m <= i
  OBVIOUS
<1>5. \A m \in 1..n : ~(i + 1 < m /\ m <= i + 1)
  OBVIOUS
<1>. QED  BY <1>1, <1>3, <1>4, <1>5 DEF PartSorted

-----------------------------------------------------------------------------
(* A listing, a page, a write                                              *)

\* A listing has the names of the documents there are, each once and in order.
LEMMA ListingIsOrdered ==
  ASSUME NEW s \in Listing
  PROVE  /\ s \in [1..Cardinality(There) -> There] /\ Cardinality(There) \in Nat
         /\ s \in Seq(There) /\ DOMAIN s = 1..Cardinality(There)
         /\ \A i, j \in DOMAIN s : i < j => s[i] < s[j]
         /\ \A i, j \in DOMAIN s : i # j => s[i] # s[j]
         /\ \A n \in There : \E i \in DOMAIN s : s[i] = n
<1>. DEFINE n == Cardinality(There)
<1>1. IsFiniteSet(There)
  BY QueryAssumption, FS_Subset DEF There
<1>2. n \in Nat
  BY <1>1, FS_CardinalityType
<1>3. s \in [1..n -> There] /\ \A i, j \in 1..n : i # j => s[i] # s[j]
  BY DEF Listing, SetToSeqs
<1>4. \A i, j \in DOMAIN s : i < j => s[i] < s[j]
  BY DEF Listing
<1>. HIDE DEF n
<1>5. s \in Surjection(1..n, There)
  <2>1. s \in Injection(1..n, There)
    BY <1>3, Fun_IsInj
  <2>2. IsFiniteSet(1..n) /\ Cardinality(1..n) = n
    BY <1>2, FS_Interval
  <2>. QED  BY <1>1, <2>1, <2>2, FS_Injection DEF n
<1>6. \A m \in There : \E i \in 1..n : s[i] = m
  BY <1>5 DEF Surjection
<1>7. s \in Seq(There)
  BY <1>2, <1>3
<1>8. DOMAIN s = 1..n
  BY <1>3
<1>. QED  BY <1>2, <1>3, <1>4, <1>6, <1>7, <1>8 DEF n

\* A page with less than the limit asks for, behind which there is no other.
IsLast(s, lim) == lim = NoLimit \/ Len(s) < lim

\* The page a query sends is a piece of its result, that from the offset on.
LEMMA WindowIsPiece ==
  ASSUME NEW D, NEW ds \in Seq(D), NEW off \in Nat, NEW lim \in PageSizes,
         NEW s, s = Window(ds, off, lim)
  PROVE  /\ s \in Seq(D)
         /\ \A k \in DOMAIN s : off + k \in DOMAIN ds /\ s[k] = ds[off + k]
         /\ off <= Len(ds) => off + Len(s) <= Len(ds)
         /\ off <= Len(ds) /\ IsLast(s, lim) => Len(ds) <= off + Len(s)
<1>. DEFINE stop == IF lim = NoLimit \/ off + lim > Len(ds) THEN Len(ds) ELSE off + lim
<1>1. Len(ds) \in Nat /\ DOMAIN ds = 1..Len(ds) /\ \A i \in 1..Len(ds) : ds[i] \in D
  OBVIOUS
<1>2. lim # NoLimit => lim \in Nat \ {0}
  BY QueryAssumption
<1>3. stop \in Int /\ stop <= Len(ds)
  BY <1>1, <1>2
<1>4. lim = NoLimit \/ stop < off + lim => stop = Len(ds)
  BY <1>1, <1>2
<1>5. off <= Len(ds) => off <= stop
  BY <1>1, <1>2
<1>6. s = SubSeq(ds, off + 1, stop)
  BY DEF Window
<1>. HIDE DEF stop
<1>7. \A i \in (off + 1)..stop : i \in DOMAIN ds /\ ds[i] \in D
  BY <1>1, <1>3
<1>8. /\ s \in Seq(D)
      /\ Len(s) = IF off + 1 <= stop THEN stop - (off + 1) + 1 ELSE 0
      /\ \A i \in 1..(stop - (off + 1) + 1) : s[i] = ds[(off + 1) + i - 1]
  <2>1. off + 1 \in Int
    OBVIOUS
  <2>. QED  BY <1>3, <1>6, <1>7, <2>1, SubSeqProperties
<1>9. ASSUME NEW k \in DOMAIN s
      PROVE  off + k \in DOMAIN ds /\ s[k] = ds[off + k]
  <2>1. k \in Nat /\ k >= 1 /\ k <= Len(s)
    BY <1>8
  <2>2. Len(s) = IF off + 1 <= stop THEN stop - (off + 1) + 1 ELSE 0
    BY <1>8
  <2>3. k <= stop - off
    BY <1>3, <2>1, <2>2
  <2>4. k \in 1..(stop - (off + 1) + 1) /\ off + k \in (off + 1)..stop
    BY <1>3, <2>1, <2>3
  <2>5. (off + 1) + k - 1 = off + k
    BY <2>1
  <2>. QED  BY <1>7, <1>8, <2>4, <2>5
<1>10. Len(s) \in Nat /\ (off <= Len(ds) => off + Len(s) = stop)
  BY <1>1, <1>3, <1>5, <1>8
<1>11. IsLast(s, lim) /\ off <= Len(ds) => off + Len(s) = Len(ds)
  <2>1. ASSUME off <= Len(ds), lim # NoLimit, Len(s) < lim
        PROVE  stop < off + lim
    <3>. HIDE DEF stop
    <3>. QED  BY <1>2, <1>3, <1>10, <2>1
  <2>. QED  BY <1>4, <1>10, <2>1 DEF IsLast
<1>. QED  BY <1>3, <1>8, <1>9, <1>10, <1>11

\* Where a document comes depends on its name and its fields.
LEMMA BeforeLooksAt ==
  ASSUME NEW os, NEW d, NEW e, NEW x, NEW y,
         d.name = x.name, d.fields = x.fields, e.name = y.name, e.fields = y.fields
  PROVE  Before(d, e, os) <=> Before(x, y, os)
<1>1. \A k \in DOMAIN os : /\ OrderValue(d, os[k]) = OrderValue(x, os[k])
                           /\ OrderValue(e, os[k]) = OrderValue(y, os[k])
  BY DEF OrderValue
<1>2. \A k \in DOMAIN os : Comes(d, e, os[k]) = Comes(x, y, os[k])
  BY <1>1 DEF Comes
<1>3. ASSUME NEW k
      PROVE  Comes(d, e, os[k]) = Comes(x, y, os[k])
  BY DEF Comes, OrderValue
<1>. QED  BY <1>2, <1>3 DEF Before

-----------------------------------------------------------------------------
(* What the variables hold                                                 *)

\* The sort is at a place of the list or behind it, and where it has moved a
\* document to is not behind that.
SortTypeOK ==
  /\ next \in Nat /\ next >= 2 /\ place \in 1..next
  /\ next \notin DOMAIN result => place = next
  /\ at # "order" => next = 2 /\ place = 2

QueryTypeOK ==
  /\ docs \in [Names -> FieldMap \cup {NoDoc}]
  /\ filter \in Filters /\ orders \in Orders /\ limit \in PageSizes
  /\ offset \in Nat
  /\ at \in {"idle", "where", "order", "send", "done"}
  /\ result \in Seq(Entry) /\ Distinct(result)
  /\ page \in Seq(Entry)
  /\ got \in Seq(Names)
  /\ SortTypeOK

\* A write while a query is under way.
Write ==
  \E n \in Names :
    \/ \E fields \in FieldMap : PutDocument(n, fields)
    \/ DeleteDocument(n)
    \/ \E f \in Fields, v \in Stored \cup {Missing} : PatchDocument(n, f, v)

\* The documents of a result whose map no write changed in place.
Sure(ds) == {i \in DOMAIN ds : ds[i].name \notin patched}

\* A write leaves every result as it is, but for the fields it patches.
LEMMA WriteKeeps ==
  ASSUME QueryTypeOK, Write
  PROVE  /\ QueryTypeOK'
         /\ DOMAIN result' = DOMAIN result
         /\ \A i \in DOMAIN result : result'[i].name = result[i].name
         /\ \A i \in Sure(result)' : i \in Sure(result) /\ result'[i].fields = result[i].fields
         /\ patched \subseteq patched'
         /\ ~disturbed' => ~disturbed
         /\ at = "order" /\ ~disturbed' => \A i \in DOMAIN result : result'[i].fields = result[i].fields
         /\ steady' = FALSE /\ UNCHANGED <<queryVars, offset, at, sortVars, listed, page, got>>
<1>. DEFINE Keeps == /\ docs' \in [Names -> FieldMap \cup {NoDoc}]
                     /\ result' \in Seq(Entry) /\ DOMAIN result' = DOMAIN result
                     /\ \A i \in DOMAIN result : result'[i].name = result[i].name
                     /\ \A i \in DOMAIN result :
                          result[i].name \notin patched' => result'[i].fields = result[i].fields
                     /\ patched \subseteq patched'
                     /\ ~disturbed' => ~disturbed
                     /\ at = "order" /\ ~disturbed' =>
                          \A i \in DOMAIN result : result'[i].fields = result[i].fields
<1>0. DOMAIN result = 1..Len(result) /\ Len(result) \in Nat /\ \A i \in DOMAIN result : result[i] \in Entry
  BY DEF QueryTypeOK
<1>1. Writes
  BY DEF Write, PutDocument, DeleteDocument, PatchDocument
<1>2. ASSUME NEW n \in Names, LetGo(n)
      PROVE  /\ result' \in Seq(Entry) /\ DOMAIN result' = DOMAIN result
             /\ patched' = patched /\ disturbed' = disturbed
             /\ \A i \in DOMAIN result :
                  result'[i].name = result[i].name /\ result'[i].fields = result[i].fields
  <2>. DEFINE e(i) == IF Has(i, n) THEN [result[i] EXCEPT !.shared = FALSE] ELSE result[i]
  <2>1. result' = [i \in DOMAIN result |-> e(i)] /\ patched' = patched /\ disturbed' = disturbed
    BY <1>2 DEF LetGo
  <2>2. \A i \in DOMAIN result :
          e(i) \in Entry /\ e(i).name = result[i].name /\ e(i).fields = result[i].fields
    BY <1>0 DEF Entry
  <2>. HIDE DEF e
  <2>. QED  BY <1>0, <2>1, <2>2
<1>3. ASSUME NEW n \in Names, NEW fields \in FieldMap, PutDocument(n, fields)
      PROVE  Keeps
  <2>1. LetGo(n) /\ docs' = [docs EXCEPT ![n] = fields]
    BY <1>3 DEF PutDocument, Replace
  <2>2. docs' \in [Names -> FieldMap \cup {NoDoc}]
    BY <2>1 DEF QueryTypeOK
  <2>. QED  BY <1>2, <2>1, <2>2
<1>4. ASSUME NEW n \in Names, DeleteDocument(n)
      PROVE  Keeps
  <2>1. LetGo(n) /\ docs' = [docs EXCEPT ![n] = NoDoc]
    BY <1>4 DEF DeleteDocument
  <2>2. docs' \in [Names -> FieldMap \cup {NoDoc}]
    BY <2>1 DEF QueryTypeOK
  <2>. QED  BY <1>2, <2>1, <2>2
<1>5. ASSUME NEW n \in Names, NEW f \in Fields, NEW v \in Stored \cup {Missing}, PatchDocument(n, f, v)
      PROVE  Keeps
  <2>. DEFINE e(i) == IF Has(i, n) THEN [result[i] EXCEPT !.fields[f] = v] ELSE result[i]
  <2>1. /\ result' = [i \in DOMAIN result |-> e(i)] /\ patched' = patched \cup {n}
        /\ docs' = [docs EXCEPT ![n][f] = v] /\ n \in There
        /\ disturbed' = (disturbed \/ (at = "order" /\ \E i \in DOMAIN result : Has(i, n)))
    BY <1>5 DEF PatchDocument
  <2>2. \A i \in DOMAIN result :
          /\ e(i) \in Entry /\ e(i).name = result[i].name
          /\ result[i].name # n => e(i).fields = result[i].fields
          /\ ~Has(i, n) => e(i) = result[i]
    BY <1>0 DEF Entry, FieldMap, Has
  <2>. HIDE DEF e
  <2>3. docs[n] \in FieldMap
    BY <2>1 DEF QueryTypeOK, There
  <2>4. [docs[n] EXCEPT ![f] = v] \in FieldMap
    BY <2>3 DEF FieldMap
  <2>5. docs' \in [Names -> FieldMap \cup {NoDoc}]
    BY <2>1, <2>4 DEF QueryTypeOK
  <2>6. /\ ~disturbed' => ~disturbed
        /\ at = "order" /\ ~disturbed' => \A i \in DOMAIN result : ~Has(i, n)
    BY <2>1
  <2>. QED  BY <1>0, <2>1, <2>2, <2>5, <2>6
<1>6. Keeps
  BY <1>3, <1>4, <1>5 DEF Write
<1>7. QueryTypeOK'
  <2>1. Distinct(result)'
    BY <1>6 DEF QueryTypeOK, Distinct
  <2>2. SortTypeOK'
    BY <1>1, <1>6 DEF QueryTypeOK, SortTypeOK, Writes, sortVars
  <2>. QED  BY <1>1, <1>6, <2>1, <2>2 DEF QueryTypeOK, Writes, queryVars
<1>8. \A i \in Sure(result)' : i \in Sure(result) /\ result'[i].fields = result[i].fields
  BY <1>6 DEF Sure
<1>. QED  BY <1>1, <1>6, <1>7, <1>8 DEF Writes

-----------------------------------------------------------------------------
(* A page is of one moment                                                 *)

\* One document after another.
InOrder(os) == {p \in Entry \X Entry : ~Before(p[2], p[1], os)}

LEMMA InOrderCarriesOn ==
  ASSUME NEW os \in Orders
  PROVE  /\ \A x, y \in Entry : <<x, y>> \in InOrder(os) <=> ~Before(y, x, os)
         /\ \A x, y \in Entry : Before(x, y, os) => <<x, y>> \in InOrder(os)
         /\ \A x, y, z \in Entry :
              <<x, y>> \in InOrder(os) /\ <<y, z>> \in InOrder(os) => <<x, z>> \in InOrder(os)
<1>1. \A x, y \in Entry : <<x, y>> \in InOrder(os) <=> ~Before(y, x, os)
  BY DEF InOrder
<1>2. \A x, y, z \in Entry : ~Before(z, y, os) /\ ~Before(y, x, os) => ~Before(z, x, os)
  BY BehindCarriesOn
<1>3. \A x, y \in Entry : Before(x, y, os) => ~Before(y, x, os)
  BY BehindCarriesOn
<1>. QED  BY <1>1, <1>2, <1>3

\* A sort begins with the second document.
LEMMA SortBegins ==
  ASSUME NEW n \in Nat, NEW f, DOMAIN f = 1..n, NEW R
  PROVE  PartSorted(f, R, 2, 2)
<1>1. \A k, m \in 1..n : ~(k < m /\ m <= 2 /\ k # 2 /\ m # 2) /\ ~(2 < m /\ m <= 2)
  OBVIOUS
<1>. QED  BY <1>1 DEF PartSorted

\* The documents no write changed in place are as they were listed, and have
\* been through the steps of the query that are behind it.
ResultIsSnapshot ==
  /\ \A i \in Sure(result) : result[i].fields = listed[result[i].name]
  /\ at \in {"order", "send"} => \A i \in Sure(result) : Satisfies(result[i].fields, filter)
  /\ at = "order" /\ ~disturbed => PartSorted(result, InOrder(orders), next, place)
  /\ at = "send" /\ ~disturbed =>
       \A i, j \in Sure(result) : i < j => ~Before(result[j], result[i], orders)

SnapshotInv == QueryTypeOK /\ ResultIsSnapshot /\ PageIsSnapshot

LEMMA SnapshotInit == Init => SnapshotInv
<1>. SUFFICES ASSUME Init PROVE SnapshotInv
  OBVIOUS
<1>1. QueryTypeOK
  BY DEF Init, QueryTypeOK, SortTypeOK, Distinct
<1>2. ResultIsSnapshot /\ PageIsSnapshot
  BY DEF Init, ResultIsSnapshot, PageIsSnapshot, Sure
<1>. QED  BY <1>1, <1>2 DEF SnapshotInv

\* The documents of a listing.
ListedAs(s) == [i \in DOMAIN s |-> [name |-> s[i], fields |-> docs[s[i]], shared |-> TRUE]]

LEMMA ListedAsType ==
  ASSUME QueryTypeOK, NEW s \in Listing
  PROVE  ListedAs(s) \in Seq(Entry) /\ Distinct(ListedAs(s))
<1>1. s \in Seq(There) /\ \A i, j \in DOMAIN s : i # j => s[i] # s[j]
  BY ListingIsOrdered
<1>2. \A n \in There : n \in Names /\ docs[n] \in FieldMap
  BY DEF There, QueryTypeOK
<1>3. DOMAIN s = 1..Len(s) /\ Len(s) \in Nat /\ \A i \in DOMAIN s : s[i] \in There
  BY <1>1
<1>4. \A i \in 1..Len(s) : [name |-> s[i], fields |-> docs[s[i]], shared |-> TRUE] \in Entry
  BY <1>2, <1>3 DEF Entry
<1>5. ListedAs(s) \in Seq(Entry)
  BY <1>3, <1>4 DEF ListedAs
<1>6. Distinct(ListedAs(s))
  BY <1>1 DEF ListedAs, Distinct
<1>. QED  BY <1>5, <1>6

LEMMA CollectSnapshot ==
  ASSUME SnapshotInv, Collect
  PROVE  SnapshotInv'
<1>1. PICK s \in Listing : result' = ListedAs(s)
  BY DEF Collect, ListedAs
<1>2. result' \in Seq(Entry) /\ Distinct(result')
  BY <1>1, ListedAsType DEF SnapshotInv
<1>3. QueryTypeOK'
  <2>1. Distinct(result)'
    BY <1>2 DEF Distinct
  <2>2. SortTypeOK'
    BY DEF SnapshotInv, QueryTypeOK, SortTypeOK, Collect, sortVars
  <2>. QED  BY <1>2, <2>1, <2>2 DEF SnapshotInv, QueryTypeOK, Collect, queryVars
<1>4. ResultIsSnapshot'
  BY <1>1 DEF ResultIsSnapshot, Sure, Collect, ListedAs
<1>5. PageIsSnapshot'
  BY DEF PageIsSnapshot, Collect
<1>. QED  BY <1>3, <1>4, <1>5 DEF SnapshotInv

LEMMA PageStays ==
  ASSUME PageIsSnapshot, UNCHANGED <<page, listed, filter, orders>>,
         patched \subseteq patched', ~disturbed' => ~disturbed
  PROVE  PageIsSnapshot'
BY DEF PageIsSnapshot

LEMMA WhereSnapshot ==
  ASSUME SnapshotInv, Where
  PROVE  SnapshotInv'
<1>. DEFINE I == {i \in DOMAIN result : Satisfies(result[i].fields, filter)}
<1>1. result' \in Seq(Entry) /\ Takes(result', result, I)
  BY ApplyFilterTakes DEF Where, SnapshotInv, QueryTypeOK
<1>2. /\ UNCHANGED <<page, listed, filter, orders, patched, disturbed>>
      /\ at = "where" /\ at' = "order" /\ next' = 2 /\ place' = 2
  BY DEF Where, queryVars, historyVars, sortVars, SnapshotInv, QueryTypeOK, SortTypeOK
<1>3. QueryTypeOK'
  <2>1. Distinct(result)'
    BY <1>1 DEF Takes, SnapshotInv, QueryTypeOK
  <2>2. SortTypeOK'
    BY <1>2 DEF SortTypeOK
  <2>. QED  BY <1>1, <2>1, <2>2 DEF SnapshotInv, QueryTypeOK, Where, queryVars
<1>4. ASSUME NEW k \in Sure(result)'
      PROVE  /\ result'[k].fields = listed'[result'[k].name]
             /\ Satisfies(result'[k].fields, filter')
  <2>1. PICK i \in I : result'[k] = result[i]
    BY <1>1 DEF Takes, Sure
  <2>2. i \in Sure(result)
    BY <1>2, <2>1 DEF Sure
  <2>. QED  BY <1>2, <2>1, <2>2 DEF SnapshotInv, ResultIsSnapshot
<1>5. PartSorted(result', InOrder(orders'), 2, 2)
  <2>1. DOMAIN result' = 1..Len(result') /\ Len(result') \in Nat
    BY <1>1
  <2>. QED  BY <2>1, SortBegins
<1>6. ResultIsSnapshot'
  BY <1>2, <1>4, <1>5 DEF ResultIsSnapshot
<1>7. PageIsSnapshot'
  BY <1>2, PageStays DEF SnapshotInv
<1>. QED  BY <1>3, <1>6, <1>7 DEF SnapshotInv

\* Where the sort is when it takes a step.
LEMMA SortAt ==
  ASSUME QueryTypeOK, next \in DOMAIN result
  PROVE  /\ Len(result) \in Nat /\ DOMAIN result = 1..Len(result)
         /\ result \in [1..Len(result) -> Entry]
         /\ next \in 1..Len(result) /\ place \in 1..next /\ place \in 1..Len(result)
         /\ place > 1 => place \in 2..next /\ place - 1 \in 1..Len(result)
BY DEF QueryTypeOK, SortTypeOK

\* The documents only change places.
LEMMA MoveAheadType ==
  ASSUME QueryTypeOK, MoveAhead
  PROVE  /\ QueryTypeOK'
         /\ result' = Exchanged(result, place) /\ DOMAIN result' = DOMAIN result
         /\ \A k \in DOMAIN result' : \E i \in DOMAIN result : result'[k] = result[i]
<1>1. /\ result' = Exchanged(result, place) /\ place > 1 /\ next \in DOMAIN result
      /\ place' = place - 1 /\ UNCHANGED <<docs, queryVars, offset, at, next, page, got>> /\ at = "order"
  BY DEF MoveAhead, IsAhead, Exchanged
<1>. DEFINE n == Len(result)
<1>2. /\ n \in Nat /\ DOMAIN result = 1..n /\ result \in [1..n -> Entry]
      /\ next \in 1..n /\ place \in 2..next /\ place \in 1..n /\ place - 1 \in 1..n
  BY <1>1, SortAt
<1>. HIDE DEF n
<1>3. /\ result' \in [1..n -> Entry] /\ place - 1 # place
      /\ result'[place - 1] = result[place] /\ result'[place] = result[place - 1]
      /\ \A k \in 1..n : k # place /\ k # place - 1 => result'[k] = result[k]
  BY <1>1, <1>2 DEF Exchanged
<1>4. DOMAIN result' = 1..n /\ result' \in Seq(Entry)
  BY <1>2, <1>3
<1>5. Distinct(result)'
  <2>. DEFINE w(k) == IF k = place THEN place - 1 ELSE IF k = place - 1 THEN place ELSE k
  <2>1. \A k \in 1..n : w(k) \in 1..n /\ result'[k] = result[w(k)]
    BY <1>2, <1>3
  <2>2. \A k, m \in 1..n : k # m => w(k) # w(m)
    BY <1>3
  <2>. HIDE DEF w
  <2>. QED  BY <1>2, <1>4, <2>1, <2>2 DEF QueryTypeOK, Distinct
<1>6. SortTypeOK'
  BY <1>1, <1>2, <1>4 DEF SortTypeOK
<1>7. QueryTypeOK'
  BY <1>1, <1>4, <1>5, <1>6 DEF QueryTypeOK, queryVars
<1>8. \A k \in DOMAIN result' : \E i \in DOMAIN result : result'[k] = result[i]
  BY <1>2, <1>3, <1>4
<1>. QED  BY <1>1, <1>2, <1>4, <1>7, <1>8

LEMMA StayBehindType ==
  ASSUME QueryTypeOK, StayBehind
  PROVE  QueryTypeOK'
<1>1. /\ next' = next + 1 /\ place' = next + 1 /\ at = "order"
      /\ UNCHANGED <<docs, queryVars, offset, at, result, page, got>>
  BY DEF StayBehind
<1>2. SortTypeOK'
  BY <1>1 DEF QueryTypeOK, SortTypeOK
<1>. QED  BY <1>1, <1>2 DEF QueryTypeOK, queryVars, Distinct

LEMMA EndSortType ==
  ASSUME QueryTypeOK, EndSort
  PROVE  QueryTypeOK'
<1>1. /\ next' = 2 /\ place' = 2 /\ at' = "send"
      /\ UNCHANGED <<docs, queryVars, offset, result, page, got>>
  BY DEF EndSort
<1>2. SortTypeOK'
  BY <1>1 DEF SortTypeOK
<1>. QED  BY <1>1, <1>2 DEF QueryTypeOK, queryVars, Distinct

LEMMA MoveAheadSnapshot ==
  ASSUME SnapshotInv, MoveAhead
  PROVE  SnapshotInv'
<1>1. /\ QueryTypeOK' /\ result' = Exchanged(result, place)
      /\ \A k \in DOMAIN result' : \E i \in DOMAIN result : result'[k] = result[i]
  BY MoveAheadType DEF SnapshotInv
<1>2. /\ UNCHANGED <<page, listed, filter, orders, patched, disturbed, next, at>>
      /\ at = "order" /\ place' = place - 1 /\ next \in DOMAIN result
      /\ place > 1 /\ Before(result[place], result[place - 1], orders)
  BY DEF MoveAhead, IsAhead, queryVars, historyVars
<1>3. ASSUME NEW k \in Sure(result)'
      PROVE  /\ result'[k].fields = listed'[result'[k].name]
             /\ Satisfies(result'[k].fields, filter')
  <2>1. PICK i \in DOMAIN result : result'[k] = result[i]
    BY <1>1 DEF Sure
  <2>2. i \in Sure(result)
    BY <1>2, <2>1 DEF Sure
  <2>. QED  BY <1>2, <2>1, <2>2 DEF SnapshotInv, ResultIsSnapshot
<1>4. ASSUME ~disturbed
      PROVE  PartSorted(Exchanged(result, place), InOrder(orders), next, place - 1)
  <2>. DEFINE n == Len(result)
              R == InOrder(orders)
  <2>1. /\ n \in Nat /\ result \in [1..n -> Entry] /\ next \in 1..n
        /\ place \in 2..next /\ place \in 1..n /\ place - 1 \in 1..n
    BY <1>2, SortAt DEF SnapshotInv
  <2>2. PartSorted(result, R, next, place)
    BY <1>2, <1>4 DEF SnapshotInv, ResultIsSnapshot
  <2>3. result[place] \in Entry /\ result[place - 1] \in Entry /\ orders \in Orders
    BY <2>1 DEF SnapshotInv, QueryTypeOK
  <2>4. <<result[place], result[place - 1]>> \in R
    BY <1>2, <2>3, InOrderCarriesOn
  <2>. HIDE DEF n, R
  <2>5. PartSorted(Exchanged(result, place), R, next, place - 1)
    BY <2>1, <2>2, <2>4, ExchangeKeepsSorted
  <2>. QED  BY <2>5 DEF R
<1>5. ResultIsSnapshot'
  BY <1>1, <1>2, <1>3, <1>4 DEF ResultIsSnapshot
<1>6. PageIsSnapshot'
  BY <1>2, PageStays DEF SnapshotInv
<1>. QED  BY <1>1, <1>5, <1>6 DEF SnapshotInv

LEMMA StayBehindSnapshot ==
  ASSUME SnapshotInv, StayBehind
  PROVE  SnapshotInv'
<1>1. QueryTypeOK'
  BY StayBehindType DEF SnapshotInv
<1>2. /\ UNCHANGED <<result, page, listed, filter, orders, patched, disturbed, at>>
      /\ at = "order" /\ next' = next + 1 /\ place' = next + 1 /\ next \in DOMAIN result
      /\ place > 1 => ~Before(result[place], result[place - 1], orders)
  BY DEF StayBehind, IsAhead, queryVars, historyVars
<1>3. ASSUME ~disturbed
      PROVE  PartSorted(result, InOrder(orders), next + 1, next + 1)
  <2>. DEFINE n == Len(result)
              R == InOrder(orders)
  <2>1. /\ n \in Nat /\ result \in [1..n -> Entry] /\ next \in 1..n
        /\ place \in 1..next /\ place \in 1..n /\ (place > 1 => place - 1 \in 1..n)
    BY <1>2, SortAt DEF SnapshotInv
  <2>2. PartSorted(result, R, next, place)
    BY <1>2, <1>3 DEF SnapshotInv, ResultIsSnapshot
  <2>3. orders \in Orders
    BY DEF SnapshotInv, QueryTypeOK
  <2>4. place > 1 => <<result[place - 1], result[place]>> \in R
    BY <1>2, <2>1, <2>3, InOrderCarriesOn
  <2>5. \A x, y, z \in Entry : <<x, y>> \in R /\ <<y, z>> \in R => <<x, z>> \in R
    BY <2>3, InOrderCarriesOn
  <2>. HIDE DEF n, R
  <2>6. PartSorted(result, R, next + 1, next + 1)
    BY <2>1, <2>2, <2>4, <2>5, PlacedKeepsSorted
  <2>. QED  BY <2>6 DEF R
<1>4. ResultIsSnapshot'
  BY <1>2, <1>3 DEF ResultIsSnapshot, SnapshotInv, Sure
<1>5. PageIsSnapshot'
  BY <1>2, PageStays DEF SnapshotInv
<1>. QED  BY <1>1, <1>4, <1>5 DEF SnapshotInv

LEMMA EndSortSnapshot ==
  ASSUME SnapshotInv, EndSort
  PROVE  SnapshotInv'
<1>1. QueryTypeOK'
  BY EndSortType DEF SnapshotInv
<1>2. /\ UNCHANGED <<result, page, listed, filter, orders, patched, disturbed>>
      /\ at = "order" /\ at' = "send" /\ next \notin DOMAIN result
  BY DEF EndSort, queryVars, historyVars
<1>3. ASSUME ~disturbed, NEW i \in DOMAIN result, NEW j \in DOMAIN result, i < j
      PROVE  ~Before(result[j], result[i], orders)
  <2>1. PartSorted(result, InOrder(orders), next, place)
    BY <1>2, <1>3 DEF SnapshotInv, ResultIsSnapshot
  <2>2. j <= next /\ i # place /\ j # place
    BY <1>2, <1>3 DEF SnapshotInv, QueryTypeOK, SortTypeOK
  <2>3. <<result[i], result[j]>> \in InOrder(orders)
    BY <1>3, <2>1, <2>2 DEF PartSorted
  <2>. QED  BY <2>3 DEF InOrder
<1>4. ResultIsSnapshot'
  BY <1>2, <1>3 DEF ResultIsSnapshot, SnapshotInv, Sure
<1>5. PageIsSnapshot'
  BY <1>2, PageStays DEF SnapshotInv
<1>. QED  BY <1>1, <1>4, <1>5 DEF SnapshotInv

\* What the client has after a page.
LEMMA SendType ==
  ASSUME QueryTypeOK, Send
  PROVE  /\ QueryTypeOK'
         /\ page' \in Seq(Entry) /\ offset' = offset + Len(page')
         /\ \A k \in DOMAIN page' : offset + k \in DOMAIN result /\ page'[k] = result[offset + k]
         /\ got' = got \o [i \in DOMAIN page' |-> page'[i].name]
<1>1. /\ page' \in Seq(Entry)
      /\ \A k \in DOMAIN page' : offset + k \in DOMAIN result /\ page'[k] = result[offset + k]
  <2>. DEFINE p == page'
  <2>1. result \in Seq(Entry) /\ offset \in Nat /\ limit \in PageSizes
    BY DEF QueryTypeOK
  <2>2. p = Window(result, offset, limit)
    BY DEF Send
  <2>. HIDE DEF p
  <2>3. p \in Seq(Entry) /\ \A k \in DOMAIN p : offset + k \in DOMAIN result /\ p[k] = result[offset + k]
    BY <2>1, <2>2, WindowIsPiece
  <2>. QED  BY <2>3 DEF p
<1>2. offset' = offset + Len(page') /\ got' = got \o [i \in DOMAIN page' |-> page'[i].name]
  BY DEF Send
<1>3. Len(page') \in Nat /\ DOMAIN page' = 1..Len(page') /\ \A i \in DOMAIN page' : page'[i] \in Entry
  BY <1>1
<1>4. [i \in DOMAIN page' |-> page'[i].name] \in Seq(Names)
  <2>1. \A i \in DOMAIN page' : page'[i].name \in Names
    BY <1>3 DEF Entry
  <2>. QED  BY <1>3, <2>1
<1>5. got' \in Seq(Names) /\ offset' \in Nat
  BY <1>2, <1>3, <1>4 DEF QueryTypeOK
<1>6. result' = <<>> /\ at' \in {"done", "idle"} /\ UNCHANGED <<docs, queryVars>>
  BY DEF Send
<1>s. SortTypeOK'
  BY DEF Send, sortVars, QueryTypeOK, SortTypeOK
<1>7. QueryTypeOK'
  BY <1>1, <1>5, <1>6, <1>s DEF QueryTypeOK, Distinct, queryVars
<1>. QED  BY <1>1, <1>2, <1>7

LEMMA SendSnapshot ==
  ASSUME SnapshotInv, Send
  PROVE  SnapshotInv'
<1>1. /\ QueryTypeOK' /\ page' \in Seq(Entry)
      /\ \A k \in DOMAIN page' : offset + k \in DOMAIN result /\ page'[k] = result[offset + k]
  BY SendType DEF SnapshotInv
<1>2. at = "send" /\ result' = <<>> /\ UNCHANGED <<listed, filter, orders, patched, disturbed>>
  BY DEF Send, queryVars, historyVars
<1>3. ResultIsSnapshot'
  BY <1>2 DEF ResultIsSnapshot, Sure, Send
<1>. DEFINE J == {i \in DOMAIN page' : page'[i].name \notin patched'}
<1>4. ASSUME NEW k \in J
      PROVE  /\ offset + k \in Sure(result) /\ page'[k] = result[offset + k]
             /\ page'[k].fields = listed'[page'[k].name]
             /\ Satisfies(page'[k].fields, filter')
  <2>1. offset + k \in Sure(result) /\ page'[k] = result[offset + k]
    BY <1>1, <1>2 DEF Sure
  <2>. QED  BY <1>2, <2>1 DEF SnapshotInv, ResultIsSnapshot
<1>5. ASSUME ~disturbed, NEW k \in J, NEW m \in J, k < m
      PROVE  ~Before(page'[m], page'[k], orders')
  <2>1. offset + k < offset + m
    <3>1. k \in Nat /\ m \in Nat /\ offset \in Nat
      BY <1>1 DEF SnapshotInv, QueryTypeOK
    <3>. QED  BY <1>5, <3>1
  <2>. QED  BY <1>2, <1>4, <1>5, <2>1 DEF SnapshotInv, ResultIsSnapshot
<1>d. ASSUME NEW k \in DOMAIN page', NEW m \in DOMAIN page', k # m
      PROVE  page'[k].name # page'[m].name
  <2>1. offset + k # offset + m
    <3>1. k \in Nat /\ m \in Nat /\ offset \in Nat
      BY <1>1 DEF SnapshotInv, QueryTypeOK
    <3>. QED  BY <1>d, <3>1
  <2>. QED  BY <1>1, <2>1 DEF SnapshotInv, QueryTypeOK, Distinct
<1>6. PageIsSnapshot'
  BY <1>2, <1>4, <1>5, <1>d DEF PageIsSnapshot
<1>. QED  BY <1>1, <1>3, <1>6 DEF SnapshotInv

LEMMA WriteSnapshot ==
  ASSUME SnapshotInv, Write
  PROVE  SnapshotInv'
<1>1. /\ QueryTypeOK'
      /\ DOMAIN result' = DOMAIN result
      /\ \A i \in DOMAIN result : result'[i].name = result[i].name
      /\ \A i \in Sure(result)' : i \in Sure(result) /\ result'[i].fields = result[i].fields
      /\ patched \subseteq patched' /\ (~disturbed' => ~disturbed)
      /\ at = "order" /\ ~disturbed' => \A i \in DOMAIN result : result'[i].fields = result[i].fields
      /\ UNCHANGED <<queryVars, at, sortVars, listed, page>>
  BY WriteKeeps DEF SnapshotInv
<1>2. ASSUME NEW i \in Sure(result)', NEW j \in Sure(result)', i < j, at' = "send", ~disturbed'
      PROVE  ~Before(result'[j], result'[i], orders')
  <2>1. ~Before(result[j], result[i], orders)
    BY <1>1, <1>2 DEF SnapshotInv, ResultIsSnapshot
  <2>2. /\ result'[i].name = result[i].name /\ result'[i].fields = result[i].fields
        /\ result'[j].name = result[j].name /\ result'[j].fields = result[j].fields
    BY <1>1 DEF Sure
  <2>3. ~Before(result'[j], result'[i], orders)
    BY <2>1, <2>2, BeforeLooksAt
  <2>. QED  BY <1>1, <2>3 DEF queryVars
<1>3. ASSUME NEW i \in Sure(result)'
      PROVE  /\ result'[i].fields = listed'[result'[i].name]
             /\ at' \in {"order", "send"} => Satisfies(result'[i].fields, filter')
  <2>1. i \in Sure(result) /\ i \in DOMAIN result
    BY <1>1 DEF Sure
  <2>. QED  BY <1>1, <2>1 DEF SnapshotInv, ResultIsSnapshot, queryVars
<1>s. ASSUME at' = "order", ~disturbed'
      PROVE  PartSorted(result', InOrder(orders'), next', place')
  <2>1. PartSorted(result, InOrder(orders), next, place)
    BY <1>1, <1>s DEF SnapshotInv, ResultIsSnapshot
  <2>2. \A i \in DOMAIN result : result[i] \in Entry /\ result'[i] \in Entry
    BY <1>1 DEF SnapshotInv, QueryTypeOK
  <2>3. ASSUME NEW k \in DOMAIN result, NEW m \in DOMAIN result
        PROVE  <<result[k], result[m]>> \in InOrder(orders) <=> <<result'[k], result'[m]>> \in InOrder(orders)
    <3>1. /\ result'[k].name = result[k].name /\ result'[k].fields = result[k].fields
          /\ result'[m].name = result[m].name /\ result'[m].fields = result[m].fields
      BY <1>1, <1>s
    <3>2. Before(result[m], result[k], orders) <=> Before(result'[m], result'[k], orders)
      BY <3>1, BeforeLooksAt
    <3>. QED  BY <2>2, <3>2, InOrderCarriesOn DEF SnapshotInv, QueryTypeOK
  <2>4. orders' = orders /\ next' = next /\ place' = place
    BY <1>1 DEF queryVars, sortVars
  <2>5. \A m \in DOMAIN result : place < m /\ m <= next => place \in DOMAIN result
    BY DEF SnapshotInv, QueryTypeOK, SortTypeOK
  <2>6. PartSorted(result', InOrder(orders), next, place)
    BY <1>1, <2>1, <2>3, <2>5 DEF PartSorted
  <2>. QED  BY <2>4, <2>6
<1>4. ResultIsSnapshot'
  BY <1>2, <1>3, <1>s DEF ResultIsSnapshot
<1>5. PageIsSnapshot'
  BY <1>1, PageStays DEF SnapshotInv, queryVars
<1>. QED  BY <1>1, <1>4, <1>5 DEF SnapshotInv

LEMMA NextIsOneOf ==
  Next => Collect \/ Where \/ MoveAhead \/ StayBehind \/ EndSort \/ Send \/ Write
BY DEF Next, Write

\* Whatever is written while a query works, the page it sends has each document
\* once, as it was at the moment it was listed and matching the filter, but for
\* those an update with a mask changes: only such an update reaches the maps
\* executeQuery works on without the store's mutex.  The others come in order
\* when none of the maps is changed while applyOrderBy compares them.
THEOREM PagesAreSnapshots == Spec => []PageIsSnapshot
<1>1. Init => SnapshotInv
  BY SnapshotInit
<1>2. SnapshotInv /\ [Next]_vars => SnapshotInv'
  <2>. SUFFICES ASSUME SnapshotInv, [Next]_vars PROVE SnapshotInv'
    OBVIOUS
  <2>1. CASE UNCHANGED vars
    BY <2>1 DEF SnapshotInv, ResultIsSnapshot, PageIsSnapshot, QueryTypeOK, SortTypeOK, Sure,
                Distinct, vars, queryVars, sortVars, historyVars
  <2>. QED  BY <2>1, CollectSnapshot, WhereSnapshot, MoveAheadSnapshot, StayBehindSnapshot,
               EndSortSnapshot, SendSnapshot,
               WriteSnapshot, NextIsOneOf
<1>3. SnapshotInv => PageIsSnapshot
  BY DEF SnapshotInv
<1>. QED  BY <1>1, <1>2, <1>3, PTL DEF Spec

-----------------------------------------------------------------------------
(* While nobody writes, the pages are the result                           *)

\* There is one way to list the documents by name.
LEMMA OneListing ==
  ASSUME NEW s \in Listing, NEW t \in Listing
  PROVE  s = t
<1>. DEFINE n == Cardinality(There)
            R == Ascending(There)
<1>1. There \subseteq Nat
  BY QueryAssumption DEF There
<1>2. StrictOrder(R, There)
  BY <1>1, AscendingIsStrict
<1>3. /\ s \in [1..n -> There] /\ DOMAIN s = 1..n /\ n \in Nat
      /\ \A i, j \in 1..n : i < j => s[i] < s[j]
      /\ \A m \in There : \E i \in 1..n : s[i] = m
  BY ListingIsOrdered
<1>4. /\ t \in [1..n -> There] /\ DOMAIN t = 1..n
      /\ \A i, j \in 1..n : i < j => t[i] < t[j]
      /\ \A m \in There : \E i \in 1..n : t[i] = m
  BY ListingIsOrdered
<1>. HIDE DEF n
<1>5. /\ \A i, j \in 1..n : i < j => <<s[i], s[j]>> \in R
      /\ \A i, j \in 1..n : i < j => <<t[i], t[j]>> \in R
  BY <1>3, <1>4 DEF Ascending
<1>. HIDE DEF R
<1>6. Lists(s, n, There, R) /\ Lists(t, n, There, R)
  BY <1>3, <1>4, <1>5 DEF Lists
<1>. QED  BY <1>2, <1>3, <1>6, OneOrder

LEMMA SomeListing == \E s \in Listing : TRUE
<1>. DEFINE n == Cardinality(There)
            s == Ranked(There, Ascending(There))
<1>1. IsFiniteSet(There) /\ There \subseteq Nat
  BY QueryAssumption, FS_Subset DEF There
<1>2. /\ n \in Nat /\ s \in [1..n -> There]
      /\ \A i, j \in 1..n : i < j => <<s[i], s[j]>> \in Ascending(There)
  BY <1>1, AscendingIsStrict, RankedLists
<1>. HIDE DEF s
<1>3. \A i, j \in 1..n : i < j => s[i] < s[j]
  BY <1>2 DEF Ascending
<1>4. \A i \in 1..n : s[i] \in Nat
  BY <1>1, <1>2
<1>5. \A i, j \in 1..n : i # j => s[i] # s[j]
  <2>. SUFFICES ASSUME NEW i \in 1..n, NEW j \in 1..n, i # j PROVE s[i] # s[j]
    OBVIOUS
  <2>1. i < j \/ j < i
    BY <1>2
  <2>2. s[i] < s[j] \/ s[j] < s[i]
    BY <1>3, <2>1
  <2>. QED  BY <1>4, <2>2
<1>6. s \in SetToSeqs(There)
  BY <1>2, <1>5 DEF SetToSeqs
<1>7. DOMAIN s = 1..n
  BY <1>2
<1>8. s \in Listing
  BY <1>3, <1>6, <1>7 DEF Listing
<1>. QED  BY <1>8

\* What a query finds of the documents there are.
Everything == ListedAs(CHOOSE s \in Listing : TRUE)
Matching == ApplyFilter(Everything, filter)
Full == StablySorted(Matching, orders)

LEMMA MatchingList ==
  ASSUME QueryTypeOK
  PROVE  Matching \in Seq(Entry) /\ orders \in Orders
<1>. DEFINE s == CHOOSE s \in Listing : TRUE
<1>1. s \in Listing
  BY SomeListing
<1>2. Everything = ListedAs(s)
  BY DEF Everything
<1>. HIDE DEF s
<1>3. /\ Everything \in Seq(Entry) /\ Distinct(Everything)
      /\ filter \in Filters /\ Matching = ApplyFilter(Everything, filter)
  BY <1>1, <1>2, ListedAsType DEF QueryTypeOK, Matching
<1>. QED  BY <1>3, ApplyFilterTakes DEF QueryTypeOK

LEMMA FullResult ==
  ASSUME QueryTypeOK
  PROVE  /\ Full \in Seq(Entry) /\ Distinct(Full)
         /\ \A i \in DOMAIN Full : /\ Full[i].name \in There
                                   /\ Full[i].fields = docs[Full[i].name]
                                   /\ Satisfies(Full[i].fields, filter)
         /\ \A n \in There : Satisfies(docs[n], filter) => \E i \in DOMAIN Full : Full[i].name = n
         /\ \A i, j \in DOMAIN Full : i < j => ~Before(Full[j], Full[i], orders)
<1>. DEFINE s == CHOOSE s \in Listing : TRUE
            I == {i \in DOMAIN Everything : Satisfies(Everything[i].fields, filter)}
<1>1. s \in Listing
  BY SomeListing
<1>2. Everything = ListedAs(s)
  BY DEF Everything
<1>. HIDE DEF s
<1>3. Everything \in Seq(Entry) /\ Distinct(Everything)
  BY <1>1, <1>2, ListedAsType
<1>4. Matching \in Seq(Entry) /\ Takes(Matching, Everything, I)
  <2>1. filter \in Filters /\ Matching = ApplyFilter(Everything, filter)
    BY DEF QueryTypeOK, Matching
  <2>. QED  BY <1>3, <2>1, ApplyFilterTakes
<1>. HIDE DEF I
<1>5. /\ Full \in Seq(Entry) /\ Takes(Full, Matching, DOMAIN Matching)
      /\ \A i, j \in DOMAIN Full : i < j => ~Before(Full[j], Full[i], orders)
  <2>1. orders \in Orders /\ Full = StablySorted(Matching, orders)
    BY DEF QueryTypeOK, Full
  <2>. QED  BY <1>4, <2>1, StablySortedList
<1>6. Distinct(Full)
  BY <1>3, <1>4, <1>5 DEF Takes
<1>7. /\ DOMAIN Everything = DOMAIN s
      /\ \A i \in DOMAIN s : Everything[i].name = s[i] /\ Everything[i].fields = docs[s[i]] /\ s[i] \in There
      /\ \A n \in There : \E i \in DOMAIN s : s[i] = n
  <2>1. /\ s \in [1..Cardinality(There) -> There]
        /\ \A n \in There : \E i \in DOMAIN s : s[i] = n
    BY <1>1, ListingIsOrdered
  <2>. QED  BY <1>2, <2>1 DEF ListedAs
<1>8. ASSUME NEW k \in DOMAIN Full
      PROVE  /\ Full[k].name \in There
             /\ Full[k].fields = docs[Full[k].name]
             /\ Satisfies(Full[k].fields, filter)
  <2>1. PICK m \in DOMAIN Matching : Full[k] = Matching[m]
    BY <1>5 DEF Takes
  <2>2. PICK i \in I : Matching[m] = Everything[i]
    BY <1>4 DEF Takes
  <2>. QED  BY <1>7, <2>1, <2>2 DEF I
<1>9. ASSUME NEW n \in There, Satisfies(docs[n], filter)
      PROVE  \E k \in DOMAIN Full : Full[k].name = n
  <2>1. PICK i \in DOMAIN s : s[i] = n
    BY <1>7
  <2>2. i \in I /\ Everything[i].name = n
    BY <1>7, <1>9, <2>1 DEF I
  <2>3. PICK m \in DOMAIN Matching : Matching[m] = Everything[i]
    BY <1>4, <2>2 DEF Takes
  <2>4. PICK k \in DOMAIN Full : Full[k] = Matching[m]
    BY <1>5 DEF Takes
  <2>. QED  BY <2>2, <2>3, <2>4
<1>. QED  BY <1>5, <1>6, <1>8, <1>9

\* What a query finds changes only with the documents.
LEMMA FullStays ==
  ASSUME UNCHANGED <<docs, queryVars>>
  PROVE  UNCHANGED <<There, Listing, Everything, Matching, Full>>
<1>1. There' = There
  BY DEF There
<1>2. Listing' = Listing
  BY <1>1 DEF Listing
<1>3. Everything' = Everything
  BY <1>2 DEF Everything, ListedAs
<1>4. Matching' = Matching
  BY <1>3 DEF Matching, queryVars
<1>5. Full' = Full
  BY <1>4 DEF Full, queryVars
<1>. QED  BY <1>1, <1>2, <1>3, <1>4, <1>5

\* The sort has what matches at the places P: in order up to the place it is at,
\* but for the document it moves, and as it was behind that.
Midway(P) ==
  LET I == DOMAIN Matching IN
  /\ P \in [I -> I]
  /\ result = At(Matching, P)
  /\ PartSorted(P, Ahead(Matching, orders), next, place)
  /\ \A k \in I : /\ k > next => P[k] = k
                  /\ k <= next /\ k # place => P[k] < next
                  /\ k = place => P[k] = next

Unsorted == [k \in DOMAIN Matching |-> k]

LEMMA MidwayBegins ==
  QueryTypeOK /\ result = Matching /\ next = 2 /\ place = 2 => Midway(Unsorted)
<1>. SUFFICES ASSUME QueryTypeOK, result = Matching, next = 2, place = 2
              PROVE  Midway(Unsorted)
  OBVIOUS
<1>. DEFINE n == Len(Matching)
<1>1. /\ n \in Nat /\ DOMAIN Matching = 1..n /\ Matching = [k \in 1..n |-> Matching[k]]
      /\ Unsorted = [k \in 1..n |-> k]
  BY MatchingList DEF Unsorted
<1>. HIDE DEF n
<1>2. Unsorted \in [1..n -> 1..n] /\ DOMAIN Unsorted = 1..n /\ \A k \in 1..n : Unsorted[k] = k
  BY <1>1
<1>3. result = At(Matching, Unsorted)
  BY <1>1, <1>2 DEF At
<1>4. PartSorted(Unsorted, Ahead(Matching, orders), 2, 2)
  BY <1>1, <1>2, SortBegins
<1>5. \A k \in 1..n : k <= 2 /\ k # 2 => k < 2
  OBVIOUS
<1>. QED  BY <1>1, <1>2, <1>3, <1>4, <1>5 DEF Midway

\* What a step of the sort sees of what matches.
LEMMA MidwayAt ==
  ASSUME QueryTypeOK, NEW P, Midway(P), next \in DOMAIN result
  PROVE  /\ Len(Matching) \in Nat /\ DOMAIN Matching = 1..Len(Matching)
         /\ DOMAIN result = 1..Len(Matching) /\ P \in [1..Len(Matching) -> 1..Len(Matching)]
         /\ next \in 1..Len(Matching) /\ place \in 1..next /\ place \in 1..Len(Matching)
         /\ place > 1 => place \in 2..next /\ place - 1 \in 1..Len(Matching)
         /\ \A k \in 1..Len(Matching) : result[k] = Matching[P[k]]
<1>. DEFINE n == Len(Matching)
<1>1. n \in Nat /\ DOMAIN Matching = 1..n
  BY MatchingList
<1>. HIDE DEF n
<1>2. P \in [1..n -> 1..n] /\ result = At(Matching, P)
  BY <1>1 DEF Midway
<1>3. DOMAIN result = 1..n /\ \A k \in 1..n : result[k] = Matching[P[k]]
  BY <1>2 DEF At
<1>4. next \in 1..n /\ place \in 1..next
  BY <1>3 DEF QueryTypeOK, SortTypeOK
<1>5. place \in 1..n /\ (place > 1 => place \in 2..next /\ place - 1 \in 1..n)
  BY <1>1, <1>4
<1>. QED  BY <1>1, <1>2, <1>3, <1>4, <1>5 DEF n

LEMMA MidwayMoves ==
  ASSUME QueryTypeOK, NEW P, Midway(P), MoveAhead, NEW Q, Q = Exchanged(P, place)
  PROVE  Midway(Q)'
<1>. DEFINE n == Len(Matching)
            R == Ahead(Matching, orders)
<1>1. /\ UNCHANGED <<docs, queryVars, next>> /\ place' = place - 1 /\ next \in DOMAIN result
      /\ place > 1 /\ Before(result[place], result[place - 1], orders)
      /\ result' = Exchanged(result, place)
  BY DEF MoveAhead, IsAhead, Exchanged
<1>2. /\ n \in Nat /\ DOMAIN Matching = 1..n /\ DOMAIN result = 1..n /\ P \in [1..n -> 1..n]
      /\ next \in 1..n /\ place \in 2..next /\ place \in 1..n /\ place - 1 \in 1..n
      /\ \A k \in 1..n : result[k] = Matching[P[k]]
  BY <1>1, MidwayAt
<1>3. Matching' = Matching /\ orders' = orders
  BY <1>1, FullStays DEF queryVars
<1>4. <<P[place], P[place - 1]>> \in R
  <2>1. P[place] \in 1..n /\ P[place - 1] \in 1..n
    BY <1>2
  <2>2. Before(Matching[P[place]], Matching[P[place - 1]], orders)
    BY <1>1, <1>2
  <2>. QED  BY <1>2, <2>1, <2>2, MatchingList, AheadIsStrict
<1>5. PartSorted(P, R, next, place)
  BY DEF Midway
<1>. HIDE DEF n, R
<1>6. Q \in [1..n -> 1..n] /\ PartSorted(Q, R, next, place - 1)
  BY <1>2, <1>4, <1>5, ExchangeKeepsSorted
<1>7. /\ Q[place - 1] = P[place] /\ Q[place] = P[place - 1] /\ place - 1 # place
      /\ \A k \in 1..n : k # place /\ k # place - 1 => Q[k] = P[k]
  BY <1>2 DEF Exchanged
<1>8. result' = At(Matching, Q)
  <2>1. result' = [k \in 1..n |-> Matching[Q[k]]]
    <3>1. result = [k \in 1..n |-> Matching[P[k]]]
      BY <1>2 DEF Midway, At
    <3>2. /\ DOMAIN result' = 1..n /\ result' = [k \in 1..n |-> result'[k]]
          /\ result'[place - 1] = result[place] /\ result'[place] = result[place - 1]
          /\ \A k \in 1..n : k # place /\ k # place - 1 => result'[k] = result[k]
      BY <1>1, <1>2, <3>1 DEF Exchanged
    <3>3. \A k \in 1..n : result'[k] = Matching[Q[k]]
      BY <1>2, <1>7, <3>2
    <3>. QED  BY <3>2, <3>3
  <2>. QED  BY <1>6, <2>1 DEF At
<1>9. ASSUME NEW k \in 1..n
      PROVE  /\ k > next => Q[k] = k
             /\ k <= next /\ k # place - 1 => Q[k] < next
             /\ k = place - 1 => Q[k] = next
  <2>1. \A m \in 1..n : /\ m > next => P[m] = m
                        /\ m <= next /\ m # place => P[m] < next
                        /\ m = place => P[m] = next
    BY <1>2 DEF Midway
  <2>2. /\ place \in Int /\ next \in Int
        /\ place - 1 <= next /\ place <= next /\ place - 1 # place
    BY <1>2
  <2>3. CASE k = place
    <3>1. Q[k] = P[place - 1]
      BY <1>7, <2>3
    <3>2. P[place - 1] < next
      BY <1>2, <2>1, <2>2
    <3>. QED  BY <2>2, <2>3, <3>1, <3>2
  <2>4. CASE k = place - 1
    BY <1>2, <1>7, <2>1, <2>2, <2>4
  <2>5. CASE k # place /\ k # place - 1
    BY <1>7, <2>1, <2>5
  <2>. QED  BY <2>3, <2>4, <2>5
<1>. QED  BY <1>1, <1>2, <1>3, <1>6, <1>8, <1>9 DEF Midway, R

LEMMA MidwayStays ==
  ASSUME QueryTypeOK, NEW P, Midway(P), StayBehind
  PROVE  Midway(P)'
<1>. DEFINE n == Len(Matching)
            R == Ahead(Matching, orders)
            B(i, j) == Before(Matching[i], Matching[j], orders)
<1>1. /\ UNCHANGED <<docs, queryVars, result>> /\ next' = next + 1 /\ place' = next + 1
      /\ next \in DOMAIN result
      /\ place > 1 => ~Before(result[place], result[place - 1], orders)
  BY DEF StayBehind, IsAhead
<1>2. /\ n \in Nat /\ DOMAIN Matching = 1..n /\ DOMAIN result = 1..n /\ P \in [1..n -> 1..n]
      /\ next \in 1..n /\ place \in 1..next /\ place \in 1..n
      /\ place > 1 => place - 1 \in 1..n
      /\ \A k \in 1..n : result[k] = Matching[P[k]]
  BY <1>1, MidwayAt
<1>3. Matching' = Matching /\ orders' = orders
  BY <1>1, FullStays DEF queryVars
<1>4. /\ StrictOrder(R, 1..n)
      /\ \A i, j \in 1..n : i < j /\ ~B(j, i) => <<i, j>> \in R
  BY <1>2, MatchingList, AheadIsStrict
<1>5. /\ PartSorted(P, R, next, place)
      /\ \A k \in 1..n : /\ k > next => P[k] = k
                         /\ k <= next /\ k # place => P[k] < next
                         /\ k = place => P[k] = next
  BY <1>2 DEF Midway
<1>6. ASSUME place > 1
      PROVE  <<P[place - 1], P[place]>> \in R
  <2>1. P[place] \in 1..n /\ P[place - 1] \in 1..n
    BY <1>2, <1>6
  <2>2. ~B(P[place], P[place - 1])
    BY <1>1, <1>2, <1>6
  <2>3. P[place - 1] < P[place]
    <3>1. place - 1 <= next /\ place - 1 # place
      BY <1>2
    <3>. QED  BY <1>2, <1>5, <1>6, <3>1
  <2>. HIDE DEF B
  <2>. QED  BY <1>4, <2>1, <2>2, <2>3
<1>. HIDE DEF n, R
<1>7. \A x, y, z \in 1..n : <<x, y>> \in R /\ <<y, z>> \in R => <<x, z>> \in R
  BY <1>4 DEF StrictOrder
<1>8. PartSorted(P, R, next + 1, next + 1)
  BY <1>2, <1>5, <1>6, <1>7, PlacedKeepsSorted
<1>9. ASSUME NEW k \in 1..n
      PROVE  /\ k > next + 1 => P[k] = k
             /\ k <= next + 1 /\ k # next + 1 => P[k] < next + 1
             /\ k = next + 1 => P[k] = next + 1
  <2>1. P[k] \in 1..n /\ next \in Nat
    BY <1>2
  <2>2. CASE k > next
    BY <1>5, <2>1, <2>2
  <2>3. CASE k <= next
    <3>1. P[k] < next \/ P[k] = next
      BY <1>5, <2>3
    <3>. QED  BY <2>1, <2>3, <3>1
  <2>. QED  BY <2>1, <2>2, <2>3
<1>. QED  BY <1>1, <1>2, <1>3, <1>8, <1>9 DEF Midway, R

\* The sort ends with the full result.
LEMMA MidwayEnds ==
  ASSUME QueryTypeOK, NEW P, Midway(P), next \notin DOMAIN result
  PROVE  result = Full
<1>. DEFINE n == Len(Matching)
            R == Ahead(Matching, orders)
<1>1. n \in Nat /\ DOMAIN Matching = 1..n /\ StrictOrder(R, 1..n)
  BY MatchingList, AheadIsStrict
<1>. HIDE DEF n, R
<1>2. P \in [1..n -> 1..n] /\ result = At(Matching, P) /\ PartSorted(P, R, next, place)
  BY <1>1 DEF Midway, R
<1>3. DOMAIN result = 1..n
  BY <1>2 DEF At
<1>4. \A k \in 1..n : k <= next /\ k # place
  BY <1>1, <1>3 DEF QueryTypeOK, SortTypeOK
<1>5. \A k, m \in 1..n : k < m => <<P[k], P[m]>> \in R
  BY <1>2, <1>4 DEF PartSorted
<1>6. P = Ranked(1..n, R)
  BY <1>1, <1>2, <1>5, OrderedIsRanked
<1>. QED  BY <1>1, <1>2, <1>6 DEF Full, StablySorted, R

\* Each step of a query is at its place on the way to the full result, of which
\* the client has what is before its offset.
PagesInv ==
  /\ at = "where" => result = Everything
  /\ at = "order" => \E P : Midway(P)
  /\ at = "send" => result = Full
  /\ Len(got) = offset /\ offset <= Len(Full)
  /\ \A i \in 1..offset : got[i] = Full[i].name
  /\ at = "done" => offset = Len(Full)

SteadyInv == QueryTypeOK /\ (steady => PagesInv)

LEMMA StepType ==
  ASSUME QueryTypeOK, [Next]_vars
  PROVE  QueryTypeOK'
<1>1. CASE Collect
  <2>1. PICK s \in Listing : result' = ListedAs(s)
    BY <1>1 DEF Collect, ListedAs
  <2>2. result' \in Seq(Entry) /\ Distinct(result)'
    BY <2>1, ListedAsType DEF Distinct
  <2>3. SortTypeOK'
    BY <1>1 DEF QueryTypeOK, SortTypeOK, Collect, sortVars
  <2>. QED  BY <1>1, <2>2, <2>3 DEF QueryTypeOK, Collect, queryVars
<1>2. CASE Where
  <2>1. result' \in Seq(Entry) /\ Distinct(result)'
    <3>1. /\ result' \in Seq(Entry)
          /\ Takes(result', result, {i \in DOMAIN result : Satisfies(result[i].fields, filter)})
      BY <1>2, ApplyFilterTakes DEF Where, QueryTypeOK
    <3>. QED  BY <3>1 DEF Takes, QueryTypeOK
  <2>2. SortTypeOK'
    BY <1>2 DEF QueryTypeOK, SortTypeOK, Where, sortVars
  <2>. QED  BY <1>2, <2>1, <2>2 DEF QueryTypeOK, Where, queryVars
<1>3. CASE MoveAhead \/ StayBehind \/ EndSort
  BY <1>3, MoveAheadType, StayBehindType, EndSortType
<1>4. CASE Send
  BY <1>4, SendType
<1>5. CASE Write
  BY <1>5, WriteKeeps
<1>6. CASE UNCHANGED vars
  BY <1>6 DEF QueryTypeOK, SortTypeOK, Distinct, vars, queryVars, sortVars
<1>. QED  BY <1>1, <1>2, <1>3, <1>4, <1>5, <1>6, NextIsOneOf

LEMMA SendPages ==
  ASSUME QueryTypeOK, PagesInv, Send
  PROVE  PagesInv'
<1>1. UNCHANGED <<docs, queryVars>> /\ at = "send" /\ result = Full
  BY DEF Send, PagesInv
<1>2. Full' = Full
  BY <1>1, FullStays
<1>. DEFINE p == page'
            F == Full
            E == Entry
            names == [i \in DOMAIN p |-> p[i].name]
<1>3. F \in Seq(Entry) /\ offset \in Nat /\ limit \in PageSizes /\ p = Window(F, offset, limit)
  BY <1>1 DEF Send, QueryTypeOK
<1>4. offset <= Len(F) /\ Len(got) = offset /\ got \in Seq(Names) /\ \A i \in 1..offset : got[i] = F[i].name
  BY DEF PagesInv, QueryTypeOK
<1>5. /\ offset' = offset + Len(p) /\ got' = got \o names
      /\ at' = IF IsLast(p, limit) THEN "done" ELSE "idle"
  BY DEF Send, IsLast
<1>. HIDE DEF p, F
<1>6. /\ p \in Seq(Entry)
      /\ \A k \in DOMAIN p : offset + k \in DOMAIN F /\ p[k] = F[offset + k]
      /\ offset + Len(p) <= Len(F)
      /\ IsLast(p, limit) => offset + Len(p) = Len(F)
  <2>0. F \in Seq(E)
    BY <1>3
  <2>. HIDE DEF E
  <2>1. p \in Seq(E) /\ \A k \in DOMAIN p : offset + k \in DOMAIN F /\ p[k] = F[offset + k]
    BY <1>3, <2>0, WindowIsPiece
  <2>2. offset <= Len(F) => offset + Len(p) <= Len(F)
    BY <1>3, <2>0, WindowIsPiece
  <2>3. offset <= Len(F) /\ IsLast(p, limit) => Len(F) <= offset + Len(p)
    BY <1>3, <2>0, WindowIsPiece
  <2>4. Len(F) \in Nat /\ Len(p) \in Nat
    BY <2>0, <2>1
  <2>5. IsLast(p, limit) => offset + Len(p) = Len(F)
    BY <1>3, <1>4, <2>2, <2>3, <2>4
  <2>. QED  BY <1>4, <2>1, <2>2, <2>5 DEF E
<1>7. DOMAIN p = 1..Len(p) /\ Len(p) \in Nat /\ \A k \in DOMAIN p : p[k].name \in Names
  <2>1. DOMAIN p = 1..Len(p) /\ Len(p) \in Nat /\ \A k \in DOMAIN p : p[k] \in Entry
    BY <1>6
  <2>. QED  BY <2>1 DEF Entry
<1>8. names \in Seq(Names) /\ Len(names) = Len(p)
  BY <1>7
<1>9. \A k \in 1..Len(p) : names[k] = F[offset + k].name
  BY <1>6, <1>7
<1>. HIDE DEF names
<1>10. /\ Len(got') = offset'
       /\ \A i \in 1..(offset + Len(p)) : got'[i] = IF i <= offset THEN got[i] ELSE names[i - offset]
  <2>1. /\ Len(got \o names) = Len(got) + Len(names)
        /\ \A i \in 1..(Len(got) + Len(names)) :
             (got \o names)[i] = IF i <= Len(got) THEN got[i] ELSE names[i - Len(got)]
    BY <1>4, <1>8, ConcatProperties
  <2>. QED  BY <1>4, <1>5, <1>8, <2>1
<1>11. ASSUME NEW i \in 1..offset'
       PROVE  got'[i] = F[i].name
  <2>1. CASE i <= offset
    <3>1. i \in 1..offset
      BY <1>3, <2>1
    <3>. QED  BY <1>4, <1>5, <1>10, <2>1, <3>1
  <2>2. CASE ~(i <= offset)
    <3>1. i - offset \in 1..Len(p) /\ offset + (i - offset) = i
      BY <1>3, <1>5, <1>7, <2>2
    <3>. QED  BY <1>5, <1>9, <1>10, <2>2, <3>1
  <2>. QED  BY <2>1, <2>2
<1>12. at' \in {"done", "idle"} /\ (at' = "done" => offset' = Len(F))
  BY <1>5, <1>6
<1>13. offset' <= Len(F)
  BY <1>5, <1>6
<1>. QED  BY <1>2, <1>10, <1>11, <1>12, <1>13 DEF PagesInv, F

LEMMA SteadyNext ==
  ASSUME SteadyInv, [Next]_vars
  PROVE  SteadyInv'
<1>1. QueryTypeOK /\ QueryTypeOK'
  BY StepType DEF SteadyInv
<1>2. ASSUME steady' PROVE PagesInv'
  <2>1. CASE Write
    <3>1. steady' = FALSE
      BY <1>1, <2>1, WriteKeeps
    <3>. QED  BY <1>2, <3>1
  <2>2. CASE Collect \/ Where \/ MoveAhead \/ StayBehind \/ EndSort \/ Send \/ UNCHANGED vars
    <3>1. steady' = steady /\ UNCHANGED <<docs, queryVars>>
      BY <2>2 DEF Collect, Where, MoveAhead, StayBehind, EndSort, Send, vars
    <3>2. PagesInv
      BY <1>2, <3>1 DEF SteadyInv
    <3>3. UNCHANGED <<Everything, Matching, Full>>
      BY <3>1, FullStays
    <3>4. CASE Collect
      <4>1. PICK s \in Listing : result' = ListedAs(s)
        BY <3>4 DEF Collect, ListedAs
      <4>2. result' = Everything
        BY <4>1, OneListing DEF Everything
      <4>. QED  BY <3>2, <3>3, <3>4, <4>2 DEF PagesInv, Collect
    <3>5. CASE Where
      <4>1. result' = Matching' /\ at' = "order" /\ UNCHANGED <<offset, got>>
        BY <3>2, <3>3, <3>5 DEF PagesInv, Where, Matching
      <4>2. next' = 2 /\ place' = 2
        BY <1>1, <3>5 DEF Where, sortVars, QueryTypeOK, SortTypeOK
      <4>3. (QueryTypeOK /\ result = Matching /\ next = 2 /\ place = 2 => Midway(Unsorted))'
        BY MidwayBegins, PTL
      <4>. QED  BY <1>1, <3>2, <3>3, <4>1, <4>2, <4>3 DEF PagesInv
    <3>6. CASE MoveAhead
      <4>1. at = "order" /\ at' = "order" /\ UNCHANGED <<offset, got>>
        BY <3>6 DEF MoveAhead
      <4>2. PICK P : Midway(P)
        BY <3>2, <4>1 DEF PagesInv
      <4>3. PICK Q : Q = Exchanged(P, place)
        OBVIOUS
      <4>4. Midway(Q)'
        BY <1>1, <3>6, <4>2, <4>3, MidwayMoves
      <4>. QED  BY <3>2, <3>3, <4>1, <4>4 DEF PagesInv
    <3>9. CASE StayBehind
      <4>1. at = "order" /\ at' = "order" /\ UNCHANGED <<offset, got>>
        BY <3>9 DEF StayBehind
      <4>2. PICK P : Midway(P)
        BY <3>2, <4>1 DEF PagesInv
      <4>3. Midway(P)'
        BY <1>1, <3>9, <4>2, MidwayStays
      <4>. QED  BY <3>2, <3>3, <4>1, <4>3 DEF PagesInv
    <3>10. CASE EndSort
      <4>1. at = "order" /\ at' = "send" /\ UNCHANGED <<offset, got, result>> /\ next \notin DOMAIN result
        BY <3>10 DEF EndSort
      <4>2. PICK P : Midway(P)
        BY <3>2, <4>1 DEF PagesInv
      <4>3. result' = Full
        BY <1>1, <4>1, <4>2, MidwayEnds
      <4>. QED  BY <3>2, <3>3, <4>1, <4>3 DEF PagesInv
    <3>7. CASE Send
      BY <1>1, <3>2, <3>7, SendPages
    <3>8. CASE UNCHANGED vars
      <4>1. UNCHANGED <<at, offset, got, result, next, place, orders>>
        BY <3>8 DEF vars, sortVars, queryVars
      <4>2. \A P : Midway(P) => Midway(P)'
        BY <3>3, <4>1 DEF Midway
      <4>. QED  BY <3>2, <3>3, <4>1, <4>2 DEF PagesInv
    <3>. QED  BY <2>2, <3>4, <3>5, <3>6, <3>7, <3>8, <3>9, <3>10
  <2>. QED  BY <2>1, <2>2, NextIsOneOf
<1>. QED  BY <1>1, <1>2 DEF SteadyInv

LEMMA SteadyInit == Init => SteadyInv
<1>. SUFFICES ASSUME Init PROVE SteadyInv
  OBVIOUS
<1>1. QueryTypeOK
  BY SnapshotInit DEF SnapshotInv
<1>2. Full \in Seq(Entry)
  BY <1>1, FullResult
<1>3. Len(Full) \in Nat
  BY <1>2
<1>4. PagesInv
  BY <1>3 DEF Init, PagesInv
<1>. QED  BY <1>1, <1>4 DEF SteadyInv

LEMMA SteadyImplies == SteadyInv => PagesAreTheResult
<1>. SUFFICES ASSUME SteadyInv, steady PROVE PagesAreTheResult
  BY DEF PagesAreTheResult
<1>. DEFINE matching == {n \in There : Satisfies(docs[n], filter)}
<1>1. QueryTypeOK /\ PagesInv
  BY DEF SteadyInv
<1>2. /\ Full \in Seq(Entry) /\ Distinct(Full)
      /\ \A i \in DOMAIN Full : Full[i].name \in matching /\ Full[i].fields = docs[Full[i].name]
      /\ \A n \in matching : \E i \in DOMAIN Full : Full[i].name = n
      /\ \A i, j \in DOMAIN Full : i < j => ~Before(Full[j], Full[i], orders)
  BY <1>1, FullResult
<1>3. /\ DOMAIN Full = 1..Len(Full) /\ Len(Full) \in Nat
      /\ DOMAIN got = 1..offset /\ offset \in Nat /\ offset <= Len(Full)
      /\ \A i \in DOMAIN got : got[i] = Full[i].name
  BY <1>1, <1>2 DEF QueryTypeOK, PagesInv
<1>4. \A i \in DOMAIN got : i \in DOMAIN Full
  BY <1>3
<1>5. \A i \in DOMAIN got : got[i] \in matching
  BY <1>2, <1>3, <1>4
<1>6. ASSUME NEW i \in DOMAIN got, NEW j \in DOMAIN got, i < j
      PROVE  got[i] # got[j] /\ ~Before(Doc(got[j], docs[got[j]]), Doc(got[i], docs[got[i]]), orders)
  <2>. DEFINE d == Doc(got[i], docs[got[i]])
              e == Doc(got[j], docs[got[j]])
  <2>1. i \in DOMAIN Full /\ j \in DOMAIN Full /\ i # j
    BY <1>3, <1>4, <1>6
  <2>2. got[i] # got[j]
    BY <1>2, <1>3, <2>1 DEF Distinct
  <2>3. d.name = Full[i].name /\ d.fields = Full[i].fields /\ e.name = Full[j].name /\ e.fields = Full[j].fields
    BY <1>2, <1>3, <2>1 DEF Doc
  <2>4. ~Before(Full[j], Full[i], orders)
    BY <1>2, <1>6, <2>1
  <2>. HIDE DEF d, e
  <2>5. ~Before(e, d, orders)
    BY <2>3, <2>4, BeforeLooksAt
  <2>. QED  BY <2>2, <2>5 DEF d, e
<1>7. at = "done" => \A n \in matching : \E i \in DOMAIN got : got[i] = n
  <2>1. at = "done" => DOMAIN got = DOMAIN Full
    BY <1>1, <1>3 DEF PagesInv
  <2>2. ASSUME at = "done", NEW n \in matching
        PROVE  \E i \in DOMAIN got : got[i] = n
    <3>1. PICK i \in DOMAIN Full : Full[i].name = n
      BY <1>2
    <3>. QED  BY <1>3, <2>1, <2>2, <3>1
  <2>. QED  BY <2>2
<1>. QED  BY <1>5, <1>6, <1>7 DEF PagesAreTheResult

\* While nobody writes, the pages a client reads one RunQuery at a time are the
\* result of its query: no document is on two of them, each matches, they come
\* in order across the pages, and when the last page is short none is left out.
\* The sort is stable and the comparison an order, so that every page is cut
\* from the same list, documents that compare alike included.
THEOREM PagingIsExact == Spec => []PagesAreTheResult
<1>1. Init => SteadyInv
  BY SteadyInit
<1>2. SteadyInv /\ [Next]_vars => SteadyInv'
  BY SteadyNext
<1>3. SteadyInv => PagesAreTheResult
  BY SteadyImplies
<1>. QED  BY <1>1, <1>2, <1>3, PTL DEF Spec

=============================================================================
