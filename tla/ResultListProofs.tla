-------------------------- MODULE ResultListProofs --------------------------
(***************************************************************************)
(* The merge sort of query.c sorts: what sortResultList leaves behind is   *)
(* what the rest of the file relies on, its two assertions hold, and no    *)
(* item is lost in the slots.                                              *)
(*                                                                         *)
(* The first parts are about the operators.  Where every key can be        *)
(* ordered (NoNan), cmpResultItem is the order of the keys, and a merge of *)
(* two sorted lists, the first of which was added before the second, is    *)
(* the sorted list of both (MergeSorts).  With the real that is not a      *)
(* number among the keys the comparison is no order, but a merge still     *)
(* has all the items: that is why Ordered, and no more than it, is said    *)
(* under NoNan.                                                            *)
(*                                                                         *)
(* The invariant, Sound, divides the items into runs.  The numbers b[0],   *)
(* b[1], ... up to b[NSlots] ascend, the list has the items up to b[0],    *)
(* and slot k the ones from there on between b[k] and b[k + 1]: none or    *)
(* 2^k of them.  While an item is carried from slot to slot, the list in   *)
(* hand takes the place of the slots below (Carrying); while the slots are *)
(* collected, that of all before (Collecting).  DISTINCT then keeps, of    *)
(* the part of the list it has seen, one item for each (Unlinking).        *)
(***************************************************************************)
EXTENDS ResultList, FiniteSetTheorems, WellFoundedInduction, TLAPS

\* No key is the real that is not a number.
NoNan == Nan \notin Keys

\* A set of numbers that is not empty has a least element.
LEMMA LeastElement ==
    ASSUME NEW T, T \subseteq Nat, T # {}
    PROVE  \E x \in T : \A y \in T : x <= y
<1> DEFINE R == { pair \in Nat \X Nat : pair[1] < pair[2] }
<1>1. IsWellFoundedOn(R, Nat)
  BY NatLessThanWellFounded DEF OpToRel
<1> HIDE DEF R
<1>2. PICK x \in T : \A y \in T : <<y, x>> \notin R
  BY <1>1, WFMin, Zenon
<1>3. \A y \in T : ~(y < x)
  BY <1>2 DEF R
<1> QED BY <1>3


-----------------------------------------------------------------------------
(* The order of the items *)

Items == [key : [DOMAIN desc -> Keys], at : Nat]

Typed == NoNan /\ desc \in Seq(BOOLEAN)

\* Scalar x comes before y in a term that descends or not.
TermLess(d, x, y) == IF d THEN ScalarLess(y, x) ELSE ScalarLess(x, y)

DiffersAt(x, y, k) == \A j \in 1..(k - 1) : x.key[j] = y.key[j]

\* No key is anything but an integer or Null.
LEMMA KeysAreScalars ==
    ASSUME Typed
    PROVE  /\ Keys \subseteq Scalars
           /\ \A x \in Items : x.key \in [DOMAIN desc -> Scalars] /\ x.at \in Nat
<1>1. Keys \subseteq Scalars
  BY KeysAssumption DEF Typed, NoNan
<1> QED BY <1>1 DEF Items

\* The scalars are in one line.
LEMMA TermOrder ==
    ASSUME NEW d \in BOOLEAN
    PROVE  /\ \A x \in Scalars : ~TermLess(d, x, x)
           /\ \A x, y \in Scalars : x = y \/ TermLess(d, x, y) \/ TermLess(d, y, x)
           /\ \A x, y, z \in Scalars : TermLess(d, x, y) /\ TermLess(d, y, z) => TermLess(d, x, z)
BY NullAssumption DEF TermLess, ScalarLess, Scalars

\* JsonCompare gives the sign of the order.
LEMMA ComparesScalars ==
    ASSUME Typed, NEW x \in Keys, NEW y \in Keys
    PROVE  /\ x = y => JsonCompare(x, y) = 0
           /\ ScalarLess(x, y) => JsonCompare(x, y) = -1
           /\ ScalarLess(y, x) => JsonCompare(x, y) = 1
<1>1. x \in Scalars /\ y \in Scalars /\ Nan \notin {x, y}
  BY KeysAssumption DEF Typed, NoNan
<1> QED BY <1>1, NullAssumption DEF JsonCompare, ScalarLess, Scalars

\* The first term that differs decides.
LEMMA BeforeIs ==
    ASSUME Typed, NEW x \in Items, NEW y \in Items
    PROVE  Before(x, y) <=> \E k \in DOMAIN desc : /\ DiffersAt(x, y, k)
                                                  /\ TermLess(desc[k], x.key[k], y.key[k])
<1> DEFINE a == [k \in DOMAIN desc |-> <<x.key[k]>>]
           b == [k \in DOMAIN desc |-> <<y.key[k]>>]
<1>1. DOMAIN desc = 1..Len(desc) /\ Len(desc) \in Nat
  BY DEF Typed
<1>2. \A k \in DOMAIN desc : a[k] = <<x.key[k]>> /\ b[k] = <<y.key[k]>>
  OBVIOUS
<1>3. DOMAIN a = DOMAIN desc
  OBVIOUS
<1>4. Before(x, y) <=> KeyLess(a, b, desc)
  BY DEF Before
<1> HIDE DEF a, b
<1>5. \A u, v : DocLess(<<u>>, <<v>>) <=> ScalarLess(u, v)
  BY DEF DocLess
<1>6. \A k \in DOMAIN desc : \A j \in 1..(k - 1) : j \in DOMAIN desc
  BY <1>1
<1>7. \A k \in DOMAIN desc : (\A j \in 1..(k - 1) : a[j] = b[j]) <=> DiffersAt(x, y, k)
  BY <1>2, <1>6 DEF DiffersAt
<1>8. \A k \in DOMAIN desc : (IF desc[k] THEN DocLess(b[k], a[k]) ELSE DocLess(a[k], b[k]))
                                <=> TermLess(desc[k], x.key[k], y.key[k])
  BY <1>2, <1>5 DEF TermLess
<1> QED BY <1>3, <1>4, <1>7, <1>8 DEF KeyLess
\* Terms that do not differ up to k.
LEMMA FirstDifference ==
    ASSUME Typed, NEW x \in Items, NEW y \in Items, x.key # y.key
    PROVE  \E k \in DOMAIN desc : x.key[k] # y.key[k] /\ DiffersAt(x, y, k)
<1> DEFINE D == { k \in DOMAIN desc : x.key[k] # y.key[k] }
<1>1. DOMAIN desc = 1..Len(desc) /\ Len(desc) \in Nat
  BY DEF Typed
<1>2. x.key \in [DOMAIN desc -> Keys] /\ y.key \in [DOMAIN desc -> Keys]
  BY DEF Items
<1>3. D # {} /\ D \subseteq Nat
  BY <1>1, <1>2
<1>4. PICK k \in D : \A j \in D : k <= j
  BY <1>3, LeastElement
<1>5. \A j \in 1..(k - 1) : j \in DOMAIN desc /\ ~(k <= j)
  BY <1>1, <1>4
<1>6. DiffersAt(x, y, k)
  BY <1>4, <1>5 DEF DiffersAt
<1> QED BY <1>4, <1>6

\* Before orders the keys in one line.
LEMMA BeforeOrder ==
    ASSUME Typed, NEW x \in Items, NEW y \in Items
    PROVE  /\ x.key = y.key => ~Before(x, y)
           /\ x.key = y.key \/ Before(x, y) \/ Before(y, x)
           /\ ~(Before(x, y) /\ Before(y, x))
<1>1. /\ DOMAIN desc = 1..Len(desc) /\ Len(desc) \in Nat
      /\ \A k \in DOMAIN desc : desc[k] \in BOOLEAN
  BY DEF Typed
<1>2. \A k \in DOMAIN desc : x.key[k] \in Scalars /\ y.key[k] \in Scalars
  BY KeysAreScalars
<1>3. x.key = y.key => ~Before(x, y)
  BY <1>1, <1>2, BeforeIs, TermOrder
<1>4. ASSUME x.key # y.key PROVE Before(x, y) \/ Before(y, x)
  <2>1. PICK k \in DOMAIN desc : x.key[k] # y.key[k] /\ DiffersAt(x, y, k)
    BY <1>4, FirstDifference
  <2>2. DiffersAt(y, x, k)
    BY <2>1 DEF DiffersAt
  <2>3. TermLess(desc[k], x.key[k], y.key[k]) \/ TermLess(desc[k], y.key[k], x.key[k])
    BY <1>1, <1>2, <2>1, TermOrder
  <2> QED BY <2>1, <2>2, <2>3, BeforeIs
<1>5. ASSUME Before(x, y), Before(y, x) PROVE FALSE
  <2>1. PICK k \in DOMAIN desc : DiffersAt(x, y, k) /\ TermLess(desc[k], x.key[k], y.key[k])
    BY <1>5, BeforeIs
  <2>2. PICK l \in DOMAIN desc : DiffersAt(y, x, l) /\ TermLess(desc[l], y.key[l], x.key[l])
    BY <1>5, BeforeIs
  <2>3. x.key[k] # y.key[k] /\ x.key[l] # y.key[l]
    BY <1>1, <1>2, <2>1, <2>2, TermOrder
  <2>4. k = l
    <3>1. ~(k < l) /\ ~(l < k)
      BY <1>1, <2>1, <2>2, <2>3 DEF DiffersAt
    <3> QED BY <1>1, <3>1
  <2>5. ~TermLess(desc[k], x.key[k], x.key[k])
    BY <1>1, <1>2, TermOrder
  <2> QED BY <1>1, <1>2, <2>1, <2>2, <2>4, <2>5, TermOrder
<1> QED BY <1>3, <1>4, <1>5

\* What comes before an item comes before all that the item comes before.
LEMMA BeforeTransitive ==
    ASSUME Typed, NEW x \in Items, NEW y \in Items, NEW z \in Items,
           Before(x, y), Before(y, z)
    PROVE  Before(x, z)
<1>1. /\ DOMAIN desc = 1..Len(desc) /\ Len(desc) \in Nat
      /\ \A k \in DOMAIN desc : desc[k] \in BOOLEAN
  BY DEF Typed
<1>2. \A k \in DOMAIN desc : x.key[k] \in Scalars /\ y.key[k] \in Scalars /\ z.key[k] \in Scalars
  BY KeysAreScalars
<1>3. PICK k \in DOMAIN desc : DiffersAt(x, y, k) /\ TermLess(desc[k], x.key[k], y.key[k])
  BY BeforeIs
<1>4. PICK l \in DOMAIN desc : DiffersAt(y, z, l) /\ TermLess(desc[l], y.key[l], z.key[l])
  BY BeforeIs
<1>5. CASE k < l
  <2>1. y.key[k] = z.key[k]
    BY <1>1, <1>4, <1>5 DEF DiffersAt
  <2>2. DiffersAt(x, z, k)
    BY <1>1, <1>3, <1>4, <1>5 DEF DiffersAt
  <2> QED BY <1>3, <2>1, <2>2, BeforeIs
<1>6. CASE l < k
  <2>1. x.key[l] = y.key[l]
    BY <1>1, <1>3, <1>6 DEF DiffersAt
  <2>2. DiffersAt(x, z, l)
    BY <1>1, <1>3, <1>4, <1>6 DEF DiffersAt
  <2> QED BY <1>4, <2>1, <2>2, BeforeIs
<1>7. CASE k = l
  <2>1. TermLess(desc[k], x.key[k], z.key[k])
    BY <1>1, <1>2, <1>3, <1>4, <1>7, TermOrder
  <2>2. DiffersAt(x, z, k)
    BY <1>3, <1>4, <1>7 DEF DiffersAt
  <2> QED BY <2>1, <2>2, BeforeIs
<1> QED BY <1>1, <1>5, <1>6, <1>7

\* Items with the same keys come before the same items and behind the same.
LEMMA BeforeOfKeys ==
    ASSUME Typed, NEW x \in Items, NEW y \in Items, NEW z \in Items, x.key = y.key
    PROVE  (Before(x, z) <=> Before(y, z)) /\ (Before(z, x) <=> Before(z, y))
BY DEF Before

\* cmpResultItem gives the sign of the order.
LEMMA CompareIs ==
    ASSUME Typed, NEW x \in Items, NEW y \in Items
    PROVE  /\ cmpResultItem(x, y) = 0 <=> x.key = y.key
           /\ cmpResultItem(x, y) < 0 <=> Before(x, y)
           /\ cmpResultItem(x, y) <= 0 <=> ~Before(y, x)
           /\ cmpResultItem(x, y) <= -1 <=> Before(x, y)
<1> DEFINE differ == { k \in DOMAIN desc : JsonCompare(x.key[k], y.key[k]) # 0 }
           least == CHOOSE k \in differ : \A j \in differ : k <= j
           c == JsonCompare(x.key[least], y.key[least])
<1>1. /\ DOMAIN desc = 1..Len(desc) /\ Len(desc) \in Nat
      /\ \A k \in DOMAIN desc : desc[k] \in BOOLEAN
  BY DEF Typed
<1>2. /\ x.key \in [DOMAIN desc -> Keys] /\ y.key \in [DOMAIN desc -> Keys]
      /\ \A k \in DOMAIN desc : x.key[k] \in Scalars /\ y.key[k] \in Scalars
  BY KeysAreScalars DEF Items
<1>3. cmpResultItem(x, y) = IF differ = {} THEN 0 ELSE IF desc[least] THEN -c ELSE c
  BY DEF cmpResultItem
<1>4. \A k \in DOMAIN desc :
        /\ x.key[k] = y.key[k] <=> JsonCompare(x.key[k], y.key[k]) = 0
        /\ ScalarLess(x.key[k], y.key[k]) => JsonCompare(x.key[k], y.key[k]) = -1
        /\ ScalarLess(y.key[k], x.key[k]) => JsonCompare(x.key[k], y.key[k]) = 1
  <2> SUFFICES ASSUME NEW k \in DOMAIN desc
               PROVE  /\ x.key[k] = y.key[k] <=> JsonCompare(x.key[k], y.key[k]) = 0
                      /\ ScalarLess(x.key[k], y.key[k]) => JsonCompare(x.key[k], y.key[k]) = -1
                      /\ ScalarLess(y.key[k], x.key[k]) => JsonCompare(x.key[k], y.key[k]) = 1
    OBVIOUS
  <2>1. x.key[k] = y.key[k] \/ ScalarLess(x.key[k], y.key[k]) \/ ScalarLess(y.key[k], x.key[k])
    BY <1>2, NullAssumption DEF ScalarLess, Scalars
  <2> QED BY <1>2, <2>1, ComparesScalars
<1>5. CASE differ = {}
  <2>1. x.key = y.key
    BY <1>2, <1>4, <1>5
  <2> QED BY <1>3, <1>5, <2>1, BeforeOrder
<1>6. CASE differ # {}
  <2>1. least \in differ /\ \A j \in differ : least <= j
    <3>1. differ \subseteq Nat
      BY <1>1
    <3>2. \E k \in differ : \A j \in differ : k <= j
      BY <1>6, <3>1, LeastElement
    <3> QED BY <3>2
  <2>2. least \in DOMAIN desc /\ x.key # y.key /\ x.key[least] # y.key[least]
    BY <1>4, <2>1
  <2>3. DiffersAt(x, y, least) /\ DiffersAt(y, x, least)
    <3> HIDE DEF least
    <3>1. \A j \in 1..(least - 1) : j \in DOMAIN desc /\ ~(least <= j)
      BY <1>1, <2>2
    <3> QED BY <1>4, <2>1, <3>1 DEF DiffersAt
  <2> HIDE DEF least
  <2>4. /\ TermLess(desc[least], x.key[least], y.key[least]) => Before(x, y)
        /\ TermLess(desc[least], y.key[least], x.key[least]) => Before(y, x)
    BY <2>2, <2>3, BeforeIs
  <2>5. ~(Before(x, y) /\ Before(y, x))
    BY BeforeOrder
  <2>6. ScalarLess(x.key[least], y.key[least]) \/ ScalarLess(y.key[least], x.key[least])
    BY <1>2, <2>2, NullAssumption DEF ScalarLess, Scalars
  <2>7. CASE ScalarLess(x.key[least], y.key[least])
    <3>1. c = -1
      BY <1>4, <2>2, <2>7
    <3>2. CASE desc[least]
      BY <1>3, <1>6, <2>2, <2>4, <2>5, <2>7, <3>1, <3>2 DEF TermLess
    <3>3. CASE ~desc[least]
      BY <1>3, <1>6, <2>2, <2>4, <2>5, <2>7, <3>1, <3>3 DEF TermLess
    <3> QED BY <3>2, <3>3
  <2>8. CASE ScalarLess(y.key[least], x.key[least])
    <3>1. c = 1
      BY <1>4, <2>2, <2>8
    <3>2. CASE desc[least]
      BY <1>3, <1>6, <2>2, <2>4, <2>5, <2>8, <3>1, <3>2 DEF TermLess
    <3>3. CASE ~desc[least]
      BY <1>3, <1>6, <2>2, <2>4, <2>5, <2>8, <3>1, <3>3 DEF TermLess
    <3> QED BY <3>2, <3>3
  <2> QED BY <2>6, <2>7, <2>8
<1> QED BY <1>5, <1>6
-----------------------------------------------------------------------------
(* The merge *)

\* Item x comes before y in a stable sort.
Prec(x, y) == Before(x, y) \/ (~Before(y, x) /\ x.at < y.at)

Ordered(s) == NoNan => \A k, l \in DOMAIN s : k < l => Prec(s[k], s[l])

\* s is the sorted list of the items that were added from a on up to b.
Run(s, a, b) ==
    /\ s \in Seq(Items)
    /\ Len(s) = b - a
    /\ \A k \in DOMAIN s : s[k].at \in (a + 1)..b /\ s[k] = added[s[k].at]
    /\ Ordered(s)

\* A stable sort is one order, too.
LEMMA PrecTransitive ==
    ASSUME Typed, NEW x \in Items, NEW y \in Items, NEW z \in Items, Prec(x, y), Prec(y, z)
    PROVE  Prec(x, z)
<1>1. x.at \in Nat /\ y.at \in Nat /\ z.at \in Nat
  BY DEF Items
<1>2. CASE Before(x, y) /\ Before(y, z)
  BY <1>2, BeforeTransitive DEF Prec
<1>3. CASE Before(x, y) /\ ~Before(y, z)
  <2>1. y.key = z.key
    BY <1>3, BeforeOrder DEF Prec
  <2> QED BY <1>3, <2>1, BeforeOfKeys DEF Prec
<1>4. CASE ~Before(x, y) /\ Before(y, z)
  <2>1. x.key = y.key
    BY <1>4, BeforeOrder DEF Prec
  <2> QED BY <1>4, <2>1, BeforeOfKeys DEF Prec
<1>5. CASE ~Before(x, y) /\ ~Before(y, z)
  <2>1. x.key = y.key /\ y.key = z.key
    BY <1>5, BeforeOrder DEF Prec
  <2>2. ~Before(z, x)
    BY <2>1, BeforeOrder
  <2>3. x.at < y.at /\ y.at < z.at
    BY <1>5 DEF Prec
  <2> QED BY <1>1, <2>2, <2>3 DEF Prec
<1> QED BY <1>2, <1>3, <1>4, <1>5

\* The positions of two lists, and what the merge does from one of them on.
Cells(s, t) == (1..(Len(s) + 1)) \X (1..(Len(t) + 1))

Todo(s, t, c) == (Len(s) + 1 - c[1]) + (Len(t) + 1 - c[2])

Merged(s, t, f, c) ==
    IF c[1] > Len(s) THEN SubSeq(t, c[2], Len(t))
    ELSE IF c[2] > Len(t) THEN SubSeq(s, c[1], Len(s))
    ELSE IF TakesFirst(s[c[1]], t[c[2]])
    THEN <<s[c[1]]>> \o f[<<c[1] + 1, c[2]>>]
    ELSE <<t[c[2]]>> \o f[<<c[1], c[2] + 1>>]

\* A merge looks at the positions behind the one where it is.
LEMMA MergeGoesOn ==
    ASSUME NEW s \in Seq(Items), NEW t \in Seq(Items), NEW c \in Cells(s, t),
           ~(c[1] > Len(s)), ~(c[2] > Len(t))
    PROVE  /\ c[1] \in DOMAIN s /\ c[2] \in DOMAIN t
           /\ <<c[1] + 1, c[2]>> \in Cells(s, t) /\ <<c[1], c[2] + 1>> \in Cells(s, t)
           /\ Todo(s, t, <<c[1] + 1, c[2]>>) = Todo(s, t, c) - 1
           /\ Todo(s, t, <<c[1], c[2] + 1>>) = Todo(s, t, c) - 1
<1>1. /\ Len(s) \in Nat /\ Len(t) \in Nat /\ DOMAIN s = 1..Len(s) /\ DOMAIN t = 1..Len(t)
      /\ c[1] \in 1..(Len(s) + 1) /\ c[2] \in 1..(Len(t) + 1)
  BY DEF Cells
<1>2. c[1] \in DOMAIN s /\ c[2] \in DOMAIN t
  BY <1>1
<1>3. c[1] + 1 \in 1..(Len(s) + 1) /\ c[2] + 1 \in 1..(Len(t) + 1)
  BY <1>1
<1>4. /\ Todo(s, t, <<c[1] + 1, c[2]>>) = (Len(s) + 1 - (c[1] + 1)) + (Len(t) + 1 - c[2])
      /\ Todo(s, t, <<c[1], c[2] + 1>>) = (Len(s) + 1 - c[1]) + (Len(t) + 1 - (c[2] + 1))
  BY DEF Todo
<1>5. Todo(s, t, c) = (Len(s) + 1 - c[1]) + (Len(t) + 1 - c[2])
  BY DEF Todo
<1>6. <<c[1] + 1, c[2]>> \in Cells(s, t) /\ <<c[1], c[2] + 1>> \in Cells(s, t)
  BY <1>1, <1>3 DEF Cells
<1>7. /\ Todo(s, t, <<c[1] + 1, c[2]>>) = Todo(s, t, c) - 1
      /\ Todo(s, t, <<c[1], c[2] + 1>>) = Todo(s, t, c) - 1
  <2>1. c[1] \in Int /\ c[2] \in Int /\ Len(s) \in Int /\ Len(t) \in Int
    BY <1>1
  <2>2. PICK a \in Int, b \in Int, m \in Int, n \in Int : a = c[1] /\ b = c[2] /\ m = Len(s) /\ n = Len(t)
    BY <2>1, Zenon
  <2>3. /\ Todo(s, t, <<c[1] + 1, c[2]>>) = (m + 1 - (a + 1)) + (n + 1 - b)
        /\ Todo(s, t, <<c[1], c[2] + 1>>) = (m + 1 - a) + (n + 1 - (b + 1))
        /\ Todo(s, t, c) = (m + 1 - a) + (n + 1 - b)
    BY <1>4, <1>5, <2>2, Zenon
  <2>4. /\ (m + 1 - (a + 1)) + (n + 1 - b) = (m + 1 - a) + (n + 1 - b) - 1
        /\ (m + 1 - a) + (n + 1 - (b + 1)) = (m + 1 - a) + (n + 1 - b) - 1
    OBVIOUS
  <2> QED BY <2>3, <2>4
<1> QED BY <1>2, <1>6, <1>7

\* No merge has more to do than all of both lists.
LEMMA TodoIsNat ==
    ASSUME NEW s \in Seq(Items), NEW t \in Seq(Items), NEW c \in Cells(s, t)
    PROVE  Todo(s, t, c) \in 0..(Len(s) + Len(t))
<1>1. /\ Len(s) \in Nat /\ Len(t) \in Nat
      /\ c[1] \in 1..(Len(s) + 1) /\ c[2] \in 1..(Len(t) + 1)
  BY DEF Cells
<1>2. \A m, n \in Nat : \A a \in 1..(m + 1), b \in 1..(n + 1) : (m + 1 - a) + (n + 1 - b) \in 0..(m + n)
  OBVIOUS
<1> QED BY <1>1, <1>2, Zenon DEF Todo

\* What the merge does from the positions on that leave k items or fewer.
Mergeable(s, t, k) ==
    \E f : \A c \in Cells(s, t) : Todo(s, t, c) <= k => f[c] = Merged(s, t, f, c)

\* There is a function that says what the merge makes of each two positions.
LEMMA MergeExists ==
    ASSUME NEW s \in Seq(Items), NEW t \in Seq(Items)
    PROVE  \E f : f = [c \in Cells(s, t) |-> Merged(s, t, f, c)]
<1> DEFINE Bad == { k \in Nat : ~Mergeable(s, t, k) }
<1>1. Len(s) \in Nat /\ Len(t) \in Nat
  OBVIOUS
<1>2. Bad = {}
  <2> SUFFICES ASSUME Bad # {} PROVE FALSE
    OBVIOUS
  <2>1. PICK k \in Bad : \A j \in Bad : k <= j
    BY LeastElement
  <2>2. k \in Nat /\ ~Mergeable(s, t, k)
    OBVIOUS
  <2>3. \E f : \A c \in Cells(s, t) : Todo(s, t, c) <= k - 1 => f[c] = Merged(s, t, f, c)
    <3>1. CASE k = 0
      <4>1. \A c \in Cells(s, t) : ~(Todo(s, t, c) <= k - 1)
        BY <1>1, <3>1, TodoIsNat
      <4> QED BY <4>1
    <3>2. CASE k # 0
      <4>1. k - 1 \in Nat /\ k - 1 \notin Bad
        BY <2>1, <2>2, <3>2
      <4> QED BY <4>1 DEF Mergeable
    <3> QED BY <3>1, <3>2
  <2>4. PICK f : \A c \in Cells(s, t) : Todo(s, t, c) <= k - 1 => f[c] = Merged(s, t, f, c)
    BY <2>3
  <2> DEFINE g == [c \in Cells(s, t) |-> IF Todo(s, t, c) <= k - 1 THEN f[c] ELSE Merged(s, t, f, c)]
  <2>5. \A c \in Cells(s, t) : Todo(s, t, c) <= k => g[c] = Merged(s, t, f, c)
    BY <2>4
  <2>6. \A c \in Cells(s, t) : Todo(s, t, c) <= k - 1 => g[c] = f[c]
    OBVIOUS
  <2> HIDE DEF g
  <2>7. ASSUME NEW c \in Cells(s, t), Todo(s, t, c) <= k
        PROVE  Merged(s, t, g, c) = Merged(s, t, f, c)
    <3>1. CASE c[1] > Len(s) \/ c[2] > Len(t)
      BY <3>1 DEF Merged
    <3>2. CASE ~(c[1] > Len(s)) /\ ~(c[2] > Len(t))
      <4>1. g[<<c[1] + 1, c[2]>>] = f[<<c[1] + 1, c[2]>>]
        <5>1. <<c[1] + 1, c[2]>> \in Cells(s, t)
          BY <3>2, MergeGoesOn
        <5>2. Todo(s, t, <<c[1] + 1, c[2]>>) = Todo(s, t, c) - 1
          BY <3>2, MergeGoesOn
        <5>3. Todo(s, t, c) \in Int
          BY <1>1, TodoIsNat
        <5>4. Todo(s, t, <<c[1] + 1, c[2]>>) <= k - 1
          BY <2>2, <2>7, <5>2, <5>3
        <5> QED BY <2>6, <5>1, <5>4
      <4>2. g[<<c[1], c[2] + 1>>] = f[<<c[1], c[2] + 1>>]
        <5>1. <<c[1], c[2] + 1>> \in Cells(s, t)
          BY <3>2, MergeGoesOn
        <5>2. Todo(s, t, <<c[1], c[2] + 1>>) = Todo(s, t, c) - 1
          BY <3>2, MergeGoesOn
        <5>3. Todo(s, t, c) \in Int
          BY <1>1, TodoIsNat
        <5>4. Todo(s, t, <<c[1], c[2] + 1>>) <= k - 1
          BY <2>2, <2>7, <5>2, <5>3
        <5> QED BY <2>6, <5>1, <5>4
      <4> QED BY <4>1, <4>2 DEF Merged
    <3> QED BY <3>1, <3>2
  <2>8. \A c \in Cells(s, t) : Todo(s, t, c) <= k => g[c] = Merged(s, t, g, c)
    BY <2>5, <2>7
  <2> QED BY <2>2, <2>8 DEF Mergeable
<1>3. Mergeable(s, t, Len(s) + Len(t))
  BY <1>1, <1>2
<1>4. PICK f : \A c \in Cells(s, t) : Todo(s, t, c) <= Len(s) + Len(t) => f[c] = Merged(s, t, f, c)
  BY <1>3 DEF Mergeable
<1>5. \A c \in Cells(s, t) : Todo(s, t, c) <= Len(s) + Len(t)
  BY <1>1, TodoIsNat
<1> DEFINE g == [c \in Cells(s, t) |-> f[c]]
<1>6. \A c \in Cells(s, t) : g[c] = Merged(s, t, f, c)
  BY <1>4, <1>5
<1>7. \A c \in Cells(s, t) : g[c] = f[c]
  OBVIOUS
<1>8. DOMAIN g = Cells(s, t) /\ g = [c \in Cells(s, t) |-> g[c]]
  OBVIOUS
<1> HIDE DEF g
<1>9. \A c \in Cells(s, t) : Merged(s, t, g, c) = Merged(s, t, f, c)
  <2> SUFFICES ASSUME NEW c \in Cells(s, t) PROVE Merged(s, t, g, c) = Merged(s, t, f, c)
    OBVIOUS
  <2>1. CASE c[1] > Len(s) \/ c[2] > Len(t)
    BY <2>1 DEF Merged
  <2>2. CASE ~(c[1] > Len(s)) /\ ~(c[2] > Len(t))
    <3>1. <<c[1] + 1, c[2]>> \in Cells(s, t) /\ <<c[1], c[2] + 1>> \in Cells(s, t)
      BY <2>2, MergeGoesOn
    <3> QED BY <1>7, <3>1 DEF Merged
  <2> QED BY <2>1, <2>2
<1>10. \A c \in Cells(s, t) : g[c] = Merged(s, t, g, c)
  BY <1>6, <1>9
<1>11. g = [c \in Cells(s, t) |-> Merged(s, t, g, c)]
  BY <1>8, <1>10
<1> QED BY <1>11

\* mergeResultItems is such a function at the head of both lists.
LEMMA MergeIs ==
    ASSUME NEW s \in Seq(Items), NEW t \in Seq(Items)
    PROVE  \E f : /\ mergeResultItems(s, t) = f[<<1, 1>>]
                  /\ \A c \in Cells(s, t) : f[c] = Merged(s, t, f, c)
<1> DEFINE g == CHOOSE f : f = [c \in Cells(s, t) |-> Merged(s, t, f, c)]
<1>1. g = [c \in Cells(s, t) |-> Merged(s, t, g, c)]
  BY MergeExists
<1>2. mergeResultItems(s, t) = g[<<1, 1>>]
  BY DEF mergeResultItems, Cells, Merged
<1> HIDE DEF g
<1>3. \A c \in Cells(s, t) : g[c] = Merged(s, t, g, c)
  BY <1>1
<1> QED BY <1>2, <1>3
\* The end of a sorted list is sorted.
LEMMA EndOfList ==
    ASSUME NEW s \in Seq(Items), Ordered(s), NEW a \in 1..(Len(s) + 1)
    PROVE  LET q == SubSeq(s, a, Len(s)) IN
           /\ q \in Seq(Items) /\ Len(q) = Len(s) + 1 - a /\ Ordered(q)
           /\ \A k \in DOMAIN q : \E m \in DOMAIN s : m >= a /\ q[k] = s[m]
<1> DEFINE q == SubSeq(s, a, Len(s))
<1>1. Len(s) \in Nat /\ a \in Nat /\ DOMAIN s = 1..Len(s)
  OBVIOUS
<1>2. q \in Seq(Items) /\ Len(q) = Len(s) + 1 - a /\ DOMAIN q = 1..(Len(s) + 1 - a)
  BY <1>1
<1>3. \A k \in DOMAIN q : k \in Nat /\ a + k - 1 \in DOMAIN s /\ a + k - 1 >= a /\ q[k] = s[a + k - 1]
  BY <1>1, <1>2
<1> HIDE DEF q
<1>4. Ordered(q)
  <2> SUFFICES ASSUME NoNan, NEW k \in DOMAIN q, NEW l \in DOMAIN q, k < l PROVE Prec(q[k], q[l])
    BY DEF Ordered
  <2>1. a + k - 1 < a + l - 1
    BY <1>1, <1>3
  <2> QED BY <1>3, <2>1 DEF Ordered
<1>5. \A k \in DOMAIN q : \E m \in DOMAIN s : m >= a /\ q[k] = s[m]
  BY <1>3
<1> QED BY <1>2, <1>4, <1>5 DEF q

\* An item before all of a sorted list may go in front of it.
LEMMA ItemInFront ==
    ASSUME NEW x \in Items, NEW q \in Seq(Items), Ordered(q),
           NoNan => \A k \in DOMAIN q : Prec(x, q[k])
    PROVE  LET r == <<x>> \o q IN
           /\ r \in Seq(Items) /\ Len(r) = Len(q) + 1 /\ Ordered(r)
           /\ \A k \in DOMAIN r : r[k] = x \/ \E m \in DOMAIN q : r[k] = q[m]
<1> DEFINE r == <<x>> \o q
<1>1. r \in Seq(Items) /\ Len(r) = Len(q) + 1 /\ r[1] = x /\ Len(q) \in Nat
      /\ DOMAIN r = 1..(Len(q) + 1) /\ DOMAIN q = 1..Len(q)
  OBVIOUS
<1>2. \A k \in DOMAIN r : k # 1 => k - 1 \in DOMAIN q /\ r[k] = q[k - 1]
  BY <1>1
<1> HIDE DEF r
<1>3. Ordered(r)
  <2> SUFFICES ASSUME NoNan, NEW k \in DOMAIN r, NEW l \in DOMAIN r, k < l PROVE Prec(r[k], r[l])
    BY DEF Ordered
  <2>1. l # 1 /\ l - 1 \in DOMAIN q /\ r[l] = q[l - 1]
    BY <1>1, <1>2
  <2>2. CASE k = 1
    BY <1>1, <2>1, <2>2
  <2>3. CASE k # 1
    <3>1. k - 1 \in DOMAIN q /\ r[k] = q[k - 1] /\ k - 1 < l - 1
      BY <1>1, <1>2, <2>3
    <3> QED BY <2>1, <3>1 DEF Ordered
  <2> QED BY <2>2, <2>3
<1>4. \A k \in DOMAIN r : r[k] = x \/ \E m \in DOMAIN q : r[k] = q[m]
  BY <1>1, <1>2
<1> QED BY <1>1, <1>3, <1>4 DEF r

\* r has the items of s from i on and of t from j on, in order.
MergeOf(s, t, i0, j0, r) ==
    /\ r \in Seq(Items) /\ Ordered(r)
    /\ Len(r) = (Len(s) + 1 - i0) + (Len(t) + 1 - j0)
    /\ \A k \in DOMAIN r : \/ \E m \in DOMAIN s : m >= i0 /\ r[k] = s[m]
                           \/ \E m \in DOMAIN t : m >= j0 /\ r[k] = t[m]

\* One turn of the merge, on lists the first of which was added before.
LEMMA MergeTurn ==
    ASSUME desc \in Seq(BOOLEAN),
           NEW s \in Seq(Items), NEW t \in Seq(Items), Ordered(s), Ordered(t),
           \A k \in DOMAIN s, l \in DOMAIN t : s[k].at < t[l].at,
           NEW f, NEW c \in Cells(s, t),
           ~(c[1] > Len(s)) /\ ~(c[2] > Len(t))
             => /\ MergeOf(s, t, c[1] + 1, c[2], f[<<c[1] + 1, c[2]>>])
                /\ MergeOf(s, t, c[1], c[2] + 1, f[<<c[1], c[2] + 1>>])
    PROVE  MergeOf(s, t, c[1], c[2], Merged(s, t, f, c))
<1>0. PICK i0 \in 1..(Len(s) + 1), j0 \in 1..(Len(t) + 1) : c = <<i0, j0>>
  BY DEF Cells
<1>1. /\ Len(s) \in Nat /\ Len(t) \in Nat /\ DOMAIN s = 1..Len(s) /\ DOMAIN t = 1..Len(t)
      /\ i0 \in 1..(Len(s) + 1) /\ j0 \in 1..(Len(t) + 1) /\ i0 \in Int /\ j0 \in Int
      /\ c[1] = i0 /\ c[2] = j0
  BY <1>0
<1>5. /\ i0 > Len(s) => Merged(s, t, f, c) = SubSeq(t, j0, Len(t))
      /\ ~(i0 > Len(s)) /\ j0 > Len(t) => Merged(s, t, f, c) = SubSeq(s, i0, Len(s))
      /\ ~(i0 > Len(s)) /\ ~(j0 > Len(t)) /\ TakesFirst(s[i0], t[j0])
           => Merged(s, t, f, c) = <<s[i0]>> \o f[<<i0 + 1, j0>>]
      /\ ~(i0 > Len(s)) /\ ~(j0 > Len(t)) /\ ~TakesFirst(s[i0], t[j0])
           => Merged(s, t, f, c) = <<t[j0]>> \o f[<<i0, j0 + 1>>]
  BY <1>1 DEF Merged
<1>6. ~(i0 > Len(s)) /\ ~(j0 > Len(t))
        => /\ MergeOf(s, t, i0 + 1, j0, f[<<i0 + 1, j0>>])
           /\ MergeOf(s, t, i0, j0 + 1, f[<<i0, j0 + 1>>])
  BY <1>1
<1> SUFFICES MergeOf(s, t, i0, j0, Merged(s, t, f, c))
  BY <1>1
<1>2. CASE i0 > Len(s)
  <2> DEFINE q == SubSeq(t, j0, Len(t))
  <2>1. Merged(s, t, f, c) = q
    BY <1>2, <1>5
  <2>2. /\ q \in Seq(Items) /\ Len(q) = Len(t) + 1 - j0 /\ Ordered(q)
        /\ \A k \in DOMAIN q : \E m \in DOMAIN t : m >= j0 /\ q[k] = t[m]
    BY <1>1, EndOfList
  <2>3. Len(q) = (Len(s) + 1 - i0) + (Len(t) + 1 - j0)
    <3> HIDE DEF q
    <3>1. \A a \in Nat : \A j \in 1..(a + 1) : j > a => a + 1 - j = 0
      OBVIOUS
    <3>2. Len(s) + 1 - i0 = 0
      BY <1>1, <1>2, <3>1
    <3>3. Len(q) = Len(t) + 1 - j0 /\ Len(t) + 1 - j0 \in Int
      BY <1>1, <2>2
    <3>4. \A u, v \in Int : u = 0 => v = u + v
      OBVIOUS
    <3>5. Len(s) + 1 - i0 \in Int
      BY <1>1
    <3> QED BY <3>2, <3>3, <3>4, <3>5
  <2> HIDE DEF q
  <2>4. MergeOf(s, t, i0, j0, q)
    BY <2>2, <2>3 DEF MergeOf
  <2> QED BY <2>1, <2>4
<1>3. CASE ~(i0 > Len(s)) /\ j0 > Len(t)
  <2> DEFINE q == SubSeq(s, i0, Len(s))
  <2>1. Merged(s, t, f, c) = q
    BY <1>3, <1>5
  <2>2. /\ q \in Seq(Items) /\ Len(q) = Len(s) + 1 - i0 /\ Ordered(q)
        /\ \A k \in DOMAIN q : \E m \in DOMAIN s : m >= i0 /\ q[k] = s[m]
    BY <1>1, EndOfList
  <2>3. Len(q) = (Len(s) + 1 - i0) + (Len(t) + 1 - j0)
    <3> HIDE DEF q
    <3>1. \A a \in Nat : \A j \in 1..(a + 1) : j > a => a + 1 - j = 0
      OBVIOUS
    <3>2. Len(t) + 1 - j0 = 0
      BY <1>1, <1>3, <3>1
    <3>3. Len(q) = Len(s) + 1 - i0 /\ Len(s) + 1 - i0 \in Int
      BY <1>1, <2>2
    <3>4. \A u, v \in Int : u = 0 => v = v + u
      OBVIOUS
    <3>5. Len(t) + 1 - j0 \in Int
      BY <1>1
    <3> QED BY <3>2, <3>3, <3>4, <3>5
  <2> HIDE DEF q
  <2>4. MergeOf(s, t, i0, j0, q)
    BY <2>2, <2>3 DEF MergeOf
  <2> QED BY <2>1, <2>4
<1>4. ASSUME ~(i0 > Len(s)), ~(j0 > Len(t))
      PROVE  MergeOf(s, t, i0, j0, Merged(s, t, f, c))
  <2> DEFINE x == s[i0]
             y == t[j0]
  <2>1. i0 \in DOMAIN s /\ j0 \in DOMAIN t /\ x \in Items /\ y \in Items /\ x.at < y.at
    <3>1. i0 \in DOMAIN s /\ j0 \in DOMAIN t
      BY <1>1, <1>4
    <3> QED BY <3>1
  <2>2. ASSUME NoNan
        PROVE  /\ \A m \in DOMAIN s : m >= i0 => m = i0 \/ (i0 < m /\ Prec(x, s[m]))
               /\ \A m \in DOMAIN t : m >= j0 => m = j0 \/ (j0 < m /\ Prec(y, t[m]))
    <3>1. /\ \A m \in DOMAIN s : m >= i0 => m = i0 \/ i0 < m
          /\ \A m \in DOMAIN t : m >= j0 => m = j0 \/ j0 < m
      BY <1>1
    <3> QED BY <2>1, <2>2, <3>1 DEF Ordered
  <2>3. CASE TakesFirst(x, y)
    <3> DEFINE q == f[<<i0 + 1, j0>>]
    <3>1. Merged(s, t, f, c) = <<x>> \o q
      BY <1>4, <1>5, <2>3
    <3>2. MergeOf(s, t, i0 + 1, j0, q)
      BY <1>4, <1>6
    <3> HIDE DEF q, x, y
    <3>3. NoNan => Prec(x, y)
      BY <2>1, <2>3, CompareIs DEF TakesFirst, Prec, Typed
    <3>4. NoNan => \A k \in DOMAIN q : Prec(x, q[k])
      <4> SUFFICES ASSUME NoNan, NEW k \in DOMAIN q PROVE Prec(x, q[k])
        OBVIOUS
      <4>1. CASE \E m \in DOMAIN s : m >= i0 + 1 /\ q[k] = s[m]
        <5>1. PICK m \in DOMAIN s : m >= i0 + 1 /\ q[k] = s[m]
          BY <4>1
        <5>2. m >= i0 /\ m # i0
          BY <1>1, <5>1
        <5> QED BY <2>2, <5>1, <5>2
      <4>2. CASE \E m \in DOMAIN t : m >= j0 /\ q[k] = t[m]
        <5>1. PICK m \in DOMAIN t : m >= j0 /\ q[k] = t[m]
          BY <4>2
        <5>2. t[m] \in Items
          OBVIOUS
        <5>3. t[m] = y \/ Prec(y, t[m])
          BY <2>2, <5>1 DEF y
        <5> QED BY <2>1, <3>3, <5>1, <5>2, <5>3, PrecTransitive DEF Typed
      <4> QED BY <3>2, <4>1, <4>2 DEF MergeOf
    <3>5. q \in Seq(Items) /\ Ordered(q)
      BY <3>2 DEF MergeOf
    <3> DEFINE r == <<x>> \o q
    <3>6. /\ r \in Seq(Items) /\ Len(r) = Len(q) + 1 /\ Ordered(r)
          /\ \A k \in DOMAIN r : r[k] = x \/ \E m \in DOMAIN q : r[k] = q[m]
      BY <2>1, <3>4, <3>5, ItemInFront
    <3> HIDE DEF r
    <3>7. Len(r) = (Len(s) + 1 - i0) + (Len(t) + 1 - j0)
      <4>1. Len(q) = (Len(s) + 1 - (i0 + 1)) + (Len(t) + 1 - j0)
        BY <3>2 DEF MergeOf
      <4>2. \A a, b, m, n \in Int :
              (m + 1 - (a + 1)) + (n + 1 - b) + 1 = (m + 1 - a) + (n + 1 - b)
        OBVIOUS
      <4>3. i0 \in Int /\ j0 \in Int /\ Len(s) \in Int /\ Len(t) \in Int
        BY <1>1
      <4> QED BY <3>6, <4>1, <4>2, <4>3
    <3>8. \A k \in DOMAIN r : \/ \E m \in DOMAIN s : m >= i0 /\ r[k] = s[m]
                              \/ \E m \in DOMAIN t : m >= j0 /\ r[k] = t[m]
      <4>1. \A m \in DOMAIN q : \/ \E l \in DOMAIN s : l >= i0 /\ q[m] = s[l]
                                \/ \E l \in DOMAIN t : l >= j0 /\ q[m] = t[l]
        <5>1. \A l \in DOMAIN s : l >= i0 + 1 => l >= i0
          BY <1>1
        <5> QED BY <3>2, <5>1 DEF MergeOf
      <4>2. i0 \in DOMAIN s /\ i0 >= i0 /\ x = s[i0]
        BY <1>1, <2>1 DEF x
      <4> QED BY <3>6, <4>1, <4>2
    <3>9. MergeOf(s, t, i0, j0, r)
      BY <3>6, <3>7, <3>8 DEF MergeOf
    <3> QED BY <3>1, <3>9 DEF r
  <2>4. CASE ~TakesFirst(x, y)
    <3> DEFINE q == f[<<i0, j0 + 1>>]
    <3>1. Merged(s, t, f, c) = <<y>> \o q
      BY <1>4, <1>5, <2>4
    <3>2. MergeOf(s, t, i0, j0 + 1, q)
      BY <1>4, <1>6
    <3> HIDE DEF q, x, y
    <3>3. NoNan => Prec(y, x)
      BY <2>1, <2>4, CompareIs DEF TakesFirst, Prec, Typed
    <3>4. NoNan => \A k \in DOMAIN q : Prec(y, q[k])
      <4> SUFFICES ASSUME NoNan, NEW k \in DOMAIN q PROVE Prec(y, q[k])
        OBVIOUS
      <4>1. CASE \E m \in DOMAIN t : m >= j0 + 1 /\ q[k] = t[m]
        <5>1. PICK m \in DOMAIN t : m >= j0 + 1 /\ q[k] = t[m]
          BY <4>1
        <5>2. m >= j0 /\ m # j0
          BY <1>1, <5>1
        <5> QED BY <2>2, <5>1, <5>2
      <4>2. CASE \E m \in DOMAIN s : m >= i0 /\ q[k] = s[m]
        <5>1. PICK m \in DOMAIN s : m >= i0 /\ q[k] = s[m]
          BY <4>2
        <5>2. s[m] \in Items
          OBVIOUS
        <5>3. s[m] = x \/ Prec(x, s[m])
          BY <2>2, <5>1 DEF x
        <5> QED BY <2>1, <3>3, <5>1, <5>2, <5>3, PrecTransitive DEF Typed
      <4> QED BY <3>2, <4>1, <4>2 DEF MergeOf
    <3>5. q \in Seq(Items) /\ Ordered(q)
      BY <3>2 DEF MergeOf
    <3> DEFINE r == <<y>> \o q
    <3>6. /\ r \in Seq(Items) /\ Len(r) = Len(q) + 1 /\ Ordered(r)
          /\ \A k \in DOMAIN r : r[k] = y \/ \E m \in DOMAIN q : r[k] = q[m]
      BY <2>1, <3>4, <3>5, ItemInFront
    <3> HIDE DEF r
    <3>7. Len(r) = (Len(s) + 1 - i0) + (Len(t) + 1 - j0)
      <4>1. Len(q) = (Len(s) + 1 - i0) + (Len(t) + 1 - (j0 + 1))
        BY <3>2 DEF MergeOf
      <4>2. \A a, b, m, n \in Int :
              (m + 1 - a) + (n + 1 - (b + 1)) + 1 = (m + 1 - a) + (n + 1 - b)
        OBVIOUS
      <4>3. i0 \in Int /\ j0 \in Int /\ Len(s) \in Int /\ Len(t) \in Int
        BY <1>1
      <4> QED BY <3>6, <4>1, <4>2, <4>3
    <3>8. \A k \in DOMAIN r : \/ \E m \in DOMAIN s : m >= i0 /\ r[k] = s[m]
                              \/ \E m \in DOMAIN t : m >= j0 /\ r[k] = t[m]
      <4>1. \A m \in DOMAIN q : \/ \E l \in DOMAIN s : l >= i0 /\ q[m] = s[l]
                                \/ \E l \in DOMAIN t : l >= j0 /\ q[m] = t[l]
        <5>1. \A l \in DOMAIN t : l >= j0 + 1 => l >= j0
          BY <1>1
        <5> QED BY <3>2, <5>1 DEF MergeOf
      <4>2. j0 \in DOMAIN t /\ j0 >= j0 /\ y = t[j0]
        BY <1>1, <2>1 DEF y
      <4> QED BY <3>6, <4>1, <4>2
    <3>9. MergeOf(s, t, i0, j0, r)
      BY <3>6, <3>7, <3>8 DEF MergeOf
    <3> QED BY <3>1, <3>9 DEF r
  <2> QED BY <2>3, <2>4
<1> QED BY <1>2, <1>3, <1>4

\* The merge of two sorted lists is all of both, in order.
LEMMA MergeSorts ==
    ASSUME desc \in Seq(BOOLEAN), NEW s, NEW t,
           NEW a \in Nat, NEW b \in Nat, NEW d \in Nat, a <= b, b <= d,
           Run(s, a, b), Run(t, b, d)
    PROVE  Run(mergeResultItems(s, t), a, d)
<1>1. /\ s \in Seq(Items) /\ t \in Seq(Items) /\ Ordered(s) /\ Ordered(t)
      /\ Len(s) = b - a /\ Len(t) = d - b
      /\ \A k \in DOMAIN s : s[k].at \in (a + 1)..b /\ s[k] = added[s[k].at]
      /\ \A k \in DOMAIN t : t[k].at \in (b + 1)..d /\ t[k] = added[t[k].at]
  BY DEF Run
<1>2. \A k \in DOMAIN s, l \in DOMAIN t : s[k].at < t[l].at
  BY <1>1
<1>3. PICK f : /\ mergeResultItems(s, t) = f[<<1, 1>>]
               /\ \A c \in Cells(s, t) : f[c] = Merged(s, t, f, c)
  BY <1>1, MergeIs
<1> DEFINE Bad == { k \in Nat : \E c \in Cells(s, t) :
                       Todo(s, t, c) = k /\ ~MergeOf(s, t, c[1], c[2], f[c]) }
<1>4. Bad = {}
  <2> SUFFICES ASSUME Bad # {} PROVE FALSE
    OBVIOUS
  <2>1. PICK k \in Bad : \A j \in Bad : k <= j
    BY LeastElement
  <2>2. PICK c \in Cells(s, t) : Todo(s, t, c) = k /\ ~MergeOf(s, t, c[1], c[2], f[c])
    OBVIOUS
  <2>3. ASSUME ~(c[1] > Len(s)), ~(c[2] > Len(t))
        PROVE  /\ MergeOf(s, t, c[1] + 1, c[2], f[<<c[1] + 1, c[2]>>])
               /\ MergeOf(s, t, c[1], c[2] + 1, f[<<c[1], c[2] + 1>>])
    <3>1. /\ <<c[1] + 1, c[2]>> \in Cells(s, t) /\ <<c[1], c[2] + 1>> \in Cells(s, t)
          /\ Todo(s, t, <<c[1] + 1, c[2]>>) = k - 1 /\ Todo(s, t, <<c[1], c[2] + 1>>) = k - 1
      BY <1>1, <2>2, <2>3, MergeGoesOn
    <3>2. k - 1 \in Nat
      BY <1>1, <3>1, TodoIsNat
    <3>3. k - 1 \notin Bad
      BY <2>1, <3>2
    <3>4. \A e \in Cells(s, t) : Todo(s, t, e) = k - 1 => MergeOf(s, t, e[1], e[2], f[e])
      BY <3>2, <3>3
    <3> QED BY <3>1, <3>4
  <2> HIDE DEF Bad
  <2>4. MergeOf(s, t, c[1], c[2], Merged(s, t, f, c))
    BY <1>1, <1>2, <2>3, MergeTurn
  <2> QED BY <1>3, <2>2, <2>4
<1>5. <<1, 1>> \in Cells(s, t)
  BY <1>1 DEF Cells
<1>6. Todo(s, t, <<1, 1>>) \in Nat
  BY <1>1, <1>5, TodoIsNat
<1>7. MergeOf(s, t, 1, 1, f[<<1, 1>>])
  <2>1. MergeOf(s, t, <<1, 1>>[1], <<1, 1>>[2], f[<<1, 1>>])
    BY <1>4, <1>5, <1>6
  <2> QED BY <2>1
<1> DEFINE r == f[<<1, 1>>]
<1> HIDE DEF r
<1>8. MergeOf(s, t, 1, 1, r)
  BY <1>7 DEF r
<1>9. Len(r) = d - a
  BY <1>1, <1>8 DEF MergeOf
<1>10. \A k \in DOMAIN r : r[k].at \in (a + 1)..d /\ r[k] = added[r[k].at]
  <2> SUFFICES ASSUME NEW k \in DOMAIN r
               PROVE  r[k].at \in (a + 1)..d /\ r[k] = added[r[k].at]
    OBVIOUS
  <2>1. CASE \E m \in DOMAIN s : r[k] = s[m]
    BY <1>1, <2>1
  <2>2. CASE \E m \in DOMAIN t : r[k] = t[m]
    BY <1>1, <2>2
  <2> QED BY <1>8, <2>1, <2>2 DEF MergeOf
<1>11. r \in Seq(Items) /\ Ordered(r)
  BY <1>8 DEF MergeOf
<1>12. Run(r, a, d)
  BY <1>9, <1>10, <1>11 DEF Run
<1> QED BY <1>3, <1>12 DEF r
-----------------------------------------------------------------------------
(* The slots *)

\* Powers of two: the subsets of k + 1 things are those of k with and without
\* the last.
LEMMA PowerOfTwo ==
    /\ 2 ^ 0 = 1
    /\ \A k \in Nat : 2 ^ k \in Nat /\ 2 ^ (k + 1) = 2 ^ k + 2 ^ k
<1>1. 2 ^ 0 = 1
  OBVIOUS
<1> SUFFICES ASSUME NEW k \in Nat PROVE 2 ^ k \in Nat /\ 2 ^ (k + 1) = 2 ^ k + 2 ^ k
  BY <1>1
<1>2. IsFiniteSet(1..k) /\ Cardinality(1..k) = k
  BY FS_Interval
<1>3. IsFiniteSet(1..(k + 1)) /\ Cardinality(1..(k + 1)) = k + 1
  <2>1. 1 \in Int /\ k + 1 \in Int /\ ~(1 > k + 1) /\ k + 1 - 1 + 1 = k + 1
    OBVIOUS
  <2> QED BY <2>1, FS_Interval
<1> DEFINE P == SUBSET (1..k)
           Q == { X \cup {k + 1} : X \in P }
           f == [X \in P |-> X \cup {k + 1}]
<1>4. IsFiniteSet(P) /\ Cardinality(P) = 2 ^ k
  BY <1>2, FS_SUBSET
<1>5. IsFiniteSet(SUBSET (1..(k + 1))) /\ Cardinality(SUBSET (1..(k + 1))) = 2 ^ (k + 1)
  BY <1>3, FS_SUBSET
<1>6. k + 1 \notin 1..k /\ 1..(k + 1) = (1..k) \cup {k + 1}
  OBVIOUS
<1>7. f \in Bijection(P, Q)
  <2>1. f \in [P -> Q] /\ \A Y \in Q : \E X \in P : f[X] = Y
    OBVIOUS
  <2>2. \A X, Y \in P : f[X] = f[Y] => X = Y
    <3> SUFFICES ASSUME NEW X \in P, NEW Y \in P, f[X] = f[Y] PROVE X = Y
      OBVIOUS
    <3>1. X \cup {k + 1} = Y \cup {k + 1}
      OBVIOUS
    <3>2. k + 1 \notin X /\ k + 1 \notin Y
      BY <1>6
    <3> QED BY <3>1, <3>2
  <2> QED BY <2>1, <2>2 DEF Bijection, Injection, IsInjective, Surjection
<1>8. IsFiniteSet(Q) /\ Cardinality(Q) = Cardinality(P)
  <2>1. ExistsBijection(P, Q)
    BY <1>7 DEF ExistsBijection
  <2> QED BY <1>4, <2>1, FS_Bijection
<1>9. SUBSET (1..(k + 1)) = P \cup Q
  <2>1. ASSUME NEW Z \in SUBSET (1..(k + 1)) PROVE Z \in P \cup Q
    <3>1. CASE k + 1 \in Z
      <4>1. Z \ {k + 1} \in P
        BY <1>6
      <4>2. Z = (Z \ {k + 1}) \cup {k + 1}
        BY <3>1
      <4> QED BY <4>1, <4>2
    <3>2. CASE k + 1 \notin Z
      BY <1>6, <3>2
    <3> QED BY <3>1, <3>2
  <2>2. P \subseteq SUBSET (1..(k + 1)) /\ Q \subseteq SUBSET (1..(k + 1))
    BY <1>6
  <2> QED BY <2>1, <2>2
<1>10. P \cap Q = {}
  BY <1>6
<1> HIDE DEF P, Q
<1>11. Cardinality(P \cap Q) = 0
  BY <1>10, FS_EmptySet
<1>12. Cardinality(P \cup Q) = Cardinality(P) + Cardinality(Q) - Cardinality(P \cap Q)
  BY <1>4, <1>8, FS_Union
<1>13. Cardinality(P) \in Nat
  BY <1>4, FS_CardinalityType
<1>14. 2 ^ (k + 1) = Cardinality(P) + Cardinality(P) - 0
  BY <1>5, <1>8, <1>9, <1>11, <1>12
<1>15. \A n \in Nat : n + n - 0 = n + n
  OBVIOUS
<1> QED BY <1>4, <1>13, <1>14, <1>15
-----------------------------------------------------------------------------
(* The invariant *)

\* The list to sort and its terms.
InputRight ==
    /\ desc \in Seq(BOOLEAN) /\ uniq \in BOOLEAN
    /\ added \in Seq(Items)
    /\ \A k \in DOMAIN added : added[k].at = k

\* What is left of the list to sort: the items that were added first, backwards.
Left(s) ==
    /\ s \in Seq(Items) /\ Len(s) <= Len(added)
    /\ \A k \in DOMAIN s : s[k] = added[Len(s) + 1 - k]

\* The slots from m on hold what was added from b[m] on, 2^k items or none each.
SlotHolds(b, s, k) ==
    IF s = <<>> THEN b[k + 1] = b[k] ELSE b[k + 1] = b[k] + 2 ^ k /\ Run(s, b[k], b[k + 1])

Bounds == [0..NSlots -> Nat]

SlotsFrom(b, slots, m) ==
    /\ b[NSlots] = Len(added)
    /\ \A k \in m..(NSlots - 1) : SlotHolds(b, slots[k], k)

Idle(l, slots) ==
    /\ Left(l)
    /\ \E b \in Bounds : b[0] = Len(l) /\ SlotsFrom(b, slots, 0)

Carrying(l, slots, h, j) ==
    /\ Left(l)
    /\ j \in 0..NSlots
    /\ \A k \in 0..(j - 1) : slots[k] = <<>>
    /\ \E b \in Bounds :
        /\ b[j] = Len(l) + 2 ^ j
        /\ Run(h, Len(l), b[j])
        /\ SlotsFrom(b, slots, j)

Collecting(slots, h, j) ==
    /\ j \in 1..NSlots
    /\ \E b \in Bounds : Run(h, 0, b[j]) /\ SlotsFrom(b, slots, j)

\* s has the first of equal items only, and one for each of the items of r.
Strict(s) == NoNan => \A k, l \in DOMAIN s : k < l => Before(s[k], s[l])

Covers(s, x) == NoNan => \E k \in DOMAIN s : s[k].key = x.key /\ s[k].at <= x.at

WereAdded(s) ==
    s \in Seq(Items) /\ \A k \in DOMAIN s : s[k].at \in DOMAIN added /\ s[k] = added[s[k].at]

Unlinking(l, h, p) ==
    /\ uniq /\ Run(h, 0, Len(added))
    /\ \E n \in 1..Len(h) :
        /\ l = SubSeq(h, n + 1, Len(h))
        /\ p # <<>> /\ WereAdded(p) /\ Strict(p)
        /\ \E m \in 1..n : p[Len(p)] = h[m]
        /\ \A m \in 1..n : Covers(p, h[m])

Done(h) ==
    IF uniq
    THEN /\ WereAdded(h) /\ Strict(h)
         /\ \A m \in DOMAIN added : Covers(h, added[m])
    ELSE Run(h, 0, Len(added))

Sound ==
    /\ InputRight
    /\ aList \in [Slots -> Seq(Items)]
    /\ pc \in {"next", "carry", "collect", "uniq", "check", "sorted", "aborted", "overrun"}
    /\ pc = "next" => Idle(list, aList)
    /\ pc = "carry" => Carrying(list, aList, head, i)
    /\ pc = "collect" => Collecting(aList, head, i)
    /\ pc = "uniq" => Unlinking(list, head, prev)
    /\ pc \in {"uniq", "check", "sorted", "aborted"} => i \in Nat \ {0}
    /\ pc \in {"check", "sorted", "aborted"} => Done(head)
    /\ pc = "aborted" => ~NoNan
    /\ pc = "overrun" => Len(added) >= 2 ^ NSlots
\* What is said of the input is the same after each step.
LEMMA FrameInput ==
    ASSUME input' = input
    PROVE  InputRight' <=> InputRight
BY DEF input, InputRight, Items

\* What is said of the list and the slots of the next state is said of their
\* values there.
LEMMA FrameIdle ==
    ASSUME input' = input, NEW l, NEW slots, l = list', slots = aList'
    PROVE  Idle(list, aList)' <=> Idle(l, slots)
BY DEF input, Idle, Left, Bounds, SlotsFrom, SlotHolds, Run, Ordered, Prec, Before, Items,
       KeyLess, DocLess, ScalarLess

LEMMA FrameCarrying ==
    ASSUME input' = input, NEW l, NEW slots, NEW h, NEW j,
           l = list', slots = aList', h = head', j = i'
    PROVE  Carrying(list, aList, head, i)' <=> Carrying(l, slots, h, j)
BY DEF input, Carrying, Left, Bounds, SlotsFrom, SlotHolds, Run, Ordered, Prec, Before, Items,
       KeyLess, DocLess, ScalarLess

LEMMA FrameCollecting ==
    ASSUME input' = input, NEW slots, NEW h, NEW j, slots = aList', h = head', j = i'
    PROVE  Collecting(aList, head, i)' <=> Collecting(slots, h, j)
BY DEF input, Collecting, Bounds, SlotsFrom, SlotHolds, Run, Ordered, Prec, Before, Items,
       KeyLess, DocLess, ScalarLess

LEMMA FrameUnlinking ==
    ASSUME input' = input, NEW l, NEW h, NEW p, l = list', h = head', p = prev'
    PROVE  Unlinking(list, head, prev)' <=> Unlinking(l, h, p)
BY DEF input, Unlinking, Run, Ordered, Prec, Before, WereAdded, Strict, Covers, Items,
       KeyLess, DocLess, ScalarLess

LEMMA FrameDone ==
    ASSUME input' = input, NEW h, h = head'
    PROVE  Done(head)' <=> Done(h)
BY DEF input, Done, Run, Ordered, Prec, Before, WereAdded, Strict, Covers, Items,
       KeyLess, DocLess, ScalarLess
-----------------------------------------------------------------------------
(* What the loops do to the slots *)

\* No item makes a sorted list.
LEMMA EmptyRun ==
    ASSUME NEW a \in Nat
    PROVE  Run(<<>>, a, a)
<1>1. <<>> \in Seq(Items) /\ Len(<<>>) = a - a /\ DOMAIN <<>> = {}
  OBVIOUS
<1> QED BY <1>1 DEF Run, Ordered

\* The slots of a state are lists, and their bounds numbers.
LEMMA SlotFacts ==
    ASSUME NEW b \in Bounds, NEW slots \in [Slots -> Seq(Items)], NEW m \in 0..NSlots,
           SlotsFrom(b, slots, m), NEW k \in m..(NSlots - 1)
    PROVE  /\ k \in Slots /\ k \in Nat /\ k + 1 \in 0..NSlots /\ b[k] \in Nat /\ b[k + 1] \in Nat
           /\ slots[k] \in Seq(Items)
           /\ slots[k] = <<>> => b[k + 1] = b[k]
           /\ slots[k] # <<>> => b[k + 1] = b[k] + 2 ^ k
           /\ b[k] <= b[k + 1]
           /\ Run(slots[k], b[k], b[k + 1])
<1>1. k \in Slots /\ k \in Nat /\ k \in 0..NSlots /\ k + 1 \in 0..NSlots
  BY BoundsAssumption DEF Slots
<1>2. b[k] \in Nat /\ b[k + 1] \in Nat /\ slots[k] \in Seq(Items)
  BY <1>1 DEF Bounds
<1>3. SlotHolds(b, slots[k], k)
  BY DEF SlotsFrom
<1>4. 2 ^ k \in Nat
  BY <1>1, PowerOfTwo
<1>5. CASE slots[k] = <<>>
  BY <1>1, <1>2, <1>3, <1>5, EmptyRun DEF SlotHolds
<1>6. CASE slots[k] # <<>>
  BY <1>1, <1>2, <1>3, <1>4, <1>6 DEF SlotHolds
<1> QED BY <1>5, <1>6

\* The item in hand is the last of what was left, a run of its own.
LEMMA TakeItemStep ==
    ASSUME InputRight, NEW l, NEW slots \in [Slots -> Seq(Items)], Idle(l, slots), l # <<>>
    PROVE  Carrying(Tail(l), slots, <<Head(l)>>, 0)
<1> DEFINE h == <<Head(l)>>
           r == Tail(l)
<1>1. /\ l \in Seq(Items) /\ Len(l) \in Nat /\ Len(l) > 0 /\ Len(l) <= Len(added)
      /\ Len(added) \in Nat /\ DOMAIN added = 1..Len(added) /\ DOMAIN l = 1..Len(l)
      /\ \A k \in DOMAIN l : l[k] = added[Len(l) + 1 - k]
  BY DEF Idle, Left, InputRight
<1>2. PICK b \in Bounds : b[0] = Len(l) /\ SlotsFrom(b, slots, 0)
  BY DEF Idle
<1>3. /\ r \in Seq(Items) /\ Len(r) = Len(l) - 1 /\ DOMAIN r = 1..Len(r)
      /\ \A k \in DOMAIN r : r[k] = l[k + 1]
  BY <1>1
<1>4. Head(l) = l[1] /\ Head(l) \in Items
  BY <1>1
<1>5. h \in Seq(Items) /\ Len(h) = 1 /\ h[1] = l[1] /\ DOMAIN h = 1..1
  BY <1>4
<1> HIDE DEF h, r
<1>6. l[1] = added[Len(l)] /\ added[Len(l)].at = Len(l)
  <2>1. 1 \in DOMAIN l /\ Len(l) + 1 - 1 = Len(l) /\ Len(l) \in DOMAIN added
    BY <1>1
  <2> QED BY <1>1, <2>1 DEF InputRight
<1>7. Run(h, Len(r), Len(l))
  <2>1. Len(h) = Len(l) - Len(r)
    BY <1>1, <1>3, <1>5
  <2>2. \A k \in DOMAIN h : h[k].at \in (Len(r) + 1)..Len(l) /\ h[k] = added[h[k].at]
    <3>1. Len(l) \in (Len(r) + 1)..Len(l)
      BY <1>1, <1>3
    <3> QED BY <1>5, <1>6, <3>1
  <2>3. Ordered(h)
    BY <1>5 DEF Ordered
  <2> QED BY <1>5, <2>1, <2>2, <2>3 DEF Run
<1>8. Left(r)
  <2>1. Len(r) <= Len(added)
    BY <1>1, <1>3
  <2>2. \A k \in DOMAIN r : r[k] = added[Len(r) + 1 - k]
    <3> SUFFICES ASSUME NEW k \in DOMAIN r PROVE r[k] = added[Len(r) + 1 - k]
      OBVIOUS
    <3>1. k + 1 \in DOMAIN l /\ Len(l) + 1 - (k + 1) = Len(r) + 1 - k
      BY <1>1, <1>3
    <3> QED BY <1>1, <1>3, <3>1
  <2> QED BY <1>3, <2>1, <2>2 DEF Left
<1>9. b[0] = Len(r) + 2 ^ 0
  BY <1>1, <1>2, <1>3, PowerOfTwo
<1>10. 0 \in 0..NSlots /\ 0..(0 - 1) = {}
  BY BoundsAssumption
<1>11. Carrying(r, slots, h, 0)
  <2>1. \E c \in Bounds : c[0] = Len(r) + 2 ^ 0 /\ Run(h, Len(r), c[0]) /\ SlotsFrom(c, slots, 0)
    BY <1>2, <1>7, <1>9
  <2> QED BY <1>8, <1>10, <2>1 DEF Carrying
<1> QED BY <1>11 DEF h, r

\* The list in hand takes in that of a slot, and is as long as one of the next.
LEMMA MergeSlotStep ==
    ASSUME InputRight, NEW l, NEW h, NEW j, NEW slots \in [Slots -> Seq(Items)],
           Carrying(l, slots, h, j), j < NSlots, slots[j] # <<>>,
           NEW slots2, slots2 = [slots EXCEPT ![j] = <<>>]
    PROVE  Carrying(l, slots2, mergeResultItems(h, slots[j]), j + 1)
<1>1. /\ Left(l) /\ j \in 0..NSlots /\ Len(l) \in Nat
      /\ \A k \in 0..(j - 1) : slots[k] = <<>>
  BY DEF Carrying, Left
<1>2. PICK b \in Bounds : b[j] = Len(l) + 2 ^ j /\ Run(h, Len(l), b[j]) /\ SlotsFrom(b, slots, j)
  BY DEF Carrying
<1>3. j \in j..(NSlots - 1) /\ j \in Nat /\ j + 1 \in 0..NSlots
  BY <1>1, BoundsAssumption
<1>4. /\ j \in Slots /\ b[j] \in Nat /\ b[j + 1] \in Nat
      /\ b[j + 1] = b[j] + 2 ^ j /\ b[j] <= b[j + 1] /\ Run(slots[j], b[j], b[j + 1])
  BY <1>1, <1>2, <1>3, SlotFacts
<1>5. 2 ^ j \in Nat /\ 2 ^ (j + 1) = 2 ^ j + 2 ^ j
  BY <1>3, PowerOfTwo
<1>6. b[j + 1] = Len(l) + 2 ^ (j + 1) /\ Len(l) <= b[j]
  <2>1. \A u, v \in Nat : (u + v) + v = u + (v + v) /\ u <= u + v
    OBVIOUS
  <2> QED BY <1>1, <1>2, <1>4, <1>5, <2>1
<1>7. Run(mergeResultItems(h, slots[j]), Len(l), b[j + 1])
  <2>1. desc \in Seq(BOOLEAN)
    BY DEF InputRight
  <2> QED BY <1>1, <1>2, <1>4, <1>6, <2>1, MergeSorts
<1>8. \A k \in Slots : slots2[k] = IF k = j THEN <<>> ELSE slots[k]
  OBVIOUS
<1>9. \A k \in 0..j : slots2[k] = <<>>
  <2> SUFFICES ASSUME NEW k \in 0..j PROVE slots2[k] = <<>>
    OBVIOUS
  <2>1. k \in Slots /\ (k = j \/ k \in 0..(j - 1))
    BY <1>3, BoundsAssumption DEF Slots
  <2> QED BY <1>1, <1>8, <2>1
<1>10. SlotsFrom(b, slots2, j + 1)
  <2> SUFFICES ASSUME NEW k \in (j + 1)..(NSlots - 1) PROVE SlotHolds(b, slots2[k], k)
    BY <1>2 DEF SlotsFrom
  <2>1. k \in j..(NSlots - 1) /\ k \in Slots /\ k # j
    BY <1>3, BoundsAssumption DEF Slots
  <2>2. slots2[k] = slots[k]
    BY <1>8, <2>1
  <2> QED BY <1>2, <2>1, <2>2 DEF SlotsFrom
<1>11. (j + 1) - 1 = j
  BY <1>3
<1> QED BY <1>1, <1>2, <1>3, <1>6, <1>7, <1>9, <1>10, <1>11 DEF Carrying

\* The list in hand goes into an empty slot, behind which nothing changes.
LEMMA FillSlotStep ==
    ASSUME InputRight, NEW l, NEW h, NEW j, NEW slots \in [Slots -> Seq(Items)],
           Carrying(l, slots, h, j), j < NSlots, slots[j] = <<>>,
           NEW slots2, slots2 = [slots EXCEPT ![j] = h]
    PROVE  Idle(l, slots2) /\ slots2 \in [Slots -> Seq(Items)]
<1>1. /\ Left(l) /\ j \in 0..NSlots /\ Len(l) \in Nat
      /\ \A k \in 0..(j - 1) : slots[k] = <<>>
  BY DEF Carrying, Left
<1>2. PICK b \in Bounds : b[j] = Len(l) + 2 ^ j /\ Run(h, Len(l), b[j]) /\ SlotsFrom(b, slots, j)
  BY DEF Carrying
<1>3. j \in j..(NSlots - 1) /\ j \in Nat /\ j + 1 \in 0..NSlots /\ j \in Slots /\ NSlots \in Nat
  BY <1>1, BoundsAssumption DEF Slots
<1>4. b[j] \in Nat /\ b[j + 1] = b[j]
  BY <1>1, <1>2, <1>3, SlotFacts
<1>5. h \in Seq(Items) /\ h # <<>>
  <2>1. h \in Seq(Items) /\ Len(h) = b[j] - Len(l)
    BY <1>2 DEF Run
  <2>2. 2 ^ j \in Nat /\ 2 ^ j # 0
    <3> DEFINE Zero == { k \in Nat : 2 ^ k = 0 }
    <3>1. Zero = {}
      <4> SUFFICES ASSUME Zero # {} PROVE FALSE
        OBVIOUS
      <4>1. PICK k \in Zero : \A m \in Zero : k <= m
        BY LeastElement
      <4>2. k \in Nat /\ k # 0 /\ 2 ^ k = 0
        <5>1. k \in Nat /\ 2 ^ k = 0
          OBVIOUS
        <5>2. ASSUME k = 0 PROVE FALSE
          <6>1. 2 ^ 0 = 0
            BY <5>1, <5>2
          <6> QED BY <6>1
        <5> QED BY <5>1, <5>2
      <4>3. k - 1 \in Nat /\ (k - 1) + 1 = k /\ k - 1 \notin Zero
        BY <4>1, <4>2
      <4>4. 2 ^ (k - 1) \in Nat /\ 2 ^ (k - 1) # 0 /\ 2 ^ k = 2 ^ (k - 1) + 2 ^ (k - 1)
        BY <4>3, PowerOfTwo
      <4> QED BY <4>2, <4>4
    <3> QED BY <1>3, <3>1, PowerOfTwo
  <2>3. \A u, v \in Nat : (u + v) - u = v
    OBVIOUS
  <2>4. Len(h) # 0
    BY <1>1, <1>2, <2>1, <2>2, <2>3
  <2> QED BY <2>1, <2>4
<1>6. /\ slots2 \in [Slots -> Seq(Items)]
      /\ \A k \in Slots : slots2[k] = IF k = j THEN h ELSE slots[k]
  BY <1>5
<1> DEFINE c == [k \in 0..NSlots |-> IF k <= j THEN Len(l) ELSE b[k]]
<1>7. c \in Bounds
  <2>1. \A k \in 0..NSlots : b[k] \in Nat
    BY <1>2 DEF Bounds
  <2> QED BY <1>1, <2>1 DEF Bounds
<1>8. /\ \A k \in 0..NSlots : k <= j => c[k] = Len(l)
      /\ \A k \in 0..NSlots : ~(k <= j) => c[k] = b[k]
  OBVIOUS
<1> HIDE DEF c
<1>9. c[0] = Len(l) /\ c[NSlots] = Len(added)
  <2>1. 0 \in 0..NSlots /\ 0 <= j /\ NSlots \in 0..NSlots /\ ~(NSlots <= j)
    BY <1>3
  <2> QED BY <1>2, <1>8, <2>1 DEF SlotsFrom
<1>10. ASSUME NEW k \in 0..(NSlots - 1) PROVE SlotHolds(c, slots2[k], k)
  <2>1. k \in Slots /\ k \in 0..NSlots /\ k + 1 \in 0..NSlots /\ k \in Nat
    BY <1>3 DEF Slots
  <2>2. CASE k < j
    <3>1. slots2[k] = <<>> /\ c[k] = Len(l) /\ c[k + 1] = Len(l)
      <4>1. k # j /\ k <= j /\ k + 1 <= j /\ k \in 0..(j - 1)
        BY <1>3, <2>1, <2>2
      <4> QED BY <1>1, <1>6, <1>8, <2>1, <4>1
    <3> QED BY <3>1 DEF SlotHolds
  <2>3. CASE k = j
    <3>1. slots2[k] = h /\ c[k] = Len(l) /\ c[k + 1] = b[k + 1]
      <4>1. k <= j /\ ~(k + 1 <= j)
        BY <1>3, <2>1, <2>3
      <4> QED BY <1>6, <1>8, <2>1, <2>3, <4>1
    <3> QED BY <1>2, <1>4, <1>5, <2>3, <3>1 DEF SlotHolds
  <2>4. CASE k > j
    <3>1. k # j /\ ~(k <= j) /\ ~(k + 1 <= j) /\ k \in j..(NSlots - 1)
      BY <1>3, <2>1, <2>4
    <3>2. slots2[k] = slots[k] /\ c[k] = b[k] /\ c[k + 1] = b[k + 1]
      BY <1>6, <1>8, <2>1, <3>1
    <3>3. SlotHolds(b, slots[k], k)
      BY <1>2, <3>1 DEF SlotsFrom
    <3> QED BY <3>2, <3>3 DEF SlotHolds
  <2> QED BY <1>3, <2>1, <2>2, <2>3, <2>4
<1>11. SlotsFrom(c, slots2, 0)
  BY <1>9, <1>10 DEF SlotsFrom
<1> QED BY <1>1, <1>6, <1>7, <1>9, <1>11 DEF Idle

\* The list in hand that finds all slots full is too long for them.
LEMMA ReadPastSlotsStep ==
    ASSUME NEW l, NEW h, NEW j, NEW slots, Carrying(l, slots, h, j), j >= NSlots
    PROVE  Len(added) >= 2 ^ NSlots
<1>1. j = NSlots /\ Len(l) \in Nat /\ NSlots \in Nat
  BY BoundsAssumption DEF Carrying, Left
<1>2. PICK b \in Bounds : b[j] = Len(l) + 2 ^ j /\ SlotsFrom(b, slots, j)
  BY DEF Carrying
<1>3. Len(added) = Len(l) + 2 ^ NSlots
  BY <1>1, <1>2 DEF SlotsFrom
<1>4. 2 ^ NSlots \in Nat
  BY <1>1, PowerOfTwo
<1>5. \A u, v \in Nat : u + v >= v
  OBVIOUS
<1> QED BY <1>1, <1>3, <1>4, <1>5

\* The first slot is the list in hand.
LEMMA CollectFirstStep ==
    ASSUME InputRight, NEW slots \in [Slots -> Seq(Items)], Idle(<<>>, slots)
    PROVE  Collecting(slots, slots[0], 1)
<1>1. PICK b \in Bounds : b[0] = Len(<<>>) /\ SlotsFrom(b, slots, 0)
  BY DEF Idle
<1>2. b[0] = 0 /\ 0 \in 0..(NSlots - 1) /\ 0 \in 0..NSlots /\ 0 + 1 = 1 /\ 1 \in 1..NSlots
  BY <1>1, BoundsAssumption
<1>3. Run(slots[0], b[0], b[0 + 1])
  BY <1>1, <1>2, SlotFacts
<1>4. SlotsFrom(b, slots, 1)
  <2>1. \A k \in 1..(NSlots - 1) : k \in 0..(NSlots - 1)
    BY BoundsAssumption
  <2> QED BY <1>1, <2>1 DEF SlotsFrom
<1> QED BY <1>2, <1>3, <1>4 DEF Collecting

\* The list in hand takes in the slots one by one.
LEMMA CollectSlotStep ==
    ASSUME InputRight, NEW h, NEW j, NEW slots \in [Slots -> Seq(Items)],
           Collecting(slots, h, j), j < NSlots
    PROVE  Collecting(slots, mergeResultItems(h, slots[j]), j + 1)
<1>1. PICK b \in Bounds : Run(h, 0, b[j]) /\ SlotsFrom(b, slots, j)
  BY DEF Collecting
<1>2. j \in j..(NSlots - 1) /\ j \in 0..NSlots /\ j + 1 \in 1..NSlots /\ j \in Nat /\ NSlots \in Nat
  BY BoundsAssumption DEF Collecting
<1>3. b[j] \in Nat /\ b[j + 1] \in Nat /\ b[j] <= b[j + 1] /\ Run(slots[j], b[j], b[j + 1])
  BY <1>1, <1>2, SlotFacts
<1>4. Run(mergeResultItems(h, slots[j]), 0, b[j + 1])
  <2>1. desc \in Seq(BOOLEAN) /\ 0 <= b[j]
    BY <1>3 DEF InputRight
  <2> QED BY <1>1, <1>3, <2>1, MergeSorts
<1>5. SlotsFrom(b, slots, j + 1)
  <2>1. \A k \in (j + 1)..(NSlots - 1) : k \in j..(NSlots - 1)
    BY <1>2
  <2> QED BY <1>1, <2>1 DEF SlotsFrom
<1> QED BY <1>1, <1>2, <1>4, <1>5 DEF Collecting
-----------------------------------------------------------------------------
(* What the last loops do to the sorted list *)

\* An item does not come before itself.
LEMMA PrecIrreflexive ==
    ASSUME Typed, NEW x \in Items
    PROVE  ~Prec(x, x)
<1>1. x.at \in Nat
  BY DEF Items
<1> QED BY <1>1, BeforeOrder DEF Prec

\* A sorted list of as many items as were added has them all.
LEMMA RunHasAll ==
    ASSUME desc \in Seq(BOOLEAN), NoNan, NEW s, NEW a \in Nat, NEW b \in Nat, Run(s, a, b)
    PROVE  \A n \in (a + 1)..b : \E k \in DOMAIN s : s[k].at = n
<1> DEFINE A == (a + 1)..b
           f == [k \in DOMAIN s |-> s[k].at]
<1>1. /\ s \in Seq(Items) /\ Len(s) = b - a /\ Len(s) \in Nat /\ DOMAIN s = 1..Len(s)
      /\ \A k \in DOMAIN s : s[k] \in Items /\ s[k].at \in A /\ s[k] = added[s[k].at]
      /\ \A k, l \in DOMAIN s : k < l => Prec(s[k], s[l])
  BY DEF Run, Ordered
<1>2. \A k, l \in DOMAIN s : s[k].at = s[l].at => k = l
  <2> SUFFICES ASSUME NEW k \in DOMAIN s, NEW l \in DOMAIN s, s[k].at = s[l].at, k # l
               PROVE  FALSE
    OBVIOUS
  <2>1. s[k] = s[l]
    <3>1. s[k] = added[s[k].at] /\ s[l] = added[s[l].at]
      BY <1>1
    <3> QED BY <3>1
  <2>2. k < l \/ l < k
    BY <1>1
  <2>3. Prec(s[k], s[k])
    BY <1>1, <2>1, <2>2
  <2> QED BY <1>1, <2>3, PrecIrreflexive DEF Typed
<1>3. f \in Injection(DOMAIN s, A)
  BY <1>1, <1>2 DEF Injection, IsInjective
<1>4. IsFiniteSet(DOMAIN s) /\ Cardinality(DOMAIN s) = Len(s)
  <2>1. 1 \in Int /\ Len(s) \in Int /\ (IF 1 > Len(s) THEN 0 ELSE Len(s) - 1 + 1) = Len(s)
    BY <1>1
  <2> QED BY <1>1, <2>1, FS_Interval
<1>5. IsFiniteSet(A) /\ Cardinality(A) = Len(s)
  <2>1. /\ a + 1 \in Int /\ b \in Int
        /\ (IF a + 1 > b THEN 0 ELSE b - (a + 1) + 1) = Len(s)
    BY <1>1
  <2> QED BY <2>1, FS_Interval
<1>6. f \in Surjection(DOMAIN s, A)
  BY <1>3, <1>4, <1>5, FS_Injection
<1>7. \A n \in A : \E k \in DOMAIN s : f[k] = n
  BY <1>6 DEF Surjection
<1> QED BY <1>7

\* When all slots are taken in, the list in hand is all that was added.
LEMMA CollectedStep ==
    ASSUME InputRight, NEW slots, NEW h, Collecting(slots, h, NSlots)
    PROVE  /\ uniq /\ h # <<>> => Unlinking(Tail(h), h, <<Head(h)>>)
           /\ ~(uniq /\ h # <<>>) => Done(h)
<1>1. Run(h, 0, Len(added))
  BY DEF Collecting, SlotsFrom
<1>2. /\ h \in Seq(Items) /\ Len(h) = Len(added) /\ Len(h) \in Nat /\ DOMAIN h = 1..Len(h)
      /\ DOMAIN added = 1..Len(added)
      /\ \A k \in DOMAIN h : h[k] \in Items /\ h[k].at \in DOMAIN added /\ h[k] = added[h[k].at]
  BY <1>1 DEF Run, InputRight
<1>3. ASSUME uniq, h # <<>> PROVE Unlinking(Tail(h), h, <<Head(h)>>)
  <2> DEFINE q == <<Head(h)>>
  <2>1. 1 \in DOMAIN h /\ 1 \in 1..Len(h) /\ Head(h) = h[1]
    BY <1>2, <1>3
  <2>2. q \in Seq(Items) /\ q # <<>> /\ Len(q) = 1 /\ DOMAIN q = 1..1 /\ q[1] = h[1]
    BY <1>2, <2>1
  <2>3. Tail(h) = SubSeq(h, 1 + 1, Len(h))
    BY <1>2, <1>3
  <2> HIDE DEF q
  <2>4. WereAdded(q) /\ Strict(q)
    BY <1>2, <2>1, <2>2 DEF WereAdded, Strict
  <2>5. \E m \in 1..1 : q[Len(q)] = h[m]
    BY <2>2
  <2>6. \A m \in 1..1 : Covers(q, h[m])
    <3>1. h[1].at \in Nat
      BY <1>2, <2>1 DEF Items
    <3> QED BY <2>2, <3>1 DEF Covers
  <2>7. Unlinking(Tail(h), h, q)
    BY <1>1, <1>3, <2>1, <2>2, <2>3, <2>4, <2>5, <2>6 DEF Unlinking
  <2> QED BY <2>7 DEF q
<1>4. ASSUME ~(uniq /\ h # <<>>) PROVE Done(h)
  <2>1. CASE ~uniq
    BY <1>1, <2>1 DEF Done
  <2>2. CASE h = <<>>
    <3>1. DOMAIN added = {} /\ DOMAIN h = {}
      BY <1>2, <2>2
    <3>2. WereAdded(h) /\ Strict(h)
      BY <1>2, <3>1 DEF WereAdded, Strict
    <3> QED BY <1>1, <3>1, <3>2 DEF Done
  <2> QED BY <1>4, <2>1, <2>2
<1> QED BY <1>3, <1>4

\* An item is kept if it is not equal to the last one that was.
LEMMA UniqStepStep ==
    ASSUME InputRight, NEW l, NEW h, NEW p, Unlinking(l, h, p), l # <<>>,
           NEW q, q = IF cmpResultItem(p[Len(p)], Head(l)) = 0 THEN p ELSE Append(p, Head(l))
    PROVE  Unlinking(Tail(l), h, q)
<1>1. uniq /\ Run(h, 0, Len(added))
  BY DEF Unlinking
<1>2. PICK n \in 1..Len(h) :
        /\ l = SubSeq(h, n + 1, Len(h))
        /\ p # <<>> /\ WereAdded(p) /\ Strict(p)
        /\ \E m \in 1..n : p[Len(p)] = h[m]
        /\ \A m \in 1..n : Covers(p, h[m])
  BY DEF Unlinking
<1>3. /\ h \in Seq(Items) /\ Len(h) = Len(added) /\ Len(h) \in Nat /\ DOMAIN h = 1..Len(h)
      /\ DOMAIN added = 1..Len(added)
      /\ \A k \in DOMAIN h : h[k] \in Items /\ h[k].at \in DOMAIN added /\ h[k] = added[h[k].at]
      /\ NoNan => \A k, m \in DOMAIN h : k < m => Prec(h[k], h[m])
  BY <1>1 DEF Run, Ordered, InputRight
<1> DEFINE x == h[n + 1]
           last == p[Len(p)]
<1>4. n + 1 \in 1..Len(h) /\ n \in Nat /\ Head(l) = x /\ Tail(l) = SubSeq(h, (n + 1) + 1, Len(h))
  <2>1. n + 1 <= Len(h)
    BY <1>2, <1>3
  <2>2. n \in Nat /\ n + 1 \in 1..Len(h)
    BY <1>3, <2>1
  <2> QED BY <1>2, <1>3, <2>2
<1>5. /\ p \in Seq(Items) /\ Len(p) \in Nat /\ Len(p) > 0 /\ DOMAIN p = 1..Len(p)
      /\ Len(p) \in DOMAIN p
      /\ \A k \in DOMAIN p : p[k] \in Items /\ p[k].at \in DOMAIN added /\ p[k] = added[p[k].at]
  <2>1. p \in Seq(Items) /\ p # <<>>
    BY <1>2 DEF WereAdded
  <2>2. Len(p) \in Nat /\ Len(p) > 0 /\ DOMAIN p = 1..Len(p) /\ Len(p) \in DOMAIN p
    BY <2>1
  <2> QED BY <1>2, <2>1, <2>2 DEF WereAdded
<1>6. x \in Items /\ last \in Items /\ x.at \in Nat /\ last.at \in Nat
  BY <1>3, <1>4, <1>5 DEF Items
<1>7. NoNan => Prec(last, x)
  <2>1. PICK m \in 1..n : last = h[m]
    BY <1>2
  <2>2. m \in DOMAIN h /\ n + 1 \in DOMAIN h /\ m < n + 1
    BY <1>3, <1>4
  <2> QED BY <1>3, <2>1, <2>2
<1>8. \A m \in 1..(n + 1) : m = n + 1 \/ m \in 1..n
  BY <1>4
<1>9. \A m \in 1..n : m \in 1..(n + 1)
  BY <1>4
<1> HIDE DEF x, last
<1>10. CASE cmpResultItem(last, x) = 0
  <2>1. q = p
    BY <1>4, <1>10 DEF last
  <2>2. Covers(p, x)
    <3> SUFFICES ASSUME NoNan PROVE \E k \in DOMAIN p : p[k].key = x.key /\ p[k].at <= x.at
      BY DEF Covers
    <3>1. Typed
      BY DEF Typed, InputRight
    <3>2. last.key = x.key
      BY <1>6, <1>10, <3>1, CompareIs
    <3>3. ~Before(last, x)
      BY <1>6, <3>1, <3>2, BeforeOrder
    <3>4. last.at <= x.at
      BY <1>6, <1>7, <3>3 DEF Prec
    <3> QED BY <1>5, <3>2, <3>4 DEF last
  <2>3. \A m \in 1..(n + 1) : Covers(p, h[m])
    BY <1>2, <1>8, <2>2 DEF x
  <2>4. \E m \in 1..(n + 1) : p[Len(p)] = h[m]
    BY <1>2, <1>9
  <2> QED BY <1>1, <1>2, <1>4, <2>1, <2>3, <2>4 DEF Unlinking
<1>11. CASE cmpResultItem(last, x) # 0
  <2>1. q = Append(p, x)
    BY <1>4, <1>11 DEF last
  <2>2. /\ q \in Seq(Items) /\ Len(q) = Len(p) + 1 /\ DOMAIN q = 1..(Len(p) + 1) /\ q # <<>>
        /\ q[Len(p) + 1] = x
        /\ \A k \in DOMAIN p : q[k] = p[k]
    BY <1>5, <1>6, <2>1
  <2>3. \A k \in DOMAIN q : k = Len(p) + 1 \/ k \in DOMAIN p
    BY <1>5, <2>2
  <2>4. WereAdded(q)
    <3>1. x.at \in DOMAIN added /\ x = added[x.at]
      BY <1>3, <1>4 DEF x
    <3> QED BY <1>5, <2>2, <2>3, <3>1 DEF WereAdded
  <2>5. Strict(q)
    <3> SUFFICES ASSUME NoNan, NEW k \in DOMAIN q, NEW m \in DOMAIN q, k < m
                 PROVE  Before(q[k], q[m])
      BY DEF Strict
    <3>1. Typed
      BY DEF Typed, InputRight
    <3>2. last.key # x.key
      BY <1>6, <1>11, <3>1, CompareIs
    <3>3. Before(last, x)
      BY <1>6, <1>7, <3>1, <3>2, BeforeOrder DEF Prec
    <3>4. k \in DOMAIN p /\ (m \in DOMAIN p \/ m = Len(p) + 1)
      BY <1>5, <2>2, <2>3
    <3>5. CASE m \in DOMAIN p
      <4>1. Before(p[k], p[m])
        BY <1>2, <3>4, <3>5 DEF Strict
      <4> QED BY <2>2, <3>4, <3>5, <4>1
    <3>6. CASE m = Len(p) + 1
      <4>1. k = Len(p) \/ k < Len(p)
        BY <1>5, <3>4
      <4>2. p[k] = last \/ Before(p[k], last)
        BY <1>2, <1>5, <3>4, <4>1 DEF Strict, last
      <4>3. Before(p[k], x)
        BY <1>5, <1>6, <3>1, <3>3, <3>4, <4>2, BeforeTransitive
      <4> QED BY <2>2, <3>4, <3>6, <4>3
    <3> QED BY <3>4, <3>5, <3>6
  <2>6. \A m \in 1..(n + 1) : Covers(q, h[m])
    <3> SUFFICES ASSUME NEW m \in 1..(n + 1) PROVE Covers(q, h[m])
      OBVIOUS
    <3>1. CASE m = n + 1
      <4>1. Len(p) + 1 \in DOMAIN q /\ q[Len(p) + 1].at <= x.at
        BY <1>5, <1>6, <2>2
      <4>2. Covers(q, x)
        BY <2>2, <4>1 DEF Covers
      <4> QED BY <3>1, <4>2 DEF x
    <3>2. CASE m \in 1..n
      <4>1. Covers(p, h[m])
        BY <1>2, <3>2
      <4>2. \A k \in DOMAIN p : k \in DOMAIN q
        BY <1>5, <2>2
      <4> QED BY <2>2, <4>1, <4>2 DEF Covers
    <3> QED BY <1>8, <3>1, <3>2
  <2>7. \E m \in 1..(n + 1) : q[Len(q)] = h[m]
    <3>1. n + 1 \in 1..(n + 1)
      BY <1>4
    <3> QED BY <2>2, <3>1 DEF x
  <2> QED BY <1>1, <1>4, <2>2, <2>4, <2>5, <2>6, <2>7 DEF Unlinking
<1> QED BY <1>10, <1>11

\* At the end of the list there is one of each.
LEMMA UniqEndStep ==
    ASSUME InputRight, NEW h, NEW p, Unlinking(<<>>, h, p)
    PROVE  Done(p)
<1>1. uniq /\ Run(h, 0, Len(added))
  BY DEF Unlinking
<1>2. PICK n \in 1..Len(h) :
        /\ <<>> = SubSeq(h, n + 1, Len(h))
        /\ WereAdded(p) /\ Strict(p)
        /\ \A m \in 1..n : Covers(p, h[m])
  BY DEF Unlinking
<1>3. /\ h \in Seq(Items) /\ Len(h) \in Nat /\ DOMAIN h = 1..Len(h) /\ n \in Nat
      /\ Len(added) \in Nat /\ DOMAIN added = 1..Len(added)
      /\ \A k \in DOMAIN h : h[k] = added[h[k].at]
  BY <1>1 DEF Run, InputRight
<1>4. n = Len(h)
  <2>1. Len(SubSeq(h, n + 1, Len(h))) = 0
    BY <1>2
  <2>2. n + 1 <= Len(h) => Len(SubSeq(h, n + 1, Len(h))) = Len(h) - n
    BY <1>3
  <2> QED BY <1>3, <2>1, <2>2
<1>5. \A m \in DOMAIN added : Covers(p, added[m])
  <2> SUFFICES ASSUME NEW m \in DOMAIN added, NoNan PROVE Covers(p, added[m])
    BY DEF Covers
  <2>1. PICK k \in DOMAIN h : h[k].at = m
    <3>1. 0 \in Nat /\ m \in (0 + 1)..Len(added)
      BY <1>3
    <3>2. desc \in Seq(BOOLEAN)
      BY DEF InputRight
    <3> QED BY <1>1, <1>3, <3>1, <3>2, RunHasAll
  <2>2. k \in 1..n /\ h[k] = added[m]
    BY <1>3, <1>4, <2>1
  <2> QED BY <1>2, <2>2
<1> QED BY <1>1, <1>2, <1>5 DEF Done

\* The order that the last loop asserts.
LEMMA DoneInOrder ==
    ASSUME InputRight, NoNan, NEW h, Done(h), NEW j \in Nat \ {0}, j < Len(h)
    PROVE  InOrder(h[j], h[j + 1])
<1>1. h \in Seq(Items)
  BY DEF Done, WereAdded, Run
<1>2. /\ j \in DOMAIN h /\ j + 1 \in DOMAIN h /\ j < j + 1
      /\ h[j] \in Items /\ h[j + 1] \in Items
  BY <1>1
<1>3. Typed
  BY DEF Typed, InputRight
<1>4. CASE uniq
  <2>1. Before(h[j], h[j + 1])
    BY <1>2, <1>4 DEF Done, Strict
  <2>2. cmpResultItem(h[j], h[j + 1]) <= -1
    BY <1>2, <1>3, <2>1, CompareIs
  <2> QED BY <1>4, <2>2 DEF InOrder
<1>5. CASE ~uniq
  <2>1. Prec(h[j], h[j + 1])
    BY <1>2, <1>5 DEF Done, Run, Ordered
  <2>2. ~Before(h[j + 1], h[j])
    BY <1>2, <1>3, <2>1, BeforeOrder DEF Prec
  <2>3. cmpResultItem(h[j], h[j + 1]) <= 0
    BY <1>2, <1>3, <2>2, CompareIs
  <2> QED BY <1>5, <2>3 DEF InOrder
<1> QED BY <1>4, <1>5
-----------------------------------------------------------------------------
(* The invariant holds *)

\* A list as addToResultList builds it, and empty slots.
LEMMA InitSound == Init => Sound
<1> SUFFICES ASSUME Init PROVE Sound
  OBVIOUS
<1>1. desc \in Seq(BOOLEAN) /\ uniq \in BOOLEAN
  BY DirectionsAssumption DEF Init
<1>2. PICK n \in 0..MaxKeys : \E keys \in [1..n -> [DOMAIN desc -> Keys]] :
        added = [k \in 1..n |-> [key |-> keys[k], at |-> k]]
  BY DEF Init
<1>3. PICK keys \in [1..n -> [DOMAIN desc -> Keys]] :
        added = [k \in 1..n |-> [key |-> keys[k], at |-> k]]
  BY <1>2
<1>4. n \in Nat
  BY BoundsAssumption
<1>5. \A k \in 1..n : [key |-> keys[k], at |-> k] \in Items
  BY <1>4 DEF Items
<1>6. added \in Seq(Items) /\ Len(added) = n /\ DOMAIN added = 1..n /\ \A k \in 1..n : added[k].at = k
  <2>1. added \in [1..n -> Items] /\ \A k \in 1..n : added[k].at = k
    BY <1>3, <1>5
  <2> QED BY <1>4, <2>1
<1>7. InputRight
  BY <1>1, <1>6 DEF InputRight
<1>8. Left(list)
  <2>1. list = [k \in 1..n |-> added[(n - k) + 1]]
    BY <1>6 DEF Init, Reverse
  <2>2. \A k \in 1..n : (n - k) + 1 \in 1..n /\ (n - k) + 1 = n + 1 - k
    BY <1>4
  <2>3. list \in [1..n -> Items]
    BY <1>6, <2>1, <2>2
  <2>4. list \in Seq(Items) /\ Len(list) = n /\ DOMAIN list = 1..n
    BY <1>4, <2>1, <2>3
  <2>5. \A k \in DOMAIN list : list[k] = added[Len(list) + 1 - k]
    BY <2>1, <2>2, <2>4
  <2> QED BY <1>4, <1>6, <2>4, <2>5 DEF Left
<1>9. aList = [k \in Slots |-> <<>>] /\ pc = "next"
  BY DEF Init
<1>10. aList \in [Slots -> Seq(Items)] /\ \A k \in Slots : aList[k] = <<>>
  BY <1>9
<1>11. Len(list) = n
  BY <1>4, <1>6 DEF Init, Reverse
<1> DEFINE b == [k \in 0..NSlots |-> n]
<1>12. b \in Bounds /\ \A k \in 0..NSlots : b[k] = n
  BY <1>4 DEF Bounds
<1> HIDE DEF b
<1>13. SlotsFrom(b, aList, 0)
  <2>1. NSlots \in 0..NSlots
    BY BoundsAssumption
  <2>2. \A k \in 0..(NSlots - 1) : k \in Slots /\ k \in 0..NSlots /\ k + 1 \in 0..NSlots
    BY BoundsAssumption DEF Slots
  <2> QED BY <1>6, <1>10, <1>12, <2>1, <2>2 DEF SlotsFrom, SlotHolds
<1>14. 0 \in 0..NSlots
  BY BoundsAssumption
<1>15. Idle(list, aList)
  BY <1>8, <1>11, <1>12, <1>13, <1>14 DEF Idle
<1> QED BY <1>7, <1>9, <1>10, <1>15 DEF Sound

\* Each iteration of the loops of sortResultList keeps the invariant.
LEMMA SoundStep == Sound /\ [Next]_vars => Sound'
<1> SUFFICES ASSUME Sound, [Next]_vars PROVE Sound'
  OBVIOUS
<1>1. InputRight /\ aList \in [Slots -> Seq(Items)]
  BY DEF Sound
<1>2. input' = input
  BY DEF Next, vars, TakeItem, MergeSlot, FillSlot, ReadPastSlots, CollectFirst, CollectSlot,
         Collected, UniqStep, UniqEnd, CheckOrder, Sorted
<1>3. InputRight'
  BY <1>1, <1>2, FrameInput
<1>4. PICK l, slots, h, j, p :
        l = list' /\ slots = aList' /\ h = head' /\ j = i' /\ p = prev'
  OBVIOUS
<1>5. /\ Idle(list, aList)' <=> Idle(l, slots)
      /\ Carrying(list, aList, head, i)' <=> Carrying(l, slots, h, j)
      /\ Collecting(aList, head, i)' <=> Collecting(slots, h, j)
      /\ Unlinking(list, head, prev)' <=> Unlinking(l, h, p)
      /\ Done(head)' <=> Done(h)
  BY <1>2, <1>4, FrameIdle, FrameCarrying, FrameCollecting, FrameUnlinking, FrameDone
<1>6. (aList \in [Slots -> Seq(Items)])' <=> aList' \in [Slots -> Seq(Items)]
  BY <1>2 DEF Items, input
<1>7. CASE TakeItem
  <2>1. Idle(list, aList) /\ list # <<>>
    BY <1>7 DEF TakeItem, Sound
  <2>2. l = Tail(list) /\ slots = aList /\ h = <<Head(list)>> /\ j = 0 /\ pc' = "carry"
        /\ aList' = aList
    BY <1>4, <1>7 DEF TakeItem
  <2>3. Carrying(l, slots, h, j)
    BY <1>1, <2>1, <2>2, TakeItemStep
  <2> QED BY <1>1, <1>3, <1>5, <1>6, <2>2, <2>3 DEF Sound
<1>8. CASE MergeSlot
  <2>1. Carrying(list, aList, head, i) /\ i < NSlots /\ aList[i] # <<>>
    BY <1>8 DEF MergeSlot, Sound
  <2>2. /\ l = list /\ slots = [aList EXCEPT ![i] = <<>>] /\ j = i + 1
        /\ h = mergeResultItems(head, aList[i])
        /\ pc' = "carry" /\ aList' = [aList EXCEPT ![i] = <<>>]
    BY <1>4, <1>8 DEF MergeSlot, Sound
  <2>3. Carrying(l, slots, h, j)
    BY <1>1, <2>1, <2>2, MergeSlotStep
  <2>4. aList' \in [Slots -> Seq(Items)]
    <3>1. <<>> \in Seq(Items)
      OBVIOUS
    <3> QED BY <1>1, <2>2, <3>1
  <2> QED BY <1>3, <1>5, <1>6, <2>2, <2>3, <2>4 DEF Sound
<1>9. CASE FillSlot
  <2>1. Carrying(list, aList, head, i) /\ i < NSlots /\ aList[i] = <<>>
    BY <1>9 DEF FillSlot, Sound
  <2>2. /\ l = list /\ slots = [aList EXCEPT ![i] = head]
        /\ pc' = "next" /\ aList' = slots
    BY <1>4, <1>9 DEF FillSlot
  <2>3. Idle(l, slots) /\ slots \in [Slots -> Seq(Items)]
    BY <1>1, <2>1, <2>2, FillSlotStep
  <2> QED BY <1>3, <1>5, <1>6, <2>2, <2>3 DEF Sound
<1>10. CASE ReadPastSlots
  <2>1. Carrying(list, aList, head, i) /\ i >= NSlots
    BY <1>10 DEF ReadPastSlots, Sound
  <2>2. Len(added) >= 2 ^ NSlots
    BY <2>1, ReadPastSlotsStep
  <2>3. pc' = "overrun" /\ aList' = aList /\ added' = added
    BY <1>2, <1>10 DEF ReadPastSlots, input
  <2> QED BY <1>1, <1>3, <1>6, <2>2, <2>3 DEF Sound
<1>11. CASE CollectFirst
  <2>1. Idle(<<>>, aList)
    BY <1>11 DEF CollectFirst, Sound
  <2>2. slots = aList /\ h = aList[0] /\ j = 1 /\ pc' = "collect" /\ aList' = aList
    BY <1>4, <1>11 DEF CollectFirst
  <2>3. Collecting(slots, h, j)
    BY <1>1, <2>1, <2>2, CollectFirstStep
  <2> QED BY <1>1, <1>3, <1>5, <1>6, <2>2, <2>3 DEF Sound
<1>12. CASE CollectSlot
  <2>1. Collecting(aList, head, i) /\ i < NSlots
    BY <1>12 DEF CollectSlot, Sound
  <2>2. /\ slots = aList /\ h = mergeResultItems(head, aList[i]) /\ j = i + 1
        /\ pc' = "collect" /\ aList' = aList
    BY <1>4, <1>12 DEF CollectSlot
  <2>3. Collecting(slots, h, j)
    BY <1>1, <2>1, <2>2, CollectSlotStep
  <2> QED BY <1>1, <1>3, <1>5, <1>6, <2>2, <2>3 DEF Sound
<1>13. CASE Collected
  <2>1. Collecting(aList, head, NSlots)
    <3>1. Collecting(aList, head, i) /\ i >= NSlots
      BY <1>13 DEF Collected, Sound
    <3>2. i = NSlots
      BY <3>1, BoundsAssumption DEF Collecting
    <3> QED BY <3>1, <3>2
  <2>2. h = head /\ i' = 1 /\ slots = aList /\ aList' = aList
    BY <1>4, <1>13 DEF Collected
  <2>3. CASE uniq /\ head # <<>>
    <3>1. p = <<Head(head)>> /\ l = Tail(head) /\ pc' = "uniq"
      BY <1>4, <1>13, <2>3 DEF Collected
    <3>2. Unlinking(l, h, p)
      BY <1>1, <2>1, <2>2, <2>3, <3>1, CollectedStep
    <3> QED BY <1>1, <1>3, <1>5, <1>6, <2>2, <3>1, <3>2 DEF Sound
  <2>4. CASE ~(uniq /\ head # <<>>)
    <3>1. pc' = "check"
      BY <1>13, <2>4 DEF Collected
    <3>2. Done(h)
      BY <1>1, <2>1, <2>2, <2>4, CollectedStep
    <3> QED BY <1>1, <1>3, <1>5, <1>6, <2>2, <3>1, <3>2 DEF Sound
  <2> QED BY <2>3, <2>4
<1>14. CASE UniqStep
  <2>1. Unlinking(list, head, prev) /\ list # <<>>
    BY <1>14 DEF UniqStep, Sound
  <2>2. h = head /\ l = Tail(list) /\ pc' = "uniq" /\ aList' = aList /\ i' = i /\ pc = "uniq"
    BY <1>4, <1>14 DEF UniqStep
  <2>3. p = IF cmpResultItem(prev[Len(prev)], Head(list)) = 0 THEN prev ELSE Append(prev, Head(list))
    BY <1>4, <1>14 DEF UniqStep, Last
  <2>4. Unlinking(l, h, p)
    BY <1>1, <2>1, <2>2, <2>3, UniqStepStep
  <2> QED BY <1>1, <1>3, <1>5, <1>6, <2>2, <2>4 DEF Sound
<1>15. CASE UniqEnd
  <2>1. Unlinking(<<>>, head, prev)
    BY <1>15 DEF UniqEnd, Sound
  <2>2. h = prev /\ pc' = "check" /\ aList' = aList /\ i' = i /\ pc = "uniq"
    BY <1>4, <1>15 DEF UniqEnd
  <2>3. Done(h)
    BY <1>1, <2>1, <2>2, UniqEndStep
  <2> QED BY <1>1, <1>3, <1>5, <1>6, <2>2, <2>3 DEF Sound
<1>16. CASE CheckOrder
  <2>1. i \in Nat \ {0} /\ Done(head) /\ i < Len(head)
    BY <1>16 DEF CheckOrder, Sound
  <2>2. h = head /\ aList' = aList
    BY <1>4, <1>16 DEF CheckOrder
  <2>3. CASE InOrder(head[i], head[i + 1])
    <3>1. pc' = "check" /\ i' = i + 1
      BY <1>16, <2>3 DEF CheckOrder
    <3>2. i' \in Nat \ {0}
      BY <2>1, <3>1
    <3> QED BY <1>1, <1>3, <1>5, <1>6, <2>1, <2>2, <3>1, <3>2 DEF Sound
  <2>4. CASE ~InOrder(head[i], head[i + 1])
    <3>1. pc' = "aborted" /\ i' = i
      BY <1>16, <2>4 DEF CheckOrder
    <3>2. ~NoNan
      BY <1>1, <2>1, <2>4, DoneInOrder
    <3> QED BY <1>1, <1>3, <1>5, <1>6, <2>1, <2>2, <3>1, <3>2 DEF Sound, NoNan
  <2> QED BY <2>3, <2>4
<1>17. CASE Sorted
  <2>1. i \in Nat \ {0} /\ Done(head)
    BY <1>17 DEF Sorted, Sound
  <2>2. h = head /\ aList' = aList /\ i' = i /\ pc' = "sorted"
    BY <1>4, <1>17 DEF Sorted
  <2> QED BY <1>1, <1>3, <1>5, <1>6, <2>1, <2>2 DEF Sound
<1>18. CASE UNCHANGED vars
  <2>1. /\ l = list /\ slots = aList /\ h = head /\ j = i /\ p = prev
        /\ pc' = pc /\ aList' = aList /\ i' = i /\ added' = added
    BY <1>4, <1>18 DEF vars, input
  <2> QED BY <1>1, <1>3, <1>5, <1>6, <2>1 DEF Sound, NoNan
<1> QED BY <1>7, <1>8, <1>9, <1>10, <1>11, <1>12, <1>13, <1>14, <1>15, <1>16, <1>17, <1>18 DEF Next
\* The runs of the slots, and what becomes of them, at every point of
\* sortResultList (query.c:101-146).
THEOREM AlwaysSound == Spec => []Sound
<1>1. Init => Sound
  BY InitSound
<1>2. Sound /\ [Next]_vars => Sound'
  BY SoundStep
<1> QED BY <1>1, <1>2, PTL DEF Spec

-----------------------------------------------------------------------------
(* The properties *)

\* SlotsSuffice: "assert( i<ArraySize(aList) )" (query.c:113) holds for fewer than
\* 2^NSlots items, whatever their keys, not a number among them or not.
THEOREM SlotsAreEnough == Spec => []SlotsSuffice
<1>1. Sound => SlotsSuffice
  BY DEF Sound, SlotsSuffice
<1> QED BY <1>1, AlwaysSound, PTL

\* SortedAssertHolds: where every key can be ordered, the assertion of the last
\* loop of sortResultList (query.c:142) holds for each two neighbours.
THEOREM SortNeverAborts == NoNan => (Spec => []SortedAssertHolds)
<1> SUFFICES ASSUME NoNan PROVE Spec => []SortedAssertHolds
  OBVIOUS
<1>1. Sound => SortedAssertHolds
  BY DEF Sound, SortedAssertHolds
<1> QED BY <1>1, AlwaysSound, PTL

\* Stably sorted is what Prec says of each two.
LEMMA RunIsStable ==
    ASSUME NoNan, NEW s, NEW a, NEW b, Run(s, a, b)
    PROVE  AreStablySorted(s)
<1> DEFINE p == At(s)
<1>1. /\ DOMAIN p = DOMAIN s
      /\ \A k \in DOMAIN s : p[k] = s[k].at /\ s[k] = added[p[k]]
      /\ \A k, l \in DOMAIN s : k < l => Prec(s[k], s[l])
  BY DEF At, Run, Ordered
<1>2. \A k \in DOMAIN s : s[k] = added[s[k].at]
  BY DEF Run
<1> HIDE DEF p
<1>3. \A k, l \in DOMAIN p :
        k < l => \/ Before(added[p[k]], added[p[l]])
                 \/ ~Before(added[p[l]], added[p[k]]) /\ p[k] < p[l]
  <2> SUFFICES ASSUME NEW k \in DOMAIN s, NEW l \in DOMAIN s, k < l
               PROVE  \/ Before(added[p[k]], added[p[l]])
                      \/ ~Before(added[p[l]], added[p[k]]) /\ p[k] < p[l]
    BY <1>1
  <2>1. Prec(s[k], s[l])
    BY <1>1
  <2>2. s[k] = added[p[k]] /\ s[l] = added[p[l]] /\ s[k].at = p[k] /\ s[l].at = p[l]
    BY <1>1
  <2>3. Before(s[k], s[l]) \/ (~Before(s[l], s[k]) /\ s[k].at < s[l].at)
    BY <2>1 DEF Prec
  <2> QED BY <2>2, <2>3
<1>4. IsStableOrder(p, added, Before)
  BY <1>3 DEF IsStableOrder
<1> QED BY <1>2, <1>4 DEF AreStablySorted, p

\* KeepsPromise, what the rest of query.c relies on: where every key can be
\* ordered, sortResultList leaves all that was added, stably sorted, or with
\* uniq the first of each, in order.
THEOREM SortKeepsPromise == NoNan => (Spec => []KeepsPromise)
<1> SUFFICES ASSUME NoNan PROVE Spec => []KeepsPromise
  OBVIOUS
<1>1. ASSUME Sound, pc = "sorted" PROVE KeepsPromise
  <2>1. Done(head) /\ InputRight
    BY <1>1 DEF Sound
  <2>2. CASE ~uniq
    <3>1. Run(head, 0, Len(added))
      BY <2>1, <2>2 DEF Done
    <3>2. Len(head) = Len(added)
      BY <2>1, <3>1 DEF Run, InputRight
    <3> QED BY <1>1, <2>2, <3>1, <3>2, RunIsStable DEF KeepsPromise
  <2>3. CASE uniq
    <3>1. WereAdded(head) /\ Strict(head) /\ \A m \in DOMAIN added : Covers(head, added[m])
      BY <2>1, <2>3 DEF Done
    <3> DEFINE p == At(head)
    <3>2. /\ DOMAIN p = DOMAIN head
          /\ \A k \in DOMAIN head : p[k] = head[k].at /\ head[k] = added[p[k]] /\ head[k] \in Items
      BY <3>1 DEF At, WereAdded
    <3> HIDE DEF p
    <3>3. \A k, l \in DOMAIN p : k < l => Before(added[p[k]], added[p[l]])
      <4> SUFFICES ASSUME NEW k \in DOMAIN head, NEW l \in DOMAIN head, k < l
                   PROVE  Before(added[p[k]], added[p[l]])
        BY <3>2
      <4>1. Before(head[k], head[l])
        BY <1>1, <3>1 DEF Strict
      <4> QED BY <3>2, <4>1
    <3>4. \A m \in DOMAIN added : \E k \in DOMAIN p :
            p[k] <= m /\ ~Before(added[p[k]], added[m]) /\ ~Before(added[m], added[p[k]])
      <4> SUFFICES ASSUME NEW m \in DOMAIN added
                   PROVE  \E k \in DOMAIN p : /\ p[k] <= m
                                              /\ ~Before(added[p[k]], added[m])
                                              /\ ~Before(added[m], added[p[k]])
        OBVIOUS
      <4>1. PICK k \in DOMAIN head : head[k].key = added[m].key /\ head[k].at <= added[m].at
        BY <1>1, <3>1 DEF Covers
      <4>2. added[m] \in Items /\ added[m].at = m /\ Typed
        BY <1>1, <2>1 DEF InputRight, Typed
      <4>3. ~Before(head[k], added[m]) /\ ~Before(added[m], head[k])
        BY <3>2, <4>1, <4>2, BeforeOrder
      <4> QED BY <3>2, <4>1, <4>2, <4>3
    <3>5. IsDistinctOrder(p, added, Before)
      BY <3>3, <3>4 DEF IsDistinctOrder
    <3>6. \A k \in DOMAIN head : head[k] = added[head[k].at]
      BY <3>1 DEF WereAdded
    <3> QED BY <2>3, <3>5, <3>6 DEF KeepsPromise, p
  <2> QED BY <2>2, <2>3
<1>2. Sound => KeepsPromise
  BY <1>1 DEF KeepsPromise
<1> QED BY <1>2, AlwaysSound, PTL

\* The slots behind one another hold what was added one after the other.
LEMMA BoundsAscend ==
    ASSUME NEW b \in Bounds, NEW slots \in [Slots -> Seq(Items)], SlotsFrom(b, slots, 0),
           NEW k \in 0..NSlots, NEW l \in 0..NSlots, k <= l
    PROVE  b[k] <= b[l]
<1> DEFINE Bad == { m \in 0..NSlots : k <= m /\ ~(b[k] <= b[m]) }
<1> SUFFICES ASSUME Bad # {} PROVE FALSE
  OBVIOUS
<1>1. NSlots \in Nat /\ \A m \in 0..NSlots : b[m] \in Nat
  BY BoundsAssumption DEF Bounds
<1>2. Bad \subseteq Nat
  BY <1>1
<1>3. PICK m \in Bad : \A n \in Bad : m <= n
  BY <1>2, LeastElement
<1>4. m \in 0..NSlots /\ k <= m /\ ~(b[k] <= b[m])
  OBVIOUS
<1>5. m # k
  BY <1>1, <1>4
<1>6. /\ m - 1 \in 0..NSlots /\ k <= m - 1 /\ ~(m <= m - 1)
      /\ m - 1 \in 0..(NSlots - 1) /\ (m - 1) + 1 = m
  BY <1>1, <1>4, <1>5
<1>7. b[k] <= b[m - 1]
  BY <1>3, <1>6
<1>8. b[m - 1] <= b[(m - 1) + 1]
  <2>1. 0 \in 0..NSlots
    BY <1>1
  <2> QED BY <1>6, <2>1, SlotFacts
<1> QED BY <1>1, <1>4, <1>6, <1>7, <1>8

\* SlotsAreSortedRuns: between two items each slot of sortResultList is empty or
\* a stably sorted run of 2^k items, and together they have all that was taken
\* from the list, each once (query.c:109-119).
THEOREM SlotsStaySorted == NoNan => (Spec => []SlotsAreSortedRuns)
<1> SUFFICES ASSUME NoNan PROVE Spec => []SlotsAreSortedRuns
  OBVIOUS
<1>1. ASSUME Sound, pc = "next" PROVE SlotsAreSortedRuns
  <2>1. /\ Idle(list, aList) /\ InputRight /\ aList \in [Slots -> Seq(Items)]
        /\ desc \in Seq(BOOLEAN)
    BY <1>1 DEF Sound, InputRight
  <2>2. PICK b \in Bounds : b[0] = Len(list) /\ SlotsFrom(b, aList, 0)
    BY <2>1 DEF Idle
  <2>3. /\ NSlots \in Nat /\ 0 \in 0..NSlots /\ NSlots \in 0..NSlots
        /\ \A k \in 0..NSlots : b[k] \in Nat
        /\ Len(added) \in Nat /\ DOMAIN added = 1..Len(added) /\ b[NSlots] = Len(added)
    BY <2>1, <2>2, BoundsAssumption DEF Bounds, InputRight, SlotsFrom
  <2>4. \A k \in Slots : /\ k \in 0..NSlots /\ k + 1 \in 0..NSlots /\ k \in Nat
                         /\ b[k + 1] = IF aList[k] = <<>> THEN b[k] ELSE b[k] + 2 ^ k
                         /\ Run(aList[k], b[k], b[k + 1])
    <3> SUFFICES ASSUME NEW k \in Slots
                 PROVE  /\ k \in 0..NSlots /\ k + 1 \in 0..NSlots /\ k \in Nat
                        /\ b[k + 1] = IF aList[k] = <<>> THEN b[k] ELSE b[k] + 2 ^ k
                        /\ Run(aList[k], b[k], b[k + 1])
      OBVIOUS
    <3>1. k \in 0..(NSlots - 1) /\ k \in 0..NSlots
      BY <2>3 DEF Slots
    <3> QED BY <2>1, <2>2, <2>3, <3>1, SlotFacts
  <2>5. \A k \in Slots : \A n \in (b[k] + 1)..b[k + 1] : \E j \in DOMAIN aList[k] : aList[k][j].at = n
    <3> SUFFICES ASSUME NEW k \in Slots
                 PROVE  \A n \in (b[k] + 1)..b[k + 1] : \E j \in DOMAIN aList[k] : aList[k][j].at = n
      OBVIOUS
    <3>1. desc \in Seq(BOOLEAN) /\ b[k] \in Nat /\ b[k + 1] \in Nat /\ Run(aList[k], b[k], b[k + 1])
      BY <2>1, <2>3, <2>4, Zenon
    <3> QED BY <3>1, RunHasAll, Zenon
  <2>6. \A k \in Slots : \A j \in DOMAIN aList[k] : aList[k][j].at \in (b[k] + 1)..b[k + 1]
    BY <2>4 DEF Run
  <2>7. \A k, l \in 0..NSlots : k <= l => b[k] <= b[l]
    BY <2>1, <2>2, BoundsAscend
  <2>8. ASSUME NEW k \in Slots, aList[k] # <<>>
        PROVE  Len(aList[k]) = 2 ^ k /\ AreStablySorted(aList[k])
    <3>1. Run(aList[k], b[k], b[k + 1]) /\ b[k + 1] = b[k] + 2 ^ k /\ k \in Nat /\ b[k] \in Nat
      BY <2>3, <2>4, <2>8
    <3>2. Len(aList[k]) = b[k + 1] - b[k]
      BY <3>1 DEF Run
    <3>3. 2 ^ k \in Nat
      BY <3>1, PowerOfTwo
    <3>4. \A u, v \in Nat : (u + v) - u = v
      OBVIOUS
    <3> QED BY <1>1, <3>1, <3>2, <3>3, <3>4, RunIsStable
  <2>9. ASSUME NEW n \in DOMAIN added, n > Len(list)
        PROVE  \E k \in Slots : \E j \in DOMAIN aList[k] : aList[k][j].at = n
    <3> DEFINE Above == { m \in 0..NSlots : n <= b[m] }
    <3>1. NSlots \in Above /\ Above \subseteq Nat
      BY <2>3
    <3>2. PICK m \in Above : \A x \in Above : m <= x
      BY <3>1, LeastElement
    <3>3. m \in 0..NSlots /\ n <= b[m] /\ m # 0
      BY <2>2, <2>3, <2>9
    <3>4. m - 1 \in Slots /\ m - 1 \in 0..NSlots /\ ~(m <= m - 1) /\ (m - 1) + 1 = m
      BY <2>3, <3>3 DEF Slots
    <3>5. ~(n <= b[m - 1])
      BY <3>2, <3>4
    <3>6. n \in (b[m - 1] + 1)..b[(m - 1) + 1]
      BY <2>3, <3>3, <3>4, <3>5
    <3> QED BY <2>5, <3>4, <3>6
  <2>10. ASSUME NEW k \in Slots, NEW j \in DOMAIN aList[k]
         PROVE  aList[k][j].at > Len(list)
    <3>1. aList[k][j].at \in (b[k] + 1)..b[k + 1] /\ b[0] <= b[k]
      <4>1. 0 <= k /\ k \in 0..NSlots
        BY <2>4
      <4> QED BY <2>3, <2>6, <2>7, <4>1
    <3>2. b[k] \in Nat /\ b[k + 1] \in Nat /\ b[0] \in Nat
      BY <2>3, <2>4
    <3> QED BY <2>2, <3>1, <3>2
  <2>11. ASSUME NEW k \in Slots, NEW l \in Slots, k < l,
                NEW x \in ToSet(aList[k]), NEW y \in ToSet(aList[l])
         PROVE  x.at < y.at
    <3>1. PICK u \in DOMAIN aList[k] : x = aList[k][u]
      BY DEF ToSet
    <3>2. PICK v \in DOMAIN aList[l] : y = aList[l][v]
      BY DEF ToSet
    <3>3. x.at \in (b[k] + 1)..b[k + 1] /\ y.at \in (b[l] + 1)..b[l + 1]
      BY <2>6, <3>1, <3>2
    <3>4. k + 1 <= l /\ k + 1 \in 0..NSlots /\ l \in 0..NSlots /\ l + 1 \in 0..NSlots /\ k \in 0..NSlots
      BY <2>4, <2>11
    <3>5. b[k + 1] <= b[l]
      BY <2>7, <3>4
    <3>6. b[k] \in Nat /\ b[k + 1] \in Nat /\ b[l] \in Nat /\ b[l + 1] \in Nat
      BY <2>3, <3>4
    <3> QED BY <3>3, <3>5, <3>6
  <2> QED BY <2>8, <2>9, <2>10, <2>11 DEF SlotsAreSortedRuns
<1>2. Sound => SlotsAreSortedRuns
  BY <1>1 DEF SlotsAreSortedRuns
<1> QED BY <1>2, AlwaysSound, PTL
=============================================================================
