--------------------------- MODULE CompoundProofs ---------------------------
(***************************************************************************)
(* Compound queries: that the types of the model are right, that no        *)
(* operand is stepped after its end, that a merge loses no result, and     *)
(* that a statement is a cursor over the combination of its operands.      *)
(*                                                                         *)
(* The invariant of the control, Sound, says what the functions that call  *)
(* each other along the tree rely on.  The stack is a path down the tree,  *)
(* and each query on it waits for the operand that its flag or its lists   *)
(* name (Path).  A query that waits has not ended.  And for each query of  *)
(* the tree, on the stack or not, its flag and its lists tell how far its  *)
(* operands are (Operands): none is stepped, or the left one is at work,   *)
(* or it is at its end and the right one is.  Where memory has run out the *)
(* last does not hold: the operands of a query that could not be called on *)
(* are where they were left, and a rewind has to come first.               *)
(*                                                                         *)
(* The invariant of the results, DataSound, counts for each query what it  *)
(* has sent since the rewind.  A query that has not been stepped has sent  *)
(* none; UNION ALL has sent what its operands have sent; a list holds what *)
(* its operand has sent; and once both lists are complete, what the merge  *)
(* has left in them combines to the results that are still to be sent.     *)
(* The counts of the queries whose call memory cut short agree with        *)
(* nothing until the rewind, but those of complete lists, and what the     *)
(* client has, do so always.                                               *)
(*                                                                         *)
(* The first two parts are about what is not in the control: Ascending,    *)
(* what one turn of a merge does to the combination of two sorted lists,   *)
(* and that the results of a tree of queries exist.                        *)
(***************************************************************************)
EXTENDS Compound, FiniteSetTheorems, WellFoundedInduction, TLAPS

\* A list without duplicates, in order.
Increasing(s) == \A i, j \in DOMAIN s : i < j => s[i] < s[j]

-----------------------------------------------------------------------------
(* Ascending *)

\* A set of numbers that is not empty has a least element.
LEMMA LeastElement ==
    ASSUME NEW T, T \subseteq Nat, T # {}
    PROVE  \E x \in T : \A y \in T : x <= y
<1> DEFINE R == { pair \in Nat \X Nat : pair[1] < pair[2] }
<1>1. IsWellFoundedOn(R, Nat)
  BY NatLessThanWellFounded DEF OpToRel
<1> HIDE DEF R
<1>2. PICK x \in T : \A y \in T : <<y, x>> \notin R
  BY <1>1, WFMin, Zenon
<1>3. \A y \in T : ~(y < x)
  BY <1>2 DEF R
<1> QED BY <1>3

\* The numbers up to n, in order, each to one element of a set of n.
LEMMA IncreasingIsOnto ==
    ASSUME NEW S, S \subseteq Int, IsFiniteSet(S),
           NEW s \in [1..Cardinality(S) -> S], Increasing(s)
    PROVE  ToSet(s) = S
<1> DEFINE n == Cardinality(S)
<1>1. n \in Nat
  BY FS_CardinalityType
<1>2. s \in Injection(1..n, S)
  <2>1. \A i, j \in 1..n : s[i] = s[j] => i = j
    <3> SUFFICES ASSUME NEW i \in 1..n, NEW j \in 1..n, s[i] = s[j], i # j PROVE FALSE
      OBVIOUS
    <3>1. s[i] \in Int /\ s[j] \in Int
      OBVIOUS
    <3>2. i < j \/ j < i
      BY <1>1
    <3> QED BY <3>1, <3>2 DEF Increasing
  <2> QED BY <2>1 DEF Injection, IsInjective
<1>3. IsFiniteSet(1..n) /\ Cardinality(1..n) = n
  BY <1>1, FS_Interval
<1>4. s \in Surjection(1..n, S)
  BY <1>2, <1>3, FS_Injection
<1> QED BY <1>4 DEF Surjection, ToSet

Sortable(S) == \E s \in [1..Cardinality(S) -> S] : Increasing(s)

\* A set that is sorted without one of its elements has a greatest one.
LEMMA GreatestElement ==
    ASSUME NEW S, S \subseteq Int, IsFiniteSet(S), NEW x \in S, Sortable(S \ {x})
    PROVE  \E m \in S : \A y \in S : y <= m
<1> DEFINE U == S \ {x}
           k == Cardinality(U)
<1>1. IsFiniteSet(U) /\ U \subseteq Int /\ k \in Nat
  BY FS_RemoveElement, FS_CardinalityType
<1>2. PICK s \in [1..k -> U] : Increasing(s)
  BY DEF Sortable
<1>3. ToSet(s) = U
  BY <1>1, <1>2, IncreasingIsOnto
<1>4. CASE k = 0
  <2>1. U = {}
    BY <1>1, <1>4, FS_EmptySet
  <2> QED BY <2>1
<1>5. CASE k > 0
  <2>1. k \in 1..k /\ s[k] \in U
    BY <1>1, <1>2, <1>5
  <2>6. \A i \in 1..k : s[i] <= s[k]
    <3> SUFFICES ASSUME NEW i \in 1..k PROVE s[i] <= s[k]
      OBVIOUS
    <3>1. i = k \/ i < k
      BY <1>1
    <3>2. s[i] \in Int /\ s[k] \in Int
      BY <1>1, <1>2, <2>1
    <3>3. CASE i < k
      <4>1. i \in DOMAIN s /\ k \in DOMAIN s
        BY <1>2, <2>1
      <4>2. s[i] < s[k]
        BY <1>2, <4>1, <3>3 DEF Increasing
      <4> QED BY <4>2, <3>2
    <3> QED BY <3>1, <3>2, <3>3
  <2>2. \A y \in U : y <= s[k]
    BY <1>2, <1>3, <2>6 DEF ToSet
  <2>3. s[k] \in S /\ s[k] \in Int /\ x \in Int /\ \A y \in S : y \in Int /\ (y = x \/ y \in U)
    BY <1>1, <2>1
  <2> HIDE DEF U, k
  <2>4. CASE x <= s[k]
    BY <2>2, <2>3, <2>4
  <2>5. CASE s[k] <= x
    <3>1. \A y \in S : y <= x
      BY <2>2, <2>3, <2>5
    <3> QED BY <3>1
  <2> QED BY <2>3, <2>4, <2>5
<1> QED BY <1>1, <1>4, <1>5

\* Every finite set of numbers can be put in order.
LEMMA FiniteIsSortable ==
    ASSUME NEW S0, S0 \subseteq Int, IsFiniteSet(S0)
    PROVE  Sortable(S0)
<1> DEFINE Bad == { k \in Nat : \E S \in SUBSET Int :
                        IsFiniteSet(S) /\ Cardinality(S) = k /\ ~Sortable(S) }
<1> SUFFICES ASSUME ~Sortable(S0) PROVE FALSE
  OBVIOUS
<1>1. Bad # {} /\ Bad \subseteq Nat
  BY FS_CardinalityType
<1>2. PICK k \in Bad : \A j \in Bad : k <= j
  BY <1>1, LeastElement
<1>3. PICK S \in SUBSET Int : IsFiniteSet(S) /\ Cardinality(S) = k /\ ~Sortable(S)
  BY <1>2
<1>4. \A x \in S : Cardinality(S \ {x}) = k - 1 /\ Sortable(S \ {x})
  <2> SUFFICES ASSUME NEW x \in S PROVE Cardinality(S \ {x}) = k - 1 /\ Sortable(S \ {x})
    OBVIOUS
  <2>1. IsFiniteSet(S \ {x}) /\ Cardinality(S \ {x}) = k - 1
    BY <1>3, FS_RemoveElement
  <2>2. k - 1 \in Nat
    BY <2>1, FS_CardinalityType, Zenon
  <2>3. k - 1 \notin Bad
    BY <1>2, <2>2
  <2>4. S \ {x} \in SUBSET Int
    BY <1>3
  <2>5. Sortable(S \ {x})
    BY <2>1, <2>2, <2>3, <2>4, Zenon
  <2> QED BY <2>1, <2>5
<1>5. CASE S = {}
  <2>1. Cardinality(S) = 0
    BY <1>5, FS_EmptySet
  <2>2. << >> \in [1..Cardinality(S) -> S] /\ Increasing(<< >>)
    BY <2>1, <1>5 DEF Increasing
  <2> QED BY <2>2, <1>3 DEF Sortable
<1>6. CASE S # {}
  <2>1. PICK m \in S : \A y \in S : y <= m
    BY <1>3, <1>4, <1>6, GreatestElement
  <2>2. k \in Nat /\ k - 1 \in Nat
    <3>1. IsFiniteSet(S \ {m}) /\ Cardinality(S \ {m}) = k - 1
      BY <1>3, <1>4, FS_RemoveElement
    <3> QED BY <3>1, <1>2, FS_CardinalityType
  <2>3. PICK s \in [1..(k - 1) -> S \ {m}] : Increasing(s)
    BY <1>4 DEF Sortable
  <2> DEFINE t == [i \in 1..k |-> IF i = k THEN m ELSE s[i]]
  <2>4. \A i \in 1..k : i # k => i \in 1..(k - 1) /\ s[i] \in S \ {m} /\ s[i] < m
    <3> SUFFICES ASSUME NEW i \in 1..k, i # k
                 PROVE  i \in 1..(k - 1) /\ s[i] \in S \ {m} /\ s[i] < m
      OBVIOUS
    <3>1. i \in 1..(k - 1)
      BY <2>2
    <3>2. s[i] \in S /\ s[i] # m
      BY <3>1, <2>3
    <3>3. s[i] \in Int /\ m \in Int /\ s[i] <= m
      BY <3>2, <1>3, <2>1
    <3> QED BY <3>1, <3>2, <3>3
  <2>5. t \in [1..k -> S]
    BY <2>4
  <2>6. Increasing(t)
    BY <2>2, <2>3, <2>4 DEF Increasing
  <2> QED BY <2>5, <2>6, <1>3 DEF Sortable
<1> QED BY <1>5, <1>6

\* Two ascending sequences of the same elements are the same.
LEMMA SortedOneWay ==
    ASSUME NEW n \in Nat, NEW S, S \subseteq Int,
           NEW s \in [1..n -> S], NEW t \in [1..n -> S],
           Increasing(s), Increasing(t), ToSet(s) = S, ToSet(t) = S
    PROVE  s = t
<1> DEFINE Diff == { i \in 1..n : s[i] # t[i] }
<1> SUFFICES ASSUME Diff # {} PROVE FALSE
  OBVIOUS
<1>1. PICK i \in Diff : \A j \in Diff : i <= j
  <2>1. Diff \subseteq Nat
    OBVIOUS
  <2> QED BY <2>1, LeastElement
<1>2. i \in 1..n /\ s[i] \in Int /\ t[i] \in Int /\ s[i] # t[i]
  OBVIOUS
<1>3. \A j \in 1..n : j < i => s[j] = t[j]
  BY <1>1
<1>4. PICK j \in 1..n : t[j] = s[i]
  BY <1>2 DEF ToSet
<1>5. PICK k \in 1..n : s[k] = t[i]
  BY <1>2 DEF ToSet
<1>6. j > i /\ k > i
  BY <1>2, <1>3, <1>4, <1>5 DEF Increasing
<1>7. t[i] < t[j] /\ s[i] < s[k]
  BY <1>2, <1>6 DEF Increasing
<1> QED BY <1>2, <1>4, <1>5, <1>7

\* Ascending puts a finite set in order: each member once.
LEMMA AscendingSorts ==
    ASSUME NEW S, S \subseteq Int, IsFiniteSet(S)
    PROVE  /\ Ascending(S) \in [1..Cardinality(S) -> S]
           /\ Cardinality(S) \in Nat
           /\ Increasing(Ascending(S))
           /\ ToSet(Ascending(S)) = S
<1>1. Sortable(S)
  BY FiniteIsSortable
<1>2. Ascending(S) \in [1..Cardinality(S) -> S] /\ Increasing(Ascending(S))
  BY <1>1 DEF Sortable, Ascending, Increasing
<1> QED BY <1>2, IncreasingIsOnto, FS_CardinalityType

\* The members of a sequence of numbers are finitely many.
LEMMA FiniteToSet ==
    ASSUME NEW s \in Seq(Int)
    PROVE  IsFiniteSet(ToSet(s)) /\ ToSet(s) \subseteq Int
<1>1. Len(s) \in Nat /\ s \in [1..Len(s) -> Int]
  OBVIOUS
<1>2. IsFiniteSet(1..Len(s))
  BY <1>1, FS_Interval
<1>3. s \in Surjection(1..Len(s), ToSet(s))
  BY <1>1 DEF Surjection, ToSet
<1> QED BY <1>1, <1>2, <1>3, FS_Surjection DEF ToSet

\* Ascending of a finite set is a sequence of documents.
LEMMA AscendingIsSeq ==
    ASSUME NEW S, S \subseteq Int, IsFiniteSet(S)
    PROVE  Ascending(S) \in Seq(Int) /\ Increasing(Ascending(S)) /\ ToSet(Ascending(S)) = S
<1>1. Ascending(S) \in [1..Cardinality(S) -> Int] /\ Cardinality(S) \in Nat
  BY AscendingSorts
<1>2. Ascending(S) \in Seq(Int)
  BY <1>1
<1> QED BY <1>2, AscendingSorts

\* A sequence that ascends is the one that Ascending chooses.
LEMMA AscendingIs ==
    ASSUME NEW s \in Seq(Int), Increasing(s)
    PROVE  Ascending(ToSet(s)) = s
<1> DEFINE n == Len(s)
           S == ToSet(s)
<1>1. n \in Nat /\ s \in [1..n -> S] /\ IsFiniteSet(S) /\ S \subseteq Int
  <2>1. s \in [1..n -> S]
    BY DEF ToSet
  <2> QED BY <2>1, FiniteToSet
<1>2. \A i, j \in 1..n : s[i] = s[j] => i = j
  <2> SUFFICES ASSUME NEW i \in 1..n, NEW j \in 1..n, s[i] = s[j], i # j PROVE FALSE
    OBVIOUS
  <2>1. s[i] \in Int /\ s[j] \in Int
    OBVIOUS
  <2>2. i < j \/ j < i
    BY <1>1
  <2> QED BY <2>1, <2>2 DEF Increasing
<1>3. s \in Bijection(1..n, S)
  BY <1>1, <1>2 DEF Bijection, Injection, IsInjective, Surjection, ToSet
<1>4. ExistsBijection(1..n, S)
  BY <1>3 DEF ExistsBijection
<1>5. IsFiniteSet(1..n) /\ Cardinality(1..n) = n
  BY <1>1, FS_Interval
<1>6. Cardinality(S) = n
  BY <1>1, <1>4, <1>5, FS_Bijection
<1>7. Ascending(S) \in [1..n -> S] /\ Increasing(Ascending(S)) /\ ToSet(Ascending(S)) = S
  BY <1>1, <1>6, AscendingSorts
<1> HIDE DEF n, S
<1>8. ToSet(s) = S
  BY DEF S
<1> QED BY <1>1, <1>7, <1>8, SortedOneWay

\* A member before all others comes first.
LEMMA AscendingFirst ==
    ASSUME NEW S, S \subseteq Int, IsFiniteSet(S), NEW x \in Int, \A y \in S : x < y
    PROVE  Ascending({x} \cup S) = <<x>> \o Ascending(S)
<1> DEFINE a == Ascending(S)
           b == <<x>> \o a
<1>1. a \in Seq(Int) /\ Increasing(a) /\ ToSet(a) = S
  BY AscendingIsSeq
<1> HIDE DEF a
<1>2. b \in Seq(Int) /\ Len(b) = Len(a) + 1 /\ b[1] = x
  BY <1>1
<1>3. \A i \in 1..Len(b) : i # 1 => i - 1 \in 1..Len(a) /\ b[i] = a[i - 1]
  BY <1>1
<1>4. \A i \in 1..Len(a) : i + 1 \in 1..Len(b) /\ b[i + 1] = a[i] /\ a[i] \in S
  BY <1>1 DEF ToSet
<1> HIDE DEF b
<1>5. ToSet(b) = {x} \cup S
  <2>1. ToSet(b) \subseteq {x} \cup S
    <3> SUFFICES ASSUME NEW i \in 1..Len(b) PROVE b[i] = x \/ b[i] \in S
      BY <1>2 DEF ToSet
    <3>1. i # 1 => b[i] = a[i - 1] /\ i - 1 \in DOMAIN a
      BY <1>1, <1>3
    <3>2. \A j \in DOMAIN a : a[j] \in S
      BY <1>1 DEF ToSet
    <3> QED BY <1>2, <3>1, <3>2
  <2>2. x \in ToSet(b)
    BY <1>1, <1>2 DEF ToSet
  <2>3. S \subseteq ToSet(b)
    <3> SUFFICES ASSUME NEW i \in DOMAIN a PROVE a[i] \in ToSet(b)
      BY <1>1 DEF ToSet
    <3>1. i + 1 \in DOMAIN b /\ b[i + 1] = a[i]
      <4>1. DOMAIN a = 1..Len(a) /\ DOMAIN b = 1..Len(b)
        BY <1>1, <1>2
      <4> QED BY <4>1, <1>4
    <3> QED BY <3>1 DEF ToSet
  <2> QED BY <2>1, <2>2, <2>3
<1>6. Increasing(b)
  <2> SUFFICES ASSUME NEW i \in 1..Len(b), NEW j \in 1..Len(b), i < j PROVE b[i] < b[j]
    BY <1>2 DEF Increasing
  <2>1. j # 1 /\ j - 1 \in 1..Len(a) /\ b[j] = a[j - 1]
    BY <1>2, <1>3
  <2>2. CASE i = 1
    BY <1>2, <1>4, <2>1, <2>2
  <2>3. CASE i # 1
    <3>1. i - 1 \in 1..Len(a) /\ b[i] = a[i - 1] /\ i - 1 < j - 1
      BY <1>3, <2>3
    <3> QED BY <1>1, <2>1, <3>1 DEF Increasing
  <2> QED BY <2>2, <2>3
<1>7. Ascending(ToSet(b)) = b
  BY <1>2, <1>6, AscendingIs
<1> QED BY <1>5, <1>7 DEF a, b

\* The tail of an ascending sequence ascends, behind its head.
LEMMA TailAscends ==
    ASSUME NEW s \in Seq(Int), Increasing(s), s # <<>>
    PROVE  /\ Head(s) \in Int /\ Tail(s) \in Seq(Int) /\ Increasing(Tail(s))
           /\ ToSet(s) = {Head(s)} \cup ToSet(Tail(s))
           /\ \A y \in ToSet(Tail(s)) : Head(s) < y
<1> DEFINE t == Tail(s)
<1>1. Len(s) \in Nat /\ Len(s) > 0 /\ Head(s) = s[1] /\ s[1] \in Int
  OBVIOUS
<1>2. t \in Seq(Int) /\ Len(t) = Len(s) - 1
  OBVIOUS
<1>3. \A i \in 1..Len(t) : t[i] = s[i + 1] /\ i + 1 \in 1..Len(s)
  OBVIOUS
<1>4. \A i \in 1..Len(s) : i # 1 => i - 1 \in 1..Len(t) /\ t[i - 1] = s[i]
  BY <1>1, <1>2, <1>3
<1> HIDE DEF t
<1>5. Increasing(t)
  <2> SUFFICES ASSUME NEW i \in 1..Len(t), NEW j \in 1..Len(t), i < j PROVE t[i] < t[j]
    <3>1. DOMAIN t = 1..Len(t)
      BY <1>2
    <3> QED BY <3>1 DEF Increasing
  <2>1. i + 1 \in 1..Len(s) /\ j + 1 \in 1..Len(s) /\ i + 1 < j + 1
    BY <1>3
  <2>2. s[i + 1] < s[j + 1]
    BY <2>1 DEF Increasing
  <2> QED BY <1>3, <2>2
<1>6. ToSet(s) = {s[1]} \cup ToSet(t)
  <2>1. ToSet(s) \subseteq {s[1]} \cup ToSet(t)
    <3> SUFFICES ASSUME NEW i \in 1..Len(s) PROVE s[i] = s[1] \/ s[i] \in ToSet(t)
      BY DEF ToSet
    <3>1. CASE i = 1
      BY <3>1
    <3>2. CASE i # 1
      <4>1. i - 1 \in DOMAIN t /\ t[i - 1] = s[i]
        BY <1>2, <1>4, <3>2
      <4> QED BY <4>1 DEF ToSet
    <3> QED BY <3>1, <3>2
  <2>2. ToSet(t) \subseteq ToSet(s)
    <3> SUFFICES ASSUME NEW i \in DOMAIN t PROVE t[i] \in ToSet(s)
      BY DEF ToSet
    <3>1. i + 1 \in DOMAIN s /\ s[i + 1] = t[i]
      BY <1>2, <1>3
    <3> QED BY <3>1 DEF ToSet
  <2>3. s[1] \in ToSet(s)
    BY <1>1 DEF ToSet
  <2> QED BY <2>1, <2>2, <2>3
<1>7. \A y \in ToSet(t) : s[1] < y
  <2> SUFFICES ASSUME NEW i \in 1..Len(t) PROVE s[1] < t[i]
    <3>1. DOMAIN t = 1..Len(t)
      BY <1>2
    <3> QED BY <3>1 DEF ToSet
  <2>1. i + 1 \in 1..Len(s) /\ 1 \in 1..Len(s) /\ 1 < i + 1
    BY <1>1, <1>2, <1>3
  <2> QED BY <1>3, <2>1 DEF Increasing
<1> QED BY <1>1, <1>2, <1>5, <1>6, <1>7 DEF t

\* An item in front of a list is less than everything in it.
LEMMA InFront ==
    ASSUME NEW s \in Seq(Int), Increasing(s), NEW x \in Int, s # <<>> => x < Head(s)
    PROVE  \A y \in ToSet(s) : x < y
<1>1. CASE s = <<>>
  BY <1>1 DEF ToSet
<1>2. CASE s # <<>>
  <2>1. /\ Head(s) \in Int
        /\ ToSet(s) = {Head(s)} \cup ToSet(Tail(s))
        /\ \A y \in ToSet(Tail(s)) : Head(s) < y
    BY <1>2, TailAscends
  <2>2. ToSet(s) \subseteq Int
    BY FiniteToSet
  <2> QED BY <1>2, <2>1, <2>2
<1> QED BY <1>1, <1>2

-----------------------------------------------------------------------------
(* The merge: what a turn of it takes out of the lists *)

\* Nothing sorted is nothing.
LEMMA NothingAscends == Ascending({}) = <<>>
<1>1. <<>> \in Seq(Int) /\ Increasing(<<>>) /\ ToSet(<<>>) = {}
  BY DEF Increasing, ToSet
<1> QED BY <1>1, AscendingIs

\* Two lists of documents combine to documents.
LEMMA CombineTyped ==
    ASSUME NEW l \in Seq(Int), NEW r \in Seq(Int), NEW op \in Ops, op # "SELECT"
    PROVE  Combine(op, l, r) \in Seq(Int)
<1>1. /\ IsFiniteSet(ToSet(l)) /\ ToSet(l) \subseteq Int
      /\ IsFiniteSet(ToSet(r)) /\ ToSet(r) \subseteq Int
  BY FiniteToSet
<1>2. CASE op = "ALL"
  BY <1>2 DEF Combine
<1>3. CASE op = "UNION"
  BY <1>1, <1>3, FS_Union, AscendingIsSeq DEF Combine
<1>4. CASE op = "INTERSECT"
  BY <1>1, <1>4, FS_Subset, AscendingIsSeq DEF Combine
<1>5. CASE op = "EXCEPT"
  BY <1>1, <1>5, FS_Subset, AscendingIsSeq DEF Combine
<1> QED BY <1>2, <1>3, <1>4, <1>5 DEF Ops, SetOps

\* The head of a list that is less than what is left of both comes first.
LEMMA UnionFirst ==
    ASSUME NEW k \in Seq(Int), NEW q \in Seq(Int), NEW x \in Int,
           \A y \in ToSet(k) : x < y, \A y \in ToSet(q) : x < y
    PROVE  Ascending({x} \cup (ToSet(k) \cup ToSet(q))) = <<x>> \o Combine("UNION", k, q)
<1> DEFINE S == ToSet(k) \cup ToSet(q)
<1>1. IsFiniteSet(S) /\ S \subseteq Int
  BY FiniteToSet, FS_Union
<1>2. \A y \in S : x < y
  OBVIOUS
<1> HIDE DEF S
<1>3. Ascending({x} \cup S) = <<x>> \o Ascending(S)
  BY <1>1, <1>2, AscendingFirst
<1> QED BY <1>3 DEF S, Combine

\* What one turn of the merge of UNION takes off, in each comparison of the heads.
LEMMA UnionTurn ==
    ASSUME NEW l \in Seq(Int), Increasing(l), NEW r \in Seq(Int), Increasing(r)
    PROVE  /\ l # <<>> /\ (r # <<>> => Head(l) < Head(r))
              => Combine("UNION", l, r) = <<Head(l)>> \o Combine("UNION", Tail(l), r)
           /\ r # <<>> /\ (l # <<>> => Head(r) < Head(l))
              => Combine("UNION", l, r) = <<Head(r)>> \o Combine("UNION", l, Tail(r))
           /\ l # <<>> /\ r # <<>> /\ Head(l) = Head(r)
              => Combine("UNION", l, r) = <<Head(r)>> \o Combine("UNION", Tail(l), Tail(r))
           /\ l = <<>> /\ r = <<>> => Combine("UNION", l, r) = <<>>
<1>1. ASSUME l # <<>>, r # <<>> => Head(l) < Head(r)
      PROVE  Combine("UNION", l, r) = <<Head(l)>> \o Combine("UNION", Tail(l), r)
  <2>1. /\ Head(l) \in Int /\ Tail(l) \in Seq(Int)
        /\ ToSet(l) = {Head(l)} \cup ToSet(Tail(l))
        /\ \A y \in ToSet(Tail(l)) : Head(l) < y
    BY <1>1, TailAscends
  <2>2. \A y \in ToSet(r) : Head(l) < y
    BY <1>1, <2>1, InFront
  <2>3. ToSet(l) \cup ToSet(r) = {Head(l)} \cup (ToSet(Tail(l)) \cup ToSet(r))
    BY <2>1
  <2>4. Ascending({Head(l)} \cup (ToSet(Tail(l)) \cup ToSet(r)))
            = <<Head(l)>> \o Combine("UNION", Tail(l), r)
    BY <2>1, <2>2, UnionFirst
  <2> QED BY <2>3, <2>4 DEF Combine
<1>2. ASSUME r # <<>>, l # <<>> => Head(r) < Head(l)
      PROVE  Combine("UNION", l, r) = <<Head(r)>> \o Combine("UNION", l, Tail(r))
  <2>1. /\ Head(r) \in Int /\ Tail(r) \in Seq(Int)
        /\ ToSet(r) = {Head(r)} \cup ToSet(Tail(r))
        /\ \A y \in ToSet(Tail(r)) : Head(r) < y
    BY <1>2, TailAscends
  <2>2. \A y \in ToSet(l) : Head(r) < y
    BY <1>2, <2>1, InFront
  <2>3. ToSet(l) \cup ToSet(r) = {Head(r)} \cup (ToSet(l) \cup ToSet(Tail(r)))
    BY <2>1
  <2>4. Ascending({Head(r)} \cup (ToSet(l) \cup ToSet(Tail(r))))
            = <<Head(r)>> \o Combine("UNION", l, Tail(r))
    BY <2>1, <2>2, UnionFirst
  <2> QED BY <2>3, <2>4 DEF Combine
<1>3. ASSUME l # <<>>, r # <<>>, Head(l) = Head(r)
      PROVE  Combine("UNION", l, r) = <<Head(r)>> \o Combine("UNION", Tail(l), Tail(r))
  <2>1. /\ Head(l) \in Int /\ Tail(l) \in Seq(Int)
        /\ ToSet(l) = {Head(l)} \cup ToSet(Tail(l))
        /\ \A y \in ToSet(Tail(l)) : Head(l) < y
    BY <1>3, TailAscends
  <2>2. /\ Head(r) \in Int /\ Tail(r) \in Seq(Int)
        /\ ToSet(r) = {Head(r)} \cup ToSet(Tail(r))
        /\ \A y \in ToSet(Tail(r)) : Head(r) < y
    BY <1>3, TailAscends
  <2>3. ToSet(l) \cup ToSet(r) = {Head(r)} \cup (ToSet(Tail(l)) \cup ToSet(Tail(r)))
    BY <2>1, <2>2, <1>3
  <2>4. Ascending({Head(r)} \cup (ToSet(Tail(l)) \cup ToSet(Tail(r))))
            = <<Head(r)>> \o Combine("UNION", Tail(l), Tail(r))
    BY <1>3, <2>1, <2>2, UnionFirst
  <2> QED BY <2>3, <2>4 DEF Combine
<1>4. ASSUME l = <<>>, r = <<>> PROVE Combine("UNION", l, r) = <<>>
  <2>1. ToSet(l) \cup ToSet(r) = {}
    BY <1>4 DEF ToSet
  <2> QED BY <2>1, NothingAscends DEF Combine
<1> QED BY <1>1, <1>2, <1>3, <1>4

\* What one turn of the merge of INTERSECT takes off or skips.
LEMMA IntersectTurn ==
    ASSUME NEW l \in Seq(Int), Increasing(l), NEW r \in Seq(Int), Increasing(r)
    PROVE  /\ l # <<>> /\ r # <<>> /\ Head(l) < Head(r)
              => Combine("INTERSECT", l, r) = Combine("INTERSECT", Tail(l), r)
           /\ l # <<>> /\ r # <<>> /\ Head(r) < Head(l)
              => Combine("INTERSECT", l, r) = Combine("INTERSECT", l, Tail(r))
           /\ l # <<>> /\ r # <<>> /\ Head(l) = Head(r)
              => Combine("INTERSECT", l, r)
                    = <<Head(l)>> \o Combine("INTERSECT", Tail(l), Tail(r))
           /\ l = <<>> \/ r = <<>> => Combine("INTERSECT", l, r) = <<>>
<1> SUFFICES ASSUME l # <<>>, r # <<>>
             PROVE  /\ Head(l) < Head(r)
                       => Combine("INTERSECT", l, r) = Combine("INTERSECT", Tail(l), r)
                    /\ Head(r) < Head(l)
                       => Combine("INTERSECT", l, r) = Combine("INTERSECT", l, Tail(r))
                    /\ Head(l) = Head(r)
                       => Combine("INTERSECT", l, r)
                            = <<Head(l)>> \o Combine("INTERSECT", Tail(l), Tail(r))
  <2>1. l = <<>> \/ r = <<>> => ToSet(l) \cap ToSet(r) = {}
    BY DEF ToSet
  <2> QED BY <2>1, NothingAscends DEF Combine
<1>1. /\ Head(l) \in Int /\ Tail(l) \in Seq(Int)
      /\ ToSet(l) = {Head(l)} \cup ToSet(Tail(l))
      /\ \A y \in ToSet(Tail(l)) : Head(l) < y
  BY TailAscends
<1>2. /\ Head(r) \in Int /\ Tail(r) \in Seq(Int)
      /\ ToSet(r) = {Head(r)} \cup ToSet(Tail(r))
      /\ \A y \in ToSet(Tail(r)) : Head(r) < y
  BY TailAscends
<1>3. ASSUME Head(l) < Head(r)
      PROVE  Combine("INTERSECT", l, r) = Combine("INTERSECT", Tail(l), r)
  <2>1. \A y \in ToSet(r) : Head(l) < y
    BY <1>1, <1>3, InFront
  <2>2. Head(l) \notin ToSet(r)
    BY <1>1, <2>1
  <2>3. ToSet(l) \cap ToSet(r) = ToSet(Tail(l)) \cap ToSet(r)
    BY <1>1, <2>2
  <2> QED BY <2>3 DEF Combine
<1>4. ASSUME Head(r) < Head(l)
      PROVE  Combine("INTERSECT", l, r) = Combine("INTERSECT", l, Tail(r))
  <2>1. \A y \in ToSet(l) : Head(r) < y
    BY <1>2, <1>4, InFront
  <2>2. Head(r) \notin ToSet(l)
    BY <1>2, <2>1
  <2>3. ToSet(l) \cap ToSet(r) = ToSet(l) \cap ToSet(Tail(r))
    BY <1>2, <2>2
  <2> QED BY <2>3 DEF Combine
<1>5. ASSUME Head(l) = Head(r)
      PROVE  Combine("INTERSECT", l, r)
                = <<Head(l)>> \o Combine("INTERSECT", Tail(l), Tail(r))
  <2> DEFINE S == ToSet(Tail(l)) \cap ToSet(Tail(r))
  <2>1. IsFiniteSet(S) /\ S \subseteq Int
    <3>1. IsFiniteSet(ToSet(Tail(l))) /\ ToSet(Tail(l)) \subseteq Int
      BY <1>1, FiniteToSet
    <3> QED BY <3>1, FS_Subset
  <2>2. \A y \in S : Head(l) < y
    BY <1>1
  <2>3. Head(l) \notin ToSet(Tail(l)) /\ Head(l) \notin ToSet(Tail(r))
    BY <1>1, <1>2, <1>5
  <2>4. ToSet(l) \cap ToSet(r) = {Head(l)} \cup S
    BY <1>1, <1>2, <1>5, <2>3
  <2> HIDE DEF S
  <2>5. Ascending({Head(l)} \cup S) = <<Head(l)>> \o Ascending(S)
    BY <1>1, <2>1, <2>2, AscendingFirst
  <2> QED BY <2>4, <2>5 DEF S, Combine
<1> QED BY <1>3, <1>4, <1>5

\* What one turn of the merge of EXCEPT takes off or skips.
LEMMA ExceptTurn ==
    ASSUME NEW l \in Seq(Int), Increasing(l), NEW r \in Seq(Int), Increasing(r)
    PROVE  /\ l # <<>> /\ (r # <<>> => Head(l) < Head(r))
              => Combine("EXCEPT", l, r) = <<Head(l)>> \o Combine("EXCEPT", Tail(l), r)
           /\ l # <<>> /\ r # <<>> /\ Head(r) < Head(l)
              => Combine("EXCEPT", l, r) = Combine("EXCEPT", l, Tail(r))
           /\ l # <<>> /\ r # <<>> /\ Head(l) = Head(r)
              => Combine("EXCEPT", l, r) = Combine("EXCEPT", Tail(l), r)
           /\ l = <<>> => Combine("EXCEPT", l, r) = <<>>
<1> SUFFICES ASSUME l # <<>>
             PROVE  /\ (r # <<>> => Head(l) < Head(r))
                       => Combine("EXCEPT", l, r) = <<Head(l)>> \o Combine("EXCEPT", Tail(l), r)
                    /\ r # <<>> /\ Head(r) < Head(l)
                       => Combine("EXCEPT", l, r) = Combine("EXCEPT", l, Tail(r))
                    /\ r # <<>> /\ Head(l) = Head(r)
                       => Combine("EXCEPT", l, r) = Combine("EXCEPT", Tail(l), r)
  <2>1. l = <<>> => ToSet(l) \ ToSet(r) = {}
    BY DEF ToSet
  <2> QED BY <2>1, NothingAscends DEF Combine
<1>1. /\ Head(l) \in Int /\ Tail(l) \in Seq(Int)
      /\ ToSet(l) = {Head(l)} \cup ToSet(Tail(l))
      /\ \A y \in ToSet(Tail(l)) : Head(l) < y
  BY TailAscends
<1>2. r # <<>> => /\ Head(r) \in Int /\ Tail(r) \in Seq(Int)
                  /\ ToSet(r) = {Head(r)} \cup ToSet(Tail(r))
                  /\ \A y \in ToSet(Tail(r)) : Head(r) < y
  BY TailAscends
<1>3. ASSUME r # <<>> => Head(l) < Head(r)
      PROVE  Combine("EXCEPT", l, r) = <<Head(l)>> \o Combine("EXCEPT", Tail(l), r)
  <2> DEFINE S == ToSet(Tail(l)) \ ToSet(r)
  <2>1. IsFiniteSet(S) /\ S \subseteq Int
    <3>1. IsFiniteSet(ToSet(Tail(l))) /\ ToSet(Tail(l)) \subseteq Int
      BY <1>1, FiniteToSet
    <3> QED BY <3>1, FS_Subset
  <2>2. \A y \in ToSet(r) : Head(l) < y
    BY <1>1, <1>3, InFront
  <2>3. Head(l) \notin ToSet(r)
    BY <1>1, <2>2
  <2>4. ToSet(l) \ ToSet(r) = {Head(l)} \cup S
    BY <1>1, <2>3
  <2>5. \A y \in S : Head(l) < y
    BY <1>1
  <2> HIDE DEF S
  <2>6. Ascending({Head(l)} \cup S) = <<Head(l)>> \o Ascending(S)
    BY <1>1, <2>1, <2>5, AscendingFirst
  <2> QED BY <2>4, <2>6 DEF S, Combine
<1>4. ASSUME r # <<>>, Head(r) < Head(l)
      PROVE  Combine("EXCEPT", l, r) = Combine("EXCEPT", l, Tail(r))
  <2>1. \A y \in ToSet(l) : Head(r) < y
    BY <1>2, <1>4, InFront
  <2>2. Head(r) \notin ToSet(l)
    BY <1>2, <1>4, <2>1
  <2>3. ToSet(l) \ ToSet(r) = ToSet(l) \ ToSet(Tail(r))
    BY <1>2, <1>4, <2>2
  <2> QED BY <2>3 DEF Combine
<1>5. ASSUME r # <<>>, Head(l) = Head(r)
      PROVE  Combine("EXCEPT", l, r) = Combine("EXCEPT", Tail(l), r)
  <2>1. ToSet(l) \ ToSet(r) = ToSet(Tail(l)) \ ToSet(r)
    BY <1>1, <1>2, <1>5
  <2> QED BY <2>1 DEF Combine
<1> QED BY <1>3, <1>4, <1>5

-----------------------------------------------------------------------------
(* Meaning: the results of a node from those of its operands *)

Result(t, f, n) ==
    IF t[n].op = "SELECT" THEN t[n].rows ELSE Combine(t[n].op, f[t[n].left], f[t[n].right])

\* A node of a query, and its operands.
LEMMA TreeNodes ==
    ASSUME NEW t, IsTree(t), NEW n \in DOMAIN t
    PROVE  /\ Len(t) \in Nat /\ Len(t) > 0 /\ DOMAIN t = 1..Len(t) /\ Len(t) \in DOMAIN t
           /\ t[n].op \in Ops /\ t[n].rows \in Seq(Docs)
           /\ t[n].op # "SELECT"
                => /\ t[n].left \in DOMAIN t /\ t[n].left < n
                   /\ t[n].right \in DOMAIN t /\ t[n].right < n
<1>1. t \in Seq(Node) /\ t # <<>>
  BY DEF IsTree
<1>2. Len(t) \in Nat /\ Len(t) > 0 /\ DOMAIN t = 1..Len(t) /\ Len(t) \in DOMAIN t
  BY <1>1
<1>3. t[n] \in Node
  BY <1>1
<1>4. ASSUME t[n].op # "SELECT"
      PROVE  t[n].left \in 1..(n - 1) /\ t[n].right \in 1..(n - 1)
  BY <1>4 DEF IsTree, Sides
<1> QED BY <1>2, <1>3, <1>4 DEF Node

\* A query means documents if its operands do.
LEMMA ResultTyped ==
    ASSUME NEW t, IsTree(t), NEW k \in DOMAIN t,
           NEW g, \A i \in 1..(k - 1) : g[i] \in Seq(Docs)
    PROVE  Result(t, g, k) \in Seq(Docs)
<1>1. CASE t[k].op = "SELECT"
  BY <1>1, TreeNodes DEF Result
<1>2. CASE t[k].op # "SELECT"
  <2>1. t[k].left \in 1..(k - 1) /\ t[k].right \in 1..(k - 1) /\ t[k].op \in Ops
    BY <1>2, TreeNodes
  <2>2. g[t[k].left] \in Seq(Int) /\ g[t[k].right] \in Seq(Int)
    BY <2>1 DEF Docs
  <2>3. Combine(t[k].op, g[t[k].left], g[t[k].right]) \in Seq(Int)
    BY <1>2, <2>1, <2>2, CombineTyped
  <2> QED BY <1>2, <2>3 DEF Result, Docs
<1> QED BY <1>1, <1>2

\* The results of the first k nodes exist, whatever k.
Defined(t, k) ==
    \E g \in [1..k -> Seq(Docs)] : \A n \in 1..k : g[n] = Result(t, g, n)

\* There are results for all nodes of a query that fit those of their operands.
LEMMA ResultsExist ==
    ASSUME NEW t, IsTree(t)
    PROVE  Defined(t, Len(t))
<1> DEFINE Bad == { k \in 0..Len(t) : ~Defined(t, k) }
<1>1. Len(t) \in Nat /\ DOMAIN t = 1..Len(t)
  BY DEF IsTree
<1> SUFFICES ASSUME Bad # {} PROVE FALSE
  BY <1>1
<1>2. PICK k \in Bad : \A j \in Bad : k <= j
  <2>1. Bad \subseteq Nat
    BY <1>1
  <2> QED BY <2>1, LeastElement
<1>3. k \in 0..Len(t) /\ ~Defined(t, k)
  OBVIOUS
<1>4. k # 0
  <2> SUFFICES ASSUME k = 0 PROVE Defined(t, k)
    BY <1>3
  <2>1. <<>> \in [1..k -> Seq(Docs)] /\ 1..k = {}
    OBVIOUS
  <2> QED BY <2>1 DEF Defined
<1>5. k - 1 \in 0..Len(t) /\ k - 1 \notin Bad
  BY <1>1, <1>2, <1>3, <1>4
<1>6. PICK g \in [1..(k - 1) -> Seq(Docs)] : \A n \in 1..(k - 1) : g[n] = Result(t, g, n)
  BY <1>5 DEF Defined
<1> DEFINE h == [n \in 1..k |-> IF n = k THEN Result(t, g, k) ELSE g[n]]
<1>7. k \in DOMAIN t
  BY <1>1, <1>3, <1>4
<1>8. Result(t, g, k) \in Seq(Docs)
  BY <1>7, ResultTyped
<1>9. h \in [1..k -> Seq(Docs)]
  <2>1. \A n \in 1..k : n # k => g[n] \in Seq(Docs)
    BY <1>3, <1>4
  <2> QED BY <1>8, <2>1
<1>10. \A n \in 1..k : Result(t, h, n) = Result(t, g, n)
  <2> SUFFICES ASSUME NEW n \in 1..k PROVE Result(t, h, n) = Result(t, g, n)
    OBVIOUS
  <2>1. n \in DOMAIN t
    BY <1>1, <1>3
  <2>2. CASE t[n].op = "SELECT"
    BY <2>2 DEF Result
  <2>3. CASE t[n].op # "SELECT"
    <3>1. /\ t[n].left \in 1..k /\ t[n].left # k
          /\ t[n].right \in 1..k /\ t[n].right # k
      <4>1. /\ t[n].left \in 1..Len(t) /\ t[n].left < n
            /\ t[n].right \in 1..Len(t) /\ t[n].right < n
        BY <1>1, <2>1, <2>3, TreeNodes
      <4> QED BY <1>3, <4>1
    <3>2. h[t[n].left] = g[t[n].left] /\ h[t[n].right] = g[t[n].right]
      BY <3>1
    <3> HIDE DEF h
    <3> QED BY <2>3, <3>2 DEF Result
  <2> QED BY <2>2, <2>3
<1>11. \A n \in 1..k : h[n] = Result(t, g, n)
  <2> SUFFICES ASSUME NEW n \in 1..k PROVE h[n] = Result(t, g, n)
    OBVIOUS
  <2>1. n # k => n \in 1..(k - 1)
    BY <1>3
  <2> QED BY <1>6, <2>1
<1> HIDE DEF h
<1> QED BY <1>3, <1>9, <1>10, <1>11 DEF Defined

\* A node means what its operator makes of what its operands mean.
LEMMA MeaningOf ==
    ASSUME NEW t, IsTree(t)
    PROVE  /\ Meaning(t) \in [DOMAIN t -> Seq(Docs)]
           /\ \A n \in DOMAIN t : Meaning(t)[n] = Result(t, Meaning(t), n)
<1>1. DOMAIN t = 1..Len(t)
  BY DEF IsTree
<1>2. PICK g \in [1..Len(t) -> Seq(Docs)] : \A n \in 1..Len(t) : g[n] = Result(t, g, n)
  BY ResultsExist DEF Defined
<1>3. g = [n \in DOMAIN t |-> Result(t, g, n)]
  BY <1>1, <1>2
<1>4. Meaning(t) = CHOOSE f : f = [n \in DOMAIN t |-> Result(t, f, n)]
  BY DEF Meaning, Result
<1>5. Meaning(t) = [n \in DOMAIN t |-> Result(t, Meaning(t), n)]
  BY <1>3, <1>4
<1> DEFINE f == Meaning(t)
<1> HIDE DEF f
<1>6. f = [n \in DOMAIN t |-> Result(t, f, n)]
  BY <1>5 DEF f
<1>7. \A n \in DOMAIN t : f[n] = Result(t, f, n)
  BY <1>6
<1> DEFINE Bad == { n \in DOMAIN t : f[n] \notin Seq(Docs) }
<1>8. Bad = {}
  <2> SUFFICES ASSUME Bad # {} PROVE FALSE
    OBVIOUS
  <2>1. Bad \subseteq Nat
    BY <1>1
  <2>2. PICK n \in Bad : \A j \in Bad : n <= j
    BY <2>1, LeastElement
  <2>3. n \in 1..Len(t) /\ Len(t) \in Nat /\ f[n] \notin Seq(Docs)
    BY <1>1 DEF IsTree
  <2>4. \A i \in 1..(n - 1) : i \in DOMAIN t /\ i < n
    BY <1>1, <2>3
  <2>5. \A i \in 1..(n - 1) : f[i] \in Seq(Docs)
    BY <2>1, <2>2, <2>4
  <2>6. Result(t, f, n) \in Seq(Docs)
    BY <1>1, <2>3, <2>5, ResultTyped
  <2> QED BY <1>1, <1>7, <2>3, <2>6
<1>9. f \in [DOMAIN t -> Seq(Docs)]
  BY <1>6, <1>8
<1> QED BY <1>7, <1>9 DEF f

-----------------------------------------------------------------------------
(* The control of the calls *)

\* Query n steps its operand m: one of UNION ALL the left one until it is
\* done, one that reads lists the operand whose list was opened last.
Called(n, m) ==
    \/ tree[n].op = "ALL" /\ m = IF doneLeft[n] THEN tree[n].right ELSE tree[n].left
    \/ /\ tree[n].op \in SetOps /\ cache[n].left.open
       /\ m = IF cache[n].right.open THEN tree[n].right ELSE tree[n].left

\* The stack is a path down the tree.
PathDown ==
    /\ stack # <<>> => stack[1] = Root
    /\ \A i, j \in DOMAIN stack : i < j => stack[j] < stack[i]
    /\ \A i \in DOMAIN stack : i < Len(stack) => Called(stack[i], stack[i + 1])

\* Only the query that returns DONE has ended on it.
EndedOnPath ==
    /\ \A i \in DOMAIN stack :
        stack[i] \in ended => i = Len(stack) /\ pc = "return" /\ rc = "DONE"
    /\ pc = "return" /\ rc = "DONE" => p \in ended

\* The list of the right operand is read after that of the left one, and the
\* merge begins when both are complete.
Phases ==
    /\ pc = "openRight" => /\ tree[p].op \in SetOps /\ tree[p].left \in ended
                           /\ cache[p].left.open /\ ~cache[p].right.open
    /\ pc = "merge" => /\ tree[p].op \in SetOps
                       /\ tree[p].left \in ended /\ tree[p].right \in ended

Path == PathDown /\ EndedOnPath /\ Phases

\* A query that returns a row has one.
RowInv ==
    pc = "return" /\ rc = "ROW" =>
        IF tree[p].op = "SELECT" THEN pos[p] > 0 ELSE pOut[p] # NoDoc

\* The client stops at DONE or NOMEM, and DONE is what it sees of the root's end.
ClientInv ==
    /\ pc # "idle" => ret \in {"NONE", "ROW"}
    /\ pc = "idle" /\ Root \in ended => ret = "DONE"

\* Memory ran out: nothing but a rewind comes after this call.
Broken == (pc = "return" /\ rc = "NOMEM") \/ (pc = "idle" /\ ret = "NOMEM")

Returning(m) == pc = "return" /\ p = m

\* Query n has not been stepped since the rewind.
Untouched(n) ==
    /\ n \notin ended
    /\ pos[n] = 0 /\ pOut[n] = NoDoc /\ ~doneLeft[n]
    /\ ~cache[n].left.open /\ ~cache[n].right.open
    /\ \A i \in DOMAIN stack : stack[i] # n

AllOperands(n) ==
    IF doneLeft[n]
      THEN /\ tree[n].left \in ended
           /\ tree[n].right \in ended => n \in ended \/ Returning(tree[n].right)
      ELSE /\ Untouched(tree[n].right)
           /\ tree[n].left \in ended => Returning(tree[n].left)

ListOperands(n) ==
    /\ \A s \in Sides : ~cache[n][s].open => Untouched(tree[n][s])
    /\ cache[n].right.open => cache[n].left.open /\ tree[n].left \in ended
    /\ ~cache[n].left.open => Untouched(n) \/ (pc = "call" /\ p = n)
    /\ cache[n].left.open => \/ Merged(n)
                             \/ \E i \in DOMAIN stack : i < Len(stack) /\ stack[i] = n
                             \/ pc = "openRight" /\ p = n

\* What a query has had of its operands.
Operands ==
    \A n \in Nodes :
        /\ tree[n].op # "SELECT" /\ Untouched(n) => \A s \in Sides : Untouched(tree[n][s])
        /\ tree[n].op = "ALL" => AllOperands(n)
        /\ tree[n].op \in SetOps => ListOperands(n)

-----------------------------------------------------------------------------
(* Types *)

\* Within a call there is a query at work.
LEMMA AtWork ==
    ASSUME TypeOK, pc # "idle"
    PROVE  /\ stack \in Seq(Nodes) /\ stack # <<>>
           /\ Len(stack) \in Nat /\ Len(stack) > 0
           /\ p = stack[Len(stack)] /\ Len(stack) \in DOMAIN stack /\ p \in Nodes
<1>1. stack \in Seq(Nodes) /\ stack # <<>>
  BY DEF TypeOK
<1>2. Len(stack) \in Nat /\ Len(stack) > 0 /\ Len(stack) \in DOMAIN stack
  BY <1>1
<1>3. p = stack[Len(stack)]
  BY DEF p, Last
<1> QED BY <1>1, <1>2, <1>3

\* The nodes of the statement; no two share an operand.
LEMMA NodeFacts ==
    ASSUME TypeOK
    PROVE  /\ Nodes = 1..Len(tree) /\ Len(tree) \in Nat /\ Root \in Nodes
           /\ \A n \in Nodes : n \in Nat /\ n <= Root /\ tree[n].op \in Ops /\ tree[n].rows \in Seq(Docs)
           /\ \A n \in Nodes, s \in Sides : tree[n].op # "SELECT" =>
                /\ tree[n][s] \in Nodes /\ tree[n][s] < n
           /\ \A m, n \in Nodes, r, s \in Sides :
                tree[m][r] = tree[n][s] /\ tree[m].op # "SELECT" => m = n /\ r = s
<1>1. IsTree(tree)
  BY DEF TypeOK
<1>2. tree \in Seq(Node) /\ tree # <<>>
  BY <1>1 DEF IsTree
<1>3. Nodes = 1..Len(tree) /\ Len(tree) \in Nat /\ Root \in Nodes
  BY <1>2 DEF Nodes, Root
<1>4. \A n \in Nodes : n \in Nat /\ n <= Root /\ tree[n].op \in Ops /\ tree[n].rows \in Seq(Docs)
  BY <1>1, <1>3, TreeNodes DEF Nodes, Root
<1>5. \A n \in Nodes, s \in Sides : tree[n].op # "SELECT" => tree[n][s] \in 1..(n - 1)
  BY <1>1 DEF IsTree, Nodes
<1>6. \A n \in Nodes, s \in Sides : tree[n].op # "SELECT" =>
                tree[n][s] \in Nodes /\ tree[n][s] < n
  BY <1>3, <1>5
<1>7. \A m, n \in Nodes, r, s \in Sides :
                tree[m][r] = tree[n][s] /\ tree[m].op # "SELECT" => m = n /\ r = s
  <2> SUFFICES ASSUME NEW m \in Nodes, NEW n \in Nodes, NEW r \in Sides, NEW s \in Sides,
                      tree[m][r] = tree[n][s], tree[m].op # "SELECT"
               PROVE  m = n /\ r = s
    OBVIOUS
  <2>1. tree[m][r] # 0
    BY <1>3, <1>5
  <2> QED BY <1>1, <2>1 DEF IsTree, Nodes
<1> QED BY <1>3, <1>4, <1>6, <1>7

\* The query at work, when it is not the root, is an operand of the one before it.
LEMMA Callers ==
    ASSUME TypeOK, Path, pc # "idle", p # Root
    PROVE  /\ Len(stack) > 1 /\ Len(stack) - 1 \in DOMAIN stack
           /\ Caller = stack[Len(stack) - 1] /\ Caller \in Nodes /\ Caller \notin ended
           /\ tree[Caller].op # "SELECT" /\ Called(Caller, p)
           /\ p < Caller /\ Side \in Sides /\ tree[Caller][Side] = p
           /\ \A n \in Nodes, s \in Sides : tree[n][s] = p => n = Caller /\ s = Side
<1>1. /\ stack \in Seq(Nodes) /\ stack # <<>>
      /\ Len(stack) \in Nat /\ Len(stack) > 0
      /\ p = stack[Len(stack)] /\ Len(stack) \in DOMAIN stack /\ p \in Nodes
  BY AtWork
<1>2. Len(stack) > 1
  BY <1>1 DEF Path, PathDown
<1>3. Len(stack) - 1 \in DOMAIN stack /\ Len(stack) - 1 < Len(stack)
      /\ (Len(stack) - 1) + 1 = Len(stack)
  BY <1>1, <1>2
<1>4. Caller = stack[Len(stack) - 1] /\ Caller \in Nodes
  BY <1>1, <1>3 DEF Caller
<1>5. Called(Caller, p)
  BY <1>1, <1>3, <1>4 DEF Path, PathDown
<1>6. p < Caller
  BY <1>1, <1>3, <1>4 DEF Path, PathDown
<1>7. Caller \notin ended
  BY <1>3, <1>4 DEF Path, EndedOnPath
<1>8. tree[Caller].op # "SELECT"
  BY <1>5 DEF Called, SetOps
<1>9. p = tree[Caller].left \/ p = tree[Caller].right
  BY <1>5 DEF Called
<1>10. Side \in Sides /\ tree[Caller][Side] = p
  BY <1>9 DEF Side, Sides
<1>11. \A n \in Nodes, s \in Sides : tree[n][s] = p => n = Caller /\ s = Side
  BY <1>4, <1>8, <1>10, NodeFacts
<1> QED BY <1>2, <1>3, <1>4, <1>5, <1>6, <1>7, <1>8, <1>10, <1>11

\* The stack when the query at work has returned.
LEMMA StackPopped ==
    ASSUME TypeOK, Path, pc # "idle", p # Root
    PROVE  /\ Front(stack) \in Seq(Nodes) /\ Front(stack) # <<>>
           /\ Len(Front(stack)) = Len(stack) - 1
           /\ DOMAIN Front(stack) = 1..(Len(stack) - 1)
           /\ \A i \in 1..(Len(stack) - 1) : Front(stack)[i] = stack[i]
           /\ Last(Front(stack)) = Caller
<1>1. stack \in Seq(Nodes) /\ Len(stack) \in Nat
  BY AtWork
<1>2. Len(stack) > 1 /\ Caller = stack[Len(stack) - 1]
  BY Callers
<1>3. /\ Front(stack) \in Seq(Nodes)
      /\ Len(Front(stack)) = Len(stack) - 1
      /\ \A i \in 1..(Len(stack) - 1) : Front(stack)[i] = stack[i]
  BY <1>1, <1>2 DEF Front
<1>4. Last(Front(stack)) = Caller
  BY <1>1, <1>2, <1>3 DEF Last
<1>5. Front(stack) # <<>>
  BY <1>1, <1>2, <1>3
<1>6. DOMAIN Front(stack) = 1..(Len(stack) - 1)
  BY <1>1, <1>3
<1> QED BY <1>3, <1>4, <1>5, <1>6

\* The stack when an operand is called.
LEMMA StackPushed ==
    ASSUME NEW S, NEW s \in Seq(S), NEW m \in S, NEW t, t = Append(s, m)
    PROVE  /\ t \in Seq(S) /\ t # <<>> /\ Len(t) = Len(s) + 1 /\ Len(s) \in Nat
           /\ DOMAIN t = 1..(Len(s) + 1)
           /\ \A i \in 1..Len(s) : t[i] = s[i]
           /\ t[Len(s) + 1] = m /\ Last(t) = m
<1>1. t \in Seq(S) /\ Len(t) = Len(s) + 1 /\ t[Len(s) + 1] = m /\ Len(s) \in Nat
  OBVIOUS
<1>2. \A i \in 1..Len(s) : t[i] = s[i]
  OBVIOUS
<1>3. Last(t) = m
  BY <1>1 DEF Last
<1> QED BY <1>1, <1>2, <1>3

\* The first state has the types.
LEMMA InitTyped == Init => TypeOK /\ meaning = Meaning(tree)
<1> SUFFICES ASSUME Init PROVE TypeOK /\ meaning = Meaning(tree)
  OBVIOUS
<1>1. IsTree(tree) /\ meaning = Meaning(tree) /\ faults \in Nat
  BY CasesAssumption DEF Init
<1>2. meaning \in [Nodes -> Seq(Docs)]
  BY <1>1, MeaningOf DEF Nodes
<1>3. \A n \in Nodes : Len(tree[n].rows) \in Nat
  BY <1>1, TreeNodes DEF Nodes
<1>4. pos \in [Nodes -> Nat] /\ \A n \in Nodes : pos[n] <= Len(tree[n].rows)
  BY <1>3 DEF Init
<1>5. NoLists \in [Sides -> Lists]
  BY DEF NoLists, ClosedList, Lists
<1>6. cache \in [Nodes -> [Sides -> Lists]]
  BY <1>5 DEF Init
<1>7. doneLeft \in [Nodes -> BOOLEAN] /\ pOut \in [Nodes -> Docs \cup {NoDoc}]
  BY DEF Init
<1>8. /\ stack \in Seq(Nodes) /\ (stack = <<>> <=> pc = "idle")
      /\ pc \in {"idle", "call", "openRight", "merge", "return"} /\ rc \in Codes
      /\ ended \subseteq Nodes
      /\ out \in Seq(Docs) /\ ret \in Codes \cup {"NONE"}
  BY DEF Init, Codes
<1> QED BY <1>1, <1>2, <1>4, <1>6, <1>7, <1>8 DEF TypeOK

\* The document of a query that returns a row.
LEMMA DocTyped ==
    ASSUME TypeOK, Path, RowInv, pc = "return", rc = "ROW"
    PROVE  Doc(p) \in Docs
<1>1. p \in Nodes
  BY AtWork
<1>2. CASE tree[p].op = "SELECT"
  <2>1. tree[p].rows \in Seq(Docs)
    BY <1>1, NodeFacts
  <2>2. pos[p] \in 1..Len(tree[p].rows)
    BY <1>1, <1>2, <2>1 DEF TypeOK, RowInv
  <2> QED BY <1>2, <2>1, <2>2 DEF Doc
<1>3. CASE tree[p].op # "SELECT"
  BY <1>1, <1>3 DEF Doc, TypeOK, RowInv
<1> QED BY <1>2, <1>3

\* Opening a list.
LEMMA CacheSet ==
    ASSUME TypeOK, NEW n \in Nodes, NEW s \in Sides, NEW l \in Lists,
           NEW c, c = [cache EXCEPT ![n][s] = l]
    PROVE  /\ c \in [Nodes -> [Sides -> Lists]]
           /\ c[n][s] = l
           /\ \A m \in Nodes, r \in Sides : ~(m = n /\ r = s) => c[m][r] = cache[m][r]
           /\ \A m \in Nodes : m # n => c[m] = cache[m]
<1>1. cache \in [Nodes -> [Sides -> Lists]]
  BY DEF TypeOK
<1> QED BY <1>1

\* Changing what is in a list.
LEMMA ItemsSet ==
    ASSUME TypeOK, NEW n \in Nodes, NEW s \in Sides, NEW i \in Seq(Docs),
           NEW c, c = [cache EXCEPT ![n][s].items = i]
    PROVE  /\ c \in [Nodes -> [Sides -> Lists]]
           /\ c[n][s].items = i
           /\ \A m \in Nodes, r \in Sides : c[m][r].open = cache[m][r].open
           /\ \A m \in Nodes, r \in Sides : ~(m = n /\ r = s) => c[m][r] = cache[m][r]
           /\ \A m \in Nodes : m # n => c[m] = cache[m]
<1>1. cache \in [Nodes -> [Sides -> Lists]]
  BY DEF TypeOK
<1>2. cache[n][s] \in Lists
  BY <1>1
<1> DEFINE l == [cache[n][s] EXCEPT !.items = i]
<1>3. l \in Lists /\ l.items = i /\ l.open = cache[n][s].open
  BY <1>2 DEF Lists
<1>4. c = [cache EXCEPT ![n][s] = l]
  BY <1>1
<1> HIDE DEF l
<1>5. /\ c \in [Nodes -> [Sides -> Lists]]
      /\ c[n][s] = l
      /\ \A m \in Nodes, r \in Sides : ~(m = n /\ r = s) => c[m][r] = cache[m][r]
      /\ \A m \in Nodes : m # n => c[m] = cache[m]
  BY <1>1, <1>3, <1>4
<1>6. \A m \in Nodes, r \in Sides : c[m][r].open = cache[m][r].open
  BY <1>3, <1>5
<1> QED BY <1>3, <1>5, <1>6

\* A turn of a merge takes the heads of lists that have one.
Turn(S) ==
    /\ Merging /\ \A t \in S : Has(t)
    /\ MergeSkip(S) \/ \E s \in Sides : Has(s) /\ MergeRow(s, S)

\* Each step of a merge but its end pops one or both lists.
LEMMA Turns ==
    ASSUME UnionRow \/ IntersectItem \/ ExceptItem
    PROVE  \E S \in SUBSET Sides : Turn(S)
<1>1. {"left"} \in SUBSET Sides /\ {"right"} \in SUBSET Sides /\ Sides \in SUBSET Sides
      /\ "left" \in Sides /\ "right" \in Sides
  BY DEF Sides
<1>2. Merging
  BY DEF UnionRow, IntersectItem, ExceptItem
<1>3. /\ LeftFirst => Has("left")
      /\ RightFirst => Has("right")
      /\ Equal => Has("left") /\ Has("right")
  BY DEF LeftFirst, RightFirst, Equal
<1>4. ASSUME LeftFirst, MergeRow("left", {"left"}) \/ MergeSkip({"left"})
      PROVE  Turn({"left"})
  BY <1>1, <1>2, <1>3, <1>4 DEF Turn
<1>5. ASSUME RightFirst, MergeRow("right", {"right"}) \/ MergeSkip({"right"})
      PROVE  Turn({"right"})
  BY <1>1, <1>2, <1>3, <1>5 DEF Turn
<1>6. ASSUME Equal, MergeRow("right", Sides) \/ MergeRow("left", Sides)
      PROVE  Turn(Sides)
  BY <1>1, <1>2, <1>3, <1>6 DEF Turn, Sides
<1>7. ASSUME Equal, MergeSkip({"left"}) PROVE Turn({"left"})
  BY <1>1, <1>2, <1>3, <1>7 DEF Turn
<1>8. CASE UnionRow
  BY <1>1, <1>4, <1>5, <1>6, <1>8, Zenon DEF UnionRow
<1>9. CASE IntersectItem
  BY <1>1, <1>4, <1>5, <1>6, <1>9, Zenon DEF IntersectItem
<1>10. CASE ExceptItem
  BY <1>1, <1>4, <1>5, <1>7, <1>10, Zenon DEF ExceptItem
<1> QED BY <1>8, <1>9, <1>10

\* The lists in S lose their heads.
LEMMA ListsPopped ==
    ASSUME TypeOK, p \in Nodes, NEW S \in SUBSET Sides, \A t \in S : Has(t), PopLists(S)
    PROVE  /\ cache' \in [Nodes -> [Sides -> Lists]]
           /\ \A m \in Nodes : m # p => cache'[m] = cache[m]
           /\ \A m \in Nodes, s \in Sides : cache'[m][s].open = cache[m][s].open
           /\ \A s \in S : cache'[p][s].items = Tail(Items(s))
           /\ \A s \in Sides \ S : cache'[p][s].items = Items(s)
<1>1. cache \in [Nodes -> [Sides -> Lists]]
  BY DEF TypeOK
<1> DEFINE l(s) == IF s \in S THEN Popped(cache[p][s]) ELSE cache[p][s]
           g == [s \in Sides |-> l(s)]
<1>2. cache' = [cache EXCEPT ![p] = g]
  BY <1>1 DEF PopLists
<1>3. \A s \in Sides : cache[p][s] \in Lists
  BY <1>1
<1>4. \A s \in S : Tail(cache[p][s].items) \in Seq(Docs)
  BY <1>3 DEF Has, Items, Lists
<1>5. \A s \in Sides : l(s) \in Lists /\ l(s).open = cache[p][s].open
  BY <1>3, <1>4 DEF Lists, Popped
<1>6. \A s \in S : l(s).items = Tail(cache[p][s].items)
  BY <1>3 DEF Lists, Popped
<1>7. \A s \in Sides \ S : l(s).items = cache[p][s].items
  OBVIOUS
<1> HIDE DEF l
<1>8. g \in [Sides -> Lists] /\ \A s \in Sides : g[s] = l(s)
  BY <1>5
<1> HIDE DEF g
<1>9. /\ cache' \in [Nodes -> [Sides -> Lists]]
      /\ cache'[p] = g /\ \A m \in Nodes : m # p => cache'[m] = cache[m]
  BY <1>1, <1>2, <1>8
<1>10. \A m \in Nodes, s \in Sides : cache'[m][s].open = cache[m][s].open
  BY <1>5, <1>8, <1>9
<1>11. \A s \in S : cache'[p][s].items = Tail(Items(s))
  BY <1>6, <1>8, <1>9 DEF Items
<1>12. \A s \in Sides \ S : cache'[p][s].items = Items(s)
  BY <1>7, <1>8, <1>9 DEF Items
<1> QED BY <1>9, <1>10, <1>11, <1>12

\* What a turn of the merge leaves alone.
LEMMA TurnTyped ==
    ASSUME TypeOK, NEW S \in SUBSET Sides, Turn(S)
    PROVE  /\ p \in Nodes /\ tree[p].op \in SetOps /\ PopLists(S)
           /\ UNCHANGED <<query, pos, doneLeft, stack, client, faults>>
           /\ pOut' \in [Nodes -> Docs \cup {NoDoc}]
           /\ \A m \in Nodes : m # p => pOut'[m] = pOut[m]
           /\ \/ pc' = "merge" /\ UNCHANGED <<pOut, rc, ended>>
              \/ pc' = "return" /\ rc' = "ROW" /\ pOut'[p] \in Docs /\ ended' = ended
<1>1. p \in Nodes /\ tree[p].op \in SetOps
  BY AtWork DEF Turn, Merging
<1>2. CASE MergeSkip(S)
  BY <1>1, <1>2 DEF MergeSkip, TypeOK
<1>3. ASSUME NEW s \in Sides, Has(s), MergeRow(s, S)
      PROVE  /\ PopLists(S)
             /\ UNCHANGED <<query, pos, doneLeft, stack, client, faults>>
             /\ pOut' \in [Nodes -> Docs \cup {NoDoc}]
             /\ \A m \in Nodes : m # p => pOut'[m] = pOut[m]
             /\ pc' = "return" /\ rc' = "ROW" /\ pOut'[p] \in Docs /\ ended' = ended
  <2>1. Items(s) \in Seq(Docs) /\ Items(s) # <<>>
    BY <1>1, <1>3 DEF TypeOK, Items, Has, Lists
  <2>2. Head(Items(s)) \in Docs
    BY <2>1
  <2>3. pOut' = [pOut EXCEPT ![p] = Head(Items(s))] /\ pOut \in [Nodes -> Docs \cup {NoDoc}]
    BY <1>3 DEF MergeRow, TypeOK
  <2>4. /\ pOut' \in [Nodes -> Docs \cup {NoDoc}]
        /\ \A m \in Nodes : m # p => pOut'[m] = pOut[m]
        /\ pOut'[p] \in Docs
    BY <1>1, <2>2, <2>3
  <2> QED BY <1>3, <2>4 DEF MergeRow, Return
<1> QED BY <1>1, <1>2, <1>3 DEF Turn

\* The parts of TypeOK that steps change.
DataTyped ==
    /\ pos \in [Nodes -> Nat] /\ \A n \in Nodes : pos[n] <= Len(tree[n].rows)
    /\ cache \in [Nodes -> [Sides -> Lists]]
    /\ doneLeft \in [Nodes -> BOOLEAN]
    /\ pOut \in [Nodes -> Docs \cup {NoDoc}]

ControlTyped ==
    /\ stack \in Seq(Nodes) /\ (stack = <<>> <=> pc = "idle")
    /\ pc \in {"idle", "call", "openRight", "merge", "return"} /\ rc \in Codes
    /\ ended \subseteq Nodes
    /\ out \in Seq(Docs) /\ ret \in Codes \cup {"NONE"}
    /\ faults \in Nat

\* A step from a typed state leaves one.
LEMMA TypeStep ==
    ASSUME TypeOK, Path, RowInv, [Next]_vars
    PROVE  TypeOK' /\ UNCHANGED query
<1> USE DEF query, client
<1>0. UNCHANGED vars => TypeOK' /\ UNCHANGED query
  BY DEF TypeOK, vars, Nodes
<1> SUFFICES ASSUME Next PROVE TypeOK' /\ UNCHANGED query
  BY <1>0
<1>1. DataTyped /\ ControlTyped
  BY DEF TypeOK, DataTyped, ControlTyped
<1>2. /\ UNCHANGED query /\ Nodes' = Nodes
      /\ DataTyped' /\ ControlTyped' => TypeOK'
  <2>1. UNCHANGED query
    BY DEF Next, Internal, Step, Rewind, StepReturns, SelectRow, SelectDone, SelectNoMem,
         AllCalls, AllLeftDone, AllReturns, CacheOpen, CacheNoPool, CacheAdd, CacheNoItem,
         CacheSort, CacheError, MergeDone, UnionRow, IntersectItem, ExceptItem,
         MergeRow, MergeSkip
  <2>2. Nodes' = Nodes
    BY <2>1 DEF Nodes
  <2>3. DataTyped' /\ ControlTyped' => TypeOK'
    BY <2>1, <2>2 DEF TypeOK, DataTyped, ControlTyped
  <2> QED BY <2>1, <2>2, <2>3
<1>3. pc # "idle" => /\ stack \in Seq(Nodes) /\ stack # <<>>
                     /\ p \in Nodes /\ Len(tree[p].rows) \in Nat
  BY AtWork, NodeFacts
<1>4. UNCHANGED <<pos, cache, doneLeft, pOut>> => DataTyped'
  BY <1>1, <1>2 DEF DataTyped
<1>5. ASSUME pc # "idle", p # Root, NEW code \in Codes, ReturnFromCaller(code),
             UNCHANGED <<pc, out, ret>>, faults' \in Nat
      PROVE  ControlTyped'
  <2>1. Front(stack) \in Seq(Nodes) /\ Front(stack) # <<>> /\ Caller \in Nodes
    BY <1>5, StackPopped, Callers
  <2> QED BY <1>1, <1>2, <1>5, <2>1 DEF ControlTyped, ReturnFromCaller
<1>6. ASSUME pc # "idle", NEW code \in Codes, Return(code),
             UNCHANGED <<stack, out, ret>>, faults' \in Nat
      PROVE  ControlTyped'
  BY <1>1, <1>2, <1>3, <1>6 DEF ControlTyped, Return
<1>7. ASSUME pc # "idle", tree[p].op # "SELECT", NEW s \in Sides, Call(s),
             UNCHANGED <<rc, ended, out, ret, faults>>
      PROVE  ControlTyped'
  <2>1. tree[p][s] \in Nodes
    BY <1>3, <1>7, NodeFacts
  <2>2. stack' \in Seq(Nodes) /\ stack' # <<>>
    BY <1>3, <1>7, <2>1 DEF Call
  <2> QED BY <1>1, <1>2, <1>7, <2>2 DEF ControlTyped, Call
<1>8. Fails => faults' \in Nat
  BY <1>1 DEF Fails, ControlTyped
<1>9. "ROW" \in Codes /\ "DONE" \in Codes /\ "NOMEM" \in Codes /\ "left" \in Sides /\ "right" \in Sides
  BY DEF Codes, Sides
<1>10. CASE Step
  <2>1. <<Root>> \in Seq(Nodes) /\ <<Root>> # <<>>
    BY NodeFacts
  <2>2. ControlTyped'
    BY <1>1, <1>2, <1>10, <2>1 DEF ControlTyped, Step
  <2> QED BY <1>2, <1>4, <1>10, <2>2 DEF Step
<1>11. CASE Rewind
  <2>1. NoLists \in [Sides -> Lists]
    BY DEF NoLists, ClosedList, Lists
  <2>2. cache' \in [Nodes -> [Sides -> Lists]]
    BY <1>11, <2>1 DEF Rewind
  <2>3. pos' \in [Nodes -> Nat] /\ \A n \in Nodes : pos'[n] <= Len(tree[n].rows)
    BY <1>11, NodeFacts DEF Rewind
  <2>4. DataTyped'
    BY <1>2, <1>11, <2>2, <2>3 DEF DataTyped, Rewind
  <2>5. ControlTyped'
    BY <1>1, <1>2, <1>11 DEF ControlTyped, Rewind
  <2> QED BY <1>2, <2>4, <2>5
<1>12. CASE StepReturns
  <2>1. rc = "ROW" => Doc(Root) \in Docs
    BY <1>12, DocTyped DEF StepReturns
  <2>2. out' \in Seq(Docs)
    BY <1>1, <1>12, <2>1 DEF ControlTyped, StepReturns
  <2>3. ControlTyped'
    BY <1>1, <1>2, <1>12, <2>2 DEF ControlTyped, StepReturns
  <2> QED BY <1>2, <1>4, <1>12, <2>3 DEF StepReturns
<1>13. CASE SelectRow
  <2>1. DataTyped'
    BY <1>1, <1>2, <1>3, <1>13 DEF DataTyped, SelectRow, AtSelect
  <2>2. ControlTyped'
    BY <1>1, <1>6, <1>9, <1>13 DEF SelectRow, AtSelect, ControlTyped
  <2> QED BY <1>2, <2>1, <2>2
<1>14. CASE SelectDone
  <2>1. DataTyped'
    BY <1>1, <1>2, <1>3, <1>14 DEF DataTyped, SelectDone, AtSelect
  <2>2. ControlTyped'
    BY <1>1, <1>6, <1>9, <1>14 DEF SelectDone, AtSelect, ControlTyped
  <2> QED BY <1>2, <2>1, <2>2
<1>15. CASE SelectNoMem
  BY <1>2, <1>4, <1>6, <1>8, <1>9, <1>15 DEF SelectNoMem, AtSelect
<1>16. CASE AllCalls
  <2>1. ControlTyped'
    BY <1>7, <1>9, <1>16 DEF AllCalls
  <2> QED BY <1>2, <1>4, <1>16, <2>1 DEF AllCalls
<1>17. CASE AllLeftDone
  <2>1. pc # "idle" /\ p # Root
    BY <1>17 DEF AllLeftDone, OperandOfAll
  <2>2. Front(stack) \in Seq(Nodes) /\ Caller \in Nodes /\ tree[Caller].op # "SELECT"
    BY <2>1, StackPopped, Callers
  <2>3. tree[Caller].right \in Nodes
    BY <1>9, <2>2, NodeFacts
  <2>4. stack' \in Seq(Nodes) /\ stack' # <<>>
    BY <1>17, <2>2, <2>3 DEF AllLeftDone
  <2>5. ControlTyped'
    BY <1>1, <1>2, <1>17, <2>4 DEF ControlTyped, AllLeftDone
  <2>6. DataTyped'
    BY <1>1, <1>2, <1>17, <2>2 DEF DataTyped, AllLeftDone
  <2> QED BY <1>2, <2>5, <2>6
<1>18. CASE AllReturns
  <2>1. pc # "idle" /\ p # Root /\ rc \in Codes
    BY <1>1, <1>18 DEF AllReturns, OperandOfAll, ControlTyped
  <2>2. ControlTyped'
    BY <1>1, <1>5, <1>18, <2>1 DEF AllReturns, ControlTyped
  <2>3. (IF rc = "ROW" THEN Doc(p) ELSE NoDoc) \in Docs \cup {NoDoc}
    BY <1>18, DocTyped DEF AllReturns, OperandOfAll
  <2>4. DataTyped'
    BY <1>1, <1>2, <1>18, <2>3 DEF DataTyped, AllReturns
  <2> QED BY <1>2, <2>2, <2>4
<1>19. CASE CacheOpen
  <2>1. PICK s \in Sides : /\ Opening(s)
                           /\ cache' = [cache EXCEPT ![p][s] = OpenList]
                           /\ Call(s)
                           /\ UNCHANGED <<query, pos, doneLeft, pOut, rc, ended, client, faults>>
    BY <1>19 DEF CacheOpen
  <2>2. pc # "idle" /\ tree[p].op # "SELECT"
    BY <2>1 DEF Opening, Path, Phases, SetOps
  <2>3. ControlTyped'
    BY <1>7, <2>1, <2>2
  <2>4. OpenList \in Lists
    BY DEF OpenList, Lists
  <2>5. DataTyped'
    BY <1>1, <1>2, <1>3, <2>1, <2>2, <2>4 DEF DataTyped
  <2> QED BY <1>2, <2>3, <2>5
<1>20. CASE CacheNoPool
  <2>1. pc # "idle" /\ Fails /\ Return("NOMEM")
        /\ UNCHANGED <<query, pos, cache, doneLeft, pOut, stack, client>>
    BY <1>20 DEF CacheNoPool, Opening
  <2> QED BY <1>2, <1>4, <1>6, <1>8, <1>9, <2>1
<1>21. CASE CacheAdd
  <2>1. pc = "return" /\ rc = "ROW" /\ p # Root
    BY <1>21 DEF CacheAdd, OperandOfSetOp
  <2>2. Doc(p) \in Docs /\ Caller \in Nodes /\ Side \in Sides
    BY <2>1, DocTyped, Callers
  <2>3. cache[Caller][Side].items \in Seq(Docs)
    BY <1>1, <2>2 DEF DataTyped, Lists
  <2>4. Append(cache[Caller][Side].items, Doc(p)) \in Seq(Docs)
    BY <2>2, <2>3
  <2>5. cache' \in [Nodes -> [Sides -> Lists]]
    BY <1>21, <2>2, <2>4, ItemsSet DEF CacheAdd
  <2>6. DataTyped'
    BY <1>1, <1>2, <1>21, <2>5 DEF DataTyped, CacheAdd
  <2>7. ControlTyped'
    BY <1>1, <1>2, <1>21, <2>1 DEF ControlTyped, CacheAdd
  <2> QED BY <1>2, <2>6, <2>7
<1>22. CASE CacheNoItem
  <2>1. pc # "idle" /\ p # Root /\ Fails /\ ReturnFromCaller("NOMEM")
        /\ UNCHANGED <<query, pos, cache, doneLeft, pOut, pc, client>>
    BY <1>22 DEF CacheNoItem, OperandOfSetOp
  <2> QED BY <1>2, <1>4, <1>5, <1>8, <1>9, <2>1
<1>23. CASE CacheSort
  <2>1. pc = "return" /\ p # Root
    BY <1>23 DEF CacheSort, OperandOfSetOp
  <2>2. Caller \in Nodes /\ Side \in Sides /\ Front(stack) \in Seq(Nodes) /\ Front(stack) # <<>>
    BY <2>1, StackPopped, Callers
  <2>3. cache[Caller][Side].items \in Seq(Docs)
    BY <1>1, <2>2 DEF DataTyped, Lists
  <2>4. Ascending(ToSet(cache[Caller][Side].items)) \in Seq(Docs)
    BY <2>3, FiniteToSet, AscendingIsSeq DEF Docs
  <2>5. cache' \in [Nodes -> [Sides -> Lists]]
    BY <1>23, <2>2, <2>4, ItemsSet DEF CacheSort
  <2>6. DataTyped'
    BY <1>1, <1>2, <1>23, <2>5 DEF DataTyped, CacheSort
  <2>7. ControlTyped'
    BY <1>1, <1>2, <1>23, <2>1, <2>2 DEF ControlTyped, CacheSort
  <2> QED BY <1>2, <2>6, <2>7
<1>24. CASE CacheError
  <2>1. pc # "idle" /\ p # Root /\ ReturnFromCaller("NOMEM")
        /\ UNCHANGED <<query, pos, cache, doneLeft, pOut, pc, client, faults>>
    BY <1>24 DEF CacheError, OperandOfSetOp
  <2> QED BY <1>1, <1>2, <1>4, <1>5, <1>9, <2>1 DEF ControlTyped
<1>25. CASE MergeDone
  <2>1. pc # "idle" /\ Return("DONE")
        /\ UNCHANGED <<query, pos, cache, doneLeft, stack, client, faults>>
        /\ pOut' = [pOut EXCEPT ![p] = NoDoc]
    BY <1>25 DEF MergeDone, Merging
  <2>2. ControlTyped'
    BY <1>1, <1>6, <1>9, <2>1 DEF ControlTyped
  <2>3. DataTyped'
    BY <1>1, <1>2, <2>1 DEF DataTyped
  <2> QED BY <1>2, <2>2, <2>3
<1>26. CASE UnionRow \/ IntersectItem \/ ExceptItem
  <2>1. PICK S \in SUBSET Sides : Turn(S)
    BY <1>26, Turns
  <2>2. /\ p \in Nodes /\ PopLists(S)
        /\ UNCHANGED <<query, pos, doneLeft, stack, client, faults>>
        /\ pOut' \in [Nodes -> Docs \cup {NoDoc}]
        /\ \/ pc' = "merge" /\ UNCHANGED <<pOut, rc, ended>>
           \/ pc' = "return" /\ rc' = "ROW" /\ pOut'[p] \in Docs /\ ended' = ended
    BY <2>1, TurnTyped
  <2>3. cache' \in [Nodes -> [Sides -> Lists]]
    BY <2>1, <2>2, ListsPopped DEF Turn
  <2>4. DataTyped'
    BY <1>1, <1>2, <2>2, <2>3 DEF DataTyped
  <2>5. pc # "idle"
    BY <2>1 DEF Turn, Merging
  <2>6. ControlTyped'
    BY <1>1, <1>2, <1>9, <2>2, <2>5 DEF ControlTyped
  <2> QED BY <1>2, <2>4, <2>6
<1> QED BY <1>10, <1>11, <1>12, <1>13, <1>14, <1>15, <1>16, <1>17, <1>18, <1>19, <1>20,
           <1>21, <1>22, <1>23, <1>24, <1>25, <1>26, <1>2 DEF Next, Internal

-----------------------------------------------------------------------------
(* The path: what the steps do to the stack *)

\* What decides which operand query n is at stays as it was.
SameTurn(n) ==
    doneLeft'[n] = doneLeft[n] /\ \A s \in Sides : cache'[n][s].open = cache[n][s].open

\* A step keeps the first k queries of the stack, and may add one operand of
\* the last of them.
LEMMA PathKept ==
    ASSUME TypeOK, PathDown, UNCHANGED query, NEW k \in 1..Len(stack),
           stack' \in Seq(Nodes), Len(stack') = k \/ Len(stack') = k + 1,
           \A i \in 1..k : stack'[i] = stack[i],
           \A i \in 1..(k - 1) : SameTurn(stack[i]),
           Len(stack') = k + 1 => /\ stack'[k + 1] < stack[k]
                                  /\ Called(stack[k], stack[k + 1])'
    PROVE  PathDown'
<1>1. tree' = tree /\ Root' = Root
  BY DEF query, Root
<1>2. stack \in Seq(Nodes) /\ Len(stack) \in Nat /\ DOMAIN stack = 1..Len(stack) /\ Nodes \subseteq Nat
  <2>1. stack \in Seq(Nodes)
    BY DEF TypeOK
  <2>2. Nodes \subseteq Nat
    BY NodeFacts
  <2> QED BY <2>1, <2>2
<1>3. Len(stack') \in Nat /\ DOMAIN stack' = 1..Len(stack')
  BY <1>2
<1>4. k \in Nat /\ k > 0 /\ \A i \in 1..k : i \in DOMAIN stack /\ stack[i] \in Nat
  <2>1. k \in Nat /\ k > 0 /\ \A i \in 1..k : i \in DOMAIN stack
    BY <1>2
  <2>2. \A i \in DOMAIN stack : stack[i] \in Nodes
    BY <1>2
  <2> QED BY <1>2, <2>1, <2>2
<1> DEFINE len == Len(stack')
<1>8. len \in Nat /\ (len = k \/ len = k + 1) /\ DOMAIN stack' = 1..len
  BY <1>3
<1> HIDE DEF len
<1>9. \A i \in 1..len : i < len => i \in 1..k
  BY <1>4, <1>8
<1>10. \A i \in 1..len : i \in 1..k \/ (i = k + 1 /\ len = k + 1)
  BY <1>4, <1>8
<1>5. stack'[1] = Root'
  BY <1>1, <1>2 DEF PathDown
<1>6. \A i, j \in DOMAIN stack' : i < j => stack'[j] < stack'[i]
  <2> SUFFICES ASSUME NEW i \in 1..len, NEW j \in 1..len, i < j
               PROVE  stack'[j] < stack'[i]
    BY <1>8
  <2>1. i \in 1..k /\ stack'[i] = stack[i]
    <3>1. i < len
      BY <1>8
    <3> QED BY <1>9, <3>1
  <2>2. CASE j \in 1..k
    BY <1>4, <2>1, <2>2 DEF PathDown
  <2>3. CASE j = k + 1 /\ len = k + 1
    <3>1. stack'[j] < stack[k] /\ stack'[j] \in Nat
      <4>1. j \in DOMAIN stack' /\ stack'[j] \in Nodes
        BY <1>8
      <4> QED BY <1>2, <2>3, <4>1 DEF len
    <3>2. stack[k] <= stack[i]
      <4>1. CASE i = k
        BY <1>4, <4>1
      <4>2. CASE i < k
        BY <1>4, <2>1, <4>2 DEF PathDown
      <4> QED BY <2>1, <4>1, <4>2
    <3> QED BY <1>4, <2>1, <3>1, <3>2
  <2> QED BY <1>10, <2>2, <2>3
<1>7. \A i \in DOMAIN stack' : i < Len(stack') => Called(stack[i], stack[i + 1])'
  <2> SUFFICES ASSUME NEW i \in 1..len, i < len
               PROVE  Called(stack[i], stack[i + 1])'
    BY <1>8 DEF len
  <2>1. i \in 1..k /\ stack'[i] = stack[i]
    BY <1>9
  <2>2. CASE i \in 1..(k - 1)
    <3>1. i + 1 \in 1..k /\ stack'[i + 1] = stack[i + 1] /\ i < Len(stack)
      BY <1>2, <2>2
    <3>2. Called(stack[i], stack[i + 1]) /\ SameTurn(stack[i])
      BY <1>4, <2>1, <2>2, <3>1 DEF PathDown
    <3> DEFINE n == stack[i]
               m == stack[i + 1]
    <3>3. n' = n /\ m' = m
      BY <2>1, <3>1
    <3>4. Called(n, m) /\ SameTurn(n)
      BY <3>2
    <3> HIDE DEF n, m
    <3>5. Called(n, m)'
      BY <1>1, <3>3, <3>4 DEF Called, SameTurn, Sides
    <3> QED BY <3>5 DEF n, m
  <2>3. CASE i = k
    <3>1. Len(stack') = k + 1
      <4>1. len = k + 1
        BY <1>4, <1>8, <2>3
      <4> QED BY <4>1 DEF len
    <3> QED BY <2>3, <3>1
  <2>4. i \in 1..(k - 1) \/ i = k
    BY <1>4, <2>1
  <2> QED BY <2>4, <2>2, <2>3
<1> QED BY <1>5, <1>6, <1>7 DEF PathDown

\* The path stays when the stack does and no waiting query changes its turn.
LEMMA PathSame ==
    ASSUME TypeOK, PathDown, UNCHANGED <<query, stack>>, \A n \in Nodes : n # p => SameTurn(n)
    PROVE  PathDown' /\ p' = p
<1>1. stack' = stack /\ p' = p /\ UNCHANGED query
  BY DEF p
<1>2. stack \in Seq(Nodes) /\ Nodes \subseteq Nat
  <2>1. Nodes \subseteq Nat
    BY NodeFacts
  <2> QED BY <2>1 DEF TypeOK
<1>3. CASE stack = <<>>
  BY <1>1, <1>3 DEF PathDown
<1>4. CASE stack # <<>>
  <2>1. /\ Len(stack) \in 1..Len(stack) /\ p = stack[Len(stack)]
        /\ \A i \in 1..(Len(stack) - 1) : /\ i \in DOMAIN stack /\ i < Len(stack)
                                          /\ stack[i] \in Nodes
        /\ Len(stack) \in DOMAIN stack /\ p \in Nodes
    BY <1>2, <1>4 DEF p, Last
  <2>2. \A i \in 1..(Len(stack) - 1) : stack[i] # p
    BY <1>2, <2>1 DEF PathDown
  <2>3. \A i \in 1..(Len(stack) - 1) : SameTurn(stack[i])
    BY <2>1, <2>2
  <2>4. Len(stack') = Len(stack) /\ Len(stack') # Len(stack) + 1
        /\ \A i \in 1..Len(stack) : stack'[i] = stack[i]
    BY <1>1, <2>1, <1>2
  <2> QED BY <1>1, <1>2, <2>1, <2>3, <2>4, PathKept
<1> QED BY <1>1, <1>3, <1>4

\* The path when the query at work has returned.
LEMMA PathPop ==
    ASSUME TypeOK, Path, UNCHANGED query, pc # "idle", p # Root,
           stack' = Front(stack), \A n \in Nodes : SameTurn(n)
    PROVE  PathDown' /\ p' = Caller
<1> DEFINE k == Len(stack) - 1
<1>1. /\ stack' \in Seq(Nodes) /\ Len(stack') = k
      /\ \A i \in 1..k : stack'[i] = stack[i]
      /\ p' = Caller
  BY StackPopped DEF p
<1>2. k \in 1..Len(stack) /\ Len(stack') # k + 1
  BY <1>1, Callers, AtWork
<1>3. stack \in Seq(Nodes)
  BY AtWork
<1>4. \A i \in 1..(k - 1) : stack[i] \in Nodes
  BY <1>2, <1>3
<1>5. PathDown
  BY DEF Path
<1> HIDE DEF k
<1>6. PathDown'
  BY <1>1, <1>2, <1>4, <1>5, PathKept
<1> QED BY <1>1, <1>6

\* The path when an operand is called.
LEMMA PathPush ==
    ASSUME TypeOK, PathDown, UNCHANGED query, NEW k \in 1..Len(stack),
           NEW q, q = stack[k], NEW m \in Nodes, m < q, Called(q, m)',
           \A n \in Nodes : n # q => SameTurn(n),
           NEW base \in Seq(Nodes), Len(base) = k, \A i \in 1..k : base[i] = stack[i],
           stack' = Append(base, m)
    PROVE  PathDown' /\ p' = m
<1>1. /\ stack' \in Seq(Nodes) /\ Len(stack') = k + 1
      /\ \A i \in 1..k : stack'[i] = stack[i]
      /\ stack'[k + 1] = m /\ Last(stack') = m
  <2>1. /\ stack' \in Seq(Nodes) /\ Len(stack') = Len(base) + 1
        /\ \A i \in 1..Len(base) : stack'[i] = base[i]
        /\ stack'[Len(base) + 1] = m /\ Last(stack') = m
    BY DEF Last
  <2> QED BY <2>1
<1>2. p' = m
  BY <1>1 DEF p
<1>3. stack \in Seq(Nodes) /\ Nodes \subseteq Nat
  <2>1. Nodes \subseteq Nat
    BY NodeFacts
  <2> QED BY <2>1 DEF TypeOK
<1>4. k \in DOMAIN stack /\ \A i \in 1..(k - 1) : i \in DOMAIN stack /\ i < k
  BY <1>3
<1>5. \A i \in 1..(k - 1) : stack[i] \in Nodes /\ stack[i] # q
  <2> SUFFICES ASSUME NEW i \in 1..(k - 1) PROVE stack[i] \in Nodes /\ stack[i] # q
    OBVIOUS
  <2>3. \A j \in DOMAIN stack : stack[j] \in Nodes
    BY <1>3
  <2>1. stack[i] \in Nat /\ stack[i] \in Nodes /\ q \in Nat
    BY <1>3, <1>4, <2>3
  <2>4. i \in DOMAIN stack /\ i < k
    BY <1>4
  <2>2. q < stack[i]
    BY <1>4, <2>4 DEF PathDown
  <2> QED BY <2>1, <2>2
<1>6. \A i \in 1..(k - 1) : SameTurn(stack[i])
  BY <1>5
<1>7. k \in Nat /\ k \in 1..k
  BY <1>3
<1>8. stack'[k] = q
  BY <1>1, <1>7
<1>9. Called(stack[k], stack[k + 1])'
  BY <1>1, <1>8 DEF Called
<1>10. PathDown'
  BY <1>1, <1>6, <1>9, PathKept
<1> QED BY <1>2, <1>10

\* No query on the stack has ended, but the one that returns DONE.
LEMMA NotEnded ==
    ASSUME TypeOK, Path, pc # "idle"
    PROVE  /\ \A i \in 1..(Len(stack) - 1) : stack[i] \notin ended /\ stack[i] \in Nodes
           /\ ~(pc = "return" /\ rc = "DONE") => p \notin ended
<1>1. /\ stack \in Seq(Nodes) /\ Len(stack) \in Nat
      /\ p = stack[Len(stack)] /\ Len(stack) \in DOMAIN stack
  BY AtWork
<1>2. \A i \in 1..(Len(stack) - 1) : i \in DOMAIN stack /\ i # Len(stack)
  BY <1>1
<1>3. \A i \in DOMAIN stack : stack[i] \in Nodes
  BY <1>1
<1> QED BY <1>1, <1>2, <1>3 DEF Path, EndedOnPath

\* No query of the path has ended but the one that returns DONE.
LEMMA EndedKept ==
    ASSUME stack' \in Seq(Nodes), stack' # <<>>, Nodes' = Nodes, Nodes \subseteq Nat, PathDown',
           ended' = IF pc' = "return" /\ rc' = "DONE" THEN ended \cup {p'} ELSE ended,
           \A i \in 1..(Len(stack') - 1) : stack'[i] \notin ended,
           ~(pc' = "return" /\ rc' = "DONE") => p' \notin ended
    PROVE  EndedOnPath'
<1> DEFINE len == Len(stack')
<1>1. /\ len \in Nat /\ len > 0 /\ DOMAIN stack' = 1..len /\ len \in 1..len
      /\ p' = stack'[len]
      /\ \A i \in 1..len : stack'[i] \in Nodes
  BY DEF p, Last
<1>8. \A i \in 1..len : stack'[i] \in Nat
  BY <1>1
<1>2. \A i \in 1..len : i < len => stack'[i] # p'
  BY <1>1, <1>8 DEF PathDown
<1> HIDE DEF len
<1>3. \A i \in 1..len : i # len => i \in 1..(len - 1) /\ i < len
  BY <1>1
<1>4. \A i \in 1..len : i # len => stack'[i] \notin ended'
  BY <1>2, <1>3 DEF len
<1>5. ~(pc' = "return" /\ rc' = "DONE") => p' \notin ended'
  OBVIOUS
<1>6. pc' = "return" /\ rc' = "DONE" => p' \in ended'
  OBVIOUS
<1>7. \A i \in 1..len : stack'[i] \in ended' => i = len /\ pc' = "return" /\ rc' = "DONE"
  BY <1>1, <1>4, <1>5
<1> QED BY <1>1, <1>6, <1>7 DEF EndedOnPath, len

\* What is known of the control of a state.
Sound == TypeOK /\ Path /\ RowInv /\ ClientInv /\ (~Broken => Operands)

\* The query at work returns.
LEMMA ReturnStep ==
    ASSUME Sound, TypeOK', UNCHANGED <<query, stack, out, ret>>,
           pc # "idle", pc # "return", NEW code, Return(code),
           \A n \in Nodes : n # p => SameTurn(n),
           code = "ROW" => IF tree[p].op = "SELECT" THEN pos'[p] > 0 ELSE pOut'[p] # NoDoc
    PROVE  Path' /\ RowInv' /\ ClientInv' /\ p' = p
<1>1. PathDown' /\ p' = p
  BY PathSame DEF Sound, Path
<1>2. /\ stack' = stack /\ stack \in Seq(Nodes) /\ stack # <<>> /\ Nodes' = Nodes
      /\ Nodes \subseteq Nat /\ tree' = tree
  BY AtWork, NodeFacts DEF Sound, query, Nodes
<1>3. pc' = "return" /\ rc' = code
      /\ ended' = IF pc' = "return" /\ rc' = "DONE" THEN ended \cup {p'} ELSE ended
  BY <1>1 DEF Return
<1>4. /\ \A i \in 1..(Len(stack') - 1) : stack'[i] \notin ended
      /\ p' \notin ended
  BY <1>1, <1>2, NotEnded DEF Sound
<1>5. EndedOnPath'
  BY <1>1, <1>2, <1>3, <1>4, EndedKept
<1>6. Phases'
  BY <1>3 DEF Phases
<1>7. RowInv'
  BY <1>1, <1>2, <1>3 DEF RowInv
<1>8. ClientInv'
  BY <1>3 DEF Sound, ClientInv
<1> QED BY <1>1, <1>5, <1>6, <1>7, <1>8 DEF Path

\* A query that called an operand returns.
LEMMA ReturnFromCallerStep ==
    ASSUME Sound, TypeOK', UNCHANGED <<query, pc, out, ret>>,
           pc = "return", p # Root, NEW code, ReturnFromCaller(code),
           \A n \in Nodes : SameTurn(n),
           code = "ROW" => pOut'[Caller] # NoDoc
    PROVE  Path' /\ RowInv' /\ ClientInv' /\ p' = Caller
<1>1. PathDown' /\ p' = Caller
  BY PathPop DEF Sound, ReturnFromCaller
<1>2. /\ stack' \in Seq(Nodes) /\ stack' # <<>> /\ Nodes' = Nodes
      /\ Nodes \subseteq Nat /\ tree' = tree
      /\ \A i \in 1..(Len(stack) - 1) : stack'[i] = stack[i]
      /\ Len(stack') = Len(stack) - 1 /\ Len(stack) \in Nat
  BY AtWork, NodeFacts, StackPopped DEF Sound, query, Nodes, ReturnFromCaller
<1>3. pc' = "return" /\ rc' = code
      /\ ended' = IF pc' = "return" /\ rc' = "DONE" THEN ended \cup {p'} ELSE ended
  BY <1>1 DEF ReturnFromCaller
<1>4. /\ \A i \in 1..(Len(stack') - 1) : stack'[i] \notin ended
      /\ p' \notin ended
  BY <1>1, <1>2, NotEnded, Callers DEF Sound
<1>5. EndedOnPath'
  BY <1>1, <1>2, <1>3, <1>4, EndedKept
<1>6. Phases'
  BY <1>3 DEF Phases
<1>7. tree[Caller].op # "SELECT"
  BY Callers DEF Sound
<1>8. RowInv'
  BY <1>1, <1>2, <1>3, <1>7 DEF RowInv
<1>9. ClientInv'
  BY <1>3 DEF Sound, ClientInv
<1> QED BY <1>1, <1>5, <1>6, <1>8, <1>9 DEF Path

\* The last query of the path that is kept steps an operand.
LEMMA CallStep ==
    ASSUME Sound, TypeOK', UNCHANGED <<query, out, ret, ended>>, pc # "idle", pc' = "call",
           NEW k \in 1..Len(stack), NEW q, q = stack[k], q \notin ended,
           NEW m \in Nodes, m < q, m \notin ended, Called(q, m)',
           \A n \in Nodes : n # q => SameTurn(n),
           NEW base \in Seq(Nodes), Len(base) = k, \A i \in 1..k : base[i] = stack[i],
           stack' = Append(base, m)
    PROVE  Path' /\ RowInv' /\ ClientInv' /\ p' = m
<1>1. PathDown' /\ p' = m
  BY PathPush DEF Sound, Path
<1>2. /\ stack' \in Seq(Nodes) /\ stack' # <<>> /\ Nodes' = Nodes
      /\ Nodes \subseteq Nat /\ tree' = tree
  BY NodeFacts DEF Sound, query, Nodes
<1>3. Len(stack') = k + 1 /\ \A i \in 1..k : stack'[i] = stack[i]
  BY <1>2
<1>4. k \in Nat /\ \A i \in 1..k : i \in 1..(Len(stack) - 1) \/ i = k
  BY AtWork DEF Sound
<1>5. \A i \in 1..(Len(stack') - 1) : stack'[i] \notin ended
  BY <1>3, <1>4, NotEnded DEF Sound
<1>6. EndedOnPath'
  BY <1>1, <1>2, <1>5, EndedKept
<1>7. Phases' /\ RowInv' /\ ClientInv'
  BY DEF Phases, RowInv, ClientInv, Sound
<1> QED BY <1>1, <1>6, <1>7 DEF Path

\* What the operands say of the steps that call one.
LEMMA CalledOperands ==
    ASSUME Sound
    PROVE  /\ AllCalls => IF doneLeft[p] THEN tree[p].right \notin ended
                                         ELSE tree[p].left \notin ended
           /\ AllLeftDone => Untouched(tree[Caller].right) /\ ~doneLeft[Caller]
           /\ \A s \in Sides : Opening(s) =>
                /\ tree[p].op \in SetOps /\ Untouched(tree[p][s]) /\ ~cache[p][s].open
                /\ s = "left" => ~cache[p].right.open
                /\ s = "right" => cache[p].left.open /\ tree[p].left \in ended
<1>1. ASSUME AllCalls
      PROVE  IF doneLeft[p] THEN tree[p].right \notin ended ELSE tree[p].left \notin ended
  <2>1. pc = "call" /\ tree[p].op = "ALL" /\ ~Broken /\ p \in Nodes /\ p \notin ended
    BY <1>1, AtWork, NotEnded DEF AllCalls, Broken, Sound
  <2>2. AllOperands(p)
    BY <2>1 DEF Sound, Operands
  <2> QED BY <2>1, <2>2 DEF AllOperands, Returning
<1>2. ASSUME AllLeftDone
      PROVE  Untouched(tree[Caller].right) /\ ~doneLeft[Caller]
  <2>1. /\ pc = "return" /\ rc = "DONE" /\ p # Root /\ tree[Caller].op = "ALL" /\ Side = "left"
        /\ ~Broken
    BY <1>2 DEF AllLeftDone, OperandOfAll, Broken
  <2>2. /\ Caller \in Nodes /\ Called(Caller, p) /\ tree[Caller][Side] = p
        /\ \A n \in Nodes, s \in Sides : tree[n][s] = p => n = Caller /\ s = Side
    BY <2>1, Callers DEF Sound
  <2>3. AllOperands(Caller)
    BY <2>1, <2>2 DEF Sound, Operands
  <2>4. tree[Caller].right # p
    BY <2>1, <2>2 DEF Sides
  <2>5. ~doneLeft[Caller]
    BY <2>1, <2>2, <2>4 DEF Called, SetOps
  <2> QED BY <2>3, <2>5 DEF AllOperands
<1>3. ASSUME NEW s \in Sides, Opening(s)
      PROVE  /\ tree[p].op \in SetOps /\ Untouched(tree[p][s]) /\ ~cache[p][s].open
             /\ s = "left" => ~cache[p].right.open
             /\ s = "right" => cache[p].left.open /\ tree[p].left \in ended
  <2>1. /\ pc # "idle" /\ ~Broken /\ tree[p].op \in SetOps /\ ~cache[p][s].open
        /\ s = "right" => cache[p].left.open /\ tree[p].left \in ended
    BY <1>3 DEF Opening, Sound, Path, Phases, Broken
  <2>2. p \in Nodes
    BY <2>1, AtWork DEF Sound
  <2>3. ListOperands(p)
    BY <2>1, <2>2 DEF Sound, Operands
  <2> QED BY <2>1, <2>3 DEF ListOperands
<1> QED BY <1>1, <1>2, <1>3

\* A query that merges has had all of both operands.
LEMMA MergingIsMerged ==
    ASSUME Sound, Merging
    PROVE  /\ p \in Nodes /\ tree[p].op \in SetOps /\ p \notin ended
           /\ tree[p].left \in ended /\ tree[p].right \in ended
           /\ pc # "idle" /\ pc # "return" /\ ~Broken
<1>1. pc \in {"call", "merge"} /\ tree[p].op \in SetOps /\ ~Broken
  BY DEF Merging, Broken
<1>2. p \in Nodes /\ p \notin ended
  BY <1>1, AtWork, NotEnded DEF Sound
<1>3. CASE pc = "merge"
  BY <1>1, <1>2, <1>3 DEF Sound, Path, Phases
<1>4. CASE pc = "call"
  <2>1. cache[p].left.open
    BY <1>4 DEF Merging
  <2>2. ListOperands(p)
    BY <1>1, <1>2 DEF Sound, Operands
  <2>3. \A i \in DOMAIN stack : i < Len(stack) => stack[i] # p
    <3>1. /\ p = stack[Len(stack)] /\ Len(stack) \in DOMAIN stack /\ stack \in Seq(Nodes)
      BY <1>1, AtWork DEF Sound
    <3>2. \A i \in DOMAIN stack : stack[i] \in Nodes
      BY <3>1
    <3>3. Nodes \subseteq Nat
      BY NodeFacts DEF Sound
    <3>4. \A i \in DOMAIN stack : i < Len(stack) => p < stack[i]
      BY <3>1 DEF Sound, Path, PathDown
    <3> QED BY <1>2, <3>2, <3>3, <3>4
  <2>4. Merged(p)
    BY <1>4, <2>1, <2>2, <2>3 DEF ListOperands
  <2>5. tree[p].left \in ended /\ tree[p].right \in ended
    BY <2>4 DEF Merged, Sides
  <2> QED BY <1>1, <1>2, <1>4, <2>5
<1> QED BY <1>1, <1>3, <1>4

\* The operand of a query that reads lists has come to its end.
LEMMA ListComplete ==
    ASSUME Sound, OperandOfSetOp, rc = "DONE"
    PROVE  /\ p \in ended /\ cache[Caller].left.open
           /\ Side = "left" => p = tree[Caller].left /\ ~cache[Caller].right.open
           /\ Side = "right" => /\ p = tree[Caller].right /\ cache[Caller].right.open
                                /\ tree[Caller].left \in ended
<1>1. pc = "return" /\ p # Root /\ tree[Caller].op \in SetOps /\ ~Broken
  BY DEF OperandOfSetOp, Broken
<1>2. /\ Caller \in Nodes /\ Called(Caller, p) /\ tree[Caller][Side] = p
      /\ \A n \in Nodes, s \in Sides : tree[n][s] = p => n = Caller /\ s = Side
  BY <1>1, Callers DEF Sound
<1>3. p \in ended
  BY <1>1 DEF Sound, Path, EndedOnPath
<1>4. ListOperands(Caller)
  BY <1>1, <1>2 DEF Sound, Operands
<1>5. cache[Caller].left.open
      /\ p = IF cache[Caller].right.open THEN tree[Caller].right ELSE tree[Caller].left
  BY <1>1, <1>2 DEF Called, SetOps
<1>6. Side = "left" => tree[Caller].right # p
  BY <1>2 DEF Sides
<1>7. Side = "right" => tree[Caller].left # p
  BY <1>2 DEF Sides
<1> QED BY <1>2, <1>3, <1>4, <1>5, <1>6, <1>7 DEF ListOperands

\* Each step keeps the path, and what the rows and the client have.
LEMMA ControlStep ==
    ASSUME Sound, Next
    PROVE  Path' /\ RowInv' /\ ClientInv'
<1> USE DEF query, client
<1>0. TypeOK' /\ UNCHANGED query
  BY TypeStep DEF Sound, vars
<1>1. /\ Nodes \subseteq Nat /\ Nodes' = Nodes /\ Root' = Root /\ tree' = tree
  BY <1>0, NodeFacts DEF Sound, Nodes, Root
<1>2. /\ UNCHANGED <<doneLeft, cache>> => \A n \in Nodes : SameTurn(n)
  BY DEF SameTurn
<1>3. pc # "idle" => p \in Nodes /\ stack \in Seq(Nodes) /\ Len(stack) \in Nat
                     /\ Len(stack) \in 1..Len(stack) /\ p = stack[Len(stack)]
  BY AtWork DEF Sound
<1>4. CASE Step
  <2>1. Root \notin ended
    BY <1>4 DEF Step, CanStep, Sound, ClientInv
  <2>2. stack' = <<Root>> /\ pc' = "call" /\ ended' = ended /\ ret' = ret
    BY <1>4 DEF Step
  <2>3. /\ DOMAIN stack' = {1} /\ Len(stack') = 1 /\ stack'[1] = Root /\ p' = Root
    BY <2>2 DEF p, Last
  <2>4. PathDown'
    BY <1>1, <2>3 DEF PathDown
  <2>5. EndedOnPath' /\ Phases' /\ RowInv'
    BY <2>1, <2>2, <2>3 DEF EndedOnPath, Phases, RowInv
  <2>6. ClientInv'
    BY <1>4, <2>2 DEF Step, CanStep, ClientInv
  <2> QED BY <2>4, <2>5, <2>6 DEF Path
<1>5. CASE Rewind
  <2>1. stack' = <<>> /\ pc' = "idle" /\ ended' = {}
    BY <1>5 DEF Rewind, Sound, TypeOK
  <2>2. DOMAIN stack' = {}
    BY <2>1
  <2>3. Path' /\ RowInv' /\ ClientInv'
    BY <2>1, <2>2 DEF Path, PathDown, EndedOnPath, Phases, RowInv, ClientInv
  <2> QED BY <2>3
<1>6. CASE StepReturns
  <2>1. stack' = <<>> /\ pc' = "idle" /\ ret' = rc /\ ended' = ended /\ pc = "return" /\ p = Root
    BY <1>6 DEF StepReturns
  <2>2. DOMAIN stack' = {}
    BY <2>1
  <2>3. Path' /\ RowInv'
    BY <2>1, <2>2 DEF Path, PathDown, EndedOnPath, Phases, RowInv
  <2>4. Root \in ended => rc = "DONE"
    BY <2>1, NotEnded DEF Sound
  <2>5. ClientInv'
    BY <1>1, <2>1, <2>4 DEF ClientInv
  <2> QED BY <2>3, <2>5
<1>7. CASE SelectRow
  <2>1. /\ pc = "call" /\ tree[p].op = "SELECT" /\ Return("ROW")
        /\ pos' = [pos EXCEPT ![p] = @ + 1]
        /\ UNCHANGED <<query, cache, doneLeft, pOut, stack, client, faults>>
    BY <1>7 DEF SelectRow, AtSelect
  <2>2. pos'[p] > 0
    BY <1>3, <2>1 DEF Sound, TypeOK
  <2> QED BY <1>0, <1>2, <2>1, <2>2, ReturnStep
<1>8. CASE SelectDone
  BY <1>0, <1>2, <1>8, ReturnStep DEF SelectDone, AtSelect
<1>9. CASE SelectNoMem
  BY <1>0, <1>2, <1>9, ReturnStep DEF SelectNoMem, AtSelect
<1>10. CASE AllCalls
  <2>1. PICK q \in Nodes : q = p
    BY <1>3, <1>10 DEF AllCalls
  <2>2. /\ pc = "call" /\ pc' = "call" /\ tree[q].op = "ALL"
        /\ UNCHANGED <<query, doneLeft, cache, ended, client>>
        /\ stack' = Append(stack, IF doneLeft[q] THEN tree[q].right ELSE tree[q].left)
    BY <1>10, <2>1 DEF AllCalls, Call
  <2>3. PICK m \in Nodes : m = (IF doneLeft[q] THEN tree[q].right ELSE tree[q].left) /\ m < q
    BY <2>1, <2>2, NodeFacts DEF Sound, Sides
  <2>4. m \notin ended /\ q \notin ended
    BY <1>10, <2>1, <2>2, <2>3, CalledOperands, NotEnded DEF Sound
  <2>5. Called(q, m)'
    BY <1>1, <2>2, <2>3 DEF Called
  <2>6. stack' = Append(stack, m) /\ q = stack[Len(stack)]
    BY <1>3, <2>1, <2>2, <2>3
  <2> QED BY <1>0, <1>2, <1>3, <2>2, <2>3, <2>4, <2>5, <2>6, CallStep
<1>11. CASE AllLeftDone
  <2>1. pc = "return" /\ p # Root /\ tree[Caller].op = "ALL"
    BY <1>11 DEF AllLeftDone, OperandOfAll
  <2>2. PICK q \in Nodes : q = Caller /\ q \notin ended /\ q = stack[Len(stack) - 1]
    BY <2>1, Callers DEF Sound
  <2>3. /\ doneLeft' = [doneLeft EXCEPT ![q] = TRUE] /\ pc' = "call"
        /\ UNCHANGED <<query, cache, ended, client>>
        /\ stack' = Append(Front(stack), tree[q].right)
    BY <1>11, <2>2 DEF AllLeftDone
  <2>4. PICK m \in Nodes : m = tree[q].right /\ m < q
    BY <2>1, <2>2, NodeFacts DEF Sound, Sides
  <2>5. m \notin ended
    BY <1>11, <2>2, <2>4, CalledOperands DEF Untouched
  <2>6. doneLeft'[q] /\ \A n \in Nodes : n # q => SameTurn(n)
    BY <2>3 DEF SameTurn, Sound, TypeOK
  <2>7. Called(q, m)'
    BY <1>1, <2>1, <2>2, <2>4, <2>6 DEF Called
  <2>8. PICK k \in 1..Len(stack) : k = Len(stack) - 1
    BY <1>3, <2>1, Callers DEF Sound
  <2>9. /\ Front(stack) \in Seq(Nodes) /\ Len(Front(stack)) = k
        /\ \A i \in 1..k : Front(stack)[i] = stack[i]
    BY <2>1, <2>8, StackPopped DEF Sound
  <2>10. stack' = Append(Front(stack), m) /\ q = stack[k]
    BY <2>2, <2>3, <2>4, <2>8
  <2> QED BY <1>0, <2>1, <2>2, <2>3, <2>4, <2>5, <2>6, <2>7, <2>9, <2>10, CallStep
<1>12. CASE AllReturns
  <2>1. pc = "return" /\ p # Root /\ tree[Caller].op = "ALL" /\ ReturnFromCaller(rc)
        /\ UNCHANGED <<query, doneLeft, cache, pc, client>>
        /\ pOut' = [pOut EXCEPT ![Caller] = IF rc = "ROW" THEN Doc(p) ELSE NoDoc]
    BY <1>12 DEF AllReturns, OperandOfAll
  <2>2. rc = "ROW" => pOut'[Caller] # NoDoc
    <3>1. rc = "ROW" => Doc(p) \in Docs
      BY <2>1, DocTyped DEF Sound
    <3>2. Caller \in Nodes
      BY <2>1, Callers DEF Sound
    <3> QED BY <2>1, <3>1, <3>2, NoDocAssumption DEF Sound, TypeOK
  <2>3. PICK code : code = rc
    OBVIOUS
  <2> QED BY <1>0, <1>2, <2>1, <2>2, <2>3, ReturnFromCallerStep
<1>13. CASE CacheOpen
  <2>1. PICK s \in Sides : /\ Opening(s) /\ Call(s)
                           /\ cache' = [cache EXCEPT ![p][s] = OpenList]
                           /\ UNCHANGED <<query, doneLeft, ended, client>>
    BY <1>13 DEF CacheOpen
  <2>2. /\ tree[p].op \in SetOps /\ Untouched(tree[p][s]) /\ ~cache[p][s].open
        /\ s = "left" => ~cache[p].right.open
        /\ s = "right" => cache[p].left.open /\ tree[p].left \in ended
    BY <2>1, CalledOperands
  <2>3. pc # "idle" /\ pc # "return"
    BY <2>1 DEF Opening
  <2>4. PICK q \in Nodes : q = p /\ q = stack[Len(stack)]
    BY <1>3, <2>3
  <2>5. PICK m \in Nodes : m = tree[q][s] /\ m < q
    BY <2>2, <2>4, NodeFacts DEF Sound, SetOps
  <2>6. m \notin ended /\ q \notin ended
    BY <2>2, <2>3, <2>4, <2>5, NotEnded DEF Sound, Untouched
  <2>7. /\ cache'[q][s].open
        /\ \A r \in Sides : r # s => cache'[q][r] = cache[q][r]
        /\ \A n \in Nodes : n # q => cache'[n] = cache[n]
    <3>1. OpenList \in Lists /\ OpenList.open
      BY DEF OpenList, Lists
    <3>2. cache \in [Nodes -> [Sides -> Lists]]
      BY DEF Sound, TypeOK
    <3> QED BY <2>1, <2>4, <3>1, <3>2
  <2>8. \A n \in Nodes : n # q => SameTurn(n)
    BY <2>1, <2>7 DEF SameTurn
  <2>9. Called(q, m)'
    <3>1. tree'[q] = tree[q]
      BY <1>1
    <3>2. CASE s = "left"
      BY <2>2, <2>4, <2>5, <2>7, <3>1, <3>2 DEF Called, Sides
    <3>3. CASE s = "right"
      BY <2>2, <2>4, <2>5, <2>7, <3>1, <3>3 DEF Called, Sides
    <3> QED BY <3>2, <3>3 DEF Sides
  <2>10. stack' = Append(stack, m) /\ pc' = "call"
    BY <2>1, <2>4, <2>5 DEF Call
  <2> QED BY <1>0, <1>3, <2>1, <2>3, <2>4, <2>5, <2>6, <2>8, <2>9, <2>10, CallStep
<1>14. CASE CacheNoPool
  <2>1. pc # "idle" /\ pc # "return" /\ Return("NOMEM")
        /\ UNCHANGED <<query, pos, cache, doneLeft, pOut, stack, client>>
    BY <1>14 DEF CacheNoPool, Opening
  <2> QED BY <1>0, <1>2, <2>1, ReturnStep
<1>15. CASE CacheNoItem
  <2>1. pc = "return" /\ p # Root /\ ReturnFromCaller("NOMEM")
        /\ UNCHANGED <<query, pos, cache, doneLeft, pOut, pc, client>>
    BY <1>15 DEF CacheNoItem, OperandOfSetOp
  <2> QED BY <1>0, <1>2, <2>1, ReturnFromCallerStep
<1>16. CASE CacheError
  <2>1. pc = "return" /\ p # Root /\ ReturnFromCaller("NOMEM")
        /\ UNCHANGED <<query, pos, cache, doneLeft, pOut, pc, client>>
    BY <1>16 DEF CacheError, OperandOfSetOp
  <2> QED BY <1>0, <1>2, <2>1, ReturnFromCallerStep
<1>17. CASE CacheAdd
  <2>1. /\ pc = "return" /\ rc = "ROW" /\ p # Root /\ pc' = "call"
        /\ cache' = [cache EXCEPT ![Caller][Side].items = Append(@, Doc(p))]
        /\ UNCHANGED <<query, pos, doneLeft, pOut, stack, rc, ended, client>>
    BY <1>17 DEF CacheAdd, OperandOfSetOp
  <2>2. Caller \in Nodes /\ Side \in Sides /\ Doc(p) \in Docs
    BY <2>1, Callers, DocTyped DEF Sound
  <2>3. Append(cache[Caller][Side].items, Doc(p)) \in Seq(Docs)
    BY <2>2 DEF Sound, TypeOK, Lists
  <2>4. \A n \in Nodes : SameTurn(n)
    BY <2>1, <2>2, <2>3, ItemsSet DEF Sound, SameTurn
  <2>5. PathDown' /\ p' = p
    BY <2>1, <2>4, PathSame DEF Sound, Path
  <2>6. p \notin ended /\ \A i \in 1..(Len(stack) - 1) : stack[i] \notin ended
    BY <2>1, NotEnded DEF Sound
  <2>7. EndedOnPath'
    BY <1>1, <1>3, <2>1, <2>5, <2>6, AtWork, EndedKept DEF Sound
  <2>8. Phases' /\ RowInv' /\ ClientInv'
    BY <2>1 DEF Phases, RowInv, ClientInv, Sound
  <2> QED BY <2>5, <2>7, <2>8 DEF Path
<1>18. CASE CacheSort
  <2>1. /\ pc = "return" /\ rc = "DONE" /\ p # Root /\ OperandOfSetOp
        /\ pc' = IF Side = "left" THEN "openRight" ELSE "merge"
        /\ stack' = Front(stack) /\ tree[Caller].op \in SetOps
        /\ cache' = [cache EXCEPT ![Caller][Side].items = Ascending(ToSet(@))]
        /\ UNCHANGED <<query, pos, doneLeft, pOut, rc, ended, client>>
    BY <1>18 DEF CacheSort, OperandOfSetOp
  <2>2. Caller \in Nodes /\ Side \in Sides /\ Caller \notin ended
    BY <2>1, Callers DEF Sound
  <2>3. Ascending(ToSet(cache[Caller][Side].items)) \in Seq(Docs)
    <3>1. cache[Caller][Side].items \in Seq(Docs)
      BY <2>2 DEF Sound, TypeOK, Lists
    <3> QED BY <3>1, FiniteToSet, AscendingIsSeq DEF Docs
  <2>4. \A n \in Nodes, s \in Sides : cache'[n][s].open = cache[n][s].open
    BY <2>1, <2>2, <2>3, ItemsSet DEF Sound
  <2>5. \A n \in Nodes : SameTurn(n)
    BY <2>1, <2>4 DEF SameTurn
  <2>6. PathDown' /\ p' = Caller
    BY <1>0, <2>1, <2>5, PathPop DEF Sound
  <2>7. /\ Front(stack) \in Seq(Nodes) /\ Front(stack) # <<>>
        /\ Len(Front(stack)) = Len(stack) - 1
        /\ \A i \in 1..(Len(stack) - 1) : Front(stack)[i] = stack[i]
    BY <2>1, StackPopped DEF Sound
  <2>8. \A i \in 1..(Len(stack') - 1) : stack'[i] \notin ended
    BY <1>3, <2>1, <2>7, NotEnded DEF Sound
  <2>9. EndedOnPath'
    BY <1>1, <2>1, <2>2, <2>6, <2>7, <2>8, EndedKept
  <2>10. /\ p \in ended /\ cache[Caller].left.open
         /\ Side = "left" => p = tree[Caller].left /\ ~cache[Caller].right.open
         /\ Side = "right" => /\ p = tree[Caller].right /\ cache[Caller].right.open
                              /\ tree[Caller].left \in ended
    BY <2>1, ListComplete
  <2>11. PICK q \in Nodes : q = Caller
    BY <2>2
  <2>12. /\ tree'[q] = tree[q] /\ p' = q
         /\ cache'[q].left.open = cache[q].left.open /\ cache'[q].right.open = cache[q].right.open
    BY <1>1, <2>4, <2>6, <2>11 DEF Sides
  <2>13. Phases'
    BY <2>1, <2>2, <2>10, <2>11, <2>12 DEF Phases, Sides
  <2>14. RowInv' /\ ClientInv'
    BY <2>1 DEF RowInv, ClientInv, Sound
  <2> QED BY <2>6, <2>9, <2>13, <2>14 DEF Path
<1>19. CASE MergeDone
  <2>1. pc # "idle" /\ pc # "return" /\ Return("DONE")
        /\ UNCHANGED <<query, pos, cache, doneLeft, stack, client>>
    BY <1>19 DEF MergeDone, Merging
  <2> QED BY <1>0, <1>2, <2>1, ReturnStep
<1>20. CASE UnionRow \/ IntersectItem \/ ExceptItem
  <2>1. PICK S \in SUBSET Sides : Turn(S)
    BY <1>20, Turns
  <2>2. /\ p \in Nodes /\ tree[p].op \in SetOps /\ PopLists(S)
        /\ UNCHANGED <<query, pos, doneLeft, stack, client>>
        /\ \/ pc' = "merge" /\ UNCHANGED <<pOut, rc, ended>>
           \/ pc' = "return" /\ rc' = "ROW" /\ pOut'[p] \in Docs /\ ended' = ended
    BY <2>1, TurnTyped DEF Sound
  <2>3. /\ tree[p].left \in ended /\ tree[p].right \in ended /\ p \notin ended
        /\ pc # "idle" /\ pc # "return"
    BY <2>1, MergingIsMerged DEF Turn
  <2>4. \A n \in Nodes : SameTurn(n)
    BY <2>1, <2>2, ListsPopped DEF Sound, SameTurn, Turn
  <2>5. CASE pc' = "return"
    <3>1. Return("ROW")
      BY <2>2, <2>5 DEF Return
    <3>2. pOut'[p] # NoDoc
      BY <2>2, <2>5, NoDocAssumption
    <3>3. tree[p].op # "SELECT"
      BY <2>2 DEF SetOps
    <3> QED BY <1>0, <2>2, <2>3, <2>4, <3>1, <3>2, <3>3, ReturnStep
  <2>6. CASE pc' = "merge"
    <3>1. PathDown' /\ p' = p
      BY <2>2, <2>4, PathSame DEF Sound, Path
    <3>2. \A i \in 1..(Len(stack) - 1) : stack[i] \notin ended
      BY <2>3, NotEnded DEF Sound
    <3>3. stack # <<>> /\ stack \in Seq(Nodes)
      BY <2>3, AtWork DEF Sound
    <3>4. EndedOnPath'
      BY <1>1, <2>2, <2>3, <2>6, <3>1, <3>2, <3>3, EndedKept
    <3>5. PICK q \in Nodes : q = p
      BY <2>2
    <3>6. p' = q /\ tree'[q] = tree[q] /\ ended' = ended
      BY <1>1, <2>2, <2>6, <3>1, <3>5
    <3>7. Phases'
      BY <2>2, <2>3, <2>6, <3>5, <3>6 DEF Phases
    <3>8. RowInv' /\ ClientInv'
      BY <2>2, <2>3, <2>6 DEF RowInv, ClientInv, Sound
    <3> QED BY <3>1, <3>4, <3>7, <3>8 DEF Path
  <2> QED BY <2>2, <2>5, <2>6
<1> QED BY <1>4, <1>5, <1>6, <1>7, <1>8, <1>9, <1>10, <1>11, <1>12, <1>13, <1>14, <1>15,
           <1>16, <1>17, <1>18, <1>19, <1>20 DEF Next, Internal

-----------------------------------------------------------------------------
(* The operands: what a step touches *)

On(n) == \E i \in DOMAIN stack : stack[i] = n

\* Query x is the only one that a step changes.
Frame(x) ==
    \A n \in Nodes : n # x =>
        /\ pos'[n] = pos[n] /\ pOut'[n] = pOut[n] /\ doneLeft'[n] = doneLeft[n]
        /\ cache'[n].left.open = cache[n].left.open
        /\ cache'[n].right.open = cache[n].right.open
        /\ n \in ended' <=> n \in ended

\* A step within a call changes the query at work or the one that called it,
\* and what is on the stack but for one query it calls and one that returns.
Within ==
    /\ \E x \in Nodes : Frame(x) /\ On(x) /\ On(x)'
    /\ \A n \in Nodes : On(n)' => On(n) \/ (pc' = "call" /\ p' = n)
    /\ \A n \in Nodes : On(n) => On(n)' \/ (pc = "return" /\ p = n)

\* A step that leaves the stack alone changes one query on it.
LEMMA WithinSame ==
    ASSUME TypeOK, pc # "idle", stack' = stack, NEW x \in Nodes, Frame(x), On(x)
    PROVE  Within
BY DEF Within, On

\* The query at work returns.
LEMMA WithinReturn ==
    ASSUME TypeOK, pc # "idle", NEW code, Return(code),
           UNCHANGED <<query, stack, doneLeft>>,
           \A n \in Nodes : n # p =>
                pos'[n] = pos[n] /\ pOut'[n] = pOut[n] /\ cache'[n] = cache[n]
    PROVE  Within
<1>1. p \in Nodes /\ On(p)
  BY AtWork DEF On
<1>2. PICK x \in Nodes : x = p
  BY <1>1
<1>3. Frame(x)
  BY <1>2 DEF Frame, Return
<1> QED BY <1>1, <1>2, <1>3, WithinSame

\* The query at work returns to its caller.
LEMMA WithinPop ==
    ASSUME TypeOK, Path, pc = "return", p # Root, stack' = Front(stack), Frame(Caller)
    PROVE  Within
<1>1. /\ Caller \in Nodes /\ Caller = stack[Len(stack) - 1] /\ Len(stack) - 1 \in DOMAIN stack
      /\ Len(stack) > 1
  BY Callers
<1>2. /\ DOMAIN stack' = 1..(Len(stack) - 1)
      /\ \A i \in 1..(Len(stack) - 1) : stack'[i] = stack[i]
  BY StackPopped
<1>3. /\ stack \in Seq(Nodes) /\ DOMAIN stack = 1..Len(stack) /\ Len(stack) \in Nat
      /\ p = stack[Len(stack)]
  BY AtWork
<1>4. \A i \in DOMAIN stack' : i \in DOMAIN stack /\ stack'[i] = stack[i]
  BY <1>2, <1>3
<1>5. \A i \in DOMAIN stack : i = Len(stack) \/ (i \in DOMAIN stack' /\ stack'[i] = stack[i])
  BY <1>2, <1>3
<1>6. Len(stack) - 1 \in DOMAIN stack'
  BY <1>1, <1>2, <1>3
<1>7. PICK x \in Nodes : x = Caller
  BY <1>1
<1>8. On(x) /\ On(x)'
  BY <1>1, <1>5, <1>6, <1>7, <1>4 DEF On
<1>9. \A n \in Nodes : On(n)' => On(n)
  BY <1>4 DEF On
<1>10. \A n \in Nodes : On(n) => On(n)' \/ p = n
  BY <1>3, <1>5 DEF On
<1> QED BY <1>7, <1>8, <1>9, <1>10 DEF Within

\* The query at work calls an operand.
LEMMA WithinPush ==
    ASSUME TypeOK, pc # "idle", NEW m \in Nodes, stack' = Append(stack, m), pc' = "call", Frame(p)
    PROVE  Within
<1>1. p \in Nodes /\ p = stack[Len(stack)] /\ Len(stack) \in DOMAIN stack /\ stack \in Seq(Nodes)
  BY AtWork
<1>2. PICK x \in Nodes : x = p
  BY <1>1
<1>3. /\ DOMAIN stack = 1..Len(stack) /\ DOMAIN stack' = 1..(Len(stack) + 1) /\ Len(stack) \in Nat
      /\ \A i \in 1..Len(stack) : stack'[i] = stack[i]
      /\ stack'[Len(stack) + 1] = m /\ p' = m
  BY <1>1 DEF p, Last
<1>4. \A i \in DOMAIN stack : i \in DOMAIN stack' /\ stack'[i] = stack[i]
  BY <1>3
<1>5. \A i \in DOMAIN stack' : i = Len(stack) + 1 \/ (i \in DOMAIN stack /\ stack'[i] = stack[i])
  BY <1>3
<1>6. On(x) /\ On(x)'
  BY <1>1, <1>2, <1>4 DEF On
<1>7. \A n \in Nodes : On(n)' => On(n) \/ p' = n
  BY <1>3, <1>5 DEF On
<1>8. \A n \in Nodes : On(n) => On(n)'
  BY <1>4 DEF On
<1> QED BY <1>2, <1>6, <1>7, <1>8 DEF Within

\* The caller of a query that has returned calls its next operand.
LEMMA WithinReplace ==
    ASSUME TypeOK, Path, pc = "return", p # Root, NEW m \in Nodes, pc' = "call",
           stack' = Append(Front(stack), m), Frame(Caller)
    PROVE  Within
<1>1. /\ Caller \in Nodes /\ Caller = stack[Len(stack) - 1] /\ Len(stack) - 1 \in DOMAIN stack
      /\ Len(stack) > 1
  BY Callers
<1>2. /\ stack \in Seq(Nodes) /\ DOMAIN stack = 1..Len(stack) /\ Len(stack) \in Nat
      /\ p = stack[Len(stack)]
  BY AtWork
<1>3. /\ Front(stack) \in Seq(Nodes) /\ Len(Front(stack)) = Len(stack) - 1
      /\ \A i \in 1..(Len(stack) - 1) : Front(stack)[i] = stack[i]
  BY StackPopped
<1>4. /\ Len(stack') = Len(stack) /\ stack'[Len(stack)] = m /\ stack' \in Seq(Nodes)
      /\ \A i \in 1..(Len(stack) - 1) : stack'[i] = stack[i]
  <2> DEFINE b == Front(stack)
  <2>1. /\ b \in Seq(Nodes) /\ Len(b) = Len(stack) - 1 /\ stack' = Append(b, m)
        /\ \A i \in 1..(Len(stack) - 1) : b[i] = stack[i]
    BY <1>3
  <2> HIDE DEF b
  <2>2. /\ Len(stack') = Len(b) + 1 /\ stack'[Len(b) + 1] = m /\ stack' \in Seq(Nodes)
        /\ \A i \in 1..Len(b) : stack'[i] = b[i]
    BY <2>1
  <2> QED BY <1>2, <2>1, <2>2
<1>5. DOMAIN stack' = 1..Len(stack) /\ p' = m
  BY <1>4 DEF p, Last
<1>6. \A i \in 1..Len(stack) : i = Len(stack) \/ stack'[i] = stack[i]
  <2>1. \A k \in Nat : \A i \in 1..k : i = k \/ i \in 1..(k - 1)
    OBVIOUS
  <2> QED BY <1>2, <1>4, <2>1
<1>7. PICK x \in Nodes : x = Caller
  BY <1>1
<1>11. \E i \in DOMAIN stack : i # Len(stack) /\ stack[i] = x
  BY <1>1, <1>2, <1>7
<1>8. On(x) /\ On(x)'
  BY <1>2, <1>5, <1>6, <1>11 DEF On
<1>9. \A n \in Nodes : On(n)' => On(n) \/ p' = n
  BY <1>2, <1>4, <1>5, <1>6 DEF On
<1>10. \A n \in Nodes : On(n) => On(n)' \/ p = n
  BY <1>2, <1>5, <1>6 DEF On
<1> QED BY <1>7, <1>8, <1>9, <1>10 DEF Within

\* Every step between the call of the client and its return is one of these.
LEMMA WithinCall ==
    ASSUME Sound, Next, ~Step, ~Rewind, ~StepReturns
    PROVE  Within
<1> USE DEF query, client
<1>0. TypeOK /\ Path
  BY DEF Sound
<1>1. /\ pos \in [Nodes -> Nat] /\ cache \in [Nodes -> [Sides -> Lists]]
      /\ doneLeft \in [Nodes -> BOOLEAN] /\ pOut \in [Nodes -> Docs \cup {NoDoc}]
  BY <1>0 DEF TypeOK
<1>2. CASE SelectRow
  BY <1>0, <1>1, <1>2, WithinReturn DEF SelectRow, AtSelect
<1>3. CASE SelectDone
  BY <1>0, <1>1, <1>3, WithinReturn DEF SelectDone, AtSelect
<1>4. CASE SelectNoMem
  BY <1>0, <1>1, <1>4, WithinReturn DEF SelectNoMem, AtSelect
<1>5. CASE AllCalls
  <2>1. PICK s \in Sides : Call(s)
    BY <1>5 DEF AllCalls, Sides
  <2>2. Frame(p) /\ pc # "idle" /\ pc' = "call"
    BY <1>5, <2>1 DEF AllCalls, Frame, Call
  <2>3. tree[p][s] \in Nodes /\ stack' = Append(stack, tree[p][s])
    BY <1>0, <1>5, <2>1, AtWork, NodeFacts DEF AllCalls, Call
  <2> QED BY <1>0, <2>2, <2>3, WithinPush
<1>6. CASE AllLeftDone
  <2>1. pc = "return" /\ p # Root /\ tree[Caller].op = "ALL" /\ pc' = "call"
        /\ stack' = Append(Front(stack), tree[Caller].right)
    BY <1>6 DEF AllLeftDone, OperandOfAll
  <2>2. tree[Caller].right \in Nodes
    BY <1>0, <2>1, Callers, NodeFacts DEF Sides
  <2>3. Frame(Caller)
    BY <1>1, <1>6 DEF AllLeftDone, Frame
  <2> QED BY <1>0, <2>1, <2>2, <2>3, WithinReplace
<1>7. CASE AllReturns
  <2>1. pc = "return" /\ p # Root /\ stack' = Front(stack)
    BY <1>7 DEF AllReturns, OperandOfAll, ReturnFromCaller
  <2>2. Frame(Caller)
    BY <1>1, <1>7 DEF AllReturns, Frame, ReturnFromCaller
  <2> QED BY <1>0, <2>1, <2>2, WithinPop
<1>8. CASE CacheOpen
  <2>1. PICK s \in Sides : /\ Opening(s) /\ Call(s)
                           /\ cache' = [cache EXCEPT ![p][s] = OpenList]
                           /\ UNCHANGED <<query, pos, doneLeft, pOut, rc, ended>>
    BY <1>8 DEF CacheOpen
  <2>2. tree[p].op \in SetOps /\ pc # "idle"
    BY <1>0, <2>1 DEF Opening, Path, Phases
  <2>3. Frame(p)
    BY <1>1, <2>1 DEF Frame
  <2>4. tree[p][s] \in Nodes /\ stack' = Append(stack, tree[p][s]) /\ pc' = "call"
    BY <1>0, <2>1, <2>2, AtWork, NodeFacts DEF Call, SetOps
  <2> QED BY <1>0, <2>2, <2>3, <2>4, WithinPush
<1>9. CASE CacheNoPool
  <2>1. pc # "idle" /\ Return("NOMEM")
        /\ UNCHANGED <<query, pos, cache, doneLeft, pOut, stack, client>>
    BY <1>9 DEF CacheNoPool, Opening
  <2> QED BY <1>0, <2>1, WithinReturn
<1>10. CASE CacheAdd
  <2>1. /\ pc = "return" /\ rc = "ROW" /\ p # Root /\ stack' = stack
        /\ cache' = [cache EXCEPT ![Caller][Side].items = Append(@, Doc(p))]
        /\ UNCHANGED <<query, pos, doneLeft, pOut, stack, rc, ended, client>>
    BY <1>10 DEF CacheAdd, OperandOfSetOp
  <2>2. PICK x \in Nodes : x = Caller /\ On(x)
    BY <1>0, <2>1, Callers DEF On
  <2>3. Frame(x)
    BY <1>1, <2>1, <2>2 DEF Frame
  <2> QED BY <1>0, <2>1, <2>2, <2>3, WithinSame
<1>11. CASE CacheNoItem
  <2>1. pc = "return" /\ p # Root /\ stack' = Front(stack)
    BY <1>11 DEF CacheNoItem, OperandOfSetOp, ReturnFromCaller
  <2>2. Frame(Caller)
    BY <1>11 DEF CacheNoItem, Frame, ReturnFromCaller
  <2> QED BY <1>0, <2>1, <2>2, WithinPop
<1>12. CASE CacheSort
  <2>1. pc = "return" /\ p # Root /\ stack' = Front(stack)
    BY <1>12 DEF CacheSort, OperandOfSetOp
  <2>2. Frame(Caller)
    BY <1>1, <1>12 DEF CacheSort, Frame
  <2> QED BY <1>0, <2>1, <2>2, WithinPop
<1>13. CASE CacheError
  <2>1. pc = "return" /\ p # Root /\ stack' = Front(stack)
    BY <1>13 DEF CacheError, OperandOfSetOp, ReturnFromCaller
  <2>2. Frame(Caller)
    BY <1>13 DEF CacheError, Frame, ReturnFromCaller
  <2> QED BY <1>0, <2>1, <2>2, WithinPop
<1>14. CASE MergeDone
  <2>1. pc # "idle" /\ Return("DONE") /\ pOut' = [pOut EXCEPT ![p] = NoDoc]
        /\ UNCHANGED <<query, pos, cache, doneLeft, stack>>
    BY <1>14 DEF MergeDone, Merging
  <2> QED BY <1>0, <1>1, <2>1, WithinReturn
<1>15. CASE UnionRow \/ IntersectItem \/ ExceptItem
  <2>1. PICK S \in SUBSET Sides : Turn(S)
    BY <1>15, Turns
  <2>2. /\ p \in Nodes /\ PopLists(S) /\ pc # "idle"
        /\ UNCHANGED <<query, pos, doneLeft, stack, client>> /\ ended' = ended
        /\ \A m \in Nodes : m # p => pOut'[m] = pOut[m]
    BY <1>0, <2>1, TurnTyped DEF Turn, Merging
  <2>3. \A m \in Nodes : m # p => cache'[m] = cache[m]
    BY <1>0, <2>1, <2>2, ListsPopped DEF Turn
  <2>4. PICK x \in Nodes : x = p /\ On(x)
    BY <1>0, <2>2, AtWork DEF On
  <2>5. Frame(x)
    BY <2>2, <2>3, <2>4 DEF Frame
  <2> QED BY <1>0, <2>2, <2>4, <2>5, WithinSame
<1> QED BY <1>2, <1>3, <1>4, <1>5, <1>6, <1>7, <1>8, <1>9, <1>10, <1>11, <1>12, <1>13,
           <1>14, <1>15 DEF Next, Internal

\* A query ends when it returns DONE, and what has ended does not return again.
LEMMA EndedStep ==
    ASSUME Sound, Next, ~Rewind
    PROVE  /\ ended \subseteq ended'
           /\ pc' = "return" => p' \notin ended
           /\ \A n \in ended' : n \notin ended => Returning(n)'
<1> USE DEF query, client
<1>0. TypeOK /\ Path
  BY DEF Sound
<1>1. ASSUME NEW code, Return(code), stack' = stack, pc # "idle", pc # "return"
      PROVE  /\ ended \subseteq ended'
             /\ pc' = "return" => p' \notin ended
             /\ \A n \in ended' : n \notin ended => Returning(n)'
  <2>1. p' = p /\ pc' = "return" /\ (ended' = ended \/ ended' = ended \cup {p})
    BY <1>1 DEF p, Return
  <2>2. p \notin ended
    BY <1>0, <1>1, NotEnded
  <2> QED BY <2>1, <2>2 DEF Returning
<1>2. ASSUME NEW code, ReturnFromCaller(code), pc' = "return", pc = "return", p # Root
      PROVE  /\ ended \subseteq ended'
             /\ pc' = "return" => p' \notin ended
             /\ \A n \in ended' : n \notin ended => Returning(n)'
  <2>1. p' = Caller /\ (ended' = ended \/ ended' = ended \cup {Caller})
    BY <1>0, <1>2, StackPopped DEF p, ReturnFromCaller
  <2>2. Caller \notin ended
    BY <1>0, <1>2, Callers
  <2> QED BY <1>2, <2>1, <2>2 DEF Returning
<1>3. ASSUME ended' = ended, pc' # "return"
      PROVE  /\ ended \subseteq ended'
             /\ pc' = "return" => p' \notin ended
             /\ \A n \in ended' : n \notin ended => Returning(n)'
  BY <1>3
<1>4. CASE Step \/ StepReturns \/ AllLeftDone \/ CacheAdd \/ CacheSort
  BY <1>3, <1>4 DEF Step, StepReturns, AllLeftDone, CacheAdd, CacheSort
<1>5. CASE AllCalls
  BY <1>3, <1>5 DEF AllCalls, Call
<1>6. CASE CacheOpen
  BY <1>3, <1>6 DEF CacheOpen, Call
<1>7. CASE SelectRow \/ SelectDone \/ SelectNoMem
  <2>1. stack' = stack /\ pc = "call" /\ \E code \in Codes : Return(code)
    BY <1>7 DEF SelectRow, SelectDone, SelectNoMem, AtSelect, Codes
  <2> QED BY <1>1, <2>1
<1>8. CASE CacheNoPool
  <2>1. stack' = stack /\ pc # "idle" /\ pc # "return" /\ Return("NOMEM")
    BY <1>8 DEF CacheNoPool, Opening
  <2> QED BY <1>1, <2>1
<1>9. CASE MergeDone
  <2>1. stack' = stack /\ pc # "idle" /\ pc # "return" /\ Return("DONE")
    BY <1>9 DEF MergeDone, Merging
  <2> QED BY <1>1, <2>1
<1>10. CASE AllReturns
  <2>1. pc = "return" /\ pc' = "return" /\ p # Root /\ ReturnFromCaller(rc)
    BY <1>10 DEF AllReturns, OperandOfAll
  <2>2. PICK code : code = rc
    OBVIOUS
  <2> QED BY <1>2, <2>1, <2>2
<1>11. CASE CacheNoItem \/ CacheError
  <2>1. pc = "return" /\ pc' = "return" /\ p # Root /\ ReturnFromCaller("NOMEM")
    BY <1>11 DEF CacheNoItem, CacheError, OperandOfSetOp
  <2> QED BY <1>2, <2>1
<1>12. CASE UnionRow \/ IntersectItem \/ ExceptItem
  <2>1. PICK S \in SUBSET Sides : Turn(S)
    BY <1>12, Turns
  <2>2. /\ UNCHANGED <<query, pos, doneLeft, stack, client>> /\ ended' = ended
        /\ \/ pc' = "merge"
           \/ pc' = "return" /\ rc' = "ROW"
    BY <1>0, <2>1, TurnTyped
  <2>3. pc # "idle" /\ pc # "return"
    BY <2>1 DEF Turn, Merging
  <2>4. CASE pc' = "merge"
    BY <1>3, <2>2, <2>4
  <2>5. CASE pc' = "return"
    <3>1. Return("ROW")
      BY <2>2, <2>5 DEF Return
    <3> QED BY <1>1, <2>2, <2>3, <3>1
  <2> QED BY <2>2, <2>4, <2>5
<1> QED BY <1>4, <1>5, <1>6, <1>7, <1>8, <1>9, <1>10, <1>11, <1>12 DEF Next, Internal

\* Lists that are complete stay so until the rewind.
LEMMA MergedStays ==
    ASSUME Sound, Next, ~Rewind, NEW n \in Nodes, Merged(n)
    PROVE  Merged(n)'
<1>1. tree' = tree
  BY TypeStep DEF Sound, vars, query
<1>2. /\ tree[n].op \in SetOps /\ \A s \in Sides : tree[n][s] \in ended
  BY DEF Merged
<1>3. tree[n].right \in ended
  BY <1>2 DEF Sides
<1>4. \A s \in Sides : tree[n][s] \in ended'
  BY <1>2, EndedStep
<1>5. pc' = "return" => p' # tree[n].right
  BY <1>3, EndedStep
<1> QED BY <1>1, <1>2, <1>4, <1>5 DEF Merged

\* Memory that ran out stays so until the rewind.
LEMMA BrokenStays ==
    ASSUME Sound, Next, ~Rewind, Broken
    PROVE  Broken'
<1> USE DEF query, client
<1>1. CASE pc = "return" /\ rc = "NOMEM"
  <2>1. CASE StepReturns
    BY <1>1, <2>1 DEF StepReturns, Broken
  <2>2. CASE AllReturns \/ CacheError
    BY <1>1, <2>2 DEF AllReturns, CacheError, OperandOfSetOp, ReturnFromCaller, Broken
  <2>3. ~CacheOpen /\ ~CacheNoPool
    BY <1>1 DEF CacheOpen, CacheNoPool, Opening
  <2>4. ~UnionRow /\ ~IntersectItem /\ ~ExceptItem /\ ~MergeDone
    BY <1>1 DEF UnionRow, IntersectItem, ExceptItem, MergeDone, Merging
  <2>5. ~Step /\ ~SelectRow /\ ~SelectDone /\ ~SelectNoMem /\ ~AllCalls
    BY <1>1 DEF Step, SelectRow, SelectDone, SelectNoMem, AtSelect, AllCalls
  <2>6. ~AllLeftDone /\ ~CacheAdd /\ ~CacheNoItem /\ ~CacheSort
    BY <1>1 DEF AllLeftDone, CacheAdd, CacheNoItem, CacheSort
  <2> QED BY <2>1, <2>2, <2>3, <2>4, <2>5, <2>6 DEF Next, Internal
<1>2. CASE pc = "idle" /\ ret = "NOMEM"
  <2>1. ~CacheOpen /\ ~CacheNoPool
    BY <1>2 DEF CacheOpen, CacheNoPool, Opening
  <2>2. ~UnionRow /\ ~IntersectItem /\ ~ExceptItem /\ ~MergeDone
    BY <1>2 DEF UnionRow, IntersectItem, ExceptItem, MergeDone, Merging
  <2>3. ~Step /\ ~StepReturns /\ ~SelectRow /\ ~SelectDone /\ ~SelectNoMem /\ ~AllCalls
    BY <1>2 DEF Step, CanStep, StepReturns, SelectRow, SelectDone, SelectNoMem, AtSelect, AllCalls
  <2>4. ~AllLeftDone /\ ~AllReturns /\ ~CacheAdd /\ ~CacheNoItem /\ ~CacheSort /\ ~CacheError
    BY <1>2 DEF AllLeftDone, AllReturns, OperandOfAll, CacheAdd, CacheNoItem, CacheSort,
                CacheError, OperandOfSetOp
  <2> QED BY <2>1, <2>2, <2>3, <2>4 DEF Next, Internal
<1> QED BY <1>1, <1>2 DEF Broken

\* What has not been stepped stays so until it is called.
LEMMA UntouchedStays ==
    ASSUME Sound, Next, NEW n \in Nodes, Untouched(n)
    PROVE  Untouched(n)' \/ (pc' = "call" /\ p' = n /\ ~On(n))
<1> USE DEF query, client
<1>0. ~On(n)
  BY DEF Untouched, On
<1>1. CASE Step
  <2>1. stack' = <<Root>> /\ pc' = "call"
    BY <1>1 DEF Step
  <2>2. DOMAIN stack' = {1} /\ stack'[1] = Root /\ p' = Root
    BY <2>1 DEF p, Last
  <2>3. CASE n = Root
    BY <1>0, <2>1, <2>2, <2>3
  <2>4. CASE n # Root
    BY <1>1, <2>2, <2>4 DEF Untouched, Step
  <2> QED BY <2>3, <2>4
<1>2. CASE StepReturns
  <2>1. stack' = <<>>
    BY <1>2 DEF StepReturns
  <2>2. DOMAIN stack' = {}
    BY <2>1
  <2> QED BY <1>2, <2>2 DEF Untouched, StepReturns
<1>3. CASE Rewind
  <2>1. ~NoLists.left.open /\ ~NoLists.right.open
    BY DEF NoLists, ClosedList, Sides
  <2>2. pos'[n] = 0 /\ pOut'[n] = NoDoc /\ ~doneLeft'[n] /\ cache'[n] = NoLists
        /\ stack' = stack /\ ended' = {}
    BY <1>3 DEF Rewind
  <2> QED BY <2>1, <2>2 DEF Untouched
<1>4. CASE Within
  <2>1. PICK x \in Nodes : Frame(x) /\ On(x)
    BY <1>4 DEF Within
  <2>2. n # x
    BY <1>0, <2>1
  <2>3. /\ n \notin ended'
        /\ pos'[n] = 0 /\ pOut'[n] = NoDoc /\ ~doneLeft'[n]
        /\ ~cache'[n].left.open /\ ~cache'[n].right.open
    BY <2>1, <2>2 DEF Frame, Untouched
  <2>4. CASE On(n)'
    BY <1>0, <1>4, <2>4 DEF Within
  <2>5. CASE ~On(n)'
    <3>1. \A i \in DOMAIN stack' : stack'[i] # n
      BY <2>5 DEF On
    <3> QED BY <2>3, <3>1 DEF Untouched
  <2> QED BY <2>4, <2>5
<1> QED BY <1>1, <1>2, <1>3, <1>4, WithinCall

\* A rewind apart, nothing becomes what it was before its first step.
LEMMA UntouchedWas ==
    ASSUME Sound, Next, ~Rewind, ~Broken', NEW n \in Nodes, Untouched(n)'
    PROVE  Untouched(n)
<1> USE DEF query, client
<1>0. ~Broken
  BY BrokenStays
<1>1. /\ n \notin ended'
      /\ pos'[n] = 0 /\ pOut'[n] = NoDoc /\ ~doneLeft'[n]
      /\ ~cache'[n].left.open /\ ~cache'[n].right.open
      /\ ~On(n)'
  BY DEF Untouched, On
<1>2. /\ pos[n] = 0 /\ pOut[n] = NoDoc /\ n \notin ended => ~(pc = "return" /\ p = n)
  <2> SUFFICES ASSUME pos[n] = 0, pOut[n] = NoDoc, n \notin ended, pc = "return", p = n
               PROVE  FALSE
    OBVIOUS
  <2>1. rc # "NOMEM" /\ rc # "DONE"
    BY <1>0 DEF Broken, Sound, Path, EndedOnPath
  <2>2. rc = "ROW"
    BY <2>1 DEF Sound, TypeOK, Codes
  <2> QED BY <2>2 DEF Sound, RowInv
<1>3. CASE Step
  <2>1. stack = <<>>
    BY <1>3 DEF Step, Sound, TypeOK
  <2>2. DOMAIN stack = {}
    BY <2>1
  <2> QED BY <1>1, <1>3, <2>2 DEF Step, Untouched
<1>4. CASE StepReturns
  <2>1. /\ n \notin ended /\ pos[n] = 0 /\ pOut[n] = NoDoc /\ ~doneLeft[n]
        /\ ~cache[n].left.open /\ ~cache[n].right.open
        /\ pc = "return" /\ p = Root
    BY <1>1, <1>4 DEF StepReturns
  <2>2. n # Root
    BY <1>2, <2>1
  <2>3. Len(stack) = 1
    <3>1. /\ stack \in Seq(Nodes) /\ stack # <<>> /\ Len(stack) \in Nat /\ Len(stack) > 0
          /\ p = stack[Len(stack)] /\ Len(stack) \in DOMAIN stack
      BY <2>1, AtWork DEF Sound
    <3>2. 1 \in DOMAIN stack /\ stack[1] = Root
      BY <3>1 DEF Sound, Path, PathDown
    <3>3. ~(1 < Len(stack))
      <4>1. Root \in Nat
        BY NodeFacts DEF Sound
      <4>2. 1 < Len(stack) => Root < Root
        BY <2>1, <3>1, <3>2 DEF Sound, Path, PathDown
      <4> QED BY <4>1, <4>2
    <3>4. \A k \in Nat : k > 0 /\ ~(1 < k) => k = 1
      OBVIOUS
    <3> QED BY <3>1, <3>3, <3>4
  <2>4. \A i \in DOMAIN stack : stack[i] = Root
    <3>1. stack \in Seq(Nodes) /\ stack # <<>>
      BY <2>1, AtWork DEF Sound
    <3>2. DOMAIN stack = {1} /\ stack[1] = Root
      BY <2>3, <3>1 DEF Sound, Path, PathDown
    <3> QED BY <3>2
  <2> QED BY <2>1, <2>2, <2>4 DEF Untouched
<1>5. CASE Within
  <2>1. PICK x \in Nodes : Frame(x) /\ On(x)'
    BY <1>5 DEF Within
  <2>2. n # x
    BY <1>1, <2>1
  <2>3. /\ n \notin ended
        /\ pos[n] = 0 /\ pOut[n] = NoDoc /\ ~doneLeft[n]
        /\ ~cache[n].left.open /\ ~cache[n].right.open
    BY <1>1, <2>1, <2>2 DEF Frame
  <2>4. ~On(n)
    BY <1>1, <1>2, <1>5, <2>3 DEF Within
  <2> QED BY <2>3, <2>4 DEF Untouched, On
<1> QED BY <1>3, <1>4, <1>5, WithinCall

-----------------------------------------------------------------------------
(* The operands: what a step does to them *)

\* A query that returns to UNION ALL, or to one that reads lists, is what that
\* one goes on with.
LEMMA Returned ==
    ASSUME Sound, Next, pc = "return", p # Root
    PROVE  /\ tree[Caller].op = "ALL" => AllLeftDone \/ AllReturns
           /\ tree[Caller].op \in SetOps =>
                CacheAdd \/ CacheNoItem \/ CacheSort \/ CacheError
<1>1. ~Step /\ ~Rewind /\ ~StepReturns
  BY DEF Step, Rewind, StepReturns
<1>2. ~SelectRow /\ ~SelectDone /\ ~SelectNoMem /\ ~AllCalls
  BY DEF SelectRow, SelectDone, SelectNoMem, AtSelect, AllCalls
<1>3. ~CacheOpen /\ ~CacheNoPool
  BY DEF CacheOpen, CacheNoPool, Opening
<1>4. ~MergeDone /\ ~UnionRow /\ ~IntersectItem /\ ~ExceptItem
  BY DEF MergeDone, UnionRow, IntersectItem, ExceptItem, Merging
<1>5. \/ AllLeftDone \/ AllReturns
      \/ CacheAdd \/ CacheNoItem \/ CacheSort \/ CacheError
  BY <1>1, <1>2, <1>3, <1>4 DEF Next, Internal
<1>6. AllLeftDone \/ AllReturns => tree[Caller].op = "ALL"
  BY DEF AllLeftDone, AllReturns, OperandOfAll
<1>7. CacheAdd \/ CacheNoItem \/ CacheSort \/ CacheError => tree[Caller].op \in SetOps
  BY DEF CacheAdd, CacheNoItem, CacheSort, CacheError, OperandOfSetOp
<1>8. "ALL" \notin SetOps
  BY DEF SetOps
<1> QED BY <1>5, <1>6, <1>7, <1>8

\* A list that is to be opened is opened, or memory has run out.
LEMMA Opened ==
    ASSUME Sound, Next, NEW s \in Sides, Opening(s)
    PROVE  CacheOpen \/ CacheNoPool
<1>1. \/ pc = "call" /\ tree[p].op \in SetOps /\ ~cache[p].left.open
      \/ pc = "openRight"
  BY DEF Opening
<1>2. ~Step /\ ~Rewind /\ ~StepReturns
  BY <1>1 DEF Step, Rewind, StepReturns
<1>3. ~SelectRow /\ ~SelectDone /\ ~SelectNoMem /\ ~AllCalls
  BY <1>1 DEF SelectRow, SelectDone, SelectNoMem, AtSelect, AllCalls, SetOps
<1>4. ~AllLeftDone /\ ~AllReturns /\ ~CacheAdd /\ ~CacheNoItem /\ ~CacheSort /\ ~CacheError
  BY <1>1 DEF AllLeftDone, AllReturns, OperandOfAll, CacheAdd, CacheNoItem, CacheSort,
              CacheError, OperandOfSetOp
<1>5. ~MergeDone /\ ~UnionRow /\ ~IntersectItem /\ ~ExceptItem
  BY <1>1 DEF MergeDone, UnionRow, IntersectItem, ExceptItem, Merging
<1> QED BY <1>2, <1>3, <1>4, <1>5 DEF Next, Internal

\* The left operand of UNION ALL is done once; no step but AllLeftDone says so.
LEMMA DoneLeftStep ==
    ASSUME Sound, Next, ~Rewind, NEW n \in Nodes
    PROVE  /\ doneLeft[n] => doneLeft'[n]
           /\ doneLeft'[n] # doneLeft[n] => AllLeftDone /\ n = Caller
<1> USE DEF query, client
<1>1. doneLeft \in [Nodes -> BOOLEAN]
  BY DEF Sound, TypeOK
<1>2. CASE AllLeftDone
  <2>1. doneLeft' = [doneLeft EXCEPT ![Caller] = TRUE]
    BY <1>2 DEF AllLeftDone
  <2> QED BY <1>1, <1>2, <2>1
<1>3. ASSUME doneLeft' = doneLeft
      PROVE  /\ doneLeft[n] => doneLeft'[n]
             /\ doneLeft'[n] # doneLeft[n] => AllLeftDone /\ n = Caller
  BY <1>3
<1>4. CASE Step \/ StepReturns \/ SelectRow \/ SelectDone \/ SelectNoMem
  BY <1>3, <1>4 DEF Step, StepReturns, SelectRow, SelectDone, SelectNoMem
<1>5. CASE AllCalls \/ AllReturns
  BY <1>3, <1>5 DEF AllCalls, AllReturns
<1>6. CASE CacheOpen \/ CacheNoPool \/ CacheAdd \/ CacheNoItem \/ CacheSort \/ CacheError
  BY <1>3, <1>6 DEF CacheOpen, CacheNoPool, CacheAdd, CacheNoItem, CacheSort, CacheError
<1>7. CASE MergeDone \/ UnionRow \/ IntersectItem \/ ExceptItem
  BY <1>3, <1>7 DEF MergeDone, UnionRow, IntersectItem, ExceptItem, MergeRow, MergeSkip
<1> QED BY <1>2, <1>4, <1>5, <1>6, <1>7 DEF Next, Internal

\* A list stays open; no step but CacheOpen opens one.
LEMMA OpenStep ==
    ASSUME Sound, Next, ~Rewind, NEW n \in Nodes, NEW s \in Sides
    PROVE  /\ cache[n][s].open => cache'[n][s].open
           /\ cache'[n][s].open # cache[n][s].open => CacheOpen /\ n = p /\ Opening(s)
<1> USE DEF query, client
<1>0. TypeOK /\ Path
  BY DEF Sound
<1>3. ASSUME cache'[n][s].open = cache[n][s].open
      PROVE  /\ cache[n][s].open => cache'[n][s].open
             /\ cache'[n][s].open # cache[n][s].open => CacheOpen /\ n = p /\ Opening(s)
  BY <1>3
<1>4. CASE Step \/ StepReturns \/ SelectRow \/ SelectDone \/ SelectNoMem
  BY <1>3, <1>4 DEF Step, StepReturns, SelectRow, SelectDone, SelectNoMem
<1>5. CASE AllCalls \/ AllReturns \/ AllLeftDone
  BY <1>3, <1>5 DEF AllCalls, AllReturns, AllLeftDone
<1>6. CASE CacheNoPool \/ CacheNoItem \/ CacheError \/ MergeDone
  BY <1>3, <1>6 DEF CacheNoPool, CacheNoItem, CacheError, MergeDone
<1>7. CASE CacheOpen
  <2>1. PICK r \in Sides : Opening(r) /\ cache' = [cache EXCEPT ![p][r] = OpenList]
    BY <1>7 DEF CacheOpen
  <2>2. p \in Nodes
    BY <1>0, <2>1, AtWork DEF Opening
  <2>3. OpenList \in Lists /\ OpenList.open
    BY DEF OpenList, Lists
  <2>4. /\ cache'[p][r] = OpenList
        /\ \A m \in Nodes, q \in Sides : ~(m = p /\ q = r) => cache'[m][q] = cache[m][q]
    BY <1>0, <2>1, <2>2, <2>3, CacheSet
  <2>5. CASE n = p /\ s = r
    BY <1>7, <2>1, <2>3, <2>4, <2>5
  <2>6. CASE ~(n = p /\ s = r)
    BY <1>3, <2>4, <2>6
  <2> QED BY <2>5, <2>6
<1>8. CASE CacheAdd
  <2>1. /\ pc = "return" /\ rc = "ROW" /\ p # Root
        /\ cache' = [cache EXCEPT ![Caller][Side].items = Append(@, Doc(p))]
    BY <1>8 DEF CacheAdd, OperandOfSetOp
  <2>2. Caller \in Nodes /\ Side \in Sides /\ Doc(p) \in Docs
    BY <1>0, <2>1, Callers, DocTyped DEF Sound
  <2>3. cache[Caller][Side].items \in Seq(Docs)
    BY <1>0, <2>2 DEF TypeOK, Lists
  <2>4. Append(cache[Caller][Side].items, Doc(p)) \in Seq(Docs)
    BY <2>2, <2>3
  <2>5. cache'[n][s].open = cache[n][s].open
    BY <1>0, <2>1, <2>2, <2>4, ItemsSet
  <2> QED BY <1>3, <2>5
<1>9. CASE CacheSort
  <2>1. /\ pc = "return" /\ p # Root
        /\ cache' = [cache EXCEPT ![Caller][Side].items = Ascending(ToSet(@))]
    BY <1>9 DEF CacheSort, OperandOfSetOp
  <2>2. Caller \in Nodes /\ Side \in Sides
    BY <1>0, <2>1, Callers
  <2>3. cache[Caller][Side].items \in Seq(Docs)
    BY <1>0, <2>2 DEF TypeOK, Lists
  <2>4. Ascending(ToSet(cache[Caller][Side].items)) \in Seq(Docs)
    BY <2>3, FiniteToSet, AscendingIsSeq DEF Docs
  <2>5. cache'[n][s].open = cache[n][s].open
    BY <1>0, <2>1, <2>2, <2>4, ItemsSet
  <2> QED BY <1>3, <2>5
<1>10. CASE UnionRow \/ IntersectItem \/ ExceptItem
  <2>1. PICK S \in SUBSET Sides : Turn(S)
    BY <1>10, Turns
  <2>2. cache'[n][s].open = cache[n][s].open
    BY <1>0, <2>1, TurnTyped, ListsPopped DEF Turn
  <2> QED BY <1>3, <2>2
<1> QED BY <1>4, <1>5, <1>6, <1>7, <1>8, <1>9, <1>10 DEF Next, Internal

\* Whatever is called is the statement's query, or an operand of the query that
\* is next to it on the stack.
LEMMA NewCall ==
    ASSUME Sound, Next, pc' = "call", NEW m \in Nodes, p' = m, m # Root
    PROVE  \E n \in Nodes : On(n)' /\ Called(n, m)'
<1>1. TypeOK' /\ Path' /\ Nodes' = Nodes /\ Root' = Root
  BY TypeStep, ControlStep DEF Sound, vars, query, Nodes, Root
<1>2. stack' \in Seq(Nodes) /\ stack' # <<>>
  BY <1>1 DEF TypeOK
<1>3. Len(stack') \in Nat /\ Len(stack') > 0 /\ p' = stack'[Len(stack')]
      /\ DOMAIN stack' = 1..Len(stack')
  BY <1>2 DEF p, Last
<1>4. stack'[1] = Root
  BY <1>1, <1>2 DEF Path, PathDown
<1>5. Len(stack') # 1
  BY <1>3, <1>4
<1>6. \A k \in Nat : k > 0 /\ k # 1 => k - 1 \in 1..k /\ k - 1 < k /\ (k - 1) + 1 = k
  OBVIOUS
<1>7. PICK i \in DOMAIN stack' : i < Len(stack') /\ i + 1 = Len(stack')
  BY <1>3, <1>5, <1>6
<1>8. PICK n \in Nodes : n = stack'[i]
  BY <1>2, <1>7
<1>9. On(n)'
  BY <1>7, <1>8 DEF On
<1>10. \A j \in DOMAIN stack' : j < Len(stack') => Called(stack[j], stack[j + 1])'
  BY <1>1 DEF Path, PathDown
<1>11. Called(n, m)'
  BY <1>3, <1>7, <1>8, <1>10 DEF Called
<1> QED BY <1>9, <1>11

\* Where the end of the stack goes.
LEMMA StackStep ==
    ASSUME Sound, Next, pc # "idle", pc' # "idle"
    PROVE  \/ stack' = stack
           \/ p' < p
           \/ pc = "return" /\ p # Root /\ p' < Caller
           \/ pc = "return" /\ p # Root /\ p' = Caller
<1> USE DEF query, client
<1>0. TypeOK /\ Path
  BY DEF Sound
<1>1. ASSUME NEW s \in Sides, Call(s), tree[p].op # "SELECT" PROVE p' < p
  <2>1. p \in Nodes /\ tree[p][s] \in Nodes /\ tree[p][s] < p /\ stack \in Seq(Nodes)
    BY <1>0, <1>1, AtWork, NodeFacts
  <2>3. PICK m \in Nodes : m = tree[p][s]
    BY <2>1
  <2>4. stack' = Append(stack, m)
    BY <1>1, <2>3 DEF Call
  <2>2. Last(stack') = tree[p][s]
    BY <2>1, <2>3, <2>4 DEF Last
  <2> QED BY <2>1, <2>2 DEF p
<1>2. CASE Step \/ Rewind \/ StepReturns
  BY <1>2 DEF Step, Rewind, StepReturns
<1>3. CASE SelectRow \/ SelectDone \/ SelectNoMem
  BY <1>3 DEF SelectRow, SelectDone, SelectNoMem
<1>4. CASE AllCalls
  BY <1>1, <1>4 DEF AllCalls, Sides
<1>5. CASE CacheOpen
  <2>1. PICK s \in Sides : Opening(s) /\ Call(s)
    BY <1>5 DEF CacheOpen
  <2>2. tree[p].op # "SELECT"
    BY <1>0, <2>1 DEF Opening, Path, Phases, SetOps
  <2> QED BY <1>1, <2>1, <2>2
<1>6. CASE AllLeftDone
  <2>1. pc = "return" /\ p # Root /\ stack' = Append(Front(stack), tree[Caller].right)
    BY <1>6 DEF AllLeftDone, OperandOfAll
  <2>2. tree[Caller].right \in Nodes /\ tree[Caller].right < Caller
    BY <1>0, <2>1, Callers, NodeFacts DEF Sides
  <2>3. Front(stack) \in Seq(Nodes)
    BY <1>0, <2>1, StackPopped
  <2>5. PICK m \in Nodes, f \in Seq(Nodes) : m = tree[Caller].right /\ f = Front(stack)
    BY <2>2, <2>3
  <2>6. stack' = Append(f, m)
    BY <2>1, <2>5
  <2>4. Last(stack') = tree[Caller].right
    BY <2>5, <2>6 DEF Last
  <2> QED BY <2>1, <2>2, <2>4 DEF p
<1>7. CASE AllReturns \/ CacheNoItem \/ CacheSort \/ CacheError
  <2>1. pc = "return" /\ p # Root /\ stack' = Front(stack)
    BY <1>7 DEF AllReturns, CacheNoItem, CacheSort, CacheError, OperandOfAll, OperandOfSetOp,
                ReturnFromCaller
  <2>2. p' = Caller
    BY <1>0, <2>1, StackPopped DEF p
  <2> QED BY <2>1, <2>2
<1>8. CASE CacheNoPool \/ CacheAdd \/ MergeDone
  BY <1>8 DEF CacheNoPool, CacheAdd, MergeDone
<1>9. CASE UnionRow \/ IntersectItem \/ ExceptItem
  BY <1>0, <1>9, Turns, TurnTyped
<1> QED BY <1>2, <1>3, <1>4, <1>5, <1>6, <1>7, <1>8, <1>9 DEF Next, Internal

\* A query that has called an operand waits for it: it has the word again when
\* the operand returns.
LEMMA WaitsForOperand ==
    ASSUME Sound, Next, pc # "idle", NEW n \in Nodes,
           \E i \in DOMAIN stack : i < Len(stack) /\ stack[i] = n
    PROVE  \/ \E i \in DOMAIN stack' : i < Len(stack') /\ stack'[i] = n
           \/ pc = "return" /\ p # Root /\ n = Caller /\ p' = n /\ stack' # stack
<1>0. TypeOK /\ Path
  BY DEF Sound
<1>1. /\ stack \in Seq(Nodes) /\ Len(stack) \in Nat /\ p = stack[Len(stack)] /\ p \in Nodes
      /\ Len(stack) \in DOMAIN stack /\ DOMAIN stack = 1..Len(stack)
  BY <1>0, AtWork
<1>2. Nodes \subseteq Nat /\ \A m \in Nodes : m <= Root
  BY <1>0, NodeFacts
<1>3. PICK i \in DOMAIN stack : i < Len(stack) /\ stack[i] = n
  OBVIOUS
<1>4. p < n
  BY <1>0, <1>1, <1>3 DEF Path, PathDown
<1>5. p # Root
  BY <1>1, <1>2, <1>4
<1>6. pc = "return" => Caller \in Nodes /\ Caller <= n
  <2> SUFFICES ASSUME pc = "return" PROVE Caller \in Nodes /\ Caller <= n
    OBVIOUS
  <2>1. /\ Len(stack) > 1 /\ Len(stack) - 1 \in DOMAIN stack
        /\ Caller = stack[Len(stack) - 1] /\ Caller \in Nodes
    BY <1>0, <1>5, Callers
  <2>2. i = Len(stack) - 1 \/ i < Len(stack) - 1
    BY <1>1, <1>3
  <2>3. i < Len(stack) - 1 => Caller < n
    BY <1>0, <1>3, <2>1 DEF Path, PathDown
  <2> QED BY <1>2, <1>3, <2>1, <2>2, <2>3
<1>7. ~Step /\ ~Rewind /\ ~StepReturns
  BY <1>5 DEF Step, Rewind, StepReturns
<1>8. Within
  BY <1>7, WithinCall
<1>9. On(n)'
  <2>1. On(n)
    BY <1>3 DEF On
  <2>2. p # n
    BY <1>1, <1>2, <1>4
  <2> QED BY <1>8, <2>1, <2>2 DEF Within
<1>10. PICK k \in DOMAIN stack' : stack'[k] = n
  BY <1>9 DEF On
<1>11. TypeOK' /\ Nodes' = Nodes
  BY TypeStep DEF Sound, vars, query, Nodes
<1>12. stack' \in Seq(Nodes) /\ Len(stack') \in Nat /\ DOMAIN stack' = 1..Len(stack')
  BY <1>11 DEF TypeOK
<1>13. stack' # <<>>
  BY <1>10, <1>12
<1>14. pc' # "idle" /\ p' = stack'[Len(stack')]
  BY <1>11, <1>13 DEF TypeOK, p, Last
<1>15. CASE k < Len(stack')
  BY <1>10, <1>15
<1>16. CASE k = Len(stack')
  <2>1. p' = n
    BY <1>10, <1>14, <1>16
  <2>5. n \in Nat /\ p \in Nat /\ (pc = "return" => Caller \in Nat)
    BY <1>1, <1>2, <1>6
  <2>6. n # p
    BY <1>4, <2>5
  <2>2. stack' # stack
    BY <2>1, <2>6 DEF p
  <2>3. ~(p' < p)
    BY <1>4, <2>1, <2>5
  <2>4. pc = "return" => ~(p' < Caller)
    BY <1>6, <2>1, <2>5
  <2> QED BY <1>14, <2>1, <2>2, <2>3, <2>4, StackStep
<1> QED BY <1>12, <1>15, <1>16

\* An operand that has not been stepped stays so while the query it belongs to
\* does not call it.
LEMMA OperandUntouchedStays ==
    ASSUME Sound, Next, NEW n \in Nodes, NEW s \in Sides, tree[n].op # "SELECT",
           Untouched(tree[n][s]), ~(On(n)' /\ Called(n, tree[n][s])')
    PROVE  Untouched(tree[n][s])'
<1>0. /\ \A m, k \in Nodes, r, u \in Sides :
            tree[m][r] = tree[k][u] /\ tree[m].op # "SELECT" => m = k /\ r = u
      /\ tree[n][s] \in Nodes /\ tree[n][s] < n /\ n <= Root /\ Root \in Nodes /\ Nodes \subseteq Nat
  BY NodeFacts DEF Sound
<1>1. tree' = tree
  BY TypeStep DEF Sound, vars, query
<1>2. PICK m \in Nodes : m = tree[n][s]
  BY <1>0
<1>3. Untouched(m) /\ m # Root
  <2>1. m \in Nat /\ n \in Nat /\ Root \in Nat
    BY <1>0, <1>2
  <2>2. m # Root
    BY <1>0, <1>2, <2>1
  <2> QED BY <1>2, <2>2
<1>4. CASE Untouched(m)'
  BY <1>1, <1>2, <1>4 DEF Untouched
<1>5. CASE pc' = "call" /\ p' = m
  <2>1. PICK k \in Nodes : On(k)' /\ Called(k, m)'
    BY <1>3, <1>5, NewCall
  <2>2. tree[k].op # "SELECT" /\ (m = tree[k].left \/ m = tree[k].right)
    BY <1>1, <2>1 DEF Called, SetOps
  <2>3. k = n
    BY <1>0, <1>2, <2>2 DEF Sides
  <2>4. Called(n, tree[n][s])'
    BY <1>1, <1>2, <2>1, <2>3 DEF Called
  <2> QED BY <2>1, <2>3, <2>4
<1> QED BY <1>3, <1>4, <1>5, UntouchedStays

\* A query that has not been stepped has not stepped its operands.
LEMMA UntouchedStep ==
    ASSUME Sound, Next, ~Rewind, ~Broken', NEW n \in Nodes, NEW s \in Sides,
           tree[n].op # "SELECT", Untouched(n)'
    PROVE  Untouched(tree[n][s])'
<1>1. Untouched(n) /\ ~Broken
  BY UntouchedWas, BrokenStays
<1>2. Untouched(tree[n][s])
  BY <1>1 DEF Sound, Operands
<1>3. ~On(n)'
  BY DEF Untouched, On
<1> QED BY <1>2, <1>3, OperandUntouchedStays

\* UNION ALL goes from its left operand to its right one and then to its end.
LEMMA AllStep ==
    ASSUME Sound, Next, ~Rewind, ~Broken', NEW n \in Nodes, tree[n].op = "ALL"
    PROVE  AllOperands(n)'
<1> USE DEF query, client
<1>0. TypeOK /\ Path /\ ~Broken
  BY BrokenStays DEF Sound
<1>1. AllOperands(n)
  BY <1>0 DEF Sound, Operands
<1>2. tree' = tree
  BY TypeStep DEF Sound, vars
<1>3. /\ "left" \in Sides /\ "right" \in Sides /\ tree[n].op # "SELECT"
      /\ tree[n].left # tree[n].right
  BY <1>0, NodeFacts DEF Sides
<1>4. /\ ended \subseteq ended'
      /\ \A m \in ended' : m \notin ended => Returning(m)'
  BY EndedStep
\* An operand that returns DONE returns it to n.
<1>5. ASSUME NEW s \in Sides, tree[n][s] \in ended, Returning(tree[n][s])
      PROVE  /\ pc = "return" /\ rc = "DONE" /\ p # Root /\ n = Caller /\ s = Side
             /\ AllLeftDone \/ AllReturns
  <2>1. pc = "return" /\ p = tree[n][s] /\ p \in ended
    BY <1>5 DEF Returning
  <2>2. rc = "DONE"
    BY <1>0, <2>1, NotEnded
  <2>3. p # Root
    <3>1. tree[n][s] < n /\ tree[n][s] \in Nat /\ n \in Nat /\ n <= Root
      BY <1>0, <1>3, NodeFacts
    <3>2. Root \in Nat
      BY <1>0, NodeFacts
    <3> QED BY <2>1, <3>1, <3>2
  <2>4. n = Caller /\ s = Side
    BY <1>0, <2>1, <2>3, Callers
  <2> QED BY <2>1, <2>2, <2>3, <2>4, Returned
<1>6. CASE doneLeft[n]
  <2>1. doneLeft'[n] /\ tree[n].left \in ended'
    BY <1>1, <1>4, <1>6, DoneLeftStep DEF AllOperands
  <2>2. tree[n].right \in ended' => n \in ended' \/ Returning(tree[n].right)'
    <3>1. CASE tree[n].right \in ended
      <4>1. CASE n \in ended
        BY <1>4, <4>1
      <4>2. CASE n \notin ended
        <5>1. Returning(tree[n].right)
          BY <1>1, <1>6, <3>1, <4>2 DEF AllOperands
        <5>2. rc = "DONE" /\ n = Caller /\ Side = "right" /\ (AllLeftDone \/ AllReturns)
          BY <1>3, <1>5, <3>1, <5>1
        <5>3. AllReturns
          BY <5>2 DEF AllLeftDone
        <5>4. Caller \in ended'
          BY <5>2, <5>3 DEF AllReturns, ReturnFromCaller
        <5> QED BY <5>2, <5>4
      <4> QED BY <4>1, <4>2
    <3>2. CASE tree[n].right \notin ended
      BY <1>2, <1>4, <3>2 DEF Returning
    <3> QED BY <3>1, <3>2
  <2> QED BY <1>2, <2>1, <2>2 DEF AllOperands, Returning
<1>7. CASE ~doneLeft[n] /\ doneLeft'[n]
  <2>1. AllLeftDone /\ n = Caller
    BY <1>7, DoneLeftStep
  <2>2. pc = "return" /\ rc = "DONE" /\ p # Root /\ Side = "left" /\ ended' = ended
    BY <2>1 DEF AllLeftDone, OperandOfAll
  <2>3. tree[Caller][Side] = p /\ p \in ended
    BY <1>0, <2>2, Callers DEF Path, EndedOnPath
  <2>4. tree[n].left \in ended'
    BY <2>1, <2>2, <2>3
  <2>5. tree[n].right \notin ended'
    BY <1>1, <1>7, <2>2 DEF AllOperands, Untouched
  <2> QED BY <1>2, <1>7, <2>4, <2>5 DEF AllOperands
<1>8. CASE ~doneLeft[n] /\ ~doneLeft'[n]
  <2>1. Untouched(tree[n].right)
    BY <1>1, <1>8 DEF AllOperands
  <2>2. ~Called(n, tree[n].right)'
    BY <1>2, <1>3, <1>8 DEF Called, SetOps
  <2>3. Untouched(tree[n].right)'
    BY <1>3, <2>1, <2>2, OperandUntouchedStays
  <2>4. tree[n].left \in ended' => Returning(tree[n].left)'
    <3>1. CASE tree[n].left \in ended
      <4>1. Returning(tree[n].left)
        BY <1>1, <1>8, <3>1 DEF AllOperands
      <4>2. rc = "DONE" /\ n = Caller /\ Side = "left" /\ (AllLeftDone \/ AllReturns)
        BY <1>3, <1>5, <3>1, <4>1
      <4>3. AllLeftDone
        BY <4>2 DEF AllReturns
      <4>4. doneLeft \in [Nodes -> BOOLEAN] /\ doneLeft' = [doneLeft EXCEPT ![Caller] = TRUE]
        BY <1>0, <4>3 DEF AllLeftDone, TypeOK
      <4> QED BY <1>8, <4>2, <4>4
    <3>2. CASE tree[n].left \notin ended
      BY <1>2, <1>4, <3>2 DEF Returning
    <3> QED BY <3>1, <3>2
  <2> QED BY <1>2, <1>8, <2>3, <2>4 DEF AllOperands, Untouched, Returning
<1> QED BY <1>6, <1>7, <1>8

\* A query that has just opened a list waits for the operand it called.
LEMMA OpenedWaits ==
    ASSUME Sound, CacheOpen
    PROVE  \E i \in DOMAIN stack' : i < Len(stack') /\ stack'[i] = p
<1>0. TypeOK /\ Path
  BY DEF Sound
<1>1. PICK s \in Sides : Opening(s) /\ Call(s)
  BY DEF CacheOpen
<1>2. pc # "idle" /\ tree[p].op # "SELECT"
  BY <1>0, <1>1 DEF Opening, Path, Phases, SetOps
<1>3. /\ stack \in Seq(Nodes) /\ p = stack[Len(stack)] /\ Len(stack) \in DOMAIN stack
      /\ tree[p][s] \in Nodes
  BY <1>0, <1>2, AtWork, NodeFacts
<1>4. PICK m \in Nodes : stack' = Append(stack, m)
  BY <1>1, <1>3 DEF Call
<1>5. /\ Len(stack') = Len(stack) + 1 /\ DOMAIN stack' = 1..(Len(stack) + 1)
      /\ Len(stack) \in Nat /\ Len(stack) \in 1..Len(stack)
      /\ stack'[Len(stack)] = stack[Len(stack)]
  BY <1>3, <1>4
<1>6. Len(stack) \in DOMAIN stack' /\ Len(stack) < Len(stack')
  BY <1>5
<1> QED BY <1>3, <1>5, <1>6

\* A query that reads lists reads the left one, then the right one, and then
\* merges.
LEMMA ListStep ==
    ASSUME Sound, Next, ~Rewind, ~Broken', NEW n \in Nodes, tree[n].op \in SetOps
    PROVE  ListOperands(n)'
<1> USE DEF query, client
<1>0. TypeOK /\ Path /\ ~Broken
  BY BrokenStays DEF Sound
<1>1. ListOperands(n)
  BY <1>0 DEF Sound, Operands
<1>2. tree' = tree /\ Nodes' = Nodes
  BY TypeStep DEF Sound, vars, Nodes
<1>3. /\ "left" \in Sides /\ "right" \in Sides /\ tree[n].op # "SELECT"
      /\ tree[n].left # tree[n].right
  BY <1>0, NodeFacts DEF Sides, SetOps
<1>4. /\ \A s \in Sides : cache[n][s].open => cache'[n][s].open
      /\ \A s \in Sides : ~cache[n][s].open /\ cache'[n][s].open =>
            CacheOpen /\ n = p /\ Opening(s)
  BY OpenStep
<1>5. ended \subseteq ended'
  BY EndedStep
<1>6. ASSUME NEW s \in Sides, ~cache'[n][s].open
      PROVE  Untouched(tree[n][s])'
  <2>1. Untouched(tree[n][s])
    BY <1>1, <1>4, <1>6 DEF ListOperands
  <2>2. s = "left" \/ s = "right"
    BY DEF Sides
  <2>3. ~Called(n, tree[n][s])'
    BY <1>2, <1>3, <1>6, <2>2 DEF Called, SetOps
  <2> QED BY <1>3, <2>1, <2>3, OperandUntouchedStays
<1>7. cache'[n].right.open => cache'[n].left.open /\ tree[n].left \in ended'
  <2>1. CASE cache[n].right.open
    BY <1>1, <1>3, <1>4, <1>5, <2>1 DEF ListOperands
  <2>2. CASE ~cache[n].right.open /\ cache'[n].right.open
    <3>1. n = p /\ Opening("right")
      BY <1>3, <1>4, <2>2
    <3>2. cache[n].left.open /\ tree[n].left \in ended
      BY <1>3, <3>1, CalledOperands
    <3> QED BY <1>3, <1>4, <1>5, <3>2
  <2> QED BY <2>1, <2>2
<1>8. ~cache'[n].left.open => Untouched(n)' \/ (pc' = "call" /\ p' = n)
  <2> SUFFICES ASSUME ~cache'[n].left.open PROVE Untouched(n)' \/ (pc' = "call" /\ p' = n)
    OBVIOUS
  <2>1. ~cache[n].left.open
    BY <1>3, <1>4
  <2>2. CASE Untouched(n)
    BY <2>2, UntouchedStays
  <2>3. CASE pc = "call" /\ p = n
    <3>1. Opening("left")
      BY <2>1, <2>3 DEF Opening
    <3>2. CASE CacheNoPool
      BY <3>2 DEF CacheNoPool, Return, Broken
    <3>3. CASE CacheOpen
      <4>1. PICK s \in Sides : Opening(s) /\ cache' = [cache EXCEPT ![p][s] = OpenList]
        BY <3>3 DEF CacheOpen
      <4>2. s = "left"
        BY <2>3, <4>1 DEF Opening
      <4>3. OpenList \in Lists /\ OpenList.open
        BY DEF OpenList, Lists
      <4>4. cache'[n]["left"] = OpenList
        BY <1>0, <1>3, <2>3, <4>1, <4>2, <4>3, CacheSet
      <4> QED BY <4>3, <4>4
    <3> QED BY <1>3, <3>1, <3>2, <3>3, Opened
  <2> QED BY <1>1, <2>1, <2>2, <2>3 DEF ListOperands
<1> DEFINE Waits == \E i \in DOMAIN stack : i < Len(stack) /\ stack[i] = n
<1>9. CacheOpen /\ n = p => Waits'
  BY OpenedWaits
<1>10. cache'[n].left.open => Merged(n)' \/ Waits' \/ (pc' = "openRight" /\ p' = n)
  <2> SUFFICES ASSUME cache'[n].left.open
               PROVE  Merged(n)' \/ Waits' \/ (pc' = "openRight" /\ p' = n)
    OBVIOUS
  <2>1. CASE ~cache[n].left.open
    BY <1>3, <1>4, <1>9, <2>1
  <2>2. CASE Merged(n)
    BY <2>2, MergedStays
  <2>3. CASE pc = "openRight" /\ p = n
    <3>1. Opening("right")
      BY <2>3 DEF Opening
    <3>2. CASE CacheNoPool
      BY <3>2 DEF CacheNoPool, Return, Broken
    <3>3. CASE CacheOpen
      BY <1>9, <2>3, <3>3
    <3> QED BY <1>3, <3>1, <3>2, <3>3, Opened
  <2>4. CASE Waits
    <3>1. pc # "idle"
      <4>1. stack # <<>>
        BY <2>4
      <4> QED BY <1>0, <4>1 DEF TypeOK
    <3>2. CASE pc = "return" /\ p # Root /\ n = Caller /\ p' = n /\ stack' # stack
      <4>1. ~CacheAdd
        BY <3>2 DEF CacheAdd
      <4>2. ~CacheNoItem /\ ~CacheError
        BY <3>2 DEF CacheNoItem, CacheError, ReturnFromCaller, Broken
      <4>3. CacheSort
        BY <3>2, <4>1, <4>2, Returned
      <4>4. OperandOfSetOp /\ rc = "DONE"
            /\ pc' = IF Side = "left" THEN "openRight" ELSE "merge"
        BY <4>3 DEF CacheSort
      <4>5. Side \in Sides
        BY <1>0, <3>2, Callers
      <4>6. CASE Side = "left"
        BY <3>2, <4>4, <4>6
      <4>7. CASE Side = "right"
        <5>1. p = tree[n].right /\ p \in ended /\ tree[n].left \in ended
          BY <3>2, <4>4, <4>7, ListComplete
        <5>2. tree[n].right \in ended' /\ tree[n].left \in ended'
          BY <1>5, <5>1
        <5>3. pc' # "return"
          BY <4>4, <4>7
        <5>4. \A s \in Sides : tree[n][s] \in ended'
          BY <5>2 DEF Sides
        <5> QED BY <1>2, <5>3, <5>4 DEF Merged
      <4> QED BY <4>5, <4>6, <4>7 DEF Sides
    <3> QED BY <2>4, <3>1, <3>2, WaitsForOperand
  <2> QED BY <1>1, <2>1, <2>2, <2>3, <2>4 DEF ListOperands
<1>11. \A s \in Sides : ~cache'[n][s].open => Untouched(tree[n][s])'
  BY <1>6
<1> QED BY <1>2, <1>7, <1>8, <1>10, <1>11 DEF ListOperands, Untouched

\* After a rewind nothing has been stepped.
LEMMA RewindOperands ==
    ASSUME Sound, Rewind
    PROVE  Operands'
<1> USE DEF query, client
<1>1. /\ pc = "idle" /\ pos' = [n \in Nodes |-> 0] /\ cache' = [n \in Nodes |-> NoLists]
      /\ doneLeft' = [n \in Nodes |-> FALSE] /\ pOut' = [n \in Nodes |-> NoDoc]
      /\ ended' = {} /\ tree' = tree /\ stack' = stack
  BY DEF Rewind
<1>2. stack' = <<>> /\ Nodes' = Nodes
  BY <1>1 DEF Sound, TypeOK, Nodes
<1>3. \A s \in Sides : ~NoLists[s].open
  BY DEF NoLists, ClosedList
<1>4. "left" \in Sides /\ "right" \in Sides
  BY DEF Sides
<1>5. DOMAIN stack' = {}
  BY <1>2
<1>6. \A n \in Nodes : Untouched(n)'
  BY <1>1, <1>3, <1>4, <1>5 DEF Untouched
<1>7. \A n \in Nodes, s \in Sides : tree[n].op # "SELECT" => tree[n][s] \in Nodes
  BY NodeFacts DEF Sound
<1>8. \A n \in Nodes, s \in Sides : tree[n].op # "SELECT" => Untouched(tree[n][s])'
  BY <1>1, <1>6, <1>7 DEF Untouched
<1>9. \A n \in Nodes : tree[n].op = "ALL" => AllOperands(n)'
  BY <1>1, <1>4, <1>8 DEF AllOperands, Untouched
<1>10. \A n \in Nodes : tree[n].op \in SetOps => ListOperands(n)'
  BY <1>1, <1>3, <1>4, <1>6, <1>8 DEF ListOperands, Untouched, SetOps
<1> QED BY <1>1, <1>2, <1>6, <1>8, <1>9, <1>10 DEF Operands, Untouched, AllOperands, ListOperands

\* Each step keeps what the queries have had of their operands.
LEMMA OperandsStep ==
    ASSUME Sound, Next, ~Broken'
    PROVE  Operands'
<1>1. CASE Rewind
  BY <1>1, RewindOperands
<1>2. CASE ~Rewind
  <2>1. tree' = tree /\ Nodes' = Nodes
    BY TypeStep DEF Sound, vars, query, Nodes
  <2>2. ASSUME NEW n \in Nodes, NEW s \in Sides, tree[n].op # "SELECT", Untouched(n)'
        PROVE  Untouched(tree[n][s])'
    BY <1>2, <2>2, UntouchedStep
  <2>3. ASSUME NEW n \in Nodes, tree[n].op = "ALL" PROVE AllOperands(n)'
    BY <1>2, <2>3, AllStep
  <2>4. ASSUME NEW n \in Nodes, tree[n].op \in SetOps PROVE ListOperands(n)'
    BY <1>2, <2>4, ListStep
  <2> QED BY <2>1, <2>2, <2>3, <2>4 DEF Operands
<1> QED BY <1>1, <1>2

-----------------------------------------------------------------------------
(* The theorems *)

\* The first state is sound.
LEMMA InitSound == Init => Sound
<1> SUFFICES ASSUME Init PROVE Sound
  OBVIOUS
<1>1. TypeOK
  BY InitTyped
<1>2. /\ stack = <<>> /\ pc = "idle" /\ rc = "ROW" /\ ended = {} /\ ret = "NONE"
      /\ pos = [n \in Nodes |-> 0] /\ cache = [n \in Nodes |-> NoLists]
      /\ doneLeft = [n \in Nodes |-> FALSE] /\ pOut = [n \in Nodes |-> NoDoc]
  BY DEF Init
<1>3. DOMAIN stack = {}
  BY <1>2
<1>4. Path /\ RowInv /\ ClientInv
  BY <1>2, <1>3 DEF Path, PathDown, EndedOnPath, Phases, RowInv, ClientInv
<1>5. /\ \A s \in Sides : ~NoLists[s].open
      /\ "left" \in Sides /\ "right" \in Sides
  BY DEF NoLists, ClosedList, Sides
<1>6. \A n \in Nodes : Untouched(n)
  BY <1>2, <1>3, <1>5 DEF Untouched
<1>7. \A n \in Nodes, s \in Sides : tree[n].op # "SELECT" => Untouched(tree[n][s])
  BY <1>1, <1>6, NodeFacts
<1>8. \A n \in Nodes : tree[n].op = "ALL" => AllOperands(n)
  BY <1>2, <1>5, <1>7 DEF AllOperands
<1>9. \A n \in Nodes : tree[n].op \in SetOps => ListOperands(n)
  BY <1>2, <1>5, <1>6, <1>7 DEF ListOperands, SetOps
<1>10. Operands
  BY <1>6, <1>7, <1>8, <1>9 DEF Operands
<1> QED BY <1>1, <1>4, <1>10 DEF Sound

\* Each step keeps a state sound.
LEMMA SoundStep == Sound /\ [Next]_vars => Sound'
<1> SUFFICES ASSUME Sound, [Next]_vars PROVE Sound'
  OBVIOUS
<1>1. TypeOK'
  BY TypeStep DEF Sound
<1>2. CASE Next
  BY <1>1, <1>2, ControlStep, OperandsStep DEF Sound
<1>3. CASE UNCHANGED vars
  <2>1. /\ UNCHANGED <<tree, pos, cache, doneLeft, pOut, stack, pc, rc, ended, out, ret>>
    BY <1>3 DEF vars, query, client
  <2>2. Path' /\ RowInv' /\ ClientInv'
    BY <2>1 DEF Sound, Path, PathDown, Called, EndedOnPath, Phases, RowInv, ClientInv, p, Root
  <2>3. Broken' = Broken
    BY <2>1 DEF Broken
  <2>4. Operands => Operands'
    BY <2>1 DEF Operands, AllOperands, ListOperands, Untouched, Merged, Returning, p, Nodes
  <2> QED BY <1>1, <2>2, <2>3, <2>4 DEF Sound
<1> QED BY <1>2, <1>3

\* Every state that a compound query reaches has what the calls rely on: the
\* stack is a path of queries of which none but the last has ended, and each
\* query has had of its operands what its flags and lists say.
THEOREM AlwaysSound == Spec => []Sound
<1> QED BY InitSound, SoundStep, PTL DEF Spec

\* In every nesting of the four operators the lists hold documents, the stack
\* holds queries of the statement, and the document of a row is one: the types
\* of the model (query.c:373-570).
THEOREM TypeCorrect == Spec => []TypeOK
<1>1. Sound => TypeOK
  BY DEF Sound
<1> QED BY <1>1, AlwaysSound, PTL

\* In every nesting of the four operators, wherever memory runs out, an operand
\* that has returned DONE is not stepped again before a rewind
\* (query.c:490-497, query.c:511).
THEOREM EndedIsNotCalled == Spec => NoCallAfterEnd
<1>1. ASSUME Sound, [Next]_vars PROVE [pc' = "call" => Last(stack') \notin ended]_vars
  <2>1. CASE Next
    <3> SUFFICES ASSUME pc' = "call" PROVE Last(stack') \notin ended
      OBVIOUS
    <3>1. TypeOK' /\ Path'
      BY <1>1, <2>1, TypeStep, ControlStep DEF Sound
    <3>2. ~Rewind
      BY <1>1 DEF Rewind
    <3>3. ended \subseteq ended'
      BY <1>1, <2>1, <3>2, EndedStep
    <3>4. stack' \in Seq(Nodes') /\ stack' # <<>>
      BY <3>1 DEF TypeOK
    <3>5. Len(stack') \in DOMAIN stack'
      BY <3>4
    <3>6. stack'[Len(stack')] \notin ended'
      BY <3>1, <3>5 DEF Path, EndedOnPath
    <3> QED BY <3>3, <3>6 DEF Last
  <2>2. CASE UNCHANGED vars
    BY <2>2
  <2> QED BY <1>1, <2>1, <2>2
<1>2. Sound /\ [Next]_vars => [pc' = "call" => Last(stack') \notin ended]_vars
  BY <1>1
<1> QED BY <1>2, AlwaysSound, PTL DEF Spec, NoCallAfterEnd

-----------------------------------------------------------------------------
(***************************************************************************)
(* What a compound query returns.                                          *)
(***************************************************************************)

\* Query m returns a row that its caller does not have yet.
InFlight(m) == pc = "return" /\ rc = "ROW" /\ p = m

\* How many of the results that m has sent its caller has.
Taken(sent, m) == IF InFlight(m) THEN sent[m] - 1 ELSE sent[m]

Counted(sent) ==
    \A n \in Nodes :
        /\ sent[n] <= Len(meaning[n])
        /\ n \in ended => sent[n] = Len(meaning[n])

\* What the merge of query n has left.
Left(n) == Combine(tree[n].op, cache[n].left.items, cache[n].right.items)

\* Sequence c is what comes in s behind the first k.
IsRest(c, s, k) ==
    /\ Len(c) = Len(s) - k
    /\ \A i \in DOMAIN c : c[i] = s[k + i]

MergeData(sent, n) ==
    Merged(n) =>
        /\ \A s \in Sides : Increasing(cache[n][s].items)
        /\ IsRest(Left(n), meaning[n], sent[n])

RowData(sent) ==
    pc = "return" /\ rc = "ROW" => sent[p] > 0 /\ Doc(p) = meaning[p][sent[p]]

ClientData(sent) ==
    /\ Len(out) = Taken(sent, Root)
    /\ \A i \in DOMAIN out : out[i] = meaning[Root][i]

\* The results of query m that its caller has.
SentOf(sent, m) == { meaning[m][i] : i \in 1..Taken(sent, m) }

\* The list of operand m is complete.
Complete(m) == m \in ended /\ ~Returning(m)

AllData(sent, n) ==
    sent[n] = IF doneLeft[n]
                THEN Len(meaning[tree[n].left]) + Taken(sent, tree[n].right)
                ELSE Taken(sent, tree[n].left)

ListData(sent, n) ==
    ~Merged(n) =>
        /\ sent[n] = 0
        /\ \A s \in Sides : cache[n][s].open =>
              IF Complete(tree[n][s])
                THEN cache[n][s].items = Ascending(ToSet(meaning[tree[n][s]]))
                ELSE ToSet(cache[n][s].items) = SentOf(sent, tree[n][s])

OperandData(sent) ==
    \A n \in Nodes :
        /\ Untouched(n) => sent[n] = 0
        /\ tree[n].op = "SELECT" /\ n \notin ended => pos[n] = sent[n]
        /\ tree[n].op = "ALL" => AllData(sent, n)
        /\ tree[n].op \in SetOps => ListData(sent, n)

Data(sent) ==
    /\ Counted(sent) /\ RowData(sent) /\ ClientData(sent)
    /\ \A n \in Nodes : MergeData(sent, n)
    /\ ~Broken => OperandData(sent)

DataSound ==
    /\ meaning = Meaning(tree)
    /\ \E sent \in [Nodes -> Nat] : Data(sent)

-----------------------------------------------------------------------------
(* What each step does to the data *)

\* What each query means, by its operator.
LEMMA MeaningIs ==
    ASSUME TypeOK, meaning = Meaning(tree)
    PROVE  /\ \A n \in Nodes : meaning[n] \in Seq(Docs) /\ Len(meaning[n]) \in Nat
           /\ \A n \in Nodes : tree[n].op = "SELECT" => meaning[n] = tree[n].rows
           /\ \A n \in Nodes : tree[n].op # "SELECT" =>
                meaning[n] = Combine(tree[n].op, meaning[tree[n].left], meaning[tree[n].right])
<1>1. \A n \in Nodes : meaning[n] = Result(tree, meaning, n)
  BY MeaningOf DEF TypeOK, Nodes
<1>2. \A n \in Nodes : meaning[n] \in Seq(Docs)
  BY DEF TypeOK
<1> QED BY <1>1, <1>2 DEF Result

\* Where a call returns from.
LEMMA Returns ==
    ASSUME Sound, Next, pc' = "return", ~Broken'
    PROVE  \/ SelectRow /\ rc' = "ROW" /\ p' = p
           \/ SelectDone /\ rc' = "DONE" /\ p' = p
           \/ AllReturns /\ rc' = rc /\ p' = Caller
           \/ MergeDone /\ rc' = "DONE" /\ p' = p
           \/ (UnionRow \/ IntersectItem \/ ExceptItem) /\ rc' = "ROW" /\ p' = p
<1> USE DEF query, client
<1>0. rc' # "NOMEM"
  BY DEF Broken
<1>1. ~Step /\ ~StepReturns /\ ~Rewind
  BY DEF Step, StepReturns, Rewind, Sound, TypeOK
<1>2. ~AllCalls /\ ~AllLeftDone /\ ~CacheOpen /\ ~CacheAdd /\ ~CacheSort
  BY DEF AllCalls, AllLeftDone, CacheOpen, CacheAdd, CacheSort, Call
<1>3. ~SelectNoMem /\ ~CacheNoPool /\ ~CacheNoItem /\ ~CacheError
  BY <1>0 DEF SelectNoMem, CacheNoPool, CacheNoItem, CacheError, Return, ReturnFromCaller
<1>4. CASE SelectRow
  BY <1>4 DEF SelectRow, Return, p
<1>5. CASE SelectDone
  BY <1>5 DEF SelectDone, Return, p
<1>6. CASE AllReturns
  <2>1. pc = "return" /\ p # Root /\ stack' = Front(stack) /\ rc' = rc
    BY <1>6 DEF AllReturns, OperandOfAll, ReturnFromCaller
  <2>2. p' = Caller
    BY <2>1, StackPopped DEF p, Sound
  <2> QED BY <1>6, <2>1, <2>2
<1>7. CASE MergeDone
  BY <1>7 DEF MergeDone, Return, p
<1>8. CASE UnionRow \/ IntersectItem \/ ExceptItem
  <2>1. PICK S \in SUBSET Sides : Turn(S)
    BY <1>8, Turns
  <2>2. stack' = stack /\ rc' = "ROW"
    BY <2>1, TurnTyped DEF Sound
  <2> QED BY <1>8, <2>2 DEF p
<1> QED BY <1>1, <1>2, <1>3, <1>4, <1>5, <1>6, <1>7, <1>8 DEF Next, Internal

\* What the client has changes when the statement returns, and by a rewind.
LEMMA OutStep ==
    ASSUME Next, ~Rewind, ~StepReturns
    PROVE  out' = out /\ ret' = ret
<1> USE DEF query, client
<1>1. CASE Step \/ SelectRow \/ SelectDone \/ SelectNoMem
  BY <1>1 DEF Step, SelectRow, SelectDone, SelectNoMem
<1>2. CASE AllCalls \/ AllReturns \/ AllLeftDone
  BY <1>2 DEF AllCalls, AllReturns, AllLeftDone
<1>3. CASE CacheOpen \/ CacheNoPool \/ CacheAdd \/ CacheNoItem \/ CacheSort \/ CacheError
  BY <1>3 DEF CacheOpen, CacheNoPool, CacheAdd, CacheNoItem, CacheSort, CacheError
<1>4. CASE MergeDone \/ UnionRow \/ IntersectItem \/ ExceptItem
  BY <1>4 DEF MergeDone, UnionRow, IntersectItem, ExceptItem, MergeRow, MergeSkip
<1> QED BY <1>1, <1>2, <1>3, <1>4 DEF Next, Internal

\* A simple SELECT goes to its next result, or to its end, or stays.
LEMMA SelectStep ==
    ASSUME Sound, Next, ~Rewind, NEW n \in Nodes
    PROVE  \/ SelectRow /\ n = p
           \/ SelectDone /\ n = p /\ n \in ended'
           \/ pos'[n] = pos[n]
<1> USE DEF query, client
<1>0. pos \in [Nodes -> Nat]
  BY DEF Sound, TypeOK
<1>1. CASE SelectRow \/ SelectDone
  BY <1>0, <1>1 DEF SelectRow, SelectDone, Return
<1>2. CASE Step \/ SelectNoMem \/ StepReturns
  BY <1>2 DEF Step, SelectNoMem, StepReturns
<1>3. CASE AllCalls \/ AllReturns \/ AllLeftDone
  BY <1>3 DEF AllCalls, AllReturns, AllLeftDone
<1>4. CASE CacheOpen \/ CacheNoPool \/ CacheAdd \/ CacheNoItem \/ CacheSort \/ CacheError
  BY <1>4 DEF CacheOpen, CacheNoPool, CacheAdd, CacheNoItem, CacheSort, CacheError
<1>5. CASE MergeDone \/ UnionRow \/ IntersectItem \/ ExceptItem
  BY <1>5 DEF MergeDone, UnionRow, IntersectItem, ExceptItem, MergeRow, MergeSkip
<1> QED BY <1>1, <1>2, <1>3, <1>4, <1>5 DEF Next, Internal

\* A list is opened by CacheOpen, filled by CacheAdd, completed by CacheSort and
\* emptied by the merge.
LEMMA ItemsStep ==
    ASSUME Sound, Next, ~Rewind, NEW n \in Nodes, NEW s \in Sides
    PROVE  \/ cache'[n][s] = cache[n][s]
           \/ CacheOpen /\ n = p /\ Opening(s) /\ cache'[n][s].items = <<>> /\ ended' = ended
           \/ /\ CacheAdd /\ n = Caller /\ s = Side
              /\ cache'[n][s].items = Append(cache[n][s].items, Doc(p))
           \/ /\ CacheSort /\ n = Caller /\ s = Side
              /\ cache'[n][s].items = Ascending(ToSet(cache[n][s].items))
           \/ (UnionRow \/ IntersectItem \/ ExceptItem) /\ n = p
<1> USE DEF query, client
<1>0. TypeOK /\ Path
  BY DEF Sound
<1>1. CASE Step \/ StepReturns \/ SelectRow \/ SelectDone \/ SelectNoMem
  BY <1>1 DEF Step, StepReturns, SelectRow, SelectDone, SelectNoMem
<1>2. CASE AllCalls \/ AllReturns \/ AllLeftDone
  BY <1>2 DEF AllCalls, AllReturns, AllLeftDone
<1>3. CASE CacheNoPool \/ CacheNoItem \/ CacheError \/ MergeDone
  BY <1>3 DEF CacheNoPool, CacheNoItem, CacheError, MergeDone
<1>4. CASE CacheOpen
  <2>1. PICK r \in Sides : Opening(r) /\ cache' = [cache EXCEPT ![p][r] = OpenList] /\ ended' = ended
    BY <1>4 DEF CacheOpen
  <2>2. p \in Nodes
    BY <1>0, <2>1, AtWork DEF Opening
  <2>3. OpenList \in Lists /\ OpenList.items = <<>>
    BY DEF OpenList, Lists
  <2>4. /\ cache'[p][r] = OpenList
        /\ \A m \in Nodes, q \in Sides : ~(m = p /\ q = r) => cache'[m][q] = cache[m][q]
    BY <1>0, <2>1, <2>2, <2>3, CacheSet
  <2>5. CASE n = p /\ s = r
    BY <1>4, <2>1, <2>3, <2>4, <2>5
  <2>6. CASE ~(n = p /\ s = r)
    BY <2>4, <2>6
  <2> QED BY <2>5, <2>6
<1>5. CASE CacheAdd
  <2>1. /\ pc = "return" /\ rc = "ROW" /\ p # Root
        /\ cache' = [cache EXCEPT ![Caller][Side].items = Append(@, Doc(p))]
    BY <1>5 DEF CacheAdd, OperandOfSetOp
  <2>2. Caller \in Nodes /\ Side \in Sides /\ Doc(p) \in Docs
    BY <1>0, <2>1, Callers, DocTyped DEF Sound
  <2>3. cache[Caller][Side].items \in Seq(Docs)
    BY <1>0, <2>2 DEF TypeOK, Lists
  <2>4. Append(cache[Caller][Side].items, Doc(p)) \in Seq(Docs)
    BY <2>2, <2>3
  <2>5. /\ cache'[Caller][Side].items = Append(cache[Caller][Side].items, Doc(p))
        /\ \A m \in Nodes, r \in Sides : ~(m = Caller /\ r = Side) => cache'[m][r] = cache[m][r]
    BY <1>0, <2>1, <2>2, <2>4, ItemsSet
  <2>6. CASE n = Caller /\ s = Side
    BY <1>5, <2>5, <2>6
  <2>7. CASE ~(n = Caller /\ s = Side)
    BY <2>5, <2>7
  <2> QED BY <2>6, <2>7
<1>6. CASE CacheSort
  <2>1. /\ pc = "return" /\ p # Root
        /\ cache' = [cache EXCEPT ![Caller][Side].items = Ascending(ToSet(@))]
    BY <1>6 DEF CacheSort, OperandOfSetOp
  <2>2. Caller \in Nodes /\ Side \in Sides
    BY <1>0, <2>1, Callers
  <2>3. cache[Caller][Side].items \in Seq(Docs)
    BY <1>0, <2>2 DEF TypeOK, Lists
  <2>4. Ascending(ToSet(cache[Caller][Side].items)) \in Seq(Docs)
    BY <2>3, FiniteToSet, AscendingIsSeq DEF Docs
  <2>5. /\ cache'[Caller][Side].items = Ascending(ToSet(cache[Caller][Side].items))
        /\ \A m \in Nodes, r \in Sides : ~(m = Caller /\ r = Side) => cache'[m][r] = cache[m][r]
    BY <1>0, <2>1, <2>2, <2>4, ItemsSet
  <2>6. CASE n = Caller /\ s = Side
    BY <1>6, <2>5, <2>6
  <2>7. CASE ~(n = Caller /\ s = Side)
    BY <2>5, <2>7
  <2> QED BY <2>6, <2>7
<1>7. CASE UnionRow \/ IntersectItem \/ ExceptItem
  <2>1. PICK S \in SUBSET Sides : Turn(S)
    BY <1>7, Turns
  <2>2. \A m \in Nodes : m # p => cache'[m] = cache[m]
    BY <1>0, <2>1, TurnTyped, ListsPopped DEF Turn
  <2>3. CASE n = p
    BY <1>7, <2>3
  <2>4. CASE n # p
    BY <2>2, <2>4
  <2> QED BY <2>3, <2>4
<1> QED BY <1>1, <1>2, <1>3, <1>4, <1>5, <1>6, <1>7 DEF Next, Internal

\* A turn of the merge is one of a query whose lists are complete.
LEMMA TurnIsMerged ==
    ASSUME Sound, UnionRow \/ IntersectItem \/ ExceptItem \/ MergeDone
    PROVE  /\ p \in Nodes /\ tree[p].op \in SetOps /\ Merged(p) /\ pc # "idle" /\ pc # "return"
<1>1. Merging
  BY DEF UnionRow, IntersectItem, ExceptItem, MergeDone
<1>2. /\ p \in Nodes /\ tree[p].op \in SetOps
      /\ tree[p].left \in ended /\ tree[p].right \in ended
      /\ pc # "idle" /\ pc # "return"
  BY <1>1, MergingIsMerged
<1> QED BY <1>2 DEF Merged, Sides

\* While the lists of query n are merged nothing but a turn of the merge changes
\* them.
LEMMA MergedItems ==
    ASSUME Sound, Next, ~Rewind, NEW n \in Nodes, Merged(n)
    PROVE  \/ \A s \in Sides : cache'[n][s] = cache[n][s]
           \/ (UnionRow \/ IntersectItem \/ ExceptItem) /\ n = p
<1> USE DEF query, client
<1>1. /\ tree[n].op \in SetOps /\ \A s \in Sides : tree[n][s] \in ended
      /\ "left" \in Sides /\ "right" \in Sides
  BY DEF Merged, Sides
<1>2. ASSUME NEW s \in Sides, CacheOpen, n = p, Opening(s)
      PROVE  FALSE
  BY <1>1, <1>2, CalledOperands DEF Untouched
<1>3. ASSUME CacheAdd, n = Caller
      PROVE  FALSE
  <2>1. pc = "return" /\ rc = "ROW" /\ p # Root
    BY <1>3 DEF CacheAdd, OperandOfSetOp
  <2>2. Side \in Sides /\ tree[n][Side] = p /\ p \notin ended
    BY <1>3, <2>1, Callers, NotEnded DEF Sound
  <2> QED BY <1>1, <2>2
<1>4. ASSUME CacheSort, n = Caller
      PROVE  FALSE
  <2>1. OperandOfSetOp /\ rc = "DONE" /\ pc = "return" /\ p # Root /\ ~Broken
    BY <1>4 DEF CacheSort, OperandOfSetOp, Broken
  <2>2. Side \in Sides
    BY <2>1, Callers DEF Sound
  <2>3. CASE Side = "right"
    <3>1. p = tree[n].right
      BY <1>4, <2>1, <2>3, ListComplete
    <3> QED BY <2>1, <3>1 DEF Merged
  <2>4. CASE Side = "left"
    <3>1. ~cache[n].right.open
      BY <1>4, <2>1, <2>4, ListComplete
    <3>2. Untouched(tree[n].right)
      BY <1>1, <2>1, <3>1 DEF Sound, Operands, ListOperands
    <3> QED BY <1>1, <3>2 DEF Untouched
  <2> QED BY <2>2, <2>3, <2>4 DEF Sides
<1> QED BY <1>2, <1>3, <1>4, ItemsStep

\* The lists of query n are merged when the right one is sorted.
LEMMA NewMerged ==
    ASSUME Sound, Next, ~Rewind, NEW n \in Nodes, Merged(n)', ~Merged(n)
    PROVE  CacheSort /\ n = Caller /\ Side = "right"
<1> USE DEF query, client
<1>0. TypeOK /\ Path /\ tree' = tree /\ Path' /\ TypeOK'
  BY TypeStep, ControlStep DEF Sound, vars
<1>1. /\ tree[n].op \in SetOps /\ tree[n].op # "SELECT" /\ \A s \in Sides : tree[n][s] \in ended'
      /\ pc' = "return" => p' # tree[n].right
      /\ "left" \in Sides /\ "right" \in Sides
  BY <1>0 DEF Merged, Sides, SetOps
<1>2. /\ ended \subseteq ended'
      /\ \A m \in ended' : m \notin ended => Returning(m)'
  BY EndedStep
<1>3. tree[n].right \in ended
  BY <1>1, <1>2 DEF Returning
<1>4. tree[n].left \in ended
  <2> SUFFICES ASSUME tree[n].left \notin ended PROVE FALSE
    OBVIOUS
  <2>1. pc' = "return" /\ p' \in ended'
    BY <1>1, <1>2 DEF Returning
  <2>2. stack' \in Seq(Nodes') /\ stack' # <<>>
    BY <1>0, <2>1 DEF TypeOK
  <2>3. rc' = "DONE"
    BY <1>0, <2>1, <2>2 DEF Path, EndedOnPath, p, Last
  <2>4. ~Broken
    BY <2>1, <2>3, BrokenStays DEF Broken
  <2>5. ListOperands(n)
    BY <1>1, <2>4 DEF Sound, Operands
  <2> QED BY <1>1, <1>3, <2>5 DEF ListOperands, Untouched
<1>5. pc = "return" /\ p = tree[n].right
  BY <1>1, <1>3, <1>4 DEF Merged, Sides
<1>6. rc = "DONE" /\ ~Broken
  BY <1>0, <1>3, <1>5, NotEnded DEF Broken
<1>7. p # Root
  <2>1. tree[n].right < n /\ tree[n].right \in Nat /\ n \in Nat /\ n <= Root /\ Root \in Nat
    BY <1>0, <1>1, NodeFacts
  <2> QED BY <1>5, <2>1
<1>8. n = Caller /\ Side = "right"
  BY <1>0, <1>1, <1>5, <1>7, Callers
<1>9. CacheSort
  BY <1>1, <1>5, <1>6, <1>7, <1>8, Returned DEF CacheAdd, CacheNoItem, CacheError
<1> QED BY <1>8, <1>9

-----------------------------------------------------------------------------
(* The merge *)

\* The lists hold documents.
LEMMA ItemsTyped ==
    ASSUME TypeOK, NEW n \in Nodes, NEW s \in Sides
    PROVE  cache[n][s] \in Lists /\ cache[n][s].items \in Seq(Int)
BY DEF TypeOK, Lists, Docs

\* A turn of the merge takes nothing out of what the lists combine to but the
\* result that it returns, which comes first.
LEMMA MergeTurn ==
    ASSUME Sound, UnionRow \/ IntersectItem \/ ExceptItem,
           \A s \in Sides : Increasing(cache[p][s].items)
    PROVE  /\ \A s \in Sides : Increasing(cache'[p][s].items)
           /\ \/ /\ pc' = "merge"
                 /\ Left(p) = Combine(tree[p].op, cache'[p].left.items, cache'[p].right.items)
              \/ /\ pc' = "return"
                 /\ Left(p) = <<pOut'[p]>> \o
                        Combine(tree[p].op, cache'[p].left.items, cache'[p].right.items)
<1>0. TypeOK /\ p \in Nodes /\ "left" \in Sides /\ "right" \in Sides
  BY TurnIsMerged DEF Sound, Sides
<1> DEFINE l == cache[p].left.items
           r == cache[p].right.items
           ll == cache'[p].left.items
           rr == cache'[p].right.items
           New(op) == Combine(op, ll, rr)
           Result1 == /\ Increasing(ll) /\ Increasing(rr)
                      /\ \/ pc' = "merge" /\ Left(p) = New(tree[p].op)
                         \/ pc' = "return" /\ Left(p) = <<pOut'[p]>> \o New(tree[p].op)
<1>1. /\ l \in Seq(Int) /\ Increasing(l) /\ r \in Seq(Int) /\ Increasing(r)
      /\ l = Items("left") /\ r = Items("right")
  BY <1>0, ItemsTyped DEF Items
<1>2. ASSUME NEW S \in SUBSET Sides, \A t \in S : Has(t), PopLists(S)
      PROVE  /\ ll = IF "left" \in S THEN Tail(l) ELSE l
             /\ rr = IF "right" \in S THEN Tail(r) ELSE r
             /\ Increasing(ll) /\ Increasing(rr)
  <2>1. /\ ll = IF "left" \in S THEN Tail(l) ELSE l
        /\ rr = IF "right" \in S THEN Tail(r) ELSE r
    BY <1>0, <1>1, <1>2, ListsPopped
  <2>2. l # <<>> => Increasing(Tail(l))
    BY <1>1, TailAscends
  <2>3. r # <<>> => Increasing(Tail(r))
    BY <1>1, TailAscends
  <2>4. ("left" \in S => l # <<>>) /\ ("right" \in S => r # <<>>)
    BY <1>1, <1>2 DEF Has
  <2> HIDE DEF l, r, ll, rr
  <2> QED BY <1>1, <2>1, <2>2, <2>3, <2>4
<1>3. pOut \in [Nodes -> Docs \cup {NoDoc}]
  BY <1>0 DEF TypeOK
<1>4. ASSUME NEW s \in Sides, NEW S, MergeRow(s, S)
      PROVE  PopLists(S) /\ pOut'[p] = Head(Items(s)) /\ pc' = "return"
  BY <1>0, <1>3, <1>4 DEF MergeRow, Return
<1>5. ASSUME NEW S, MergeSkip(S)
      PROVE  PopLists(S) /\ pc' = "merge"
  BY <1>5 DEF MergeSkip
<1>6. /\ LeftFirst <=> l # <<>> /\ (r # <<>> => Head(l) < Head(r))
      /\ RightFirst <=> r # <<>> /\ (l # <<>> => Head(r) < Head(l))
      /\ Equal <=> l # <<>> /\ r # <<>> /\ Head(l) = Head(r)
      /\ Has("left") <=> l # <<>>
      /\ Has("right") <=> r # <<>>
  BY <1>1 DEF LeftFirst, RightFirst, Equal, Has
<1>7. {"left"} \in SUBSET Sides /\ {"right"} \in SUBSET Sides /\ Sides \in SUBSET Sides /\ "left" # "right"
  BY <1>0
<1>8. Left(p) = Combine(tree[p].op, l, r)
  BY DEF Left
<1> HIDE DEF l, r, ll, rr
<1>9. ASSUME PopLists({"left"}), Has("left")
      PROVE  ll = Tail(l) /\ rr = r /\ Increasing(ll) /\ Increasing(rr)
  BY <1>2, <1>7, <1>9
<1>10. ASSUME PopLists({"right"}), Has("right")
       PROVE  ll = l /\ rr = Tail(r) /\ Increasing(ll) /\ Increasing(rr)
  BY <1>2, <1>7, <1>10
<1>11. ASSUME PopLists(Sides), Has("left"), Has("right")
       PROVE  ll = Tail(l) /\ rr = Tail(r) /\ Increasing(ll) /\ Increasing(rr)
  <2>1. \A t \in Sides : Has(t)
    BY <1>11 DEF Sides
  <2> QED BY <1>0, <1>2, <1>7, <1>11, <2>1
<1>12. CASE UnionRow
  <2>0. tree[p].op = "UNION"
    BY <1>12 DEF UnionRow
  <2>1. ASSUME LeftFirst, MergeRow("left", {"left"}) PROVE Result1
    <3>1. /\ Combine("UNION", l, r) = <<Head(l)>> \o Combine("UNION", Tail(l), r)
          /\ Has("left")
      BY <1>1, <1>6, <2>0, <2>1, UnionTurn
    <3>2. PopLists({"left"}) /\ pOut'[p] = Head(l) /\ pc' = "return"
      BY <1>0, <1>1, <1>4, <2>1
    <3>3. ll = Tail(l) /\ rr = r /\ Increasing(ll) /\ Increasing(rr)
      BY <1>9, <3>1, <3>2
    <3> QED BY <1>8, <2>0, <3>1, <3>2, <3>3
  <2>2. ASSUME RightFirst, MergeRow("right", {"right"}) PROVE Result1
    <3>1. /\ Combine("UNION", l, r) = <<Head(r)>> \o Combine("UNION", l, Tail(r))
          /\ Has("right")
      BY <1>1, <1>6, <2>0, <2>2, UnionTurn
    <3>2. PopLists({"right"}) /\ pOut'[p] = Head(r) /\ pc' = "return"
      BY <1>0, <1>1, <1>4, <2>2
    <3>3. ll = l /\ rr = Tail(r) /\ Increasing(ll) /\ Increasing(rr)
      BY <1>10, <3>1, <3>2
    <3> QED BY <1>8, <2>0, <3>1, <3>2, <3>3
  <2>3. ASSUME Equal, MergeRow("right", Sides) PROVE Result1
    <3>1. /\ Combine("UNION", l, r) = <<Head(r)>> \o Combine("UNION", Tail(l), Tail(r))
          /\ Has("left") /\ Has("right")
      BY <1>1, <1>6, <2>0, <2>3, UnionTurn
    <3>2. PopLists(Sides) /\ pOut'[p] = Head(r) /\ pc' = "return"
      BY <1>0, <1>1, <1>4, <2>3
    <3>3. ll = Tail(l) /\ rr = Tail(r) /\ Increasing(ll) /\ Increasing(rr)
      BY <1>11, <3>1, <3>2
    <3> QED BY <1>8, <2>0, <3>1, <3>2, <3>3
  <2>4. Result1
    BY <1>12, <2>1, <2>2, <2>3 DEF UnionRow
  <2> QED BY <2>4 DEF Sides, ll, rr
<1>13. CASE IntersectItem
  <2>0. tree[p].op = "INTERSECT" /\ l # <<>> /\ r # <<>>
    BY <1>6, <1>13 DEF IntersectItem
  <2>1. ASSUME LeftFirst, MergeSkip({"left"}) PROVE Result1
    <3>1. Combine("INTERSECT", l, r) = Combine("INTERSECT", Tail(l), r) /\ Has("left")
      BY <1>1, <1>6, <2>0, <2>1, IntersectTurn
    <3>2. PopLists({"left"}) /\ pc' = "merge"
      BY <1>5, <2>1
    <3>3. ll = Tail(l) /\ rr = r /\ Increasing(ll) /\ Increasing(rr)
      BY <1>9, <3>1, <3>2
    <3> QED BY <1>8, <2>0, <3>1, <3>2, <3>3
  <2>2. ASSUME RightFirst, MergeSkip({"right"}) PROVE Result1
    <3>1. Combine("INTERSECT", l, r) = Combine("INTERSECT", l, Tail(r)) /\ Has("right")
      BY <1>1, <1>6, <2>0, <2>2, IntersectTurn
    <3>2. PopLists({"right"}) /\ pc' = "merge"
      BY <1>5, <2>2
    <3>3. ll = l /\ rr = Tail(r) /\ Increasing(ll) /\ Increasing(rr)
      BY <1>10, <3>1, <3>2
    <3> QED BY <1>8, <2>0, <3>1, <3>2, <3>3
  <2>3. ASSUME Equal, MergeRow("left", Sides) PROVE Result1
    <3>1. /\ Combine("INTERSECT", l, r) = <<Head(l)>> \o Combine("INTERSECT", Tail(l), Tail(r))
          /\ Has("left") /\ Has("right")
      BY <1>1, <1>6, <2>0, <2>3, IntersectTurn
    <3>2. PopLists(Sides) /\ pOut'[p] = Head(l) /\ pc' = "return"
      BY <1>0, <1>1, <1>4, <2>3
    <3>3. ll = Tail(l) /\ rr = Tail(r) /\ Increasing(ll) /\ Increasing(rr)
      BY <1>11, <3>1, <3>2
    <3> QED BY <1>8, <2>0, <3>1, <3>2, <3>3
  <2>4. Result1
    BY <1>13, <2>1, <2>2, <2>3 DEF IntersectItem
  <2> QED BY <2>4 DEF Sides, ll, rr
<1>14. CASE ExceptItem
  <2>0. tree[p].op = "EXCEPT" /\ l # <<>>
    BY <1>6, <1>14 DEF ExceptItem
  <2>1. ASSUME LeftFirst, MergeRow("left", {"left"}) PROVE Result1
    <3>1. /\ Combine("EXCEPT", l, r) = <<Head(l)>> \o Combine("EXCEPT", Tail(l), r)
          /\ Has("left")
      BY <1>1, <1>6, <2>0, <2>1, ExceptTurn
    <3>2. PopLists({"left"}) /\ pOut'[p] = Head(l) /\ pc' = "return"
      BY <1>0, <1>1, <1>4, <2>1
    <3>3. ll = Tail(l) /\ rr = r /\ Increasing(ll) /\ Increasing(rr)
      BY <1>9, <3>1, <3>2
    <3> QED BY <1>8, <2>0, <3>1, <3>2, <3>3
  <2>2. ASSUME RightFirst, MergeSkip({"right"}) PROVE Result1
    <3>1. Combine("EXCEPT", l, r) = Combine("EXCEPT", l, Tail(r)) /\ Has("right")
      BY <1>1, <1>6, <2>0, <2>2, ExceptTurn
    <3>2. PopLists({"right"}) /\ pc' = "merge"
      BY <1>5, <2>2
    <3>3. ll = l /\ rr = Tail(r) /\ Increasing(ll) /\ Increasing(rr)
      BY <1>10, <3>1, <3>2
    <3> QED BY <1>8, <2>0, <3>1, <3>2, <3>3
  <2>3. ASSUME Equal, MergeSkip({"left"}) PROVE Result1
    <3>1. Combine("EXCEPT", l, r) = Combine("EXCEPT", Tail(l), r) /\ Has("left")
      BY <1>1, <1>6, <2>0, <2>3, ExceptTurn
    <3>2. PopLists({"left"}) /\ pc' = "merge"
      BY <1>5, <2>3
    <3>3. ll = Tail(l) /\ rr = r /\ Increasing(ll) /\ Increasing(rr)
      BY <1>9, <3>1, <3>2
    <3> QED BY <1>8, <2>0, <3>1, <3>2, <3>3
  <2>4. Result1
    BY <1>14, <2>1, <2>2, <2>3 DEF ExceptItem
  <2> QED BY <2>4 DEF Sides, ll, rr
<1> QED BY <1>12, <1>13, <1>14

\* When there is nothing left of the lists that could be returned the merge ends.
LEMMA MergeEnds ==
    ASSUME Sound, MergeDone, \A s \in Sides : Increasing(cache[p][s].items)
    PROVE  Left(p) = <<>>
<1>0. TypeOK /\ p \in Nodes /\ "left" \in Sides /\ "right" \in Sides /\ tree[p].op \in SetOps
  BY TurnIsMerged DEF Sound, Sides
<1> DEFINE l == cache[p].left.items
           r == cache[p].right.items
<1>1. /\ l \in Seq(Int) /\ Increasing(l) /\ r \in Seq(Int) /\ Increasing(r)
      /\ Has("left") <=> l # <<>>
      /\ Has("right") <=> r # <<>>
  BY <1>0, ItemsTyped DEF Items, Has
<1>2. Left(p) = Combine(tree[p].op, l, r)
  BY DEF Left
<1> HIDE DEF l, r
<1>3. CASE tree[p].op = "UNION"
  BY <1>1, <1>2, <1>3, UnionTurn DEF MergeDone
<1>4. CASE tree[p].op = "INTERSECT"
  BY <1>1, <1>2, <1>4, IntersectTurn DEF MergeDone
<1>5. CASE tree[p].op = "EXCEPT"
  BY <1>1, <1>2, <1>5, ExceptTurn DEF MergeDone
<1> QED BY <1>0, <1>3, <1>4, <1>5 DEF SetOps

-----------------------------------------------------------------------------
(* What is still to be sent *)

\* The first of the rest is the next result.
LEMMA RestOfRow ==
    ASSUME NEW s \in Seq(Int), NEW k \in Nat, NEW d \in Seq(Int), NEW x,
           IsRest(<<x>> \o d, s, k)
    PROVE  k < Len(s) /\ s[k + 1] = x /\ IsRest(d, s, k + 1)
<1> DEFINE c == <<x>> \o d
<1>1. /\ Len(c) = Len(d) + 1 /\ Len(d) \in Nat /\ Len(s) \in Nat /\ c[1] = x
      /\ DOMAIN d = 1..Len(d) /\ DOMAIN c = 1..(Len(d) + 1)
      /\ \A i \in 1..Len(d) : c[i + 1] = d[i]
  OBVIOUS
<1>2. Len(c) = Len(s) - k /\ \A i \in DOMAIN c : c[i] = s[k + i]
  BY DEF IsRest
<1> HIDE DEF c
<1>3. 1 \in DOMAIN c /\ k < Len(s)
  BY <1>1, <1>2
<1>4. \A i \in 1..Len(d) : d[i] = s[(k + 1) + i]
  <2> SUFFICES ASSUME NEW i \in 1..Len(d) PROVE d[i] = s[(k + 1) + i]
    OBVIOUS
  <2>1. i + 1 \in DOMAIN c /\ k + (i + 1) = (k + 1) + i
    BY <1>1
  <2> QED BY <1>1, <1>2, <2>1
<1>5. Len(d) = Len(s) - (k + 1)
  <2>1. \A a, b, e \in Nat : a + 1 = b - e => a = b - (e + 1)
    OBVIOUS
  <2>2. Len(d) \in Nat /\ Len(s) \in Nat /\ Len(d) + 1 = Len(s) - k
    BY <1>1, <1>2
  <2> QED BY <2>1, <2>2
<1> QED BY <1>1, <1>2, <1>3, <1>4, <1>5 DEF IsRest

\* The rest of a sequence is a suffix of it.
LEMMA RestIsSuffix ==
    ASSUME NEW s \in Seq(Int), NEW c \in Seq(Int), NEW k \in Nat, IsRest(c, s, k)
    PROVE  IsSuffix(c, s)
<1> DEFINE cc == Reverse(c)
           ss == Reverse(s)
<1>1. Len(c) \in Nat /\ Len(s) \in Nat /\ Len(c) = Len(s) - k /\ DOMAIN c = 1..Len(c)
  BY DEF IsRest
<1>2. \A i \in 1..Len(c) : cc[i] = ss[i]
  <2> SUFFICES ASSUME NEW i \in 1..Len(c) PROVE cc[i] = ss[i]
    OBVIOUS
  <2>1. (Len(c) - i) + 1 \in 1..Len(c) /\ i \in 1..Len(s)
    BY <1>1
  <2>2. k + ((Len(c) - i) + 1) = (Len(s) - i) + 1
    BY <1>1
  <2>4. PICK j \in 1..Len(c) : j = (Len(c) - i) + 1
    BY <2>1
  <2>5. c[j] = s[k + j]
    BY <1>1 DEF IsRest
  <2>3. c[(Len(c) - i) + 1] = s[(Len(s) - i) + 1]
    BY <2>2, <2>4, <2>5
  <2> QED BY <2>1, <2>3 DEF Reverse
<1>3. cc \in Seq(Int) /\ Len(cc) = Len(c) /\ ss \in Seq(Int) /\ Len(ss) = Len(s)
  <2>1. ASSUME NEW t \in Seq(Int) PROVE Reverse(t) \in Seq(Int) /\ Len(Reverse(t)) = Len(t)
    <3>1. Len(t) \in Nat /\ \A i \in 1..Len(t) : (Len(t) - i) + 1 \in 1..Len(t)
      OBVIOUS
    <3>2. Reverse(t) \in [1..Len(t) -> Int]
      BY <3>1 DEF Reverse
    <3>3. \A n \in Nat : \A f \in [1..n -> Int] : f \in Seq(Int) /\ Len(f) = n
      OBVIOUS
    <3> QED BY <3>1, <3>2, <3>3
  <2> QED BY <2>1
<1> HIDE DEF cc, ss
<1>4. Len(cc) <= Len(ss)
  BY <1>1, <1>3
<1>5. SubSeq(cc, 1, Len(cc)) = SubSeq(ss, 1, Len(cc))
  <2>1. \A i \in 1..Len(cc) : cc[i] = ss[i]
    BY <1>2, <1>3
  <2> QED BY <1>1, <1>3, <1>4, <2>1
<1>6. IsPrefix(cc, ss)
  BY <1>4, <1>5 DEF IsPrefix
<1> QED BY <1>6 DEF IsSuffix, cc, ss

\* One sequence and then another, by index.
LEMMA Joined ==
    ASSUME NEW a \in Seq(Docs), NEW b \in Seq(Docs)
    PROVE  /\ Len(a \o b) = Len(a) + Len(b)
           /\ \A i \in 1..Len(a) : (a \o b)[i] = a[i]
           /\ \A i \in 1..Len(b) : (a \o b)[Len(a) + i] = b[i]
<1>1. Len(a \o b) = Len(a) + Len(b) /\ Len(a) \in Nat /\ Len(b) \in Nat
  OBVIOUS
<1>2. \A i \in 1..Len(a) : (a \o b)[i] = a[i]
  OBVIOUS
<1>3. \A i \in 1..Len(b) : (a \o b)[Len(a) + i] = b[i]
  <2> SUFFICES ASSUME NEW i \in 1..Len(b) PROVE (a \o b)[Len(a) + i] = b[i]
    OBVIOUS
  <2>1. PICK j \in Int : j = Len(a) + i
    BY <1>1
  <2>2. j \in 1..(Len(a) + Len(b)) /\ ~(j <= Len(a)) /\ j - Len(a) = i
    BY <1>1, <2>1
  <2>3. (a \o b)[j] = b[j - Len(a)]
    BY <1>1, <2>2
  <2> QED BY <2>1, <2>2, <2>3
<1> QED BY <1>1, <1>2, <1>3

\* A result of an operand of UNION ALL is the next one of the query.
LEMMA AllRow ==
    ASSUME Sound, meaning = Meaning(tree), NEW sent \in [Nodes -> Nat], Data(sent),
           AllReturns, rc # "NOMEM"
    PROVE  /\ Caller \in Nodes
           /\ rc = "ROW" => /\ sent[Caller] < Len(meaning[Caller])
                            /\ Doc(p) = meaning[Caller][sent[Caller] + 1]
           /\ rc = "DONE" => sent[Caller] = Len(meaning[Caller])
<1>0. TypeOK /\ Path
  BY DEF Sound
<1>1. pc = "return" /\ p # Root /\ tree[Caller].op = "ALL" /\ ~(Side = "left" /\ rc = "DONE")
      /\ ~Broken
  BY DEF AllReturns, OperandOfAll, Broken
<1>2. /\ Caller \in Nodes /\ Called(Caller, p) /\ tree[Caller][Side] = p /\ Side \in Sides
      /\ p \in Nodes
      /\ \A n \in Nodes, s \in Sides : tree[n][s] = p => n = Caller /\ s = Side
  BY <1>0, <1>1, Callers, AtWork
<1>3. PICK n \in Nodes : n = Caller
  BY <1>2
<1>4. tree[n].op # "SELECT" /\ "left" \in Sides /\ "right" \in Sides
  BY <1>1, <1>3 DEF Sides
<1> DEFINE l == tree[n].left
           r == tree[n].right
<1>5. l \in Nodes /\ r \in Nodes /\ l # r
  BY <1>0, <1>4, NodeFacts
<1>6. p = IF doneLeft[n] THEN r ELSE l
  BY <1>1, <1>2, <1>3 DEF Called, SetOps
<1>7. sent[n] = IF doneLeft[n] THEN Len(meaning[l]) + Taken(sent, r) ELSE Taken(sent, l)
  BY <1>1, <1>3 DEF Data, OperandData, AllData
<1>8. /\ meaning[n] = meaning[l] \o meaning[r]
      /\ meaning[l] \in Seq(Docs) /\ meaning[r] \in Seq(Docs)
      /\ Len(meaning[l]) \in Nat /\ Len(meaning[r]) \in Nat
  BY <1>0, <1>1, <1>3, <1>4, <1>5, MeaningIs DEF Combine
<1>9. /\ Len(meaning[n]) = Len(meaning[l]) + Len(meaning[r])
      /\ \A i \in 1..Len(meaning[l]) : meaning[n][i] = meaning[l][i]
      /\ \A i \in 1..Len(meaning[r]) : meaning[n][Len(meaning[l]) + i] = meaning[r][i]
  <2>1. PICK a \in Seq(Docs), b \in Seq(Docs) : a = meaning[l] /\ b = meaning[r]
    BY <1>8
  <2>2. meaning[n] = a \o b
    BY <1>8, <2>1
  <2> HIDE DEF l, r
  <2>3. /\ Len(a \o b) = Len(a) + Len(b)
        /\ \A i \in 1..Len(a) : (a \o b)[i] = a[i]
        /\ \A i \in 1..Len(b) : (a \o b)[Len(a) + i] = b[i]
    BY Joined
  <2>4. /\ \A i \in 1..Len(a) : meaning[n][i] = a[i]
        /\ \A i \in 1..Len(b) : meaning[n][Len(a) + i] = b[i]
    BY <2>2, <2>3
  <2> QED BY <2>1, <2>2, <2>3, <2>4
<1>10. ASSUME rc = "ROW"
       PROVE  sent[n] < Len(meaning[n]) /\ Doc(p) = meaning[n][sent[n] + 1]
  <2>1. Taken(sent, p) = sent[p] - 1 /\ sent[p] \in Nat /\ sent[p] > 0
        /\ sent[p] <= Len(meaning[p]) /\ Doc(p) = meaning[p][sent[p]]
    BY <1>1, <1>2, <1>10 DEF Taken, InFlight, Data, RowData, Counted
  <2>2. sent[p] \in 1..Len(meaning[p])
    BY <1>2, <2>1, <1>0, MeaningIs
  <2>7. /\ Len(meaning[n]) = Len(meaning[l]) + Len(meaning[r])
        /\ Len(meaning[l]) \in Nat /\ Len(meaning[r]) \in Nat
    BY <1>8, <1>9
  <2>8. sent[p] \in Nat /\ sent[p] > 0 /\ sent[p] <= Len(meaning[p])
    BY <2>1
  <2>5. p = l => meaning[n][sent[p]] = meaning[l][sent[p]]
    BY <1>9, <2>2
  <2>6. p = r => meaning[n][Len(meaning[l]) + sent[p]] = meaning[r][sent[p]]
    BY <1>9, <2>2
  <2> HIDE DEF l, r
  <2>3. CASE doneLeft[n]
    <3>1. p = r /\ sent[n] = Len(meaning[l]) + (sent[p] - 1)
      BY <1>6, <1>7, <2>1, <2>3
    <3>2. sent[n] + 1 = Len(meaning[l]) + sent[p]
      <4>1. \A x, y \in Nat : (x + (y - 1)) + 1 = x + y
        OBVIOUS
      <4> QED BY <2>7, <2>8, <3>1, <4>1
    <3>3. meaning[n][sent[n] + 1] = meaning[p][sent[p]]
      BY <2>5, <2>6, <3>1, <3>2
    <3>4. sent[n] < Len(meaning[n])
      <4>1. PICK a \in Nat, b \in Nat, k \in Nat :
                a = Len(meaning[l]) /\ b = Len(meaning[r]) /\ k = sent[p]
        BY <2>7, <2>8
      <4>2. Len(meaning[n]) = a + b /\ k > 0 /\ k <= Len(meaning[p])
        BY <2>7, <2>8, <4>1
      <4>3. sent[n] = a + (k - 1) /\ k <= b
        BY <3>1, <4>1, <4>2
      <4>4. \A x, y, z \in Nat : z > 0 /\ z <= y => x + (z - 1) < x + y
        OBVIOUS
      <4> QED BY <4>1, <4>2, <4>3, <4>4
    <3> QED BY <2>1, <3>3, <3>4
  <2>4. CASE ~doneLeft[n]
    <3>1. p = l /\ sent[n] = sent[p] - 1
      BY <1>6, <1>7, <2>1, <2>4
    <3>2. sent[n] + 1 = sent[p]
      BY <2>1, <3>1
    <3>3. meaning[n][sent[n] + 1] = meaning[p][sent[p]]
      BY <2>5, <2>6, <3>1, <3>2
    <3>4. sent[n] < Len(meaning[n])
      <4>1. PICK a \in Nat, b \in Nat, k \in Nat :
                a = Len(meaning[l]) /\ b = Len(meaning[r]) /\ k = sent[p]
        BY <2>7, <2>8
      <4>2. Len(meaning[n]) = a + b /\ k > 0 /\ k <= Len(meaning[p])
        BY <2>7, <2>8, <4>1
      <4>3. sent[n] = k - 1 /\ k <= a
        BY <3>1, <4>1, <4>2
      <4>4. \A x, y, z \in Nat : z > 0 /\ z <= x => z - 1 < x + y
        OBVIOUS
      <4> QED BY <4>1, <4>2, <4>3, <4>4
    <3> QED BY <2>1, <3>3, <3>4
  <2> QED BY <2>3, <2>4
<1>11. ASSUME rc = "DONE"
       PROVE  sent[n] = Len(meaning[n])
  <2>1. p \in ended
    BY <1>0, <1>1, <1>11 DEF Path, EndedOnPath
  <2>2. Taken(sent, p) = Len(meaning[p])
    BY <1>2, <1>11, <2>1 DEF Taken, InFlight, Data, Counted
  <2>3. Side = "right"
    BY <1>1, <1>2, <1>11 DEF Sides
  <2>4. p = r
    BY <1>2, <1>3, <2>3
  <2> HIDE DEF l, r
  <2>5. doneLeft[n] /\ sent[n] = Len(meaning[l]) + Taken(sent, r)
    BY <1>5, <1>6, <1>7, <2>4
  <2>6. sent[n] = Len(meaning[l]) + Len(meaning[r])
    BY <2>2, <2>4, <2>5, Zenon
  <2> QED BY <1>9, <2>6, Zenon
<1> QED BY <1>2, <1>3, <1>10, <1>11

\* A call that returns has ended just when it returns DONE.
LEMMA EndsWithDone ==
    ASSUME Sound, Next, pc' = "return"
    PROVE  p' \in Nodes /\ (p' \in ended' <=> rc' = "DONE")
<1>1. TypeOK' /\ Path' /\ Nodes' = Nodes
  BY TypeStep, ControlStep DEF Sound, vars, query, Nodes
<1>2. stack' \in Seq(Nodes) /\ stack' # <<>>
  BY <1>1 DEF TypeOK
<1>3. Len(stack') \in DOMAIN stack' /\ p' = stack'[Len(stack')]
  BY <1>2 DEF p, Last
<1>4. p' \in Nodes
  BY <1>2, <1>3
<1>5. p' \in ended' => rc' = "DONE"
  BY <1>1, <1>3 DEF Path, EndedOnPath
<1>6. rc' = "DONE" => p' \in ended'
  BY <1>1 DEF Path, EndedOnPath
<1> QED BY <1>4, <1>5, <1>6

\* What the query at work of a merge has left to send.
LEMMA MergeRest ==
    ASSUME Sound, meaning = Meaning(tree), NEW sent \in [Nodes -> Nat], Data(sent),
           UnionRow \/ IntersectItem \/ ExceptItem
    PROVE  /\ \A s \in Sides : Increasing(cache'[p][s].items)
           /\ \/ /\ pc' = "merge"
                 /\ IsRest(Combine(tree[p].op, cache'[p].left.items, cache'[p].right.items),
                           meaning[p], sent[p])
              \/ /\ pc' = "return"
                 /\ sent[p] < Len(meaning[p]) /\ pOut'[p] = meaning[p][sent[p] + 1]
                 /\ IsRest(Combine(tree[p].op, cache'[p].left.items, cache'[p].right.items),
                           meaning[p], sent[p] + 1)
<1>1. p \in Nodes /\ Merged(p) /\ tree[p].op \in SetOps
  BY TurnIsMerged
<1>2. PICK x \in Nodes : x = p
  BY <1>1
<1>3. /\ \A s \in Sides : Increasing(cache[p][s].items)
      /\ IsRest(Left(p), meaning[p], sent[p])
  BY <1>1 DEF Data, MergeData
<1>4. PICK c : c = Combine(tree[p].op, cache'[p].left.items, cache'[p].right.items)
  OBVIOUS
<1>5. /\ \A s \in Sides : Increasing(cache'[p][s].items)
      /\ \/ pc' = "merge" /\ Left(p) = c
         \/ pc' = "return" /\ Left(p) = <<pOut'[p]>> \o c
  BY <1>3, <1>4, MergeTurn
<1>6. cache' \in [Nodes -> [Sides -> Lists]]
  <2>1. PICK S \in SUBSET Sides : Turn(S)
    BY Turns
  <2> QED BY <1>1, <2>1, TurnTyped, ListsPopped DEF Sound, Turn
<1>7. c \in Seq(Int)
  <2>1. cache'[p].left.items \in Seq(Int) /\ cache'[p].right.items \in Seq(Int)
    BY <1>1, <1>6 DEF Sides, Lists, Docs
  <2>2. tree[p].op \in Ops /\ tree[p].op # "SELECT"
    BY <1>1 DEF Ops, SetOps
  <2> QED BY <1>4, <2>1, <2>2, CombineTyped
<1>8. meaning[p] \in Seq(Int) /\ sent[p] \in Nat
  BY <1>1 DEF Sound, TypeOK, Docs
<1>9. CASE pc' = "merge" /\ Left(p) = c
  BY <1>3, <1>4, <1>5, <1>9
<1>10. CASE pc' = "return" /\ Left(p) = <<pOut'[p]>> \o c
  <2>1. IsRest(<<pOut'[p]>> \o c, meaning[p], sent[p])
    BY <1>3, <1>10
  <2>2. PICK m \in Seq(Int), k \in Nat, y \in {pOut'[p]} : m = meaning[p] /\ k = sent[p]
    BY <1>8
  <2>3. k < Len(m) /\ m[k + 1] = y /\ IsRest(c, m, k + 1)
    BY <1>7, <2>1, <2>2, RestOfRow
  <2> QED BY <1>4, <1>5, <1>10, <2>2, <2>3
<1> QED BY <1>5, <1>9, <1>10

\* A query that returns a row returns the next of its results.
LEMMA NextRow ==
    ASSUME Sound, meaning = Meaning(tree), NEW sent \in [Nodes -> Nat], Data(sent),
           Next, pc' = "return", rc' = "ROW"
    PROVE  \E x \in Nodes : /\ p' = x /\ x \notin ended'
                            /\ sent[x] < Len(meaning[x])
                            /\ Doc(x)' = meaning[x][sent[x] + 1]
<1>0. /\ TypeOK /\ Path /\ tree' = tree /\ p' \in Nodes /\ p' \notin ended' /\ ~Broken'
      /\ pos \in [Nodes -> Nat] /\ pOut \in [Nodes -> Docs \cup {NoDoc}]
  BY TypeStep, EndsWithDone DEF Sound, TypeOK, vars, query, Broken
<1>1. PICK x \in Nodes : x = p'
  BY <1>0
<1>2. Doc(x)' = IF tree[x].op = "SELECT" THEN tree[x].rows[pos'[x]] ELSE pOut'[x]
  BY <1>0 DEF Doc
<1>3. CASE SelectRow /\ p' = p
  <2>1. pc = "call" /\ tree[p].op = "SELECT" /\ pos[p] < Len(tree[p].rows)
        /\ pos' = [pos EXCEPT ![p] = @ + 1] /\ x = p /\ ~Broken
    BY <1>1, <1>3 DEF SelectRow, AtSelect, Broken
  <2>2. p \notin ended
    BY <1>0, <2>1, NotEnded
  <2>3. pos[p] = sent[p]
    BY <1>1, <2>1, <2>2 DEF Data, OperandData
  <2>4. meaning[p] = tree[p].rows
    BY <1>0, <1>1, <2>1, MeaningIs
  <2>5. pos'[p] = sent[p] + 1
    BY <1>0, <1>1, <2>1, <2>3
  <2> QED BY <1>0, <1>1, <1>2, <2>1, <2>3, <2>4, <2>5
<1>4. CASE AllReturns /\ rc' = rc /\ p' = Caller
  <2>1. /\ sent[Caller] < Len(meaning[Caller])
        /\ Doc(p) = meaning[Caller][sent[Caller] + 1]
    BY <1>4, AllRow
  <2>2. tree[Caller].op = "ALL" /\ pOut'[Caller] = Doc(p)
    BY <1>0, <1>1, <1>4 DEF AllReturns, OperandOfAll
  <2> QED BY <1>0, <1>1, <1>2, <1>4, <2>1, <2>2
<1>5. CASE (UnionRow \/ IntersectItem \/ ExceptItem) /\ p' = p
  <2>1. sent[p] < Len(meaning[p]) /\ pOut'[p] = meaning[p][sent[p] + 1]
    BY <1>5, MergeRest
  <2>2. tree[p].op # "SELECT"
    BY <1>5, TurnIsMerged DEF SetOps
  <2> QED BY <1>0, <1>1, <1>2, <1>5, <2>1, <2>2
<1> QED BY <1>0, <1>3, <1>4, <1>5, Returns

\* A query that returns DONE has sent all of its results.
LEMMA AllSent ==
    ASSUME Sound, meaning = Meaning(tree), NEW sent \in [Nodes -> Nat], Data(sent),
           Next, pc' = "return", rc' = "DONE"
    PROVE  p' \in Nodes /\ sent[p'] = Len(meaning[p'])
<1>0. TypeOK /\ Path /\ p' \in Nodes /\ ~Broken'
  BY EndsWithDone DEF Sound, Broken
<1>1. CASE SelectDone /\ p' = p
  <2>1. pc = "call" /\ tree[p].op = "SELECT" /\ pos[p] = Len(tree[p].rows) /\ ~Broken
    BY <1>1 DEF SelectDone, AtSelect, Broken
  <2>2. p \notin ended
    BY <1>0, <2>1, NotEnded
  <2>3. pos[p] = sent[p]
    BY <1>0, <1>1, <2>1, <2>2 DEF Data, OperandData
  <2>4. meaning[p] = tree[p].rows
    BY <1>0, <1>1, <2>1, MeaningIs
  <2> QED BY <1>0, <1>1, <2>1, <2>3, <2>4
<1>2. CASE AllReturns /\ rc' = rc /\ p' = Caller
  BY <1>0, <1>2, AllRow
<1>3. CASE MergeDone /\ p' = p
  <2>1. p \in Nodes /\ Merged(p)
    BY <1>3, TurnIsMerged
  <2>2. /\ \A s \in Sides : Increasing(cache[p][s].items)
        /\ IsRest(Left(p), meaning[p], sent[p])
    BY <2>1 DEF Data, MergeData
  <2>3. Left(p) = <<>>
    BY <1>3, <2>2, MergeEnds
  <2>4. Len(meaning[p]) \in Nat /\ sent[p] \in Nat
    BY <2>1 DEF Sound, TypeOK
  <2>5. sent[p] = Len(meaning[p])
    BY <2>2, <2>3, <2>4 DEF IsRest
  <2> QED BY <1>0, <1>3, <2>5
<1> QED BY <1>0, <1>1, <1>2, <1>3, Returns

-----------------------------------------------------------------------------
(* The invariant, step by step *)

\* A step but a rewind sends the row that it returns.
Sends(sent, more) ==
    /\ more \in [Nodes -> Nat]
    /\ \A n \in Nodes : more[n] = IF InFlight(n)' THEN sent[n] + 1 ELSE sent[n]

\* After a step the caller of a query has all that it had sent before.
LEMMA SendsTaken ==
    ASSUME NEW sent \in [Nodes -> Nat], NEW more, Sends(sent, more), NEW n \in Nodes
    PROVE  Taken(more, n)' = sent[n]
<1>1. sent[n] \in Nat
  OBVIOUS
<1>2. more[n] = IF InFlight(n)' THEN sent[n] + 1 ELSE sent[n]
  BY DEF Sends
<1> QED BY <1>1, <1>2 DEF Taken

\* No query sends more than it means, and one that ends has sent all.
LEMMA CountedStep ==
    ASSUME Sound, meaning = Meaning(tree), NEW sent \in [Nodes -> Nat], Data(sent),
           Next, ~Rewind, NEW more, Sends(sent, more)
    PROVE  Counted(more)'
<1>0. /\ TypeOK /\ Nodes' = Nodes /\ meaning' = meaning
  BY TypeStep DEF Sound, vars, query, Nodes
<1> SUFFICES ASSUME NEW n \in Nodes
             PROVE  /\ more[n] <= Len(meaning[n])
                    /\ n \in ended' => more[n] = Len(meaning[n])
  BY <1>0 DEF Counted
<1>1. /\ sent[n] \in Nat /\ Len(meaning[n]) \in Nat /\ sent[n] <= Len(meaning[n])
      /\ n \in ended => sent[n] = Len(meaning[n])
  BY <1>0, MeaningIs DEF Data, Counted
<1>2. more[n] = IF InFlight(n)' THEN sent[n] + 1 ELSE sent[n]
  BY DEF Sends
<1>3. CASE InFlight(n)'
  <2>1. n \notin ended' /\ sent[n] < Len(meaning[n])
    BY <1>3, NextRow DEF InFlight
  <2> QED BY <1>1, <1>2, <1>3, <2>1
<1>4. CASE ~InFlight(n)'
  <2>1. CASE n \in ended' /\ n \notin ended
    <3>1. pc' = "return" /\ p' = n
      BY <2>1, EndedStep DEF Returning
    <3>2. rc' = "DONE"
      BY <2>1, <3>1, EndsWithDone
    <3> QED BY <1>1, <1>2, <1>4, <3>1, <3>2, AllSent
  <2> QED BY <1>1, <1>2, <1>4, <2>1
<1> QED BY <1>3, <1>4

\* A row that is returned is the next result.
LEMMA RowDataStep ==
    ASSUME Sound, meaning = Meaning(tree), NEW sent \in [Nodes -> Nat], Data(sent),
           Next, ~Rewind, NEW more, Sends(sent, more)
    PROVE  RowData(more)'
<1> SUFFICES ASSUME pc' = "return", rc' = "ROW"
             PROVE  more[p'] > 0 /\ Doc(p)' = meaning'[p'][more[p']]
  BY DEF RowData
<1>0. meaning' = meaning /\ tree' = tree
  BY TypeStep DEF Sound, vars, query
<1>1. PICK x \in Nodes : p' = x /\ Doc(x)' = meaning[x][sent[x] + 1]
  BY NextRow
<1>2. more[x] = sent[x] + 1 /\ sent[x] \in Nat
  BY <1>1 DEF Sends, InFlight
<1>3. Doc(p)' = Doc(x)'
  BY <1>1 DEF Doc
<1> QED BY <1>0, <1>1, <1>2, <1>3

\* The client has what the statement has sent.
LEMMA ClientDataStep ==
    ASSUME Sound, meaning = Meaning(tree), NEW sent \in [Nodes -> Nat], Data(sent),
           Next, ~Rewind, NEW more, Sends(sent, more)
    PROVE  ClientData(more)'
<1>0. /\ TypeOK /\ Root' = Root /\ meaning' = meaning /\ Root \in Nodes /\ out \in Seq(Docs)
      /\ sent[Root] \in Nat
  BY TypeStep, NodeFacts DEF Sound, vars, query, Root, TypeOK
<1>1. Taken(more, Root)' = sent[Root]
  <2>1. PICK r \in Nodes : r = Root
    BY <1>0
  <2>2. Taken(more, r)' = sent[r]
    BY <2>1, SendsTaken
  <2> QED BY <1>0, <2>1, <2>2 DEF Taken, InFlight
<1>2. /\ Len(out) = Taken(sent, Root)
      /\ \A i \in DOMAIN out : out[i] = meaning[Root][i]
  BY DEF Data, ClientData
<1>3. CASE StepReturns
  <2>1. /\ pc = "return" /\ p = Root
        /\ out' = IF rc = "ROW" THEN Append(out, Doc(Root)) ELSE out
    BY <1>3 DEF StepReturns
  <2>2. CASE rc = "ROW"
    <3>1. Doc(Root) = meaning[Root][sent[Root]] /\ sent[Root] > 0 /\ Len(out) = sent[Root] - 1
      BY <1>2, <2>1, <2>2 DEF Data, RowData, Taken, InFlight
    <3>2. PICK d : d = Doc(Root)
      OBVIOUS
    <3>3. out' = Append(out, d)
      BY <2>1, <2>2, <3>2
    <3>4. Len(out') = Len(out) + 1 /\ DOMAIN out' = 1..(Len(out) + 1)
          /\ out'[Len(out) + 1] = d /\ \A i \in 1..Len(out) : out'[i] = out[i]
      BY <1>0, <3>3
    <3>5. Len(out) + 1 = sent[Root] /\ Len(out) \in Nat /\ DOMAIN out = 1..Len(out)
      BY <1>0, <3>1
    <3>6. Len(out') = sent[Root]
      BY <3>4, <3>5
    <3>7. \A i \in DOMAIN out' : i = Len(out) + 1 \/ i \in 1..Len(out)
      BY <3>4, <3>5
    <3>8. \A i \in DOMAIN out' : out'[i] = meaning[Root][i]
      BY <1>2, <3>1, <3>2, <3>4, <3>5, <3>7
    <3> QED BY <1>0, <1>1, <3>6, <3>8 DEF ClientData
  <2>3. CASE rc # "ROW"
    <3>1. Taken(sent, Root) = sent[Root]
      BY <2>3 DEF Taken, InFlight
    <3> QED BY <1>0, <1>1, <1>2, <2>1, <2>3, <3>1 DEF ClientData
  <2> QED BY <2>2, <2>3
<1>4. CASE ~StepReturns
  <2>1. out' = out
    BY <1>4, OutStep
  <2>2. ~InFlight(Root)
    <3> SUFFICES ASSUME InFlight(Root) PROVE FALSE
      OBVIOUS
    <3>1. pc = "return" /\ p = Root /\ rc = "ROW"
      BY DEF InFlight
    <3>2. ~Step /\ ~SelectRow /\ ~SelectDone /\ ~SelectNoMem /\ ~AllCalls
      BY <3>1 DEF Step, SelectRow, SelectDone, SelectNoMem, AtSelect, AllCalls
    <3>3. ~CacheOpen /\ ~CacheNoPool
      BY <3>1 DEF CacheOpen, CacheNoPool, Opening
    <3>4. ~MergeDone /\ ~UnionRow /\ ~IntersectItem /\ ~ExceptItem
      BY <3>1 DEF MergeDone, UnionRow, IntersectItem, ExceptItem, Merging
    <3>5. ~AllLeftDone /\ ~AllReturns /\ ~CacheAdd /\ ~CacheNoItem /\ ~CacheSort /\ ~CacheError
      BY <3>1 DEF AllLeftDone, AllReturns, OperandOfAll, CacheAdd, CacheNoItem, CacheSort,
                  CacheError, OperandOfSetOp
    <3> QED BY <1>4, <3>2, <3>3, <3>4, <3>5 DEF Next, Internal
  <2>3. Taken(sent, Root) = sent[Root]
    BY <2>2 DEF Taken
  <2> QED BY <1>0, <1>1, <1>2, <2>1, <2>3 DEF ClientData
<1> QED BY <1>3, <1>4

\* Sorting the lists, and dropping duplicates, changes nothing of what they
\* combine to.
LEMMA CombineSorted ==
    ASSUME NEW op \in SetOps, NEW l \in Seq(Int), NEW r \in Seq(Int)
    PROVE  Combine(op, Ascending(ToSet(l)), Ascending(ToSet(r))) = Combine(op, l, r)
<1>1. ToSet(Ascending(ToSet(l))) = ToSet(l) /\ ToSet(Ascending(ToSet(r))) = ToSet(r)
  BY FiniteToSet, AscendingIsSeq
<1> QED BY <1>1 DEF Combine, SetOps

\* An operand that has ended has given its caller all of its results.
LEMMA SentAll ==
    ASSUME TypeOK, NEW sent \in [Nodes -> Nat], Counted(sent), NEW m \in Nodes, m \in ended,
           ~InFlight(m)
    PROVE  SentOf(sent, m) = ToSet(meaning[m])
<1>1. Taken(sent, m) = Len(meaning[m]) /\ meaning[m] \in Seq(Docs)
  BY DEF Counted, Taken, TypeOK
<1>2. DOMAIN meaning[m] = 1..Len(meaning[m])
  BY <1>1
<1> QED BY <1>1, <1>2 DEF SentOf, ToSet

\* The right list of query n is complete: the merge has everything before it.
LEMMA MergeBegins ==
    ASSUME Sound, meaning = Meaning(tree), NEW sent \in [Nodes -> Nat], Data(sent),
           Next, NEW n \in Nodes, ~Merged(n), CacheSort, n = Caller, Side = "right"
    PROVE  /\ \A s \in Sides : Increasing(cache'[n][s].items)
           /\ Combine(tree[n].op, cache'[n].left.items, cache'[n].right.items) = meaning[n]
           /\ sent[n] = 0 /\ pc' # "return"
<1>0. TypeOK /\ Path /\ ~Rewind
  BY DEF Sound, Rewind, CacheSort, OperandOfSetOp
<1>1. /\ OperandOfSetOp /\ rc = "DONE" /\ pc = "return" /\ p # Root /\ tree[n].op \in SetOps
      /\ ~Broken /\ pc' = "merge"
  BY DEF CacheSort, OperandOfSetOp, Broken
<1>2. /\ "left" \in Sides /\ "right" \in Sides /\ tree[n].op # "SELECT"
  BY <1>1 DEF Sides, SetOps
<1> DEFINE l == tree[n].left
           r == tree[n].right
<1>3. /\ l \in Nodes /\ r \in Nodes /\ l # r
      /\ p = r /\ p \in ended /\ l \in ended
      /\ cache[n].left.open /\ cache[n].right.open
  BY <1>0, <1>1, <1>2, NodeFacts, ListComplete
<1>4. Complete(l) /\ ~Complete(r) /\ ~InFlight(r)
  BY <1>1, <1>3 DEF Complete, Returning, InFlight
<1>5. /\ sent[n] = 0
      /\ cache[n].left.items = Ascending(ToSet(meaning[l]))
      /\ ToSet(cache[n].right.items) = SentOf(sent, r)
  BY <1>1, <1>2, <1>3, <1>4 DEF Data, OperandData, ListData
<1>6. SentOf(sent, r) = ToSet(meaning[r])
  BY <1>0, <1>3, <1>4, SentAll DEF Data
<1>7. cache'[n]["right"].items = Ascending(ToSet(cache[n]["right"].items))
  <2>1. TypeOK /\ cache' = [cache EXCEPT ![n]["right"].items = Ascending(ToSet(@))]
    BY <1>0 DEF CacheSort
  <2>2. Ascending(ToSet(cache[n]["right"].items)) \in Seq(Docs)
    BY <1>0, <1>2, ItemsTyped, FiniteToSet, AscendingIsSeq DEF Docs
  <2> QED BY <1>2, <2>1, <2>2, ItemsSet
<1>8. cache'[n]["left"] = cache[n]["left"]
  <2>1. cache' = [cache EXCEPT ![n]["right"].items = Ascending(ToSet(@))]
    BY DEF CacheSort
  <2>2. Ascending(ToSet(cache[n]["right"].items)) \in Seq(Docs)
    BY <1>0, <1>2, ItemsTyped, FiniteToSet, AscendingIsSeq DEF Docs
  <2> QED BY <1>0, <1>2, <2>1, <2>2, ItemsSet
<1>9. /\ meaning[l] \in Seq(Int) /\ meaning[r] \in Seq(Int)
      /\ meaning[n] = Combine(tree[n].op, meaning[l], meaning[r])
  BY <1>0, <1>2, <1>3, MeaningIs DEF Docs
<1>10. /\ cache'[n].left.items = Ascending(ToSet(meaning[l]))
       /\ cache'[n].right.items = Ascending(ToSet(meaning[r]))
  BY <1>5, <1>6, <1>7, <1>8
<1>11. Combine(tree[n].op, cache'[n].left.items, cache'[n].right.items) = meaning[n]
  BY <1>1, <1>9, <1>10, CombineSorted
<1>12. Increasing(cache'[n].left.items) /\ Increasing(cache'[n].right.items)
  BY <1>9, <1>10, FiniteToSet, AscendingIsSeq
<1> QED BY <1>1, <1>5, <1>11, <1>12 DEF Sides

\* The merge has left what is not sent.
LEMMA MergeDataStep ==
    ASSUME Sound, meaning = Meaning(tree), NEW sent \in [Nodes -> Nat], Data(sent),
           Next, ~Rewind, NEW more, Sends(sent, more), NEW n \in Nodes
    PROVE  MergeData(more, n)'
<1>0. tree' = tree /\ meaning' = meaning /\ TypeOK
  BY TypeStep DEF Sound, vars, query
<1> DEFINE c == Combine(tree[n].op, cache'[n].left.items, cache'[n].right.items)
<1> SUFFICES ASSUME Merged(n)'
             PROVE  /\ \A s \in Sides : Increasing(cache'[n][s].items)
                    /\ IsRest(c, meaning[n], more[n])
  BY <1>0 DEF MergeData, Left
<1>1. more[n] = IF InFlight(n)' THEN sent[n] + 1 ELSE sent[n]
  BY DEF Sends
<1>2. CASE Merged(n) /\ (UnionRow \/ IntersectItem \/ ExceptItem) /\ n = p
  <2>1. PICK S \in SUBSET Sides : Turn(S)
    BY <1>2, Turns
  <2>2. stack' = stack /\ (pc' = "return" => rc' = "ROW")
    BY <1>0, <2>1, TurnTyped
  <2>3. p' = p
    BY <2>2 DEF p
  <2>4. InFlight(n)' <=> pc' = "return"
    BY <1>2, <2>2, <2>3 DEF InFlight
  <2>5. /\ \A s \in Sides : Increasing(cache'[p][s].items)
        /\ \/ /\ pc' = "merge"
              /\ IsRest(Combine(tree[p].op, cache'[p].left.items, cache'[p].right.items),
                        meaning[p], sent[p])
           \/ /\ pc' = "return"
              /\ IsRest(Combine(tree[p].op, cache'[p].left.items, cache'[p].right.items),
                        meaning[p], sent[p] + 1)
    BY <1>2, MergeRest
  <2>6. CASE pc' = "merge"
    BY <1>1, <1>2, <2>4, <2>5, <2>6
  <2>7. CASE pc' = "return"
    BY <1>1, <1>2, <2>4, <2>5, <2>7
  <2> QED BY <2>5, <2>6, <2>7
<1>3. CASE Merged(n) /\ ~((UnionRow \/ IntersectItem \/ ExceptItem) /\ n = p)
  <2>1. \A s \in Sides : cache'[n][s] = cache[n][s]
    BY <1>3, MergedItems
  <2>2. ~InFlight(n)'
    <3> SUFFICES ASSUME InFlight(n)' PROVE FALSE
      OBVIOUS
    <3>1. pc' = "return" /\ rc' = "ROW" /\ p' = n /\ ~Broken'
      BY DEF InFlight, Broken
    <3>2. tree[n].op \in SetOps
      BY <1>3 DEF Merged
    <3>3. ~(SelectRow /\ p' = p)
      BY <3>1, <3>2 DEF SelectRow, AtSelect, SetOps
    <3>4. ~(AllReturns /\ p' = Caller)
      BY <3>1, <3>2 DEF AllReturns, OperandOfAll, SetOps
    <3> QED BY <1>3, <3>1, <3>3, <3>4, Returns
  <2>3. /\ \A s \in Sides : Increasing(cache[n][s].items)
        /\ IsRest(Left(n), meaning[n], sent[n])
    BY <1>3 DEF Data, MergeData
  <2>4. c = Left(n)
    BY <2>1 DEF Left, Sides
  <2> QED BY <1>1, <2>1, <2>2, <2>3, <2>4
<1>4. CASE ~Merged(n)
  <2>1. CacheSort /\ n = Caller /\ Side = "right"
    BY <1>4, NewMerged
  <2>2. /\ \A s \in Sides : Increasing(cache'[n][s].items)
        /\ c = meaning[n] /\ sent[n] = 0 /\ pc' # "return"
    BY <1>4, <2>1, MergeBegins
  <2>3. more[n] = 0
    BY <1>1, <2>2 DEF InFlight
  <2>4. meaning[n] \in Seq(Docs)
    BY <1>0 DEF TypeOK
  <2>5. IsRest(meaning[n], meaning[n], 0)
    BY <2>4 DEF IsRest
  <2> QED BY <2>2, <2>3, <2>5
<1> QED BY <1>2, <1>3, <1>4

\* A row that operand m returns goes to the query it belongs to.
LEMMA RowToCaller ==
    ASSUME Sound, NEW n \in Nodes, NEW s \in Sides, tree[n].op # "SELECT",
           pc = "return", p = tree[n][s]
    PROVE  p # Root /\ n = Caller /\ s = Side
<1>1. tree[n][s] < n /\ tree[n][s] \in Nat /\ n \in Nat /\ n <= Root /\ Root \in Nat
  BY NodeFacts DEF Sound
<1>2. p # Root
  BY <1>1
<1> QED BY <1>2, Callers DEF Sound

\* A query that is not stepped sends nothing; a SELECT is at the result it sends.
LEMMA SimpleDataStep ==
    ASSUME Sound, meaning = Meaning(tree), NEW sent \in [Nodes -> Nat], Data(sent),
           Next, ~Rewind, NEW more, Sends(sent, more), NEW n \in Nodes, ~Broken'
    PROVE  /\ Untouched(n)' => more[n] = 0
           /\ tree[n].op = "SELECT" /\ n \notin ended' => pos'[n] = more[n]
<1>0. /\ TypeOK /\ ~Broken /\ OperandData(sent) /\ pos \in [Nodes -> Nat]
      /\ TypeOK' /\ Nodes' = Nodes
  BY BrokenStays, TypeStep DEF Sound, Data, TypeOK, vars, query, Nodes
<1>1. more[n] = IF InFlight(n)' THEN sent[n] + 1 ELSE sent[n]
  BY DEF Sends
<1>2. Untouched(n)' => more[n] = 0
  <2> SUFFICES ASSUME Untouched(n)' PROVE more[n] = 0
    OBVIOUS
  <2>1. sent[n] = 0
    BY <1>0, UntouchedWas DEF OperandData
  <2>2. ~InFlight(n)'
    <3> SUFFICES ASSUME pc' = "return", p' = n PROVE FALSE
      BY DEF InFlight
    <3>1. stack' \in Seq(Nodes) /\ stack' # <<>>
      BY <1>0 DEF TypeOK
    <3>2. Len(stack') \in DOMAIN stack' /\ stack'[Len(stack')] = n
      BY <3>1 DEF p, Last
    <3> QED BY <3>2 DEF Untouched
  <2> QED BY <1>1, <2>1, <2>2
<1>3. ASSUME tree[n].op = "SELECT", n \notin ended' PROVE pos'[n] = more[n]
  <2>1. n \notin ended
    BY <1>3, EndedStep
  <2>2. pos[n] = sent[n] /\ sent[n] \in Nat
    BY <1>0, <1>3, <2>1 DEF OperandData
  <2>3. CASE SelectRow /\ n = p
    <3>1. pos' = [pos EXCEPT ![p] = @ + 1] /\ pc' = "return" /\ rc' = "ROW" /\ stack' = stack
      BY <2>3 DEF SelectRow, Return
    <3>2. InFlight(n)'
      BY <2>3, <3>1 DEF InFlight, p
    <3>3. pos'[n] = pos[n] + 1
      BY <1>0, <2>3, <3>1
    <3> QED BY <1>1, <2>2, <3>2, <3>3
  <2>4. CASE ~(SelectRow /\ n = p)
    <3>1. pos'[n] = pos[n]
      BY <1>3, <2>4, SelectStep
    <3>2. ~InFlight(n)'
      <4> SUFFICES ASSUME InFlight(n)' PROVE FALSE
        OBVIOUS
      <4>1. pc' = "return" /\ rc' = "ROW" /\ p' = n
        BY DEF InFlight
      <4>2. ~(AllReturns /\ p' = Caller)
        BY <1>3, <4>1 DEF AllReturns, OperandOfAll
      <4>3. ~((UnionRow \/ IntersectItem \/ ExceptItem) /\ p' = p)
        BY <1>3, <4>1, TurnIsMerged DEF SetOps
      <4> QED BY <2>4, <4>1, <4>2, <4>3, Returns
    <3> QED BY <1>1, <2>2, <3>1, <3>2
  <2> QED BY <2>3, <2>4
<1> QED BY <1>2, <1>3

\* UNION ALL sends what its operands send.
LEMMA AllDataStep ==
    ASSUME Sound, meaning = Meaning(tree), NEW sent \in [Nodes -> Nat], Data(sent),
           Next, ~Rewind, NEW more, Sends(sent, more), NEW n \in Nodes, ~Broken',
           tree[n].op = "ALL"
    PROVE  AllData(more, n)'
<1>0. /\ TypeOK /\ ~Broken /\ OperandData(sent) /\ Operands /\ Counted(sent) /\ Path
      /\ tree' = tree /\ meaning' = meaning /\ doneLeft \in [Nodes -> BOOLEAN]
  BY BrokenStays, TypeStep DEF Sound, Data, TypeOK, vars, query
<1>1. more[n] = IF InFlight(n)' THEN sent[n] + 1 ELSE sent[n]
  BY DEF Sends
<1>2. /\ "left" \in Sides /\ "right" \in Sides /\ tree[n].op # "SELECT"
  BY DEF Sides
<1>3. PICK l \in Nodes, r \in Nodes : l = tree[n].left /\ r = tree[n].right /\ l # r
  BY <1>0, <1>2, NodeFacts
<1>4. sent[n] = IF doneLeft[n] THEN Len(meaning[l]) + Taken(sent, r) ELSE Taken(sent, l)
  BY <1>0, <1>3 DEF OperandData, AllData
<1>5. Taken(more, l)' = sent[l] /\ Taken(more, r)' = sent[r]
  BY SendsTaken
<1>6. SUFFICES more[n] = IF doneLeft'[n] THEN Len(meaning[l]) + sent[r] ELSE sent[l]
  BY <1>0, <1>3, <1>5 DEF AllData, Taken, InFlight
<1>7. sent[l] \in Nat /\ sent[r] \in Nat /\ sent[n] \in Nat /\ Len(meaning[l]) \in Nat
  BY <1>0, MeaningIs
<1>8. CASE AllReturns /\ n = Caller
  <2>1. /\ pc = "return" /\ p # Root /\ doneLeft' = doneLeft /\ pc' = "return" /\ rc' = rc
        /\ rc # "NOMEM" /\ ~(Side = "left" /\ rc = "DONE") /\ stack' = Front(stack)
    BY <1>0, <1>8 DEF AllReturns, OperandOfAll, ReturnFromCaller, Broken
  <2>2. Called(n, p) /\ tree[n][Side] = p /\ Side \in Sides
    BY <1>0, <1>8, <2>1, Callers
  <2>3. p = IF doneLeft[n] THEN r ELSE l
    BY <1>3, <2>2 DEF Called, SetOps
  <2>4. p' = n
    BY <1>0, <1>8, <2>1, StackPopped DEF p
  <2>5. InFlight(n)' <=> rc = "ROW"
    BY <2>1, <2>4 DEF InFlight
  <2>6. Taken(sent, p) = IF rc = "ROW" THEN sent[p] - 1 ELSE sent[p]
    BY <2>1 DEF Taken, InFlight
  <2>7. CASE doneLeft[n]
    <3>1. p = r /\ doneLeft'[n] /\ sent[n] = Len(meaning[l]) + Taken(sent, r)
      BY <1>4, <2>1, <2>3, <2>7
    <3> QED BY <1>1, <1>7, <2>5, <2>6, <3>1
  <2>8. CASE ~doneLeft[n]
    <3>1. p = l /\ ~doneLeft'[n] /\ sent[n] = Taken(sent, l)
      BY <1>4, <2>1, <2>3, <2>8
    <3> QED BY <1>1, <1>7, <2>5, <2>6, <3>1
  <2> QED BY <2>7, <2>8
<1>9. CASE AllLeftDone /\ n = Caller
  <2>1. /\ pc = "return" /\ p # Root /\ Side = "left" /\ rc = "DONE" /\ pc' = "call"
        /\ doneLeft' = [doneLeft EXCEPT ![n] = TRUE]
    BY <1>9 DEF AllLeftDone, OperandOfAll
  <2>2. p = l /\ l \in ended
    BY <1>0, <1>3, <1>9, <2>1, Callers DEF Path, EndedOnPath
  <2>3. ~doneLeft[n] /\ Untouched(r)
    BY <1>3, <1>9, CalledOperands
  <2>4. sent[r] = 0 /\ sent[l] = Len(meaning[l]) /\ Taken(sent, l) = sent[l]
    BY <1>0, <2>1, <2>2, <2>3 DEF OperandData, Counted, Taken, InFlight
  <2>5. doneLeft'[n] /\ ~InFlight(n)'
    BY <1>0, <2>1 DEF InFlight
  <2> QED BY <1>1, <1>4, <1>7, <2>3, <2>4, <2>5
<1>10. CASE ~(AllReturns /\ n = Caller) /\ ~(AllLeftDone /\ n = Caller)
  <2>1. doneLeft'[n] = doneLeft[n]
    BY <1>10, DoneLeftStep
  <2>2. ~InFlight(n)'
    <3> SUFFICES ASSUME InFlight(n)' PROVE FALSE
      OBVIOUS
    <3>1. pc' = "return" /\ rc' = "ROW" /\ p' = n
      BY DEF InFlight
    <3>2. ~(SelectRow /\ p' = p)
      BY <3>1 DEF SelectRow, AtSelect
    <3>3. ~((UnionRow \/ IntersectItem \/ ExceptItem) /\ p' = p)
      BY <3>1, TurnIsMerged DEF SetOps
    <3> QED BY <1>10, <3>1, <3>2, <3>3, Returns
  <2>3. ASSUME NEW s \in Sides PROVE ~InFlight(tree[n][s])
    <3> SUFFICES ASSUME InFlight(tree[n][s]) PROVE FALSE
      OBVIOUS
    <3>1. pc = "return" /\ p = tree[n][s]
      BY DEF InFlight
    <3>2. p # Root /\ n = Caller
      BY <1>2, <3>1, RowToCaller
    <3> QED BY <1>10, <3>1, <3>2, Returned
  <2>4. Taken(sent, l) = sent[l] /\ Taken(sent, r) = sent[r]
    BY <1>2, <1>3, <2>3 DEF Taken
  <2> QED BY <1>1, <1>4, <2>1, <2>2, <2>4
<1> QED BY <1>8, <1>9, <1>10

\* A query whose lists are being read has sent nothing, and sends nothing.
LEMMA NothingSent ==
    ASSUME Sound, meaning = Meaning(tree), NEW sent \in [Nodes -> Nat], Data(sent),
           Next, ~Rewind, NEW more, Sends(sent, more), NEW n \in Nodes, ~Broken',
           tree[n].op \in SetOps, ~Merged(n)
    PROVE  more[n] = 0
<1>1. more[n] = IF InFlight(n)' THEN sent[n] + 1 ELSE sent[n]
  BY DEF Sends
<1>2. sent[n] = 0
  BY BrokenStays DEF Data, OperandData, ListData
<1>3. ~InFlight(n)'
  <2> SUFFICES ASSUME InFlight(n)' PROVE FALSE
    OBVIOUS
  <2>1. pc' = "return" /\ rc' = "ROW" /\ p' = n
    BY DEF InFlight
  <2>2. ~(SelectRow /\ p' = p)
    BY <2>1 DEF SelectRow, AtSelect, SetOps
  <2>3. ~(AllReturns /\ p' = Caller)
    BY <2>1 DEF AllReturns, OperandOfAll, SetOps
  <2>4. ~((UnionRow \/ IntersectItem \/ ExceptItem) /\ p' = p)
    BY <2>1, TurnIsMerged
  <2> QED BY <2>1, <2>2, <2>3, <2>4, Returns
<1> QED BY <1>1, <1>2, <1>3

\* An operand of a query whose lists are not merged yet: its list, when open,
\* holds what the operand has sent.
ListHolds(sent, n, s) ==
    IF Complete(tree[n][s])
      THEN cache[n][s].items = Ascending(ToSet(meaning[tree[n][s]]))
      ELSE ToSet(cache[n][s].items) = SentOf(sent, tree[n][s])

\* A list that is opened is empty, and its operand has sent nothing.
LEMMA OpenedHolds ==
    ASSUME Sound, meaning = Meaning(tree), NEW sent \in [Nodes -> Nat], Data(sent),
           Next, ~Rewind, NEW more, Sends(sent, more), NEW n \in Nodes, ~Broken',
           NEW s \in Sides, CacheOpen, n = p, Opening(s),
           cache'[n][s].items = <<>>, ended' = ended
    PROVE  ListHolds(more, n, s)'
<1>0. TypeOK /\ tree' = tree /\ meaning' = meaning /\ ~Broken
  BY TypeStep, BrokenStays DEF Sound, vars, query
<1>1. tree[n].op \in SetOps /\ tree[n].op # "SELECT" /\ Untouched(tree[n][s])
  BY CalledOperands DEF SetOps
<1>2. PICK m \in Nodes : m = tree[n][s]
  BY <1>0, <1>1, NodeFacts
<1>3. m \notin ended' /\ sent[m] = 0
  BY <1>0, <1>1, <1>2 DEF Untouched, Data, OperandData
<1>4. Taken(more, m)' = 0
  BY <1>3, SendsTaken
<1>5. SentOf(more, m)' = {}
  BY <1>4 DEF SentOf
<1>6. ToSet(cache'[n][s].items) = {}
  BY DEF ToSet
<1>7. ~Complete(m)'
  BY <1>3 DEF Complete
<1>8. Complete(tree[n][s])' <=> Complete(m)'
  BY <1>0, <1>2 DEF Complete, Returning
<1>9. SentOf(more, tree[n][s])' = SentOf(more, m)'
  BY <1>0, <1>2 DEF SentOf, Taken, InFlight
<1> QED BY <1>5, <1>6, <1>7, <1>8, <1>9 DEF ListHolds

\* The list of the operand that returns is open.
LEMMA CallersList ==
    ASSUME Sound, OperandOfSetOp
    PROVE  /\ Caller \in Nodes /\ Side \in Sides /\ tree[Caller][Side] = p /\ p \in Nodes
           /\ cache[Caller][Side].open
<1>1. TypeOK /\ Path /\ pc # "idle" /\ p # Root /\ tree[Caller].op \in SetOps
  BY DEF Sound, OperandOfSetOp
<1>2. /\ Caller \in Nodes /\ Side \in Sides /\ tree[Caller][Side] = p /\ p \in Nodes
      /\ Called(Caller, p) /\ tree[Caller].op # "SELECT" /\ tree[Caller].op # "ALL"
  BY <1>1, Callers, AtWork DEF SetOps
<1>3. "left" \in Sides /\ "right" \in Sides
  BY DEF Sides
<1>4. tree[Caller].left # tree[Caller].right
  BY <1>1, <1>2, <1>3, NodeFacts
<1>5. /\ cache[Caller].left.open
      /\ p = IF cache[Caller].right.open THEN tree[Caller].right ELSE tree[Caller].left
  BY <1>2 DEF Called
<1>6. Side = "left" \/ Side = "right"
  BY <1>2 DEF Sides
<1> QED BY <1>2, <1>4, <1>5, <1>6

\* What is added to the list, and how it is completed.
LEMMA CallersItems ==
    ASSUME Sound
    PROVE  /\ CacheAdd => cache'[Caller][Side].items = Append(cache[Caller][Side].items, Doc(p))
           /\ CacheSort => cache'[Caller][Side].items = Ascending(ToSet(cache[Caller][Side].items))
<1>0. TypeOK /\ Path
  BY DEF Sound
<1>1. ASSUME CacheAdd
      PROVE  cache'[Caller][Side].items = Append(cache[Caller][Side].items, Doc(p))
  <2>1. /\ OperandOfSetOp /\ pc = "return" /\ rc = "ROW"
        /\ cache' = [cache EXCEPT ![Caller][Side].items = Append(@, Doc(p))]
    BY <1>1 DEF CacheAdd, OperandOfSetOp
  <2>2. Caller \in Nodes /\ Side \in Sides /\ Doc(p) \in Docs
    BY <1>0, <2>1, CallersList, DocTyped DEF Sound
  <2>3. Append(cache[Caller][Side].items, Doc(p)) \in Seq(Docs)
    BY <1>0, <2>2, ItemsTyped DEF Docs
  <2> QED BY <1>0, <2>1, <2>2, <2>3, ItemsSet
<1>2. ASSUME CacheSort
      PROVE  cache'[Caller][Side].items = Ascending(ToSet(cache[Caller][Side].items))
  <2>1. /\ OperandOfSetOp
        /\ cache' = [cache EXCEPT ![Caller][Side].items = Ascending(ToSet(@))]
    BY <1>2 DEF CacheSort
  <2>2. Caller \in Nodes /\ Side \in Sides
    BY <2>1, CallersList
  <2>3. Ascending(ToSet(cache[Caller][Side].items)) \in Seq(Docs)
    BY <1>0, <2>2, ItemsTyped, FiniteToSet, AscendingIsSeq DEF Docs
  <2> QED BY <1>0, <2>1, <2>2, <2>3, ItemsSet
<1> QED BY <1>1, <1>2

\* A row of the operand is added to its list.
LEMMA AddedHolds ==
    ASSUME Sound, meaning = Meaning(tree), NEW sent \in [Nodes -> Nat], Data(sent),
           Next, ~Rewind, NEW more, Sends(sent, more), NEW n \in Nodes, ~Broken',
           NEW s \in Sides, CacheAdd, n = Caller, s = Side, ~Merged(n),
           cache'[n][s].items = Append(cache[n][s].items, Doc(p))
    PROVE  ListHolds(more, n, s)'
<1>0. TypeOK /\ Path /\ tree' = tree /\ meaning' = meaning /\ ~Broken
  BY TypeStep, BrokenStays DEF Sound, vars, query
<1>1. /\ OperandOfSetOp /\ pc = "return" /\ rc = "ROW" /\ tree[n].op \in SetOps /\ ended' = ended
  BY DEF CacheAdd, OperandOfSetOp
<1>2. PICK m \in Nodes : m = p
  BY <1>1, CallersList
<1>3. m = tree[n][s] /\ cache[n][s].open /\ m \notin ended
  BY <1>0, <1>1, <1>2, CallersList, NotEnded
<1>4. ToSet(cache[n][s].items) = SentOf(sent, m)
  <2>1. ~Complete(m)
    BY <1>3 DEF Complete
  <2> QED BY <1>0, <1>1, <1>3, <2>1 DEF Data, OperandData, ListData
<1>5. sent[m] \in Nat /\ sent[m] > 0 /\ Doc(p) = meaning[m][sent[m]]
  BY <1>1, <1>2 DEF Data, RowData
<1>6. Taken(sent, m) = sent[m] - 1 /\ Taken(more, m)' = sent[m]
  BY <1>1, <1>2, SendsTaken DEF Taken, InFlight
<1>7. SentOf(more, m)' = SentOf(sent, m) \cup {Doc(p)}
  <2>1. SentOf(more, m)' = { meaning[m][i] : i \in 1..sent[m] }
    BY <1>0, <1>6 DEF SentOf
  <2>2. SentOf(sent, m) = { meaning[m][i] : i \in 1..(sent[m] - 1) }
    BY <1>6 DEF SentOf
  <2>3. 1..sent[m] = 1..(sent[m] - 1) \cup {sent[m]}
    BY <1>5
  <2> HIDE DEF SentOf
  <2> QED BY <1>5, <2>1, <2>2, <2>3
<1>8. ToSet(cache'[n][s].items) = ToSet(cache[n][s].items) \cup {Doc(p)}
  <2>1. cache[n][s].items \in Seq(Int) /\ Doc(p) \in Int
    BY <1>0, <1>1, ItemsTyped, DocTyped DEF Sound, Docs
  <2>2. PICK a \in Seq(Int), x \in Int : a = cache[n][s].items /\ x = Doc(p)
    BY <2>1
  <2>3. ToSet(Append(a, x)) = ToSet(a) \cup {x}
    <3>1. /\ DOMAIN Append(a, x) = DOMAIN a \cup {Len(a) + 1} /\ Len(a) + 1 \notin DOMAIN a
          /\ \A i \in DOMAIN a : Append(a, x)[i] = a[i]
          /\ Append(a, x)[Len(a) + 1] = x
      OBVIOUS
    <3> QED BY <3>1 DEF ToSet
  <2> QED BY <2>2, <2>3
<1>9. ~Complete(m)'
  BY <1>1, <1>3 DEF Complete
<1>10. Complete(tree[n][s])' <=> Complete(m)'
  BY <1>0, <1>3 DEF Complete, Returning
<1>11. SentOf(more, tree[n][s])' = SentOf(more, m)'
  BY <1>0, <1>3 DEF SentOf, Taken, InFlight
<1> QED BY <1>4, <1>7, <1>8, <1>9, <1>10, <1>11 DEF ListHolds

\* The list of an operand that has ended is sorted.
LEMMA SortedHolds ==
    ASSUME Sound, meaning = Meaning(tree), NEW sent \in [Nodes -> Nat], Data(sent),
           Next, ~Rewind, NEW more, Sends(sent, more), NEW n \in Nodes, ~Broken',
           NEW s \in Sides, CacheSort, n = Caller, s = Side, ~Merged(n),
           cache'[n][s].items = Ascending(ToSet(cache[n][s].items))
    PROVE  ListHolds(more, n, s)'
<1>0. TypeOK /\ Path /\ tree' = tree /\ meaning' = meaning /\ ~Broken
  BY TypeStep, BrokenStays DEF Sound, vars, query
<1>1. /\ OperandOfSetOp /\ pc = "return" /\ rc = "DONE" /\ tree[n].op \in SetOps /\ ended' = ended
      /\ pc' # "return"
  BY DEF CacheSort, OperandOfSetOp
<1>2. PICK m \in Nodes : m = p
  BY <1>1, CallersList
<1>3. m = tree[n][s] /\ cache[n][s].open /\ m \in ended
  BY <1>0, <1>1, <1>2, CallersList, ListComplete
<1>4. ~InFlight(m) /\ ~Complete(m) /\ Complete(m)'
  BY <1>1, <1>2, <1>3 DEF InFlight, Complete, Returning
<1>5. ToSet(cache[n][s].items) = SentOf(sent, m)
  BY <1>0, <1>1, <1>3, <1>4 DEF Data, OperandData, ListData
<1>6. SentOf(sent, m) = ToSet(meaning[m])
  BY <1>0, <1>3, <1>4, SentAll DEF Data
<1>7. cache'[n][s].items = Ascending(ToSet(meaning[m]))
  BY <1>5, <1>6
<1>8. Complete(tree[n][s])' <=> Complete(m)'
  BY <1>0, <1>3 DEF Complete, Returning
<1> QED BY <1>0, <1>3, <1>4, <1>7, <1>8 DEF ListHolds

\* A list that is left alone holds what it held.
LEMMA SameHolds ==
    ASSUME Sound, meaning = Meaning(tree), NEW sent \in [Nodes -> Nat], Data(sent),
           Next, ~Rewind, NEW more, Sends(sent, more), NEW n \in Nodes, ~Broken',
           tree[n].op \in SetOps, NEW s \in Sides, ~Merged(n), ~(n = Caller /\ OperandOfSetOp /\ s = Side),
           cache'[n][s] = cache[n][s], cache[n][s].open
    PROVE  ListHolds(more, n, s)'
<1>0. TypeOK /\ Path /\ tree' = tree /\ meaning' = meaning /\ ~Broken
  BY TypeStep, BrokenStays DEF Sound, vars, query
<1>1. tree[n].op # "SELECT"
  BY DEF SetOps
<1>2. PICK m \in Nodes : m = tree[n][s]
  BY <1>0, <1>1, NodeFacts
<1>3. ~Returning(m)
  <2> SUFFICES ASSUME pc = "return", p = m PROVE FALSE
    BY DEF Returning
  <2>1. p # Root /\ n = Caller /\ s = Side
    BY <1>1, <1>2, RowToCaller
  <2> QED BY <2>1 DEF OperandOfSetOp
<1>4. Taken(sent, m) = sent[m] /\ Taken(more, m)' = sent[m]
  BY <1>3, SendsTaken DEF Taken, InFlight, Returning
<1>5. SentOf(more, m)' = SentOf(sent, m)
  BY <1>0, <1>4 DEF SentOf
<1>6. Complete(m)' <=> Complete(m)
  <2>1. /\ ended \subseteq ended'
        /\ pc' = "return" => p' \notin ended
        /\ \A k \in ended' : k \notin ended => Returning(k)'
    BY EndedStep
  <2>2. m \in ended => m \in ended' /\ ~Returning(m)'
    BY <2>1 DEF Returning
  <2>3. m \notin ended => m \notin ended' \/ Returning(m)'
    BY <2>1
  <2> QED BY <1>3, <2>2, <2>3 DEF Complete
<1>7. Complete(tree[n][s])' <=> Complete(m)'
  BY <1>0, <1>2 DEF Complete, Returning
<1>8. SentOf(more, tree[n][s])' = SentOf(more, m)'
  BY <1>0, <1>2 DEF SentOf, Taken, InFlight
<1>9. IF Complete(m) THEN cache[n][s].items = Ascending(ToSet(meaning[m]))
                     ELSE ToSet(cache[n][s].items) = SentOf(sent, m)
  BY <1>0, <1>2 DEF Data, OperandData, ListData
<1> QED BY <1>0, <1>2, <1>5, <1>6, <1>7, <1>8, <1>9 DEF ListHolds

\* The lists of a query hold what its operands have sent.
LEMMA ListDataStep ==
    ASSUME Sound, meaning = Meaning(tree), NEW sent \in [Nodes -> Nat], Data(sent),
           Next, ~Rewind, NEW more, Sends(sent, more), NEW n \in Nodes, ~Broken',
           tree[n].op \in SetOps
    PROVE  ListData(more, n)'
<1>1. ASSUME ~Merged(n)'
      PROVE  more[n] = 0 /\ ~Merged(n)
  BY <1>1, MergedStays, NothingSent
<1>2. ASSUME ~Merged(n)', NEW s \in Sides, cache'[n][s].open
      PROVE  ListHolds(more, n, s)'
  <2>1. ~Merged(n) /\ ~((UnionRow \/ IntersectItem \/ ExceptItem) /\ n = p)
    BY <1>1, <1>2, TurnIsMerged
  <2>2. CASE CacheOpen /\ n = p /\ Opening(s) /\ cache'[n][s].items = <<>> /\ ended' = ended
    BY <2>2, OpenedHolds
  <2>3. CASE CacheAdd /\ n = Caller /\ s = Side
    BY <2>1, <2>3, CallersItems, AddedHolds
  <2>4. CASE CacheSort /\ n = Caller /\ s = Side
    BY <2>1, <2>4, CallersItems, SortedHolds
  <2>5. CASE cache'[n][s] = cache[n][s] /\ ~(n = Caller /\ OperandOfSetOp /\ s = Side)
    <3>1. cache[n][s].open
      BY <1>2, <2>5
    <3> QED BY <2>1, <2>5, <3>1, SameHolds
  <2>6. CASE n = Caller /\ OperandOfSetOp /\ s = Side
    <3>1. CacheAdd \/ CacheSort
      BY <2>6, Returned DEF OperandOfSetOp, Broken, CacheNoItem, CacheError, ReturnFromCaller
    <3> QED BY <2>3, <2>4, <2>6, <3>1
  <2> QED BY <2>1, <2>2, <2>3, <2>4, <2>5, <2>6, ItemsStep
<1> QED BY <1>1, <1>2 DEF ListData, ListHolds

\* Each step of a call keeps the data and the counts together.
LEMMA CallDataStep ==
    ASSUME Sound, meaning = Meaning(tree), NEW sent \in [Nodes -> Nat], Data(sent),
           Next, ~Rewind, NEW more, Sends(sent, more)
    PROVE  Data(more)'
<1>0. tree' = tree /\ Nodes' = Nodes
  BY TypeStep DEF Sound, vars, query, Nodes
<1>1. Counted(more)' /\ RowData(more)' /\ ClientData(more)'
  BY CountedStep, RowDataStep, ClientDataStep
<1>2. \A n \in Nodes : MergeData(more, n)'
  BY MergeDataStep
<1>3. ASSUME ~Broken', NEW n \in Nodes
      PROVE  /\ Untouched(n)' => more[n] = 0
             /\ tree[n].op = "SELECT" /\ n \notin ended' => pos'[n] = more[n]
             /\ tree[n].op = "ALL" => AllData(more, n)'
             /\ tree[n].op \in SetOps => ListData(more, n)'
  BY <1>3, SimpleDataStep, AllDataStep, ListDataStep
<1>4. ~Broken' => OperandData(more)'
  BY <1>0, <1>3 DEF OperandData
<1> QED BY <1>0, <1>1, <1>2, <1>4 DEF Data

\* Nothing is sent when nothing has been stepped.
Fresh ==
    /\ TypeOK /\ meaning = Meaning(tree)
    /\ pc = "idle" /\ ended = {} /\ out = <<>>
    /\ \A n \in Nodes : pos[n] = 0 /\ ~doneLeft[n]
    /\ \A n \in Nodes, s \in Sides : ~cache[n][s].open

\* Where nothing is stepped, nothing is sent.
LEMMA FreshData == Fresh => DataSound
<1> SUFFICES ASSUME Fresh PROVE DataSound
  OBVIOUS
<1> DEFINE none == [n \in Nodes |-> 0]
<1>1. none \in [Nodes -> Nat] /\ \A n \in Nodes : none[n] = 0
  OBVIOUS
<1>2. PICK sent \in [Nodes -> Nat] : \A n \in Nodes : sent[n] = 0
  BY <1>1
<1>3. TypeOK /\ pc = "idle" /\ ended = {} /\ out = <<>> /\ Root \in Nodes
  BY NodeFacts DEF Fresh
<1>4. \A m \in Nodes : ~InFlight(m) /\ Taken(sent, m) = 0
  BY <1>2, <1>3 DEF InFlight, Taken
<1>5. Counted(sent) /\ RowData(sent) /\ ClientData(sent)
  BY <1>2, <1>3, <1>4, MeaningIs DEF Counted, RowData, ClientData, Fresh
<1>6. ASSUME NEW n \in Nodes PROVE MergeData(sent, n)
  BY <1>3 DEF MergeData, Merged, Sides
<1>7. ASSUME NEW n \in Nodes, tree[n].op = "ALL" PROVE AllData(sent, n)
  <2>1. tree[n].left \in Nodes
    BY <1>3, <1>7, NodeFacts DEF Sides
  <2> QED BY <1>2, <1>4, <2>1 DEF AllData, Fresh
<1>8. ASSUME NEW n \in Nodes, tree[n].op \in SetOps PROVE ListData(sent, n)
  BY <1>2 DEF ListData, Fresh
<1>9. OperandData(sent)
  BY <1>2, <1>7, <1>8 DEF OperandData, Fresh
<1> QED BY <1>5, <1>6, <1>9 DEF DataSound, Data, Fresh

\* The data of the first state.
LEMMA InitData == Init => DataSound
<1> SUFFICES ASSUME Init PROVE DataSound
  OBVIOUS
<1>1. TypeOK /\ meaning = Meaning(tree)
  BY InitTyped
<1>2. /\ pc = "idle" /\ ended = {} /\ out = <<>>
      /\ pos = [n \in Nodes |-> 0] /\ cache = [n \in Nodes |-> NoLists]
      /\ doneLeft = [n \in Nodes |-> FALSE]
  BY DEF Init
<1>3. \A n \in Nodes, s \in Sides : ~cache[n][s].open
  BY <1>2 DEF NoLists, ClosedList
<1> QED BY <1>1, <1>2, <1>3, FreshData DEF Fresh

\* The data after a rewind, from whatever state.
LEMMA RewindData ==
    ASSUME Sound, meaning = Meaning(tree), Rewind
    PROVE  DataSound'
<1>1. TypeOK' /\ tree' = tree /\ meaning' = meaning /\ Nodes' = Nodes
  BY TypeStep DEF Sound, vars, query, Next, Nodes
<1>2. /\ pc' = "idle" /\ ended' = {} /\ out' = <<>>
      /\ pos' = [n \in Nodes |-> 0] /\ cache' = [n \in Nodes |-> NoLists]
      /\ doneLeft' = [n \in Nodes |-> FALSE]
  BY DEF Rewind
<1>3. \A n \in Nodes, s \in Sides : ~cache'[n][s].open
  BY <1>2 DEF NoLists, ClosedList
<1>4. Fresh'
  BY <1>1, <1>2, <1>3 DEF Fresh
<1> QED BY <1>4, FreshData, PTL

\* Each step keeps the data sound.
LEMMA DataStep ==
    ASSUME Sound, DataSound, [Next]_vars
    PROVE  DataSound'
<1>1. meaning = Meaning(tree) /\ TypeOK
  BY DEF DataSound, Sound
<1>2. tree' = tree /\ meaning' = meaning /\ Nodes' = Nodes
  BY TypeStep DEF Sound, query, Nodes
<1>3. PICK sent \in [Nodes -> Nat] : Data(sent)
  BY DEF DataSound
<1>4. CASE UNCHANGED vars
  <2> USE <1>4 DEF vars, query, client
  <2>1. p' = p /\ Root' = Root /\ Nodes' = Nodes
    BY DEF p, Root, Nodes
  <2>2. /\ \A n \in Nodes : InFlight(n)' <=> InFlight(n)
        /\ \A n \in Nodes : Returning(n)' <=> Returning(n)
        /\ \A n \in Nodes : Untouched(n)' <=> Untouched(n)
        /\ \A n \in Nodes : Merged(n)' <=> Merged(n)
        /\ \A n \in Nodes : Left(n)' = Left(n)
        /\ \A n \in Nodes : Doc(n)' = Doc(n)
        /\ Broken' <=> Broken
    BY <2>1 DEF InFlight, Returning, Untouched, Merged, Left, Doc, Broken
  <2>3. Counted(sent)'
    BY <1>3, <2>1 DEF Data, Counted
  <2>4. RowData(sent)'
    BY <1>3, <2>1 DEF Data, RowData, Doc
  <2>5. ClientData(sent)'
    BY <1>3, <2>1 DEF Data, ClientData, Taken, InFlight
  <2>6. \A n \in Nodes : MergeData(sent, n)'
    BY <1>3, <2>1, <2>2 DEF Data, MergeData
  <2>7. ASSUME NEW n \in Nodes, AllData(sent, n) PROVE AllData(sent, n)'
    BY <2>1, <2>7 DEF AllData, Taken, InFlight
  <2>8. ASSUME NEW n \in Nodes, ListData(sent, n) PROVE ListData(sent, n)'
    BY <2>1, <2>2, <2>8 DEF ListData, SentOf, Taken, InFlight, Complete, Returning
  <2>9. ~Broken' => OperandData(sent)'
    BY <1>3, <2>1, <2>2, <2>7, <2>8 DEF Data, OperandData
  <2>10. Data(sent)'
    BY <2>1, <2>3, <2>4, <2>5, <2>6, <2>9 DEF Data
  <2> QED BY <1>1, <1>2, <2>10 DEF DataSound
<1>5. CASE Rewind
  BY <1>1, <1>5, RewindData
<1>6. CASE Next /\ ~Rewind
  <2> DEFINE m(n) == IF InFlight(n)' THEN sent[n] + 1 ELSE sent[n]
             more == [n \in Nodes |-> m(n)]
  <2>1. \A n \in Nodes : sent[n] \in Nat /\ sent[n] + 1 \in Nat
    OBVIOUS
  <2>2. \A n \in Nodes : m(n) \in Nat
    BY <2>1
  <2>3. \A n \in Nodes : m(n) = IF InFlight(n)' THEN sent[n] + 1 ELSE sent[n]
    OBVIOUS
  <2> HIDE DEF m
  <2>4. Sends(sent, more)
    BY <2>2, <2>3 DEF Sends
  <2>5. PICK next : Sends(sent, next)
    BY <2>4
  <2>6. Data(next)' /\ next \in [Nodes -> Nat]
    BY <1>1, <1>3, <1>6, <2>5, CallDataStep DEF Sends
  <2> QED BY <1>1, <1>2, <2>6 DEF DataSound
<1> QED BY <1>4, <1>5, <1>6

\* The data are sound in every state that a compound query reaches.
LEMMA AlwaysData == Spec => [](Sound /\ DataSound)
<1>1. Sound /\ DataSound /\ [Next]_vars => (Sound /\ DataSound)'
  BY SoundStep, DataStep
<1> QED BY <1>1, InitSound, InitData, PTL DEF Spec

-----------------------------------------------------------------------------
(* The theorems *)

\* Once both operands of a query are read to the end, what the merge has left in
\* the two lists combines to the results that the query means and has not
\* returned yet, in a query nested at any depth (query.c:523-570).
THEOREM NothingIsLost == Spec => []MergeLosesNothing
<1>1. Sound /\ DataSound => MergeLosesNothing
  <2> SUFFICES ASSUME Sound, DataSound, NEW n \in Nodes, Merged(n)
               PROVE  IsSuffix(Left(n), meaning[n])
    BY DEF MergeLosesNothing, Left
  <2>1. PICK sent \in [Nodes -> Nat] : Data(sent)
    BY DEF DataSound
  <2>2. IsRest(Left(n), meaning[n], sent[n]) /\ sent[n] \in Nat
    BY <2>1 DEF Data, MergeData
  <2>3. TypeOK /\ "left" \in Sides /\ "right" \in Sides /\ tree[n].op \in Ops /\ tree[n].op # "SELECT"
    BY DEF Sound, Merged, Sides, SetOps, Ops
  <2>4. meaning[n] \in Seq(Int)
    BY <2>3 DEF TypeOK, Docs
  <2>5. Left(n) \in Seq(Int)
    BY <2>3, ItemsTyped, CombineTyped DEF Left
  <2> QED BY <2>2, <2>4, <2>5, RestIsSuffix
<1> QED BY <1>1, AlwaysData, PTL

\* What the statement returns is a step of the cursor.
LEMMA ReturnFollows ==
    ASSUME Sound, DataSound, StepReturns
    PROVE  Abstract!Next
<1>0. TypeOK /\ meaning = Meaning(tree) /\ Root \in Nodes
  BY NodeFacts DEF Sound, DataSound
<1>1. PICK sent \in [Nodes -> Nat] : Data(sent)
  BY DEF DataSound
<1>2. /\ pc = "return" /\ p = Root /\ ret' = rc
      /\ out' = IF rc = "ROW" THEN Append(out, Doc(Root)) ELSE out
      /\ meaning' = meaning /\ Root' = Root
  BY DEF StepReturns, query, Root
<1>3. Abstract!CanStep
  BY <1>2 DEF Sound, ClientInv, Abstract!CanStep
<1>4. /\ sent[Root] \in Nat /\ Len(out) = Taken(sent, Root)
      /\ \A i \in DOMAIN out : out[i] = meaning[Root][i]
      /\ sent[Root] <= Len(meaning[Root])
      /\ meaning[Root] \in Seq(Docs) /\ out \in Seq(Docs)
  BY <1>0, <1>1 DEF Data, ClientData, Counted, TypeOK
<1>5. CASE rc = "ROW"
  <2>1. sent[Root] > 0 /\ Doc(Root) = meaning[Root][sent[Root]]
    BY <1>1, <1>2, <1>5 DEF Data, RowData
  <2>2. Len(out) = sent[Root] - 1
    BY <1>2, <1>4, <1>5 DEF Taken, InFlight
  <2>3. Len(out) < Len(meaning[Root]) /\ Len(out) + 1 = sent[Root]
    BY <1>4, <2>1, <2>2
  <2> QED BY <1>2, <1>3, <1>5, <2>1, <2>3 DEF Abstract!Next, Abstract!StepRow
<1>6. CASE rc = "DONE"
  <2>1. Root \in ended
    BY <1>2, <1>6 DEF Sound, Path, EndedOnPath
  <2>2. Len(out) = Len(meaning[Root])
    BY <1>0, <1>1, <1>4, <1>6, <2>1 DEF Data, Counted, Taken, InFlight
  <2>3. out = meaning[Root]
    BY <1>4, <2>2
  <2> QED BY <1>2, <1>3, <1>6, <2>3 DEF Abstract!Next, Abstract!StepDone
<1>7. CASE rc = "NOMEM"
  BY <1>2, <1>3, <1>7 DEF Abstract!Next, Abstract!StepNoMem
<1> QED BY <1>0, <1>5, <1>6, <1>7 DEF TypeOK, Codes

\* However the operators nest, and also when it is rewound after memory ran out
\* with the list of one operand complete and the other half-way, a statement
\* returns the results that its query means in order, each as often as the
\* operators say, and then DONE (query.c:492-570).
THEOREM CompoundIsCursor == Spec => ImplementsCursor
<1>1. Init => Abstract!Init
  BY DEF Init, Abstract!Init
<1>2. ASSUME Sound, DataSound, [Next]_vars
      PROVE  [Abstract!Next]_(Abstract!vars)
  <2>1. meaning' = meaning /\ tree' = tree /\ Root' = Root
    BY <1>2, TypeStep DEF Sound, query, Root
  <2>2. CASE StepReturns
    BY <1>2, <2>2, ReturnFollows
  <2>3. CASE Rewind
    BY <2>1, <2>3 DEF Rewind, Abstract!Next, Abstract!Rewind
  <2>4. CASE Next /\ ~StepReturns /\ ~Rewind
    BY <2>1, <2>4, OutStep DEF Abstract!vars
  <2>5. CASE UNCHANGED vars
    BY <2>1, <2>5 DEF vars, client, Abstract!vars
  <2> QED BY <1>2, <2>2, <2>3, <2>4, <2>5
<1> QED BY <1>1, <1>2, AlwaysData, PTL DEF Spec, ImplementsCursor, Abstract!Spec
=============================================================================
