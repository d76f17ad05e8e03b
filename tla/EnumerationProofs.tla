-------------------------- MODULE EnumerationProofs --------------------------
(***************************************************************************)
(* What a FROM clause enumerates: that the query gets the rows that the    *)
(* clause means, each once and in the order of the nested loops.           *)
(*                                                                         *)
(* The first parts are about the meaning.  The rows of a node are laid in  *)
(* groups, one for each row of its left operand (Laying): for a join, the  *)
(* rows of the right operand; for EACH and FLATTEN, what they visit in the *)
(* value of the row.  FLATTEN visits the leaves of a value by levels       *)
(* (Levels), and an iterator, a stack of containers with an entry in each, *)
(* is at one place on every level (Iterates).                              *)
(*                                                                         *)
(* The invariant, Enumerating, gives each source a place among its rows    *)
(* (Follows): pos says which row the source holds, was which one it held   *)
(* when its caller last heard of it, so that the two differ only where a   *)
(* row is being returned.  The place of a join is that of its right        *)
(* operand in the group of the row of the left one; that of EACH and       *)
(* FLATTEN, what the iterator has visited in the group; a source that      *)
(* waits is where its operand has left it (Awaited); and the query has got *)
(* the rows before the place of the root (Got).  When the cursor of a      *)
(* collection fails it seems to be at its end, and places only skip.       *)
(***************************************************************************)
EXTENDS DataSourcesProofs

-----------------------------------------------------------------------------
(* Numbers and sequences *)

\* A positive number is behind those that are less.
LEMMA InBounds ==
    \A x, z : x \in Nat /\ z \in Nat /\ x > 0 /\ x <= z => x \in 1..z /\ x \in 0..z /\ x - 1 \in 0..z
  OBVIOUS

\* What is less than one of the first numbers is another one of them.
LEMMA LessIsInBounds ==
    \A x, y, z : x \in Nat /\ x # 0 /\ z \in Nat /\ y \in 1..z /\ x < y => x \in 1..z /\ x # y
  OBVIOUS

\* Nothing is added by 0.
LEMMA PlusZero == \A x \in Nat : x + 0 = x
  OBVIOUS

\* A sequence of members of S is one of members of a larger set.
LEMMA SequenceOfMore ==
    ASSUME NEW S, NEW T, S \subseteq T, NEW s \in Seq(S)
    PROVE  s \in Seq(T)
<1>1. s \in [1..Len(s) -> S] /\ Len(s) \in Nat
  OBVIOUS
<1>2. s \in [1..Len(s) -> T]
  BY <1>1
<1> QED BY <1>1, <1>2

\* An entry has its key and its value.
LEMMA EntryHas == \A k, v : Entry(k, v).key = k /\ Entry(k, v).val = v
  BY DEF Entry

-----------------------------------------------------------------------------
(* Sequences of sequences *)

\* The sequences of ss, one behind the other, in s: the i-th begins behind item
\* off[i - 1].
Laid(off, ss, s) ==
    /\ off \in [0..Len(ss) -> Nat] /\ off[0] = 0 /\ off[Len(ss)] = Len(s)
    /\ \A i \in 1..Len(ss) :
        /\ off[i] = off[i - 1] + Len(ss[i])
        /\ \A j \in 1..Len(ss[i]) :
            off[i - 1] + j \in 1..Len(s) /\ s[off[i - 1] + j] = ss[i][j]

\* The lengths of the sequences add up.
LEMMA LaidIncreases ==
    ASSUME NEW off, NEW ss, NEW s, Laid(off, ss, s), Len(ss) \in Nat,
           \A i \in 1..Len(ss) : Len(ss[i]) \in Nat
    PROVE  \A i, k \in 0..Len(ss) : i <= k => off[i] <= off[k]
<1> DEFINE Bad == { k \in 0..Len(ss) : \E i \in 0..k : ~(off[i] <= off[k]) }
<1>1. SUFFICES ASSUME Bad # {} PROVE FALSE
  OBVIOUS
<1>2. PICK k \in Bad : \A j \in Bad : k <= j
  <2>1. Bad \subseteq Nat
    OBVIOUS
  <2> QED BY <1>1, <2>1, LeastElement
<1>3. PICK i \in 0..k : ~(off[i] <= off[k])
  OBVIOUS
<1>4. k \in 0..Len(ss) /\ off[k] \in Nat /\ off[i] \in Nat
  <2>1. off \in [0..Len(ss) -> Nat]
    BY DEF Laid
  <2>2. k \in 0..Len(ss)
    OBVIOUS
  <2>3. i \in 0..Len(ss)
    BY <2>2
  <2> QED BY <2>1, <2>2, <2>3
<1>5. i # k /\ k # 0
  BY <1>3, <1>4
<1>6. k - 1 \in 0..Len(ss) /\ k \in 1..Len(ss) /\ i \in 0..(k - 1) /\ k - 1 < k
  BY <1>4, <1>5
<1>7. k - 1 \notin Bad
  BY <1>2, <1>6
<1>8. off[i] <= off[k - 1]
  BY <1>6, <1>7
<1>9. off[k] = off[k - 1] + Len(ss[k]) /\ Len(ss[k]) \in Nat /\ off[k - 1] \in Nat
  BY <1>6 DEF Laid
<1> QED BY <1>3, <1>4, <1>8, <1>9

\* A sequence is one over any set that its items are in.
LEMMA SequenceOf ==
    ASSUME NEW s, IsSequence(s)
    PROVE  /\ Len(s) \in Nat /\ DOMAIN s = 1..Len(s)
           /\ \A V : (\A i \in 1..Len(s) : s[i] \in V) => s \in Seq(V)
<1>1. s \in Seq(ToSet(s))
  BY DEF IsSequence
<1>2. Len(s) \in Nat /\ DOMAIN s = 1..Len(s) /\ s = [i \in 1..Len(s) |-> s[i]]
  BY <1>1
<1>3. ASSUME NEW V, \A i \in 1..Len(s) : s[i] \in V PROVE s \in Seq(V)
  <2>1. s \in [1..Len(s) -> V]
    BY <1>2, <1>3
  <2> QED BY <1>2, <2>1
<1> QED BY <1>2, <1>3

\* A sequence over any set is one.
LEMMA IsSequenceOf ==
    ASSUME NEW V, NEW s \in Seq(V)
    PROVE  IsSequence(s)
<1>1. Len(s) \in Nat /\ DOMAIN s = 1..Len(s) /\ s = [i \in 1..Len(s) |-> s[i]]
  OBVIOUS
<1>2. s \in [1..Len(s) -> ToSet(s)]
  BY <1>1 DEF ToSet
<1> QED BY <1>1, <1>2 DEF IsSequence

\* A function on 1..n is a sequence.
LEMMA FunctionIsSequence ==
    ASSUME NEW n \in Nat, NEW s, s = [i \in 1..n |-> s[i]]
    PROVE  IsSequence(s) /\ Len(s) = n
<1>1. s \in [1..n -> ToSet(s)]
  BY DEF ToSet
<1>2. s \in Seq(ToSet(s)) /\ Len(s) = n
  BY <1>1
<1> QED BY <1>2 DEF IsSequence

\* Where the items of two sequences are in their concatenation.
LEMMA ConcatItems ==
    ASSUME NEW V, NEW s \in Seq(V), NEW t \in Seq(V)
    PROVE  /\ s \o t \in Seq(V) /\ Len(s) \in Nat /\ Len(t) \in Nat /\ Len(s \o t) = Len(s) + Len(t)
           /\ \A j \in 1..Len(s) : j \in 1..Len(s \o t) /\ (s \o t)[j] = s[j]
           /\ \A j \in 1..Len(t) : Len(s) + j \in 1..Len(s \o t) /\ (s \o t)[Len(s) + j] = t[j]
<1>1. s \o t \in Seq(V) /\ Len(s) \in Nat /\ Len(t) \in Nat /\ Len(s \o t) = Len(s) + Len(t)
  OBVIOUS
<1>2. \A a, b \in Nat : /\ \A j \in 1..a : j \in 1..(a + b)
                        /\ \A j \in 1..b : a + j \in 1..(a + b)
  OBVIOUS
<1>3. \A j \in 1..Len(s) : j \in 1..Len(s \o t)
  BY <1>1, <1>2
<1>4. \A j \in 1..Len(t) : Len(s) + j \in 1..Len(s \o t)
  BY <1>1, <1>2
<1>5. \A j \in 1..Len(s) : (s \o t)[j] = s[j]
  OBVIOUS
<1>6. \A j \in 1..Len(t) : (s \o t)[Len(s) + j] = t[j]
  OBVIOUS
<1> QED BY <1>1, <1>3, <1>4, <1>5, <1>6

\* FlattenSeq lays the sequences one behind the other.
LEMMA FlattenSeqLays ==
    ASSUME NEW ss, IsSequence(ss), \A i \in 1..Len(ss) : IsSequence(ss[i])
    PROVE  IsSequence(FlattenSeq(ss)) /\ \E off : Laid(off, ss, FlattenSeq(ss))
<1> DEFINE N == Len(ss)
           A == UNION { ToSet(ss[i]) : i \in 1..N }
           V == Seq(A)
<1>1. N \in Nat /\ DOMAIN ss = 1..N
  BY SequenceOf
<1>2. \A i \in 1..N : ss[i] \in V
  <2> SUFFICES ASSUME NEW i \in 1..N PROVE ss[i] \in V
    OBVIOUS
  <2>1. IsSequence(ss[i])
    OBVIOUS
  <2>2. \A j \in 1..Len(ss[i]) : ss[i][j] \in ToSet(ss[i])
    BY <2>1, SequenceOf DEF ToSet
  <2>3. \A j \in 1..Len(ss[i]) : ss[i][j] \in A
    BY <2>2
  <2> QED BY <2>1, <2>3, SequenceOf
<1>3. CASE N = 0
  <2>1. FlattenSeq(ss) = ss
    BY <1>3 DEF FlattenSeq
  <2> DEFINE off == [k \in 0..0 |-> 0]
  <2>2. off \in [0..N -> Nat] /\ off[0] = 0 /\ 1..N = {}
    BY <1>3
  <2>3. Laid(off, ss, ss)
    <3> HIDE DEF off
    <3> QED BY <1>3, <2>2 DEF Laid
  <2> QED BY <2>1, <2>3
<1>4. CASE N # 0
  <2> DEFINE Of(s) == [i \in 1..N |-> IF i = 1 THEN ss[i] ELSE s[i - 1] \o ss[i]]
             g == CHOOSE s : s = Of(s)
             StepOf(n, x) == IF n = 1 THEN ss[n] ELSE x \o ss[n]
             step == [n \in 1..N |-> [pair \in V \X V |-> StepOf(n, pair[1])]]
             before == [n \in 1..N |-> n - 1]
             none == [n \in 1..N |-> 0]
  <2>1. FlattenSeq(ss) = g[N]
    BY <1>4 DEF FlattenSeq
  <2>2. \A x, y \in V : x \o y \in V
    OBVIOUS
  <2>3. <<>> \in V
    OBVIOUS
  <2> HIDE DEF V
  <2>4. \A n \in 1..N : [pair \in V \X V |-> StepOf(n, pair[1])] \in [V \X V -> V]
    <3> SUFFICES ASSUME NEW n \in 1..N, NEW pair \in V \X V PROVE StepOf(n, pair[1]) \in V
      OBVIOUS
    <3>1. pair[1] \in V /\ ss[n] \in V
      BY <1>2
    <3> QED BY <2>2, <3>1
  <2>5. step \in [1..N -> [V \X V -> V]]
    BY <2>4
  <2>6. \A n \in 1..N : \A x, y \in V : step[n][<<x, y>>] = StepOf(n, x)
    OBVIOUS
  <2>7. Descend(before, none, N)
    BY <1>1 DEF Descend
  <2> HIDE DEF step
  <2>8. PICK f \in [0..N -> V] : Folds(f, step, before, none, <<>>, N)
    BY <1>1, <2>3, <2>5, <2>7, FoldExists DEF Folded
  <2>9. \A n \in 1..N : f[n] = IF n = 1 THEN ss[n] ELSE f[n - 1] \o ss[n]
    <3> SUFFICES ASSUME NEW n \in 1..N PROVE f[n] = StepOf(n, f[n - 1])
      OBVIOUS
    <3>1. f[n] = step[n][<<f[n - 1], f[0]>>]
      BY <2>8 DEF Folds
    <3>2. f[n - 1] \in V /\ f[0] \in V
      BY <1>1
    <3> QED BY <2>6, <3>1, <3>2
  <2>10. g = Of(g)
    <3> DEFINE u == [n \in 1..N |-> f[n]]
    <3>1. \A n \in 1..N : n # 1 => n - 1 \in 1..N
      BY <1>1
    <3>2. \A n \in 1..N : u[n] = IF n = 1 THEN ss[n] ELSE u[n - 1] \o ss[n]
      BY <2>9, <3>1
    <3>3. u = [n \in 1..N |-> u[n]]
      OBVIOUS
    <3> HIDE DEF u
    <3>4. u = Of(u)
      BY <3>2, <3>3
    <3> HIDE DEF Of
    <3> QED BY <3>4
  <2> HIDE DEF g
  <2>11. \A n \in 1..N : g[n] = IF n = 1 THEN ss[n] ELSE g[n - 1] \o ss[n]
    BY <2>10
  <2> HIDE DEF Of
  <2> DEFINE Bad == { n \in 1..N : g[n] # f[n] }
  <2>12. Bad = {}
    <3> SUFFICES ASSUME Bad # {} PROVE FALSE
      OBVIOUS
    <3>1. PICK n \in Bad : \A k \in Bad : n <= k
      <4>1. Bad \subseteq Nat
        OBVIOUS
      <4> QED BY <4>1, LeastElement
    <3>2. n \in 1..N /\ g[n] # f[n]
      OBVIOUS
    <3>3. n # 1
      BY <2>9, <2>11, <3>2
    <3>4. n - 1 \in 1..N /\ n - 1 < n /\ n \in Nat
      BY <1>1, <3>2, <3>3
    <3>5. n - 1 \notin Bad
      BY <3>1, <3>4
    <3>6. g[n - 1] = f[n - 1]
      BY <3>4, <3>5
    <3> QED BY <2>9, <2>11, <3>2, <3>3, <3>6
  <2>13. f[0] = <<>>
    BY <2>8 DEF Folds
  <2>14. \A n \in 1..N : f[n] = f[n - 1] \o ss[n]
    <3> SUFFICES ASSUME NEW n \in 1..N PROVE f[n] = f[n - 1] \o ss[n]
      OBVIOUS
    <3>1. CASE n = 1
      <4>1. ss[n] \in Seq(A)
        BY <1>2 DEF V
      <4>2. <<>> \o ss[n] = ss[n]
        BY <4>1
      <4>3. f[n] = ss[n]
        BY <2>9, <3>1
      <4>4. n - 1 = 0
        BY <3>1
      <4> QED BY <2>13, <4>2, <4>3, <4>4
    <3>2. CASE n # 1
      BY <2>9, <3>2
    <3> QED BY <3>1, <3>2
  <2>15. FlattenSeq(ss) = f[N]
    BY <1>1, <1>4, <2>1, <2>12
  <2> DEFINE off == [k \in 0..N |-> Len(f[k])]
             Good(k) == /\ \A i \in 1..k : \A j \in 1..Len(ss[i]) :
                            off[i - 1] + j \in 1..Len(f[k]) /\ f[k][off[i - 1] + j] = ss[i][j]
             Worse == { k \in 0..N : ~Good(k) }
  <2>16. \A k \in 0..N : f[k] \in Seq(A) /\ Len(f[k]) \in Nat /\ off[k] = Len(f[k])
    BY DEF V
  <2>17. \A k \in 1..N : /\ k - 1 \in 0..N /\ k \in 0..N
                         /\ f[k] = f[k - 1] \o ss[k] /\ ss[k] \in Seq(A) /\ Len(ss[k]) \in Nat
    <3>1. \A k \in 1..N : k - 1 \in 0..N /\ k \in 0..N
      BY <1>1
    <3>2. \A k \in 1..N : ss[k] \in Seq(A)
      BY <1>2 DEF V
    <3> QED BY <2>14, <3>1, <3>2
  <2>18. \A k \in 1..N : Len(f[k]) = Len(f[k - 1]) + Len(ss[k])
    BY <2>16, <2>17
  <2> HIDE DEF off
  <2>19. Worse = {}
    <3> SUFFICES ASSUME Worse # {} PROVE FALSE
      OBVIOUS
    <3>1. PICK k \in Worse : \A n \in Worse : k <= n
      <4>1. Worse \subseteq Nat
        OBVIOUS
      <4> QED BY <4>1, LeastElement
    <3>2. k \in 0..N /\ ~Good(k)
      OBVIOUS
    <3>3. k # 0
      BY <3>2
    <3>4. k \in 1..N /\ k - 1 \in 0..N /\ k - 1 < k /\ k \in Nat
      BY <1>1, <3>2, <3>3
    <3>5. Good(k - 1)
      <4> HIDE DEF Good
      <4>1. k - 1 \notin Worse
        BY <3>1, <3>4
      <4> QED BY <3>4, <4>1
    <3>6. ASSUME NEW i \in 1..k, NEW j \in 1..Len(ss[i])
          PROVE  off[i - 1] + j \in 1..Len(f[k]) /\ f[k][off[i - 1] + j] = ss[i][j]
      <4>1. PICK x \in Seq(A), y \in Seq(A) : x = f[k - 1] /\ y = ss[k]
        BY <2>16, <2>17, <3>4
      <4>2. f[k] = x \o y /\ off[k - 1] = Len(x)
        BY <2>16, <2>17, <3>4, <4>1
      <4>3. CASE i = k
        <5>1. j \in 1..Len(y)
          BY <3>6, <4>1, <4>3
        <5>2. Len(x) + j \in 1..Len(x \o y) /\ (x \o y)[Len(x) + j] = y[j]
          BY <5>1, ConcatItems
        <5> QED BY <4>1, <4>2, <4>3, <5>2
      <4>4. CASE i # k
        <5>1. i \in 1..(k - 1)
          BY <3>4, <4>4
        <5>2. off[i - 1] + j \in 1..Len(x) /\ x[off[i - 1] + j] = ss[i][j]
          BY <3>5, <3>6, <4>1, <5>1
        <5>3. off[i - 1] + j \in 1..Len(x \o y) /\ (x \o y)[off[i - 1] + j] = x[off[i - 1] + j]
          BY <5>2, ConcatItems
        <5> QED BY <4>2, <5>2, <5>3
      <4> QED BY <4>3, <4>4
    <3> QED BY <3>2, <3>6
  <2>20. Laid(off, ss, f[N])
    <3>1. N \in 0..N /\ 0 \in 0..N
      BY <1>1
    <3>2. Good(N)
      BY <2>19, <3>1
    <3>3. off[0] = 0 /\ off[N] = Len(f[N])
      BY <2>13, <2>16, <3>1
    <3>4. off \in [0..N -> Nat]
      BY <2>16 DEF off
    <3>5. \A i \in 1..N : off[i] = off[i - 1] + Len(ss[i])
      BY <2>16, <2>17, <2>18
    <3> QED BY <3>2, <3>3, <3>4, <3>5 DEF Laid
  <2>21. IsSequence(f[N])
    BY <1>1, <2>16, IsSequenceOf
  <2> QED BY <2>15, <2>20, <2>21
<1> QED BY <1>3, <1>4

-----------------------------------------------------------------------------
(* What a FROM clause means *)

LeafRows(node, arr) == [i \in DOMAIN Rows(node, arr) |-> <<Rows(node, arr)[i]>>]

FlattenedRows(node, l) == FlattenSeq([i \in DOMAIN l |-> WithEntries(node, l[i][1])])

\* The rows of a node depend on the operands that it has.
LEMMA RowsOfIs ==
    ASSUME NEW node, NEW arr, NEW l, NEW r, node.kind \in Kinds
    PROVE  RowsOf(node, arr, l, r) = IF node.kind \in Leaves THEN LeafRows(node, arr)
                                     ELSE IF node.kind = "JOIN" THEN Product(l, r)
                                     ELSE FlattenedRows(node, l)
BY DEF RowsOf, LeafRows, FlattenedRows, Leaves, Flattens, Kinds

\* The rows of each node are those that it makes of the rows of its operands.
LEMMA MeaningIs ==
    ASSUME NEW t, IsSource(t), NEW arr, NEW m, m = Meaning(t, arr)
    PROVE  /\ m = [n \in DOMAIN t |-> m[n]]
           /\ \A n \in DOMAIN t :
                m[n] = IF t[n].kind \in Leaves THEN LeafRows(t[n], arr)
                       ELSE IF t[n].kind = "JOIN" THEN Product(m[t[n].left], m[t[n].right])
                       ELSE FlattenedRows(t[n], m[t[n].left])
<1> DEFINE N == Len(t)
           Of(s) == [n \in DOMAIN t |-> RowsOf(t[n], arr, s[t[n].left], s[t[n].right])]
           g == CHOOSE s : s = Of(s)
           OfOperands(f, n) == RowsOf(t[n], arr, f[t[n].left], f[t[n].right])
           Upto(k, f) == \A n \in 1..k : f[n] = OfOperands(f, n)
           Bad == { k \in 0..N : ~\E f : Upto(k, f) }
<1>1. /\ N \in Nat /\ DOMAIN t = 1..N
      /\ \A n \in DOMAIN t :
            /\ t[n].kind \in Kinds
            /\ t[n].left \in Nat /\ t[n].left < n /\ t[n].right \in Nat /\ t[n].right < n
            /\ t[n].left # 0 <=> t[n].kind \notin Leaves
            /\ t[n].right # 0 <=> t[n].kind = "JOIN"
  BY SourceNodes
<1>2. Bad = {}
  <2> SUFFICES ASSUME Bad # {} PROVE FALSE
    OBVIOUS
  <2>1. PICK k \in Bad : \A j \in Bad : k <= j
    <3>1. Bad \subseteq Nat
      OBVIOUS
    <3> HIDE DEF Bad
    <3> QED BY <3>1, LeastElement
  <2>2. k \in 0..N /\ ~\E f : Upto(k, f)
    OBVIOUS
  <2>3. k # 0
    <3> SUFFICES ASSUME k = 0 PROVE \E f : Upto(k, f)
      BY <2>2
    <3>1. 1..k = {}
      OBVIOUS
    <3> QED BY <3>1
  <2>4. k - 1 \in 0..N /\ k - 1 < k /\ k \in DOMAIN t /\ k \in Nat
    BY <1>1, <2>2, <2>3
  <2>5. PICK f : Upto(k - 1, f)
    <3> HIDE DEF Upto
    <3>1. k - 1 \notin Bad
      BY <2>1, <2>4
    <3> QED BY <2>4, <3>1
  <2> DEFINE last == OfOperands(f, k)
             h == [n \in 0..k |-> IF n = k THEN last ELSE f[n]]
  <2>6. \A n \in 1..k : /\ t[n].left \in 0..k /\ t[n].left # k
                        /\ t[n].right \in 0..k /\ t[n].right # k
    <3> SUFFICES ASSUME NEW n \in 1..k
                 PROVE  /\ t[n].left \in 0..k /\ t[n].left # k
                        /\ t[n].right \in 0..k /\ t[n].right # k
      OBVIOUS
    <3>1. n \in DOMAIN t /\ n <= k
      BY <1>1, <2>2, <2>4
    <3>2. /\ t[n].left \in Nat /\ t[n].left < n /\ t[n].right \in Nat /\ t[n].right < n
      BY <1>1, <3>1
    <3> QED BY <2>4, <3>1, <3>2
  <2> HIDE DEF last
  <2>7. \A n \in 0..k : n # k => h[n] = f[n]
    OBVIOUS
  <2>8. h[k] = last
    BY <2>4
  <2> HIDE DEF h
  <2>9. \A n \in 1..k : OfOperands(h, n) = OfOperands(f, n)
    <3> SUFFICES ASSUME NEW n \in 1..k PROVE OfOperands(h, n) = OfOperands(f, n)
      OBVIOUS
    <3>1. h[t[n].left] = f[t[n].left] /\ h[t[n].right] = f[t[n].right]
      BY <2>6, <2>7
    <3> QED BY <3>1
  <2> HIDE DEF OfOperands
  <2>10. \A n \in 1..k : h[n] = OfOperands(h, n)
    <3> SUFFICES ASSUME NEW n \in 1..k PROVE h[n] = OfOperands(f, n)
      BY <2>9
    <3>1. CASE n = k
      BY <2>8, <3>1 DEF last
    <3>2. CASE n # k
      <4>1. n \in 1..(k - 1) /\ n \in 0..k
        BY <2>4, <3>2
      <4> QED BY <2>5, <2>7, <3>2, <4>1
    <3> QED BY <3>1, <3>2
  <2> QED BY <2>2, <2>10
<1>3. PICK f : Upto(N, f)
  <2> HIDE DEF Upto
  <2>1. N \in 0..N
    BY <1>1
  <2> QED BY <1>2, <2>1
<1> DEFINE u == [n \in DOMAIN t |-> f[n]]
<1>4. \A n \in DOMAIN t : /\ t[n].kind \notin Leaves => t[n].left \in DOMAIN t
                          /\ t[n].kind = "JOIN" => t[n].right \in DOMAIN t
  <2> SUFFICES ASSUME NEW n \in DOMAIN t
               PROVE  /\ t[n].kind \notin Leaves => t[n].left \in DOMAIN t
                      /\ t[n].kind = "JOIN" => t[n].right \in DOMAIN t
    OBVIOUS
  <2>1. \A k \in Nat : k # 0 /\ k < n => k \in DOMAIN t
    BY <1>1
  <2> QED BY <1>1, <2>1
<1>5. \A n \in DOMAIN t : u[n] = OfOperands(u, n)
  <2> SUFFICES ASSUME NEW n \in DOMAIN t PROVE u[n] = OfOperands(u, n)
    OBVIOUS
  <2>1. u[n] = OfOperands(f, n)
    BY <1>1, <1>3
  <2>2. /\ t[n].kind \notin Leaves => u[t[n].left] = f[t[n].left]
        /\ t[n].kind = "JOIN" => u[t[n].right] = f[t[n].right]
    BY <1>4
  <2> HIDE DEF u
  <2>3. OfOperands(u, n) = OfOperands(f, n)
    BY <1>1, <2>2, RowsOfIs
  <2> QED BY <2>1, <2>3
<1>6. u = Of(u)
  <2>1. u = [n \in DOMAIN t |-> u[n]]
    OBVIOUS
  <2> HIDE DEF u
  <2> QED BY <1>5, <2>1
<1>7. g = Of(g)
  <2> HIDE DEF u, Of
  <2> QED BY <1>6
<1>8. m = [n \in DOMAIN t |-> g[n]]
  BY DEF Meaning
<1> HIDE DEF g
<1>9. \A n \in DOMAIN t : g[n] = OfOperands(g, n)
  BY <1>7
<1> HIDE DEF Of
<1>10. \A n \in DOMAIN t : m[n] = g[n]
  BY <1>8
<1>11. m = [n \in DOMAIN t |-> m[n]]
  BY <1>8, <1>10
<1>12. ASSUME NEW n \in DOMAIN t
       PROVE  m[n] = IF t[n].kind \in Leaves THEN LeafRows(t[n], arr)
                     ELSE IF t[n].kind = "JOIN" THEN Product(m[t[n].left], m[t[n].right])
                     ELSE FlattenedRows(t[n], m[t[n].left])
  <2>1. /\ t[n].kind \notin Leaves => m[t[n].left] = g[t[n].left]
        /\ t[n].kind = "JOIN" => m[t[n].right] = g[t[n].right]
    BY <1>4, <1>10, <1>12
  <2>2. m[n] = OfOperands(g, n)
    BY <1>9, <1>10, <1>12
  <2>3. t[n].kind \in Kinds
    BY <1>1, <1>12
  <2> QED BY <2>1, <2>2, <2>3, RowsOfIs
<1> QED BY <1>11, <1>12

-----------------------------------------------------------------------------
(* The levels of a container *)

OpenAll(es) == [i \in DOMAIN es |-> Opened(es[i])]

\* Each level of a container is the one before with its containers opened.
LEMMA LevelsAre ==
    ASSUME NEW c, NEW D \in Nat, NEW lev, lev = Levels(c, D)
    PROVE  lev[0] = Under(<<>>, c) /\ \A d \in 1..D : lev[d] = FlattenSeq(OpenAll(lev[d - 1]))
<1> DEFINE NextOf(es) == FlattenSeq([i \in DOMAIN es |-> Opened(es[i])])
           Of(s) == [d \in 0..D |-> IF d = 0 THEN Under(<<>>, c) ELSE NextOf(s[d - 1])]
           g == CHOOSE s : s = Of(s)
           Upto(k, f) == f[0] = Under(<<>>, c) /\ \A d \in 1..k : f[d] = NextOf(f[d - 1])
           Bad == { k \in 0..D : ~\E f : Upto(k, f) }
<1>1. Bad = {}
  <2> SUFFICES ASSUME Bad # {} PROVE FALSE
    OBVIOUS
  <2>1. PICK k \in Bad : \A j \in Bad : k <= j
    <3>1. Bad \subseteq Nat
      OBVIOUS
    <3> HIDE DEF Bad
    <3> QED BY <3>1, LeastElement
  <2>2. k \in 0..D /\ ~\E f : Upto(k, f)
    OBVIOUS
  <2> HIDE DEF NextOf
  <2>3. k # 0
    <3> SUFFICES ASSUME k = 0 PROVE \E f : Upto(k, f)
      BY <2>2
    <3> DEFINE f == [d \in 0..0 |-> Under(<<>>, c)]
    <3>1. 1..k = {} /\ f[0] = Under(<<>>, c)
      OBVIOUS
    <3> HIDE DEF f
    <3>2. Upto(k, f)
      BY <3>1
    <3> QED BY <3>2
  <2>4. k - 1 \in 0..D /\ k - 1 < k /\ k \in Nat
    BY <2>2, <2>3
  <2>5. PICK f : Upto(k - 1, f)
    <3> HIDE DEF Upto
    <3>1. k - 1 \notin Bad
      BY <2>1, <2>4
    <3> QED BY <2>4, <3>1
  <2> DEFINE h == [d \in 0..k |-> IF d = k THEN NextOf(f[k - 1]) ELSE f[d]]
  <2>6. \A d \in 0..k : d # k => h[d] = f[d]
    OBVIOUS
  <2>7. h[k] = NextOf(f[k - 1])
    BY <2>4
  <2> HIDE DEF h
  <2>8. \A d \in 1..k : h[d] = NextOf(h[d - 1])
    <3> SUFFICES ASSUME NEW d \in 1..k PROVE h[d] = NextOf(h[d - 1])
      OBVIOUS
    <3>1. d - 1 \in 0..k /\ d - 1 # k
      BY <2>4
    <3>2. h[d - 1] = f[d - 1]
      BY <2>6, <3>1
    <3>3. CASE d = k
      BY <2>7, <3>2, <3>3
    <3>4. CASE d # k
      <4>1. d \in 1..(k - 1) /\ d \in 0..k
        BY <2>4, <3>4
      <4> QED BY <2>5, <2>6, <3>2, <3>4, <4>1
    <3> QED BY <3>3, <3>4
  <2>9. h[0] = Under(<<>>, c)
    <3>1. 0 \in 0..k
      BY <2>4
    <3> QED BY <2>3, <2>5, <2>6, <3>1
  <2> QED BY <2>2, <2>8, <2>9
<1>2. PICK f : Upto(D, f)
  <2> HIDE DEF Upto
  <2>1. D \in 0..D
    OBVIOUS
  <2> QED BY <1>1, <2>1
<1> DEFINE u == [d \in 0..D |-> f[d]]
<1>3. \A d \in 0..D : d # 0 => d - 1 \in 0..D /\ d \in 1..D
  OBVIOUS
<1> HIDE DEF NextOf
<1>4. \A d \in 0..D : u[d] = IF d = 0 THEN Under(<<>>, c) ELSE NextOf(u[d - 1])
  <2> SUFFICES ASSUME NEW d \in 0..D PROVE u[d] = IF d = 0 THEN Under(<<>>, c) ELSE NextOf(u[d - 1])
    OBVIOUS
  <2>1. u[d] = f[d]
    OBVIOUS
  <2>2. d # 0 => u[d - 1] = f[d - 1]
    BY <1>3
  <2> HIDE DEF u
  <2> QED BY <1>2, <1>3, <2>1, <2>2
<1>5. u = Of(u)
  <2>1. u = [d \in 0..D |-> u[d]]
    OBVIOUS
  <2> HIDE DEF u
  <2> QED BY <1>4, <2>1
<1>6. g = Of(g)
  <2> HIDE DEF u, Of
  <2> QED BY <1>5
<1>7. lev = g
  BY DEF Levels, NextOf
<1> HIDE DEF g
<1>8. \A d \in 0..D : lev[d] = IF d = 0 THEN Under(<<>>, c) ELSE NextOf(lev[d - 1])
  BY <1>6, <1>7
<1>9. 0 \in 0..D /\ \A d \in 1..D : d \in 0..D /\ d # 0
  OBVIOUS
<1>10. \A es : NextOf(es) = FlattenSeq(OpenAll(es))
  BY DEF NextOf, OpenAll
<1> QED BY <1>8, <1>9, <1>10

\* The containers of all levels but the last have sequences of entries.
NestsTo(c, D) ==
    /\ IsSequence(c.elems)
    /\ \A d \in 0..D : d < D => \A e \in ToSet(Levels(c, D)[d]) : IsContainer(e.val) => IsSequence(e.val.elems)

\* The entries of a container, under a path.
LEMMA UnderIs ==
    ASSUME NEW path, NEW c, IsSequence(c.elems)
    PROVE  /\ IsSequence(Under(path, c)) /\ Len(Under(path, c)) = Len(c.elems)
           /\ \A k \in 1..Len(c.elems) :
                Under(path, c)[k] = Entry(Append(path, c.elems[k].key), c.elems[k].val)
<1>1. Len(c.elems) \in Nat /\ DOMAIN c.elems = 1..Len(c.elems)
  BY SequenceOf
<1> DEFINE u == Under(path, c)
<1>2. /\ u = [i \in 1..Len(c.elems) |-> u[i]]
      /\ \A k \in 1..Len(c.elems) : u[k] = Entry(Append(path, c.elems[k].key), c.elems[k].val)
  BY <1>1 DEF Under
<1> HIDE DEF u
<1>3. IsSequence(u) /\ Len(u) = Len(c.elems)
  BY <1>1, <1>2, FunctionIsSequence
<1> QED BY <1>2, <1>3 DEF u

\* What an entry opens to is a sequence.
LEMMA OpenedIs ==
    ASSUME NEW e, IsContainer(e.val) => IsSequence(e.val.elems)
    PROVE  IsSequence(Opened(e))
<1>1. CASE IsContainer(e.val)
  BY <1>1, UnderIs DEF Opened
<1>2. CASE ~IsContainer(e.val)
  <2>1. <<e>> \in Seq({e})
    OBVIOUS
  <2>2. IsSequence(<<e>>)
    BY <2>1, IsSequenceOf
  <2> QED BY <1>2, <2>2 DEF Opened
<1> QED BY <1>1, <1>2

\* Each entry of a level begins the entries that it opens to on the next.
Unfolds(c, D, lev, oo) ==
    /\ IsSequence(c.elems) /\ lev[0] = Under(<<>>, c)
    /\ \A d \in 0..D : IsSequence(lev[d])
    /\ \A d \in 1..D : Laid(oo[d], OpenAll(lev[d - 1]), lev[d])

\* What the entries of a level open to.
LEMMA OpenAllIs ==
    ASSUME NEW es, IsSequence(es)
    PROVE  /\ IsSequence(OpenAll(es)) /\ Len(OpenAll(es)) = Len(es)
           /\ \A i \in 1..Len(es) : OpenAll(es)[i] = Opened(es[i])
<1>1. Len(es) \in Nat /\ DOMAIN es = 1..Len(es)
  BY SequenceOf
<1> DEFINE u == OpenAll(es)
<1>2. u = [i \in 1..Len(es) |-> u[i]] /\ \A i \in 1..Len(es) : u[i] = Opened(es[i])
  BY <1>1 DEF OpenAll
<1> HIDE DEF u
<1>3. IsSequence(u) /\ Len(u) = Len(es)
  BY <1>1, <1>2, FunctionIsSequence
<1> QED BY <1>2, <1>3 DEF u

\* The levels of a container that nests no deeper than that unfold.
LEMMA LevelsUnfold ==
    ASSUME NEW c, NEW D \in Nat, NestsTo(c, D)
    PROVE  \E oo : Unfolds(c, D, Levels(c, D), oo)
<1>1. PICK lev : lev = Levels(c, D)
  OBVIOUS
<1>2. /\ IsSequence(c.elems)
      /\ \A d \in 0..D : d < D => \A e \in ToSet(lev[d]) : IsContainer(e.val) => IsSequence(e.val.elems)
  BY <1>1 DEF NestsTo
<1>3. lev[0] = Under(<<>>, c) /\ \A d \in 1..D : lev[d] = FlattenSeq(OpenAll(lev[d - 1]))
  BY <1>1, LevelsAre
<1> DEFINE Fine(d) == IsSequence(lev[d])
           Lays(d) == \E off : Laid(off, OpenAll(lev[d - 1]), lev[d])
           Bad == { d \in 0..D : ~Fine(d) }
<1>4. ASSUME NEW d \in 1..D, Fine(d - 1) PROVE Fine(d) /\ Lays(d)
  <2>1. PICK es : es = lev[d - 1]
    OBVIOUS
  <2>2. IsSequence(es) /\ lev[d] = FlattenSeq(OpenAll(es))
    BY <1>3, <1>4, <2>1
  <2>3. d - 1 \in 0..D /\ d - 1 < D
    OBVIOUS
  <2>4. \A i \in 1..Len(es) : es[i] \in ToSet(es)
    BY <2>2, SequenceOf DEF ToSet
  <2>5. \A i \in 1..Len(es) : IsSequence(Opened(es[i]))
    BY <1>2, <2>1, <2>3, <2>4, OpenedIs
  <2>6. /\ IsSequence(OpenAll(es)) /\ Len(OpenAll(es)) = Len(es)
        /\ \A i \in 1..Len(es) : IsSequence(OpenAll(es)[i])
    BY <2>2, <2>5, OpenAllIs
  <2>7. IsSequence(FlattenSeq(OpenAll(es))) /\ \E off : Laid(off, OpenAll(es), FlattenSeq(OpenAll(es)))
    BY <2>6, FlattenSeqLays
  <2> QED BY <2>1, <2>2, <2>7
<1>5. Fine(0)
  BY <1>2, <1>3, UnderIs
<1> HIDE DEF Fine, Lays
<1>6. Bad = {}
  <2> SUFFICES ASSUME Bad # {} PROVE FALSE
    OBVIOUS
  <2>1. PICK d \in Bad : \A j \in Bad : d <= j
    <3>1. Bad \subseteq Nat
      OBVIOUS
    <3> QED BY <3>1, LeastElement
  <2>2. d \in 0..D /\ ~Fine(d)
    OBVIOUS
  <2>3. d # 0
    BY <1>5, <2>2
  <2>4. d \in 1..D /\ d - 1 \in 0..D /\ d - 1 < d
    BY <2>2, <2>3
  <2>5. d - 1 \notin Bad
    BY <2>1, <2>4
  <2>6. Fine(d - 1)
    BY <2>4, <2>5
  <2> QED BY <1>4, <2>2, <2>4, <2>6
<1>7. \A d \in 0..D : Fine(d)
  BY <1>6
<1>8. \A d \in 1..D : Lays(d)
  <2> SUFFICES ASSUME NEW d \in 1..D PROVE Lays(d)
    OBVIOUS
  <2>1. d - 1 \in 0..D
    OBVIOUS
  <2> QED BY <1>4, <1>7, <2>1
<1> DEFINE oo == [d \in 1..D |-> CHOOSE off : Laid(off, OpenAll(lev[d - 1]), lev[d])]
<1>9. \A d \in 1..D : Laid(oo[d], OpenAll(lev[d - 1]), lev[d])
  <2> SUFFICES ASSUME NEW d \in 1..D PROVE Laid(oo[d], OpenAll(lev[d - 1]), lev[d])
    OBVIOUS
  <2>1. \E off : Laid(off, OpenAll(lev[d - 1]), lev[d])
    BY <1>8 DEF Lays
  <2>2. oo[d] = CHOOSE off : Laid(off, OpenAll(lev[d - 1]), lev[d])
    OBVIOUS
  <2> HIDE DEF oo
  <2> QED BY <2>1, <2>2
<1> HIDE DEF oo
<1>10. Unfolds(c, D, lev, oo)
  BY <1>2, <1>3, <1>7, <1>9 DEF Unfolds, Fine
<1> QED BY <1>1, <1>10

-----------------------------------------------------------------------------
(* Iterators *)

\* What the entries of level d - 1 open to, on the next level.
OpensTo(lev, oo, d) ==
    /\ oo[d] \in [0..Len(lev[d - 1]) -> Nat] /\ oo[d][0] = 0
    /\ oo[d][Len(lev[d - 1])] = Len(lev[d])
    /\ \A x \in 1..Len(lev[d - 1]) :
        /\ oo[d][x] = oo[d][x - 1] + Len(Opened(lev[d - 1][x]))
        /\ \A k \in 1..Len(Opened(lev[d - 1][x])) :
            /\ oo[d][x - 1] + k \in 1..Len(lev[d])
            /\ lev[d][oo[d][x - 1] + k] = Opened(lev[d - 1][x])[k]

\* Where the entries of a level are on the next one.
LEMMA NextLevel ==
    ASSUME NEW c, NEW D \in Nat, NEW lev, NEW oo, Unfolds(c, D, lev, oo), NEW d \in 1..D
    PROVE  /\ d - 1 \in 0..D /\ d \in 0..D /\ Len(lev[d - 1]) \in Nat /\ Len(lev[d]) \in Nat
           /\ OpensTo(lev, oo, d)
<1>1. d - 1 \in 0..D /\ d \in 0..D
  OBVIOUS
<1>2. PICK es, off, fs : es = lev[d - 1] /\ off = oo[d] /\ fs = lev[d]
  OBVIOUS
<1>3. IsSequence(es) /\ IsSequence(fs) /\ Laid(off, OpenAll(es), fs)
  BY <1>1, <1>2 DEF Unfolds
<1>4. /\ Len(OpenAll(es)) = Len(es) /\ Len(es) \in Nat /\ Len(fs) \in Nat
      /\ \A x \in 1..Len(es) : OpenAll(es)[x] = Opened(es[x])
  BY <1>3, OpenAllIs, SequenceOf
<1>5. off \in [0..Len(es) -> Nat] /\ off[0] = 0 /\ off[Len(es)] = Len(fs)
  BY <1>3, <1>4 DEF Laid
<1>6. ASSUME NEW x \in 1..Len(es)
      PROVE  /\ off[x] = off[x - 1] + Len(Opened(es[x]))
             /\ \A k \in 1..Len(Opened(es[x])) :
                off[x - 1] + k \in 1..Len(fs) /\ fs[off[x - 1] + k] = Opened(es[x])[k]
  <2>1. OpenAll(es)[x] = Opened(es[x]) /\ x \in 1..Len(OpenAll(es))
    BY <1>4
  <2> QED BY <1>3, <2>1 DEF Laid
<1>7. OpensTo(lev, oo, d)
  BY <1>2, <1>5, <1>6 DEF OpensTo
<1> QED BY <1>1, <1>2, <1>4, <1>7

\* The keys that lead to the container of place d + 1.
PathTo(it, d) == [k \in 1..d |-> it[k].of.elems[it[k].at].key]

\* Container f.of was entered from level d - 1, on which z[d - 1] entries are
\* passed; f.at of its own, which are on level d, are passed.
FrameAt(lev, oo, z, d, f, path) ==
    /\ IsSequence(f.of.elems) /\ f.at \in Nat /\ f.at <= Len(f.of.elems)
    /\ \E b \in Nat :
        /\ z[d] = b + f.at
        /\ \A k \in 1..Len(f.of.elems) :
            /\ b + k \in 1..Len(lev[d])
            /\ lev[d][b + k] = Entry(Append(path, f.of.elems[k].key), f.of.elems[k].val)
        /\ d = 0 => b = 0 /\ Len(f.of.elems) = Len(lev[0])
        /\ d # 0 => /\ z[d - 1] # 0
                    /\ b = oo[d][z[d - 1] - 1] /\ b + Len(f.of.elems) = oo[d][z[d - 1]]

\* The iterator has passed z[d] entries of each level d.
Iterates(D, lev, oo, it, z) ==
    /\ z \in [0..D -> Nat] /\ \A d \in 0..D : z[d] <= Len(lev[d])
    /\ Len(it) <= D + 1
    /\ it = <<>> => z[0] = Len(lev[0])
    /\ \A d \in 0..(Len(it) - 1) : FrameAt(lev, oo, z, d, it[d + 1], PathTo(it, d))
    /\ \A d \in 1..D : d >= Len(it) => z[d] = oo[d][z[d - 1]]

\* The iterator over container c has passed j of the entries that it is for.
IterIn(c, D, it, j) ==
    \E oo, z : Unfolds(c, D, Levels(c, D), oo) /\ Iterates(D, Levels(c, D), oo, it, z) /\ j = z[D]

\* An iterator has visited at most what there is.
LEMMA IterCounts ==
    ASSUME NEW c, NEW D \in Nat, NEW it, NEW j, IterIn(c, D, it, j)
    PROVE  j \in Nat /\ j <= Len(Scalars(c, D))
<1>1. D \in 0..D
  OBVIOUS
<1> QED BY <1>1 DEF IterIn, Iterates, Scalars

\* A new iterator has passed none.
LEMMA IterNew ==
    ASSUME NEW c, NEW D \in Nat, NestsTo(c, D)
    PROVE  IterIn(c, D, <<[of |-> c, at |-> 0]>>, 0)
<1>1. PICK lev, f, it : lev = Levels(c, D) /\ f = [of |-> c, at |-> 0] /\ it = <<f>>
  OBVIOUS
<1>2. PICK oo : Unfolds(c, D, lev, oo)
  BY <1>1, LevelsUnfold
<1> DEFINE z == [d \in 0..D |-> 0]
<1>3. z \in [0..D -> Nat] /\ \A d \in 0..D : z[d] = 0
  OBVIOUS
<1> HIDE DEF z
<1>4. f.of = c /\ f.at = 0 /\ it[1] = f /\ Len(it) = 1 /\ it # <<>>
  BY <1>1
<1>5. IsSequence(c.elems) /\ lev[0] = Under(<<>>, c) /\ \A d \in 0..D : IsSequence(lev[d])
  BY <1>2 DEF Unfolds
<1>6. \A d \in 0..D : z[d] <= Len(lev[d])
  <2> SUFFICES ASSUME NEW d \in 0..D PROVE z[d] <= Len(lev[d])
    OBVIOUS
  <2>1. Len(lev[d]) \in Nat
    BY <1>5, SequenceOf
  <2> QED BY <1>3, <2>1
<1>7. \A d \in 1..D : z[d] = oo[d][z[d - 1]]
  <2> SUFFICES ASSUME NEW d \in 1..D PROVE z[d] = oo[d][z[d - 1]]
    OBVIOUS
  <2>1. oo[d][0] = 0 /\ d - 1 \in 0..D /\ d \in 0..D
    <3>1. OpensTo(lev, oo, d)
      BY <1>2, NextLevel
    <3> QED BY <3>1 DEF OpensTo
  <2> QED BY <1>3, <2>1
<1>8. PathTo(it, 0) = <<>>
  BY DEF PathTo
<1>9. FrameAt(lev, oo, z, 0, f, <<>>)
  <2>1. /\ Len(lev[0]) = Len(c.elems) /\ Len(c.elems) \in Nat
        /\ \A k \in 1..Len(c.elems) :
            lev[0][k] = Entry(Append(<<>>, c.elems[k].key), c.elems[k].val)
    BY <1>5, UnderIs, SequenceOf
  <2>2. \A k \in 1..Len(c.elems) :
            /\ 0 + k \in 1..Len(lev[0])
            /\ lev[0][0 + k] = Entry(Append(<<>>, c.elems[k].key), c.elems[k].val)
    BY <2>1
  <2>3. z[0] = 0 + f.at
    BY <1>3, <1>4
  <2> QED BY <1>4, <1>5, <2>1, <2>2, <2>3 DEF FrameAt
<1>10. \A d \in 0..(Len(it) - 1) : FrameAt(lev, oo, z, d, it[d + 1], PathTo(it, d))
  <2> SUFFICES ASSUME NEW d \in 0..(Len(it) - 1) PROVE FrameAt(lev, oo, z, d, it[d + 1], PathTo(it, d))
    OBVIOUS
  <2>1. d = 0
    BY <1>4
  <2> QED BY <1>4, <1>8, <1>9, <2>1
<1>11. Iterates(D, lev, oo, it, z)
  BY <1>3, <1>4, <1>6, <1>7, <1>10 DEF Iterates
<1>12. z[D] = 0
  BY <1>3
<1> QED BY <1>1, <1>2, <1>11, <1>12 DEF IterIn

\* One that is at its end has passed all.
LEMMA IterEnd ==
    ASSUME NEW c, NEW D \in Nat, NEW j, IterIn(c, D, <<>>, j)
    PROVE  j = Len(Scalars(c, D))
<1>1. PICK lev : lev = Levels(c, D)
  OBVIOUS
<1>2. PICK oo, z : Unfolds(c, D, lev, oo) /\ Iterates(D, lev, oo, <<>>, z) /\ j = z[D]
  BY <1>1 DEF IterIn
<1> DEFINE Bad == { d \in 0..D : z[d] # Len(lev[d]) }
<1>3. Bad = {}
  <2> SUFFICES ASSUME Bad # {} PROVE FALSE
    OBVIOUS
  <2>1. PICK d \in Bad : \A k \in Bad : d <= k
    <3>1. Bad \subseteq Nat
      OBVIOUS
    <3> QED BY <3>1, LeastElement
  <2>2. d \in 0..D /\ z[d] # Len(lev[d])
    OBVIOUS
  <2>3. d # 0
    BY <1>2, <2>2 DEF Iterates
  <2>4. d \in 1..D /\ d - 1 \in 0..D /\ d - 1 < d /\ d >= 0
    BY <2>2, <2>3
  <2>5. d - 1 \notin Bad
    BY <2>1, <2>4
  <2>6. z[d - 1] = Len(lev[d - 1])
    BY <2>4, <2>5
  <2>7. z[d] = oo[d][z[d - 1]]
    <3>1. Len(<<>>) = 0
      OBVIOUS
    <3> QED BY <1>2, <2>4, <3>1 DEF Iterates
  <2>8. oo[d][Len(lev[d - 1])] = Len(lev[d])
    <3>1. OpensTo(lev, oo, d)
      BY <1>2, <2>4, NextLevel
    <3> QED BY <3>1 DEF OpensTo
  <2> QED BY <2>2, <2>6, <2>7, <2>8
<1>4. D \in 0..D
  OBVIOUS
<1> QED BY <1>1, <1>2, <1>3, <1>4 DEF Scalars

\* The frames below the top are not concerned by how far that is.
LEMMA FrameKept ==
    ASSUME NEW D \in Nat, NEW lev, NEW oo, NEW it, NEW z, Iterates(D, lev, oo, it, z),
           NEW u, NEW y, NEW d \in 0..(Len(it) - 1), Len(it) \in Nat,
           \A k \in 1..(d + 1) : u[k] = it[k],
           \A k \in 0..d : y[k] = z[k]
    PROVE  FrameAt(lev, oo, y, d, u[d + 1], PathTo(u, d))
<1>1. FrameAt(lev, oo, z, d, it[d + 1], PathTo(it, d))
  BY DEF Iterates
<1>2. u[d + 1] = it[d + 1] /\ y[d] = z[d] /\ (d # 0 => y[d - 1] = z[d - 1])
  OBVIOUS
<1>3. PathTo(u, d) = PathTo(it, d)
  <2>1. \A k \in 1..d : u[k] = it[k]
    OBVIOUS
  <2> QED BY <2>1 DEF PathTo
<1> QED BY <1>1, <1>2, <1>3 DEF FrameAt

\* Leaving a container that is exhausted passes none.
LEMMA IterLeaves ==
    ASSUME NEW c, NEW D \in Nat, NEW V, NEW it \in Seq(V), it # <<>>, NEW j, IterIn(c, D, it, j),
           Last(it).at = Len(Last(it).of.elems)
    PROVE  IterIn(c, D, Front(it), j)
<1>1. PICK lev, len, u : lev = Levels(c, D) /\ len = Len(it) /\ u = Front(it)
  OBVIOUS
<1>2. PICK oo, z : Unfolds(c, D, lev, oo) /\ Iterates(D, lev, oo, it, z) /\ j = z[D]
  BY <1>1 DEF IterIn
<1>3. len \in Nat /\ len > 0 /\ len - 1 \in 0..(len - 1) /\ (len - 1) + 1 = len
  BY <1>1
<1>4. /\ Len(u) = len - 1 /\ (u = <<>> => len = 1) /\ Last(it) = it[len]
      /\ \A k \in 1..(len - 1) : u[k] = it[k]
  <2>1. Len(u) = len - 1 /\ \A k \in 1..(len - 1) : u[k] = it[k]
    BY <1>1, <1>3 DEF Front
  <2>2. u = <<>> => len = 1
    BY <1>3, <2>1
  <2>3. Last(it) = it[len]
    BY <1>1 DEF Last
  <2> QED BY <2>1, <2>2, <2>3
<1>5. /\ len <= D + 1 /\ z \in [0..D -> Nat] /\ \A d \in 0..D : z[d] <= Len(lev[d])
      /\ FrameAt(lev, oo, z, len - 1, it[len], PathTo(it, len - 1))
      /\ \A d \in 1..D : d >= len => z[d] = oo[d][z[d - 1]]
  <2>1. FrameAt(lev, oo, z, len - 1, it[(len - 1) + 1], PathTo(it, len - 1))
    BY <1>1, <1>2, <1>3 DEF Iterates
  <2> QED BY <1>1, <1>2, <1>3, <2>1 DEF Iterates
<1>6. PICK b \in Nat :
        /\ z[len - 1] = b + it[len].at
        /\ len - 1 = 0 => b = 0 /\ Len(it[len].of.elems) = Len(lev[0])
        /\ len - 1 # 0 => b + Len(it[len].of.elems) = oo[len - 1][z[(len - 1) - 1]]
  BY <1>5 DEF FrameAt
<1>7. it[len].at = Len(it[len].of.elems) /\ it[len].at \in Nat
  BY <1>4, <1>5 DEF FrameAt
<1>8. u = <<>> => z[0] = Len(lev[0])
  <2> SUFFICES ASSUME u = <<>> PROVE z[0] = Len(lev[0])
    OBVIOUS
  <2>1. len = 1 /\ len - 1 = 0
    BY <1>4
  <2> QED BY <1>6, <1>7, <2>1
<1>9. \A d \in 1..D : d >= len - 1 => z[d] = oo[d][z[d - 1]]
  <2> SUFFICES ASSUME NEW d \in 1..D, d >= len - 1 PROVE z[d] = oo[d][z[d - 1]]
    OBVIOUS
  <2>1. CASE d = len - 1
    <3>1. len - 1 # 0
      BY <2>1
    <3> QED BY <1>6, <1>7, <2>1, <3>1
  <2>2. CASE d # len - 1
    <3>1. d >= len
      BY <1>3, <2>2
    <3> QED BY <1>5, <3>1
  <2> QED BY <2>1, <2>2
<1>10. \A d \in 0..(Len(u) - 1) : FrameAt(lev, oo, z, d, u[d + 1], PathTo(u, d))
  <2> SUFFICES ASSUME NEW d \in 0..(Len(u) - 1) PROVE FrameAt(lev, oo, z, d, u[d + 1], PathTo(u, d))
    OBVIOUS
  <2>1. d \in 0..(Len(it) - 1) /\ \A k \in 1..(d + 1) : k \in 1..(len - 1)
    BY <1>1, <1>3, <1>4
  <2>2. \A k \in 1..(d + 1) : u[k] = it[k]
    BY <1>4, <2>1
  <2>3. Len(it) \in Nat
    BY <1>1, <1>3
  <2> QED BY <1>2, <2>1, <2>2, <2>3, FrameKept
<1>11. Len(u) <= D + 1
  BY <1>3, <1>4, <1>5
<1>12. Iterates(D, lev, oo, u, z)
  BY <1>4, <1>5, <1>8, <1>9, <1>10, <1>11 DEF Iterates
<1> QED BY <1>1, <1>2, <1>12 DEF IterIn

\* The iterators it and u are in the same entries of the outermost d containers.
SameUpTo(it, u, d) == \A k \in 1..d : u[k] = it[k]

\* The iterator with n entries of the innermost container passed.
PassTo(it, n) == [it EXCEPT ![Len(it)].at = n]

\* In u, n entries of the innermost container of it are passed.
IsPassedTo(V, it, n, u) ==
    /\ u \in Seq(Places(V)) /\ Len(u) = Len(it) /\ SameUpTo(it, u, Len(it) - 1)
    /\ u[Len(it)].of = it[Len(it)].of /\ u[Len(it)].at = n

\* The iterator in which one more entry of the innermost container is passed.
LEMMA PlacePassed ==
    ASSUME NEW V, NEW it \in Seq(Places(V)), it # <<>>, NEW n \in Nat,
           NEW u, u = PassTo(it, n)
    PROVE  IsPassedTo(V, it, n, u)
<1> DEFINE len == Len(it)
           f == [of |-> it[len].of, at |-> n]
<1>1. len \in Nat /\ len > 0 /\ len \in 1..len /\ DOMAIN it = 1..len
  OBVIOUS
<1>3. it[len] \in Places(V)
  BY <1>1
<1>4. [it[len] EXCEPT !.at = n] = f /\ f \in Places(V)
  BY <1>3 DEF Places
<1>5. f.of = it[len].of /\ f.at = n
  OBVIOUS
<1> HIDE DEF f
<1>6. u = [it EXCEPT ![len] = f]
  BY <1>1, <1>4 DEF PassTo
<1>7. u \in Seq(Places(V)) /\ Len(u) = len /\ u[len] = f /\ \A k \in 1..(len - 1) : u[k] = it[k]
  <2> HIDE DEF len
  <2>1. u \in [1..len -> Places(V)]
    BY <1>1, <1>4, <1>6
  <2>2. u \in Seq(Places(V)) /\ Len(u) = len
    BY <1>1, <2>1
  <2>3. u[len] = f /\ \A k \in 1..(len - 1) : u[k] = it[k]
    BY <1>1, <1>6
  <2> QED BY <2>2, <2>3
<1> QED BY <1>1, <1>5, <1>7 DEF IsPassedTo, SameUpTo

\* The path that leads to an entry of the innermost container.
LEMMA PathNext ==
    ASSUME NEW it, NEW u, NEW d \in Nat, SameUpTo(it, u, d)
    PROVE  /\ PathTo(u, d) = PathTo(it, d)
           /\ PathTo(u, d + 1) = Append(PathTo(it, d), u[d + 1].of.elems[u[d + 1].at].key)
<1> DEFINE s == PathTo(it, d)
           x == u[d + 1].of.elems[u[d + 1].at].key
           V == ToSet(s) \cup {x}
           w == PathTo(u, d + 1)
<1>1. PathTo(u, d) = PathTo(it, d)
  BY DEF PathTo, SameUpTo
<1>2. s = [k \in 1..d |-> s[k]] /\ \A k \in 1..d : s[k] = u[k].of.elems[u[k].at].key
  BY DEF PathTo, SameUpTo
<1>3. w = [k \in 1..(d + 1) |-> w[k]] /\ \A k \in 1..(d + 1) : w[k] = u[k].of.elems[u[k].at].key
  BY DEF PathTo
<1> HIDE DEF s, w
<1>4. s \in [1..d -> V]
  BY <1>2 DEF ToSet
<1>5. s \in Seq(V) /\ Len(s) = d /\ x \in V
  BY <1>4
<1>6. w[d + 1] = x
  BY <1>3
<1> HIDE DEF V, x
<1>7. Append(s, x) \in Seq(V) /\ Len(Append(s, x)) = d + 1
  BY <1>5
<1>8. \A k \in 1..(d + 1) : Append(s, x)[k] = w[k]
  <2> SUFFICES ASSUME NEW k \in 1..(d + 1) PROVE Append(s, x)[k] = w[k]
    OBVIOUS
  <2>1. CASE k = d + 1
    BY <1>5, <1>6, <2>1
  <2>2. CASE k # d + 1
    <3>1. k \in 1..d
      BY <2>2
    <3> QED BY <1>2, <1>3, <1>5, <3>1
  <2> QED BY <2>1, <2>2
<1>9. Append(s, x) = [k \in 1..(d + 1) |-> Append(s, x)[k]]
  <2>1. PICK q : q = Append(s, x)
    OBVIOUS
  <2>2. q \in Seq(V) /\ Len(q) = d + 1
    BY <1>7, <2>1
  <2>3. q \in [1..Len(q) -> V]
    BY <2>2
  <2>4. q = [k \in 1..(d + 1) |-> q[k]]
    BY <2>2, <2>3
  <2> QED BY <2>1, <2>4
<1>10. Append(s, x) = w
  BY <1>3, <1>8, <1>9
<1> QED BY <1>1, <1>10 DEF s, w, x

\* The next entry of its level has value v, and is passed in u.
EntryPassed(lev, oo, u, z, y, len, v) ==
    /\ z[len - 1] + 1 \in 1..Len(lev[len - 1])
    /\ lev[len - 1][z[len - 1] + 1] = Entry(PathTo(u, len), v)
    /\ \A d \in 0..(len - 1) : FrameAt(lev, oo, y, d, u[d + 1], PathTo(u, d))

\* The next entry of the innermost container is the next one of its level.
LEMMA NextEntry ==
    ASSUME NEW D \in Nat, NEW lev, NEW oo, NEW it, NEW z, Iterates(D, lev, oo, it, z),
           NEW len \in Nat, len = Len(it), len > 0, NEW n, n = it[len].at + 1,
           it[len].at # Len(it[len].of.elems),
           NEW u, SameUpTo(it, u, len - 1), u[len].of = it[len].of, u[len].at = n,
           NEW y, \A k \in 0..D : k # len - 1 => y[k] = z[k], y[len - 1] = z[len - 1] + 1
    PROVE  EntryPassed(lev, oo, u, z, y, len, it[len].of.elems[n].val)
<1>1. len - 1 \in 0..(len - 1) /\ (len - 1) + 1 = len /\ len - 1 \in Nat /\ len <= D + 1
  BY DEF Iterates
<1>2. PICK e, path, f : e = len - 1 /\ path = PathTo(it, e) /\ f = it[len]
  OBVIOUS
<1>3. e \in Nat /\ e + 1 = len /\ e \in 0..D
  BY <1>1, <1>2
<1>4. FrameAt(lev, oo, z, e, f, path)
  BY <1>1, <1>2 DEF Iterates
<1>5. IsSequence(f.of.elems) /\ f.at \in Nat /\ f.at <= Len(f.of.elems)
  BY <1>4 DEF FrameAt
<1>6. PICK b \in Nat :
        /\ z[e] = b + f.at
        /\ \A k \in 1..Len(f.of.elems) :
            /\ b + k \in 1..Len(lev[e])
            /\ lev[e][b + k] = Entry(Append(path, f.of.elems[k].key), f.of.elems[k].val)
        /\ e = 0 => b = 0 /\ Len(f.of.elems) = Len(lev[0])
        /\ e # 0 => /\ z[e - 1] # 0
                    /\ b = oo[e][z[e - 1] - 1] /\ b + Len(f.of.elems) = oo[e][z[e - 1]]
  BY <1>4 DEF FrameAt
<1>7. n \in Nat /\ n \in 1..Len(f.of.elems) /\ z[e] + 1 = b + n
  <2>1. Len(f.of.elems) \in Nat
    BY <1>5, SequenceOf
  <2>2. n = f.at + 1 /\ f.at # Len(f.of.elems)
    BY <1>2
  <2>3. z[e] = b + f.at
    BY <1>6
  <2>4. \A a, l \in Nat : a <= l /\ a # l =>
            a + 1 \in Nat /\ a + 1 \in 1..l /\ (b + a) + 1 = b + (a + 1)
    OBVIOUS
  <2> QED BY <1>5, <2>1, <2>2, <2>3, <2>4
<1>8. PathTo(u, len) = Append(path, f.of.elems[n].key) /\ PathTo(u, e) = path
  <2>1. SameUpTo(it, u, e)
    BY <1>2
  <2>2. /\ PathTo(u, e) = PathTo(it, e)
        /\ PathTo(u, e + 1) = Append(PathTo(it, e), u[e + 1].of.elems[u[e + 1].at].key)
    <3>1. e \in Nat
      BY <1>3
    <3> QED BY <2>1, <3>1, PathNext
  <2> QED BY <1>2, <1>3, <2>2
<1>9. z[e] + 1 \in 1..Len(lev[e]) /\ lev[e][z[e] + 1] = Entry(PathTo(u, len), f.of.elems[n].val)
  BY <1>6, <1>7, <1>8
<1>10. ASSUME NEW d \in 0..(len - 1) PROVE FrameAt(lev, oo, y, d, u[d + 1], PathTo(u, d))
  <2>1. CASE d = e
    <3>1. u[d + 1].of = f.of /\ u[d + 1].at = n
      BY <1>2, <1>3, <2>1
    <3>2. y[e] = b + n
      BY <1>2, <1>7
    <3>3. e # 0 => y[e - 1] = z[e - 1]
      <4>1. e # 0 => e - 1 \in 0..D /\ e - 1 # e
        BY <1>3
      <4> QED BY <1>2, <4>1
    <3>4. n <= Len(f.of.elems)
      BY <1>7
    <3>5. PICK g : g = u[d + 1]
      OBVIOUS
    <3>6. g.of = f.of /\ g.at = n /\ PathTo(u, d) = path
      BY <1>8, <2>1, <3>1, <3>5
    <3>7. /\ y[e] = b + g.at
          /\ \A k \in 1..Len(g.of.elems) :
              /\ b + k \in 1..Len(lev[e])
              /\ lev[e][b + k] = Entry(Append(path, g.of.elems[k].key), g.of.elems[k].val)
      BY <1>6, <3>2, <3>6
    <3>8. e = 0 => b = 0 /\ Len(g.of.elems) = Len(lev[0])
      BY <1>6, <3>6
    <3>9. ASSUME e # 0
          PROVE  /\ y[e - 1] # 0
                 /\ b = oo[e][y[e - 1] - 1] /\ b + Len(g.of.elems) = oo[e][y[e - 1]]
      <4>1. y[e - 1] = z[e - 1]
        BY <3>3, <3>9
      <4> QED BY <1>6, <3>6, <3>9, <4>1
    <3>10. IsSequence(g.of.elems) /\ g.at \in Nat /\ g.at <= Len(g.of.elems)
      BY <1>5, <1>7, <3>4, <3>6
    <3>11. FrameAt(lev, oo, y, e, g, path)
      BY <3>7, <3>8, <3>9, <3>10 DEF FrameAt
    <3> QED BY <2>1, <3>5, <3>6, <3>11
  <2>2. CASE d # e
    <3>1. d \in 0..(Len(it) - 1) /\ Len(it) \in Nat
      BY <1>10
    <3>2. \A k \in 1..(d + 1) : u[k] = it[k]
      <4>1. \A k \in 1..(d + 1) : k \in 1..e
        BY <1>2, <1>3, <2>2
      <4> QED BY <1>2, <4>1 DEF SameUpTo
    <3>3. \A k \in 0..d : y[k] = z[k]
      <4>1. \A k \in 0..d : k \in 0..D /\ k # e
        BY <1>2, <1>3, <2>2
      <4> QED BY <1>2, <4>1
    <3> QED BY <3>1, <3>2, <3>3, FrameKept
  <2> QED BY <2>1, <2>2
<1> QED BY <1>2, <1>3, <1>7, <1>9, <1>10 DEF EntryPassed

\* The iterator it goes on to u, which enters the container v.
Enters(c, D, V, it, j, v, u) ==
    /\ Nests(c, D) /\ it \in Seq(Places(V)) /\ it # <<>> /\ IterIn(c, D, it, j)
    /\ Last(it).at # Len(Last(it).of.elems)
    /\ v = Last(it).of.elems[Last(it).at + 1].val /\ IsContainer(v)
    /\ u = Append(PassTo(it, Last(it).at + 1), [of |-> v, at |-> 0])

\* Entering a container passes none of the entries that the iterator is for.
LEMMA IterEnters ==
    ASSUME NEW c, NEW D \in Nat, NEW V, NEW it, NEW j, NEW v, NEW u, Enters(c, D, V, it, j, v, u)
    PROVE  IterIn(c, D, u, j)
<1>1. PICK lev, len, n, w, g : /\ lev = Levels(c, D) /\ len = Len(it) /\ n = it[len].at + 1
                               /\ w = PassTo(it, n) /\ g = [of |-> v, at |-> 0]
  OBVIOUS
<1>2. PICK oo, z : Unfolds(c, D, lev, oo) /\ Iterates(D, lev, oo, it, z) /\ j = z[D]
  <2>1. IterIn(c, D, it, j)
    BY DEF Enters
  <2> QED BY <1>1, <2>1 DEF IterIn
<1>3. len \in Nat /\ len > 0 /\ Last(it) = it[len]
  <2>1. it \in Seq(Places(V)) /\ it # <<>>
    BY DEF Enters
  <2> QED BY <1>1, <2>1 DEF Last
<1>4. it[len].at # Len(it[len].of.elems) /\ v = it[len].of.elems[n].val /\ u = Append(w, g)
  BY <1>1, <1>3, Zenon DEF Enters
<1>5. z \in [0..D -> Nat] /\ len <= D + 1 /\ (\A d \in 0..D : z[d] <= Len(lev[d]))
      /\ \A d \in 1..D : d >= len => z[d] = oo[d][z[d - 1]]
  BY <1>1, <1>2 DEF Iterates
<1>6. len - 1 \in 0..D
  BY <1>3, <1>5
<1> DEFINE y == [z EXCEPT ![len - 1] = z[len - 1] + 1]
<1>7. y \in [0..D -> Nat] /\ y[len - 1] = z[len - 1] + 1 /\ \A k \in 0..D : k # len - 1 => y[k] = z[k]
  BY <1>5, <1>6
<1> HIDE DEF y
<1>8. n \in Nat
  <2>0. len - 1 \in 0..(len - 1)
    BY <1>3
  <2>1. FrameAt(lev, oo, z, len - 1, it[(len - 1) + 1], PathTo(it, len - 1))
    BY <1>1, <1>2, <2>0, Zenon DEF Iterates
  <2>2. it[(len - 1) + 1].at \in Nat /\ (len - 1) + 1 = len
    BY <1>3, <2>1 DEF FrameAt
  <2> QED BY <1>1, <2>2
<1>9. /\ w \in Seq(Places(V)) /\ Len(w) = len
      /\ \A k \in 1..(len - 1) : w[k] = it[k]
      /\ w[len].of = it[len].of /\ w[len].at = n
  <2>1. it \in Seq(Places(V)) /\ it # <<>> /\ w = PassTo(it, n) /\ Len(it) = len
    BY <1>1 DEF Enters
  <2>2. IsPassedTo(V, it, n, w)
    BY <1>8, <2>1, PlacePassed
  <2> QED BY <2>1, <2>2 DEF IsPassedTo, SameUpTo
<1>10. /\ Len(u) = len + 1 /\ u[len + 1] = g /\ u # <<>> /\ \A k \in 1..len : u[k] = w[k]
  <2>1. g \in {g} \cup Places(V) /\ w \in Seq({g} \cup Places(V))
    <3>1. Places(V) \subseteq {g} \cup Places(V) /\ g \in {g} \cup Places(V)
      OBVIOUS
    <3> QED BY <1>9, <3>1, SequenceOfMore, Zenon
  <2>2. \A S : \A s \in Seq(S), x \in S :
            /\ Len(Append(s, x)) = Len(s) + 1 /\ Append(s, x)[Len(s) + 1] = x
            /\ \A k \in 1..Len(s) : Append(s, x)[k] = s[k]
    OBVIOUS
  <2>3. /\ Len(u) = len + 1 /\ u[len + 1] = g /\ \A k \in 1..len : u[k] = w[k]
    <3>1. PICK S : S = {g} \cup Places(V)
      OBVIOUS
    <3>2. w \in Seq(S) /\ g \in S
      BY <2>1, <3>1
    <3>3. /\ Len(Append(w, g)) = Len(w) + 1 /\ Append(w, g)[Len(w) + 1] = g
          /\ \A k \in 1..Len(w) : Append(w, g)[k] = w[k]
      BY <3>2
    <3> QED BY <1>4, <1>9, <3>3
  <2> QED BY <1>3, <2>3
<1>11. /\ \A k \in 1..(len - 1) : u[k] = it[k]
       /\ u[len].of = it[len].of /\ u[len].at = n
  <2>1. len \in 1..len /\ \A k \in 1..(len - 1) : k \in 1..len
    BY <1>3
  <2> QED BY <1>9, <1>10, <2>1
<1>12. SameUpTo(it, u, len - 1)
  BY <1>11 DEF SameUpTo
<1>13. /\ z[len - 1] + 1 \in 1..Len(lev[len - 1])
       /\ lev[len - 1][z[len - 1] + 1] = Entry(PathTo(u, len), v)
       /\ \A d \in 0..(len - 1) : FrameAt(lev, oo, y, d, u[d + 1], PathTo(u, d))
  <2>1. len = Len(it) /\ n = it[len].at + 1
    BY <1>1
  <2>2. y[len - 1] = z[len - 1] + 1
    BY <1>7
  <2>3. /\ z[len - 1] + 1 \in 1..Len(lev[len - 1])
        /\ lev[len - 1][z[len - 1] + 1] = Entry(PathTo(u, len), it[len].of.elems[n].val)
        /\ \A d \in 0..(len - 1) : FrameAt(lev, oo, y, d, u[d + 1], PathTo(u, d))
    <3>1. Iterates(D, lev, oo, it, z) /\ len \in Nat /\ len > 0
      BY <1>2, <1>3
    <3>2. it[len].at # Len(it[len].of.elems)
      BY <1>4
    <3>3. SameUpTo(it, u, len - 1) /\ u[len].of = it[len].of /\ u[len].at = n
      BY <1>11, <1>12
    <3>4. PICK x : x = y
      OBVIOUS
    <3>5. (\A k \in 0..D : k # len - 1 => x[k] = z[k]) /\ x[len - 1] = z[len - 1] + 1
      BY <1>7, <2>2, <3>4
    <3>6. EntryPassed(lev, oo, u, z, x, len, it[len].of.elems[n].val)
      BY <2>1, <3>1, <3>2, <3>3, <3>5, NextEntry
    <3> QED BY <3>4, <3>6 DEF EntryPassed
  <2> QED BY <1>4, <2>3
<1>14. PICK E : E = Entry(PathTo(u, len), v)
  OBVIOUS
<1>15. E.val = v /\ E.key = PathTo(u, len)
  BY <1>14, EntryHas
<1>16. len - 1 < D /\ IsSequence(v.elems) /\ len \in 1..D /\ len \in 0..D
  <2>1. IsSequence(lev[len - 1])
    BY <1>2, <1>6 DEF Unfolds
  <2>2. E \in ToSet(lev[len - 1])
    BY <1>13, <1>14, <2>1, SequenceOf DEF ToSet
  <2>3. len - 1 < D /\ IsSequence(E.val.elems)
    <3>1. Nests(c, D)
      BY DEF Enters
    <3>2. \A d \in 0..D : \A e \in ToSet(lev[d]) : IsContainer(e.val) => d < D /\ IsSequence(e.val.elems)
      BY <1>1, <3>1, Zenon DEF Nests
    <3>3. IsContainer(E.val)
      BY <1>15, Zenon DEF Enters
    <3> QED BY <1>6, <2>2, <3>2, <3>3, Zenon
  <2>4. \A k \in Nat : k > 0 /\ k - 1 < D => k \in 1..D /\ k \in 0..D
    OBVIOUS
  <2> QED BY <1>3, <1>15, <2>3, <2>4
<1>17. Opened(E) = Under(PathTo(u, len), v)
  <2>1. IsContainer(E.val)
    BY <1>15, Zenon DEF Enters
  <2>2. Opened(E) = Under(E.key, E.val)
    BY <2>1, Zenon DEF Opened
  <2> QED BY <1>15, <2>2, Zenon
<1>18. OpensTo(lev, oo, len)
  BY <1>2, <1>16, NextLevel
<1> DEFINE b == oo[len][z[len - 1]]
           m == Len(v.elems)
<1>19. /\ m \in Nat /\ Len(Opened(E)) = m
       /\ \A k \in 1..m : Opened(E)[k] = Entry(Append(PathTo(u, len), v.elems[k].key), v.elems[k].val)
  <2>1. IsSequence(v.elems)
    BY <1>16
  <2>2. m \in Nat
    BY <2>1, SequenceOf
  <2> HIDE DEF m
  <2>3. PICK path : path = PathTo(u, len)
    OBVIOUS
  <2>4. /\ Len(Under(path, v)) = m
        /\ \A k \in 1..m : Under(path, v)[k] = Entry(Append(path, v.elems[k].key), v.elems[k].val)
    BY <2>1, UnderIs, Zenon DEF m
  <2> QED BY <1>17, <2>2, <2>3, <2>4, Zenon
<1>20. /\ b \in Nat /\ oo[len][z[len - 1] + 1] = b + m
       /\ \A k \in 1..m : b + k \in 1..Len(lev[len]) /\ lev[len][b + k] = Opened(E)[k]
  <2>1. PICK x : x = z[len - 1] + 1
    OBVIOUS
  <2>2. x \in 1..Len(lev[len - 1]) /\ lev[len - 1][x] = E /\ x - 1 = z[len - 1] /\ z[len - 1] \in Nat
    BY <1>5, <1>6, <1>13, <1>14, <2>1
  <2>3. oo[len] \in [0..Len(lev[len - 1]) -> Nat]
    BY <1>18 DEF OpensTo
  <2>4. z[len - 1] \in 0..Len(lev[len - 1])
    <3>1. Len(lev[len - 1]) \in Nat
      BY <1>2, <1>16, NextLevel
    <3> QED BY <2>2, <3>1
  <2>5. /\ oo[len][x] = oo[len][x - 1] + Len(Opened(lev[len - 1][x]))
        /\ \A k \in 1..Len(Opened(lev[len - 1][x])) :
            /\ oo[len][x - 1] + k \in 1..Len(lev[len])
            /\ lev[len][oo[len][x - 1] + k] = Opened(lev[len - 1][x])[k]
    BY <1>18, <2>2 DEF OpensTo
  <2> QED BY <1>19, <2>1, <2>2, <2>3, <2>4, <2>5, Zenon
<1>21. z[len] = b /\ y[len] = b
  <2>1. len # len - 1
    BY <1>3
  <2>2. z[len] = oo[len][z[len - 1]]
    <3>1. len >= len
      BY <1>3
    <3> QED BY <1>5, <1>16, <3>1
  <2>3. y[len] = z[len]
    BY <1>7, <1>16, <2>1
  <2> QED BY <2>2, <2>3
<1> HIDE DEF b, m
<1>22. FrameAt(lev, oo, y, len, g, PathTo(u, len))
  <2>1. g.of = v /\ g.at = 0
    BY <1>1
  <2>2. \A k \in 1..m : /\ b + k \in 1..Len(lev[len])
                        /\ lev[len][b + k] = Entry(Append(PathTo(u, len), v.elems[k].key), v.elems[k].val)
    BY <1>19, <1>20, Zenon
  <2>3. y[len] = b + 0 /\ len # 0
    BY <1>3, <1>20, <1>21
  <2>4. y[len - 1] # 0 /\ y[len - 1] - 1 = z[len - 1]
    <3>1. z[len - 1] \in Nat
      BY <1>5, <1>6
    <3>2. \A k \in Nat : k + 1 # 0 /\ (k + 1) - 1 = k
      OBVIOUS
    <3> QED BY <1>7, <3>1, <3>2
  <2>5. b = oo[len][y[len - 1] - 1] /\ b + m = oo[len][y[len - 1]]
    BY <1>7, <1>20, <2>4, Zenon DEF b
  <2>6. Len(v.elems) = m /\ 0 <= m
    <3>1. Len(v.elems) = m
      BY DEF m
    <3>2. \A k \in Nat : 0 <= k
      OBVIOUS
    <3> QED BY <1>19, <3>1, <3>2
  <2>7. PICK path : path = PathTo(u, len)
    OBVIOUS
  <2>8. IsSequence(g.of.elems) /\ g.at \in Nat /\ g.at <= Len(g.of.elems)
    BY <1>16, <2>1, <2>6
  <2>9. /\ y[len] = b + g.at
        /\ \A k \in 1..Len(g.of.elems) :
            /\ b + k \in 1..Len(lev[len])
            /\ lev[len][b + k] = Entry(Append(path, g.of.elems[k].key), g.of.elems[k].val)
    BY <2>1, <2>2, <2>3, <2>6, <2>7, Zenon
  <2>10. /\ y[len - 1] # 0
         /\ b = oo[len][y[len - 1] - 1] /\ b + Len(g.of.elems) = oo[len][y[len - 1]]
    BY <2>1, <2>4, <2>5, <2>6
  <2>11. FrameAt(lev, oo, y, len, g, path)
    BY <1>20, <2>3, <2>8, <2>9, <2>10 DEF FrameAt
  <2> QED BY <2>7, <2>11
<1>23. \A d \in 0..(Len(u) - 1) : FrameAt(lev, oo, y, d, u[d + 1], PathTo(u, d))
  <2> SUFFICES ASSUME NEW d \in 0..(Len(u) - 1) PROVE FrameAt(lev, oo, y, d, u[d + 1], PathTo(u, d))
    OBVIOUS
  <2>1. CASE d = len
    BY <1>10, <1>22, <2>1
  <2>2. CASE d # len
    <3>1. d \in 0..(len - 1)
      BY <1>3, <1>10, <2>2
    <3> QED BY <1>13, <3>1
  <2> QED BY <2>1, <2>2
<1>24. \A d \in 0..D : y[d] <= Len(lev[d])
  <2> SUFFICES ASSUME NEW d \in 0..D PROVE y[d] <= Len(lev[d])
    OBVIOUS
  <2>1. CASE d = len - 1
    BY <1>7, <1>13, <2>1
  <2>2. CASE d # len - 1
    BY <1>5, <1>7, <2>2
  <2> QED BY <2>1, <2>2
<1>25. \A d \in 1..D : d >= Len(u) => y[d] = oo[d][y[d - 1]]
  <2> SUFFICES ASSUME NEW d \in 1..D, d >= len + 1 PROVE y[d] = oo[d][y[d - 1]]
    BY <1>10
  <2>1. d >= len /\ d \in 0..D /\ d - 1 \in 0..D /\ d # len - 1 /\ d - 1 # len - 1
    BY <1>3
  <2> QED BY <1>5, <1>7, <2>1
<1>26. Len(u) <= D + 1
  <2>1. len + 1 <= D + 1
    BY <1>3, <1>16
  <2> QED BY <1>10, <2>1
<1>27. y[D] = j
  <2>1. D \in 0..D /\ D # len - 1
    BY <1>16
  <2> QED BY <1>2, <1>7, <2>1
<1>28. Iterates(D, lev, oo, u, y)
  BY <1>7, <1>10, <1>23, <1>24, <1>25, <1>26 DEF Iterates
<1> QED BY <1>1, <1>2, <1>27, <1>28 DEF IterIn

\* Entry E, the one behind x others on the level before, is behind o on this one.
IsKept(lev, oo, d, E, x) ==
    /\ oo[d][x] \in Nat /\ oo[d][x + 1] = oo[d][x] + 1
    /\ oo[d][x] + 1 \in 1..Len(lev[d]) /\ lev[d][oo[d][x] + 1] = E

\* What an entry that is no container is on the next level.
LEMMA ScalarKept ==
    ASSUME NEW c, NEW D \in Nat, NEW lev, NEW oo, Unfolds(c, D, lev, oo),
           NEW d \in 1..D, NEW E, ~IsContainer(E.val),
           NEW x \in Nat, x + 1 \in 1..Len(lev[d - 1]), lev[d - 1][x + 1] = E
    PROVE  IsKept(lev, oo, d, E, x)
<1>1. OpensTo(lev, oo, d) /\ Len(lev[d - 1]) \in Nat
  BY NextLevel
<1>2. PICK w : w = x + 1
  OBVIOUS
<1>3. w \in 1..Len(lev[d - 1]) /\ lev[d - 1][w] = E /\ w - 1 = x
  BY <1>2
<1>4. Opened(E) = <<E>>
  BY DEF Opened
<1>5. Len(Opened(E)) = 1 /\ Opened(E)[1] = E
  BY <1>4
<1>6. /\ oo[d][w] = oo[d][w - 1] + Len(Opened(lev[d - 1][w]))
      /\ \A k \in 1..Len(Opened(lev[d - 1][w])) :
            /\ oo[d][w - 1] + k \in 1..Len(lev[d])
            /\ lev[d][oo[d][w - 1] + k] = Opened(lev[d - 1][w])[k]
  BY <1>1, <1>3 DEF OpensTo
<1>7. oo[d] \in [0..Len(lev[d - 1]) -> Nat]
  BY <1>1 DEF OpensTo
<1>8. x \in 0..Len(lev[d - 1])
  BY <1>1, <1>3
<1>9. 1 \in 1..1
  OBVIOUS
<1> QED BY <1>2, <1>3, <1>5, <1>6, <1>7, <1>8, <1>9 DEF IsKept

\* After the next entry of the iterator, which has value v, the iterator is u.
NextScalar(c, D, u, j, v) ==
    /\ IterIn(c, D, u, j + 1) /\ j + 1 \in 1..Len(Scalars(c, D))
    /\ Scalars(c, D)[j + 1] = Entry(PathTo(u, Len(u)), v)

\* Passing an entry that is no container, or any entry of EACH, passes one of
\* those that the iterator is for: the next one.
LEMMA IterRows ==
    ASSUME NEW c, NEW D \in Nat, NEW V, NEW it \in Seq(Places(V)), it # <<>>,
           NEW j, IterIn(c, D, it, j), Last(it).at # Len(Last(it).of.elems),
           NEW v, v = Last(it).of.elems[Last(it).at + 1].val, D = 0 \/ ~IsContainer(v),
           NEW u, u = PassTo(it, Last(it).at + 1)
    PROVE  NextScalar(c, D, u, j, v)
<1>1. PICK lev, len, n : lev = Levels(c, D) /\ len = Len(it) /\ n = it[len].at + 1
  OBVIOUS
<1>2. PICK oo, z : Unfolds(c, D, lev, oo) /\ Iterates(D, lev, oo, it, z) /\ j = z[D]
  BY <1>1 DEF IterIn
<1>3. len \in Nat /\ len > 0 /\ Last(it) = it[len]
  BY <1>1 DEF Last
<1>4. it[len].at # Len(it[len].of.elems) /\ v = it[len].of.elems[n].val /\ u = PassTo(it, n)
  BY <1>1, <1>3
<1>5. z \in [0..D -> Nat] /\ len <= D + 1 /\ (\A d \in 0..D : z[d] <= Len(lev[d]))
      /\ \A d \in 1..D : d >= len => z[d] = oo[d][z[d - 1]]
  BY <1>1, <1>2 DEF Iterates
<1>6. len - 1 \in 0..D /\ len - 1 \in Nat
  BY <1>3, <1>5
<1>7. n \in Nat
  <2>1. FrameAt(lev, oo, z, len - 1, it[(len - 1) + 1], PathTo(it, len - 1))
    BY <1>1, <1>2, <1>3 DEF Iterates
  <2>2. it[(len - 1) + 1].at \in Nat /\ (len - 1) + 1 = len
    BY <1>3, <2>1 DEF FrameAt
  <2> QED BY <1>1, <2>2
<1>8. PICK y : y = [d \in 0..D |-> IF d >= len - 1 THEN z[d] + 1 ELSE z[d]]
  OBVIOUS
<1>9. y \in [0..D -> Nat] /\ \A d \in 0..D : y[d] = IF d >= len - 1 THEN z[d] + 1 ELSE z[d]
  BY <1>5, <1>6, <1>8
<1>10. /\ u \in Seq(Places(V)) /\ Len(u) = len /\ SameUpTo(it, u, len - 1)
       /\ u[len].of = it[len].of /\ u[len].at = n
  <2>1. IsPassedTo(V, it, n, u)
    BY <1>4, <1>7, PlacePassed
  <2> QED BY <1>1, <2>1 DEF IsPassedTo
<1>11. PICK x : x = [z EXCEPT ![len - 1] = z[len - 1] + 1]
  OBVIOUS
<1>12. (\A k \in 0..D : k # len - 1 => x[k] = z[k]) /\ x[len - 1] = z[len - 1] + 1
  BY <1>5, <1>6, <1>11
<1>13. EntryPassed(lev, oo, u, z, x, len, v)
  <2>1. len = Len(it) /\ n = it[len].at + 1
    BY <1>1
  <2>2. Iterates(D, lev, oo, it, z) /\ len \in Nat /\ len > 0
    BY <1>2, <1>3
  <2>3. it[len].at # Len(it[len].of.elems)
    BY <1>4
  <2>4. SameUpTo(it, u, len - 1) /\ u[len].of = it[len].of /\ u[len].at = n
    BY <1>10
  <2>5. EntryPassed(lev, oo, u, z, x, len, it[len].of.elems[n].val)
    BY <1>12, <2>1, <2>2, <2>3, <2>4, NextEntry
  <2> QED BY <1>4, <2>5
<1>14. PICK E : E = Entry(PathTo(u, len), v)
  OBVIOUS
<1>15. E.val = v
  BY <1>14 DEF Entry
\* The entry is the next one of its level and of all deeper ones.
<1> DEFINE Bad == { d \in 0..D : d >= len - 1 /\ ~(z[d] + 1 \in 1..Len(lev[d]) /\ lev[d][z[d] + 1] = E) }
<1>16. Bad = {}
  <2> SUFFICES ASSUME Bad # {} PROVE FALSE
    OBVIOUS
  <2>1. PICK d \in Bad : \A k \in Bad : d <= k
    <3>1. Bad \subseteq Nat
      OBVIOUS
    <3> HIDE DEF Bad
    <3> QED BY <3>1, LeastElement
  <2>2. d \in 0..D /\ d >= len - 1 /\ ~(z[d] + 1 \in 1..Len(lev[d]) /\ lev[d][z[d] + 1] = E)
    OBVIOUS
  <2>3. d # len - 1
    BY <1>13, <1>14, <2>2 DEF EntryPassed
  <2>4. d \in 1..D /\ d - 1 \in 0..D /\ d - 1 >= len - 1 /\ ~(d <= d - 1) /\ d >= len /\ D # 0
    <3>1. \A a, b \in Nat : b <= D /\ b >= a - 1 /\ b # a - 1 /\ a > 0 =>
            b \in 1..D /\ b - 1 \in 0..D /\ b - 1 >= a - 1 /\ ~(b <= b - 1) /\ b >= a /\ D # 0
      OBVIOUS
    <3>2. d \in Nat /\ d <= D
      BY <2>2
    <3> QED BY <1>3, <2>2, <2>3, <3>1, <3>2
  <2>5. z[d - 1] + 1 \in 1..Len(lev[d - 1]) /\ lev[d - 1][z[d - 1] + 1] = E
    <3>1. d - 1 \notin Bad
      <4> HIDE DEF Bad
      <4> QED BY <2>1, <2>4
    <3> QED BY <2>4, <3>1
  <2>6. ~IsContainer(E.val) /\ z[d - 1] \in Nat /\ z[d] = oo[d][z[d - 1]]
    BY <1>5, <1>15, <2>4
  <2>7. oo[d][z[d - 1]] + 1 \in 1..Len(lev[d]) /\ lev[d][oo[d][z[d - 1]] + 1] = E
    <3>1. PICK k : k = z[d - 1]
      OBVIOUS
    <3>2. IsKept(lev, oo, d, E, k)
      BY <1>2, <2>4, <2>5, <2>6, <3>1, ScalarKept
    <3> QED BY <3>1, <3>2 DEF IsKept
  <2> QED BY <2>2, <2>6, <2>7
<1>17. \A d \in 0..D : d >= len - 1 => z[d] + 1 \in 1..Len(lev[d]) /\ lev[d][z[d] + 1] = E
  BY <1>16
<1> HIDE DEF Bad
<1>18. \A d \in 1..D : d >= len => y[d] = oo[d][y[d - 1]]
  <2> SUFFICES ASSUME NEW d \in 1..D, d >= len PROVE y[d] = oo[d][y[d - 1]]
    OBVIOUS
  <2>1. d - 1 \in 0..D /\ d - 1 >= len - 1 /\ d \in 0..D /\ d >= len - 1 /\ D # 0
    BY <1>3
  <2>2. z[d - 1] + 1 \in 1..Len(lev[d - 1]) /\ lev[d - 1][z[d - 1] + 1] = E
    BY <1>17, <2>1
  <2>3. ~IsContainer(E.val) /\ z[d - 1] \in Nat /\ z[d] = oo[d][z[d - 1]]
    BY <1>5, <1>15, <2>1
  <2>4. oo[d][z[d - 1] + 1] = oo[d][z[d - 1]] + 1
    <3>1. PICK k : k = z[d - 1]
      OBVIOUS
    <3>2. IsKept(lev, oo, d, E, k)
      BY <1>2, <2>2, <2>3, <3>1, ScalarKept
    <3> QED BY <3>1, <3>2 DEF IsKept
  <2>5. y[d] = z[d] + 1 /\ y[d - 1] = z[d - 1] + 1
    BY <1>9, <2>1
  <2> QED BY <2>3, <2>4, <2>5
<1>19. \A d \in 0..D : y[d] <= Len(lev[d])
  <2> SUFFICES ASSUME NEW d \in 0..D PROVE y[d] <= Len(lev[d])
    OBVIOUS
  <2>1. CASE d >= len - 1
    <3>1. y[d] = z[d] + 1 /\ z[d] + 1 \in 1..Len(lev[d])
      BY <1>9, <1>17, <2>1
    <3>2. \A a, b : a \in 1..b => a <= b
      OBVIOUS
    <3> QED BY <3>1, <3>2
  <2>2. CASE ~(d >= len - 1)
    BY <1>5, <1>9, <2>2
  <2> QED BY <2>1, <2>2
<1>20. \A d \in 0..(len - 1) : FrameAt(lev, oo, y, d, u[d + 1], PathTo(u, d))
  <2> SUFFICES ASSUME NEW d \in 0..(len - 1) PROVE FrameAt(lev, oo, y, d, u[d + 1], PathTo(u, d))
    OBVIOUS
  <2>1. FrameAt(lev, oo, x, d, u[d + 1], PathTo(u, d))
    BY <1>13 DEF EntryPassed
  <2>2. y[d] = x[d]
    <3>1. d \in 0..D /\ (d >= len - 1 => d = len - 1)
      BY <1>3, <1>5
    <3> QED BY <1>9, <1>12, <3>1
  <2>3. d # 0 => y[d - 1] = x[d - 1]
    <3>1. d # 0 => d - 1 \in 0..D /\ ~(d - 1 >= len - 1) /\ d - 1 # len - 1
      BY <1>3, <1>5
    <3> QED BY <1>9, <1>12, <3>1
  <2> QED BY <2>1, <2>2, <2>3 DEF FrameAt
<1>21. Iterates(D, lev, oo, u, y)
  <2>1. u # <<>>
    BY <1>3, <1>10
  <2> QED BY <1>5, <1>9, <1>10, <1>18, <1>19, <1>20, <2>1 DEF Iterates
<1>22. D \in 0..D /\ D >= len - 1
  BY <1>3, <1>5
<1>23. y[D] = j + 1 /\ j + 1 \in 1..Len(lev[D]) /\ lev[D][j + 1] = E
  BY <1>2, <1>9, <1>17, <1>22
<1>24. IterIn(c, D, u, j + 1)
  BY <1>1, <1>2, <1>21, <1>23 DEF IterIn
<1> QED BY <1>1, <1>10, <1>14, <1>23, <1>24 DEF NextScalar, Scalars

-----------------------------------------------------------------------------
(* What EACH and FLATTEN visit *)

\* How many levels deep EACH and FLATTEN look.
Level(node) == IF node.kind = "FLATTEN" THEN Depth ELSE 0

\* The value of a row has no container at the path, or one that nests no deeper
\* than Depth.
DeepEnough(node, v) == IsContainer(At(v, node.path)) => Nests(At(v, node.path), Depth)

\* EACH iterates over one level, FLATTEN over all of them.
LEMMA LevelOf ==
    ASSUME NEW node, NEW c, Nests(c, Depth)
    PROVE  Level(node) \in Nat /\ NestsTo(c, Level(node))
<1>1. Depth \in Nat
  BY DepthAssumption
<1>2. NestsTo(c, Depth) /\ IsSequence(c.elems)
  BY DEF Nests, NestsTo
<1>3. NestsTo(c, 0)
  <2>1. \A d \in 0..0 : ~(d < 0)
    OBVIOUS
  <2> QED BY <1>2, <2>1 DEF NestsTo
<1> QED BY <1>1, <1>2, <1>3 DEF Level

\* The entries that are visited are those that the iterator is for.
LEMMA VisitedIs ==
    ASSUME NEW node, node.kind \in Flattens, NEW v, DeepEnough(node, v),
           NEW c, c = At(v, node.path)
    PROVE  /\ IsContainer(c) => Visited(node, v) = Scalars(c, Level(node))
           /\ ~IsContainer(c) => Visited(node, v) = <<>>
           /\ IsSequence(Visited(node, v))
<1>1. CASE ~IsContainer(c)
  <2>1. Visited(node, v) = <<>>
    BY <1>1 DEF Visited
  <2>2. IsSequence(<<>>)
    <3>1. <<>> \in Seq({})
      OBVIOUS
    <3> QED BY <3>1, IsSequenceOf
  <2> QED BY <1>1, <2>1, <2>2
<1>2. CASE IsContainer(c)
  <2>1. Nests(c, Depth)
    BY <1>2 DEF DeepEnough
  <2>2. PICK D : D = Level(node)
    OBVIOUS
  <2>3. D \in Nat /\ NestsTo(c, D)
    BY <2>1, <2>2, LevelOf
  <2>4. IsSequence(Scalars(c, D))
    <3>1. PICK oo : Unfolds(c, D, Levels(c, D), oo)
      BY <2>3, LevelsUnfold
    <3>2. D \in 0..D
      BY <2>3
    <3> QED BY <3>1, <3>2 DEF Unfolds, Scalars
  <2>5. Visited(node, v) = Scalars(c, D)
    <3>1. CASE node.kind = "FLATTEN"
      BY <1>2, <2>2, <3>1 DEF Visited, Level
    <3>2. CASE node.kind = "EACH"
      <4>1. D = 0 /\ Levels(c, 0)[0] = Under(<<>>, c)
        BY <2>2, <3>2, LevelsAre DEF Level
      <4>2. \A k : Append(<<>>, k) = <<k>>
        OBVIOUS
      <4>3. Visited(node, v) = [i \in DOMAIN c.elems |-> Entry(<<c.elems[i].key>>, c.elems[i].val)]
        BY <1>2, <3>2 DEF Visited
      <4>4. Under(<<>>, c) = [i \in DOMAIN c.elems |-> Entry(<<c.elems[i].key>>, c.elems[i].val)]
        BY <4>2 DEF Under
      <4> QED BY <4>1, <4>3, <4>4 DEF Scalars
    <3> QED BY <3>1, <3>2 DEF Flattens
  <2> QED BY <1>2, <2>2, <2>4, <2>5
<1> QED BY <1>1, <1>2

\* The iterator of EACH and FLATTEN has passed j of the entries to visit.
IterOf(node, v, it, j) ==
    IF IsContainer(At(v, node.path)) THEN IterIn(At(v, node.path), Level(node), it, j)
                                     ELSE it = <<>> /\ j = 0

\* An iterator has visited at most what there is, and one at its end all of it.
LEMMA IterOfCounts ==
    ASSUME NEW node, node.kind \in Flattens, NEW v, DeepEnough(node, v),
           NEW it, NEW j, IterOf(node, v, it, j)
    PROVE  /\ j \in Nat /\ j <= Len(Visited(node, v))
           /\ it = <<>> => j = Len(Visited(node, v))
<1>1. PICK c, D : c = At(v, node.path) /\ D = Level(node)
  OBVIOUS
<1>2. CASE ~IsContainer(c)
  <2>1. Visited(node, v) = <<>> /\ j = 0
    BY <1>1, <1>2, VisitedIs DEF IterOf
  <2>2. Len(<<>>) = 0
    OBVIOUS
  <2> QED BY <2>1, <2>2
<1>3. CASE IsContainer(c)
  <2>1. IterIn(c, D, it, j) /\ Nests(c, Depth)
    BY <1>1, <1>3 DEF IterOf, DeepEnough
  <2>2. D \in Nat /\ Visited(node, v) = Scalars(c, D)
    BY <1>1, <1>3, <2>1, LevelOf, VisitedIs
  <2>3. j \in Nat /\ j <= Len(Scalars(c, D))
    BY <2>1, <2>2, IterCounts
  <2>4. it = <<>> => j = Len(Scalars(c, D))
    BY <2>1, <2>2, IterEnd
  <2> QED BY <2>2, <2>3, <2>4
<1> QED BY <1>2, <1>3

\* A new iterator has visited nothing (flattenIterNew).
LEMMA IterOfNew ==
    ASSUME NEW node, NEW v, DeepEnough(node, v), NEW c, c = At(v, node.path),
           NEW it, it = IF IsContainer(c) THEN <<[of |-> c, at |-> 0]>> ELSE <<>>
    PROVE  IterOf(node, v, it, 0)
<1>1. CASE ~IsContainer(c)
  BY <1>1 DEF IterOf
<1>2. CASE IsContainer(c)
  <2>1. Nests(c, Depth)
    BY <1>2 DEF DeepEnough
  <2>2. PICK D : D = Level(node)
    OBVIOUS
  <2>3. D \in Nat /\ NestsTo(c, D)
    BY <2>1, <2>2, LevelOf
  <2>4. IterIn(c, D, <<[of |-> c, at |-> 0]>>, 0)
    BY <2>3, IterNew
  <2> QED BY <1>2, <2>2, <2>4 DEF IterOf
<1> QED BY <1>1, <1>2

\* An iterator that is not at its end is over a container.
LEMMA IterOfContainer ==
    ASSUME NEW node, NEW v, DeepEnough(node, v), NEW it, it # <<>>, NEW j, IterOf(node, v, it, j),
           NEW c, c = At(v, node.path), NEW D, D = Level(node)
    PROVE  IsContainer(c) /\ IterIn(c, D, it, j) /\ Nests(c, Depth) /\ D \in Nat
<1>1. IsContainer(c) /\ IterIn(c, D, it, j) /\ Nests(c, Depth)
  BY DEF IterOf, DeepEnough
<1> QED BY <1>1, LevelOf

\* It leaves a container that is exhausted.
LEMMA IterOfLeaves ==
    ASSUME NEW node, NEW v, DeepEnough(node, v), NEW V, NEW it \in Seq(V), it # <<>>,
           NEW j, IterOf(node, v, it, j), Last(it).at = Len(Last(it).of.elems)
    PROVE  IterOf(node, v, Front(it), j)
<1>1. PICK c, D : c = At(v, node.path) /\ D = Level(node)
  OBVIOUS
<1>2. IsContainer(c) /\ IterIn(c, D, it, j) /\ D \in Nat
  BY <1>1, IterOfContainer
<1>3. IterIn(c, D, Front(it), j)
  BY <1>2, IterLeaves
<1> QED BY <1>1, <1>2, <1>3 DEF IterOf

\* FLATTEN enters a container.
LEMMA IterOfEnters ==
    ASSUME NEW node, node.kind = "FLATTEN", NEW v, DeepEnough(node, v),
           NEW V, NEW it \in Seq(Places(V)), it # <<>>,
           NEW j, IterOf(node, v, it, j), Last(it).at # Len(Last(it).of.elems),
           NEW w, w = Last(it).of.elems[Last(it).at + 1].val, IsContainer(w),
           NEW u, u = Append(PassTo(it, Last(it).at + 1), [of |-> w, at |-> 0])
    PROVE  IterOf(node, v, u, j)
<1>1. PICK c, D : c = At(v, node.path) /\ D = Level(node)
  OBVIOUS
<1>2. IsContainer(c) /\ IterIn(c, D, it, j) /\ Nests(c, Depth) /\ D \in Nat
  BY <1>1, IterOfContainer
<1>3. D = Depth
  BY <1>1 DEF Level
<1>4. IterIn(c, D, u, j)
  <2>1. Enters(c, D, V, it, j, w, u)
    BY <1>2, <1>3 DEF Enters
  <2> QED BY <1>2, <2>1, IterEnters
<1> QED BY <1>1, <1>2, <1>4 DEF IterOf

\* Passing an entry to visit: it is the next one.
NextVisited(node, v, u, j, w) ==
    /\ IterOf(node, v, u, j + 1) /\ j \in Nat /\ j + 1 \in 1..Len(Visited(node, v))
    /\ Visited(node, v)[j + 1] = Entry(PathTo(u, Len(u)), w)

\* The next entry is the one that comes next among those that are visited.
LEMMA IterOfRows ==
    ASSUME NEW node, node.kind \in Flattens, NEW v, DeepEnough(node, v),
           NEW V, NEW it \in Seq(Places(V)), it # <<>>,
           NEW j, IterOf(node, v, it, j), Last(it).at # Len(Last(it).of.elems),
           NEW w, w = Last(it).of.elems[Last(it).at + 1].val, ~(node.kind = "FLATTEN" /\ IsContainer(w)),
           NEW u, u = PassTo(it, Last(it).at + 1)
    PROVE  NextVisited(node, v, u, j, w)
<1>1. PICK c, D : c = At(v, node.path) /\ D = Level(node)
  OBVIOUS
<1>2. IsContainer(c) /\ IterIn(c, D, it, j) /\ Nests(c, Depth) /\ D \in Nat
  BY <1>1, IterOfContainer
<1>3. D = 0 \/ ~IsContainer(w)
  BY <1>1 DEF Level
<1>4. NextScalar(c, D, u, j, w)
  BY <1>2, <1>3, IterRows
<1>5. Visited(node, v) = Scalars(c, D)
  BY <1>1, <1>2, VisitedIs
<1>6. j \in Nat
  BY <1>2, IterCounts
<1>7. IterOf(node, v, u, j + 1)
  BY <1>1, <1>2, <1>4 DEF IterOf, NextScalar
<1> QED BY <1>4, <1>5, <1>6, <1>7 DEF NextVisited, NextScalar

-----------------------------------------------------------------------------
(* Where the rows of the operands are among those of a node *)

\* Row i of x with all of y is behind row o[i - 1] of s.
ProductLaid(o, x, y, s) ==
    /\ Len(x) \in Nat /\ Len(y) \in Nat /\ Len(s) \in Nat
    /\ o \in [0..Len(x) -> Nat] /\ o[0] = 0 /\ o[Len(x)] = Len(s)
    /\ \A i, k \in 0..Len(x) : i <= k => o[i] <= o[k]
    /\ \A i \in 1..Len(x) :
        /\ o[i] = o[i - 1] + Len(y)
        /\ \A j \in 1..Len(y) : o[i - 1] + j \in 1..Len(s) /\ s[o[i - 1] + j] = x[i] \o y[j]

\* The rows of a join are laid in groups, one for each row of the left operand.
LEMMA ProductLays ==
    ASSUME NEW x, NEW y, IsSequence(x), IsSequence(y), NEW s, s = Product(x, y)
    PROVE  IsSequence(s) /\ \E o : ProductLaid(o, x, y, s)
<1>1. /\ Len(x) \in Nat /\ DOMAIN x = 1..Len(x)
      /\ Len(y) \in Nat /\ DOMAIN y = 1..Len(y)
  BY SequenceOf
<1> DEFINE Row(i) == [j \in DOMAIN y |-> x[i] \o y[j]]
           rows == [i \in DOMAIN x |-> Row(i)]
<1>2. \A i : Row(i) = [j \in 1..Len(y) |-> Row(i)[j]] /\ \A j \in 1..Len(y) : Row(i)[j] = x[i] \o y[j]
  BY <1>1
<1>3. rows = [i \in 1..Len(x) |-> rows[i]] /\ \A i \in 1..Len(x) : rows[i] = Row(i)
  BY <1>1
<1>4. s = FlattenSeq(rows)
  BY DEF Product
<1> HIDE DEF rows, Row
<1>5. \A i : IsSequence(Row(i)) /\ Len(Row(i)) = Len(y)
  BY <1>1, <1>2, FunctionIsSequence
<1>6. IsSequence(rows) /\ Len(rows) = Len(x)
  BY <1>1, <1>3, FunctionIsSequence
<1>7. \A i \in 1..Len(rows) : IsSequence(rows[i]) /\ Len(rows[i]) = Len(y) /\ Len(rows[i]) \in Nat
  BY <1>1, <1>3, <1>5, <1>6
<1>8. IsSequence(s) /\ \E o : Laid(o, rows, s)
  BY <1>4, <1>6, <1>7, FlattenSeqLays
<1>9. PICK o : Laid(o, rows, s)
  BY <1>8
<1>10. \A i, k \in 0..Len(x) : i <= k => o[i] <= o[k]
  BY <1>1, <1>6, <1>7, <1>9, LaidIncreases
<1>11. Len(s) \in Nat
  BY <1>8, SequenceOf
<1>12. o \in [0..Len(x) -> Nat] /\ o[0] = 0 /\ o[Len(x)] = Len(s)
  BY <1>6, <1>9 DEF Laid
<1>13. ASSUME NEW i \in 1..Len(x)
       PROVE  /\ o[i] = o[i - 1] + Len(y)
              /\ \A j \in 1..Len(y) : o[i - 1] + j \in 1..Len(s) /\ s[o[i - 1] + j] = x[i] \o y[j]
  <2>1. rows[i] = Row(i) /\ Len(rows[i]) = Len(y) /\ i \in 1..Len(rows)
    BY <1>3, <1>6, <1>7
  <2>2. /\ o[i] = o[i - 1] + Len(rows[i])
        /\ \A j \in 1..Len(rows[i]) : o[i - 1] + j \in 1..Len(s) /\ s[o[i - 1] + j] = rows[i][j]
    BY <1>9, <2>1 DEF Laid
  <2> QED BY <1>2, <2>1, <2>2
<1>14. ProductLaid(o, x, y, s)
  BY <1>1, <1>10, <1>11, <1>12, <1>13 DEF ProductLaid
<1> QED BY <1>8, <1>14

\* What is visited in row i of x is behind row o[i - 1] of s.
VisitsLaid(o, node, x, s) ==
    /\ Len(x) \in Nat /\ Len(s) \in Nat
    /\ o \in [0..Len(x) -> Nat] /\ o[0] = 0 /\ o[Len(x)] = Len(s)
    /\ \A i, k \in 0..Len(x) : i <= k => o[i] <= o[k]
    /\ \A i \in 1..Len(x) :
        /\ DeepEnough(node, x[i][1])
        /\ o[i] = o[i - 1] + Len(Visited(node, x[i][1]))
        /\ \A j \in 1..Len(Visited(node, x[i][1])) :
            /\ o[i - 1] + j \in 1..Len(s)
            /\ s[o[i - 1] + j] = WithEntries(node, x[i][1])[j]

\* So are those of EACH and FLATTEN, for each row of what they are applied to.
LEMMA VisitsLay ==
    ASSUME NEW node, node.kind \in Flattens, NEW x, IsSequence(x),
           \A i \in 1..Len(x) : DeepEnough(node, x[i][1]), NEW s, s = FlattenedRows(node, x)
    PROVE  IsSequence(s) /\ \E o : VisitsLaid(o, node, x, s)
<1>1. Len(x) \in Nat /\ DOMAIN x = 1..Len(x)
  BY SequenceOf
<1> DEFINE rows == [i \in DOMAIN x |-> WithEntries(node, x[i][1])]
<1>3. rows = [i \in 1..Len(x) |-> rows[i]] /\ \A i \in 1..Len(x) : rows[i] = WithEntries(node, x[i][1])
  BY <1>1
<1>4. s = FlattenSeq(rows)
  BY DEF FlattenedRows
<1> HIDE DEF rows
<1>5. ASSUME NEW i \in 1..Len(x)
      PROVE  /\ IsSequence(WithEntries(node, x[i][1]))
             /\ Len(WithEntries(node, x[i][1])) = Len(Visited(node, x[i][1]))
             /\ Len(Visited(node, x[i][1])) \in Nat
  <2>1. PICK v : v = x[i][1]
    OBVIOUS
  <2>2. DeepEnough(node, v)
    BY <2>1
  <2>3. PICK es : es = Visited(node, v)
    OBVIOUS
  <2>4. IsSequence(es)
    BY <2>2, <2>3, VisitedIs
  <2>5. Len(es) \in Nat /\ DOMAIN es = 1..Len(es)
    BY <2>4, SequenceOf
  <2>6. PICK w : w = WithEntries(node, v)
    OBVIOUS
  <2>7. w = [j \in 1..Len(es) |-> w[j]]
    BY <2>3, <2>5, <2>6 DEF WithEntries
  <2>8. IsSequence(w) /\ Len(w) = Len(es)
    BY <2>5, <2>7, FunctionIsSequence
  <2> QED BY <2>1, <2>3, <2>5, <2>6, <2>8
<1>6. IsSequence(rows) /\ Len(rows) = Len(x)
  BY <1>1, <1>3, FunctionIsSequence
<1>7. \A i \in 1..Len(rows) : IsSequence(rows[i]) /\ Len(rows[i]) \in Nat
  BY <1>3, <1>5, <1>6
<1>8. IsSequence(s) /\ \E o : Laid(o, rows, s)
  BY <1>4, <1>6, <1>7, FlattenSeqLays
<1>9. PICK o : Laid(o, rows, s)
  BY <1>8
<1>10. \A i, k \in 0..Len(x) : i <= k => o[i] <= o[k]
  BY <1>1, <1>6, <1>7, <1>9, LaidIncreases
<1>11. Len(s) \in Nat
  BY <1>8, SequenceOf
<1>12. o \in [0..Len(x) -> Nat] /\ o[0] = 0 /\ o[Len(x)] = Len(s)
  BY <1>6, <1>9 DEF Laid
<1>13. ASSUME NEW i \in 1..Len(x)
       PROVE  /\ DeepEnough(node, x[i][1])
              /\ o[i] = o[i - 1] + Len(Visited(node, x[i][1]))
              /\ \A j \in 1..Len(Visited(node, x[i][1])) :
                    /\ o[i - 1] + j \in 1..Len(s)
                    /\ s[o[i - 1] + j] = WithEntries(node, x[i][1])[j]
  <2>1. /\ rows[i] = WithEntries(node, x[i][1]) /\ i \in 1..Len(rows)
        /\ Len(rows[i]) = Len(Visited(node, x[i][1]))
    BY <1>3, <1>5, <1>6
  <2>2. /\ o[i] = o[i - 1] + Len(rows[i])
        /\ \A j \in 1..Len(rows[i]) : o[i - 1] + j \in 1..Len(s) /\ s[o[i - 1] + j] = rows[i][j]
    BY <1>9, <2>1 DEF Laid
  <2> QED BY <2>1, <2>2
<1>14. VisitsLaid(o, node, x, s)
  BY <1>1, <1>10, <1>11, <1>12, <1>13 DEF VisitsLaid
<1> QED BY <1>8, <1>14

\* The rows that m gives to each node of t, where off says which operands' rows
\* they begin with.
LaidAt(t, arr, m, o, n) ==
    /\ IsSequence(m[n])
    /\ t[n].kind \in Leaves => m[n] = LeafRows(t[n], arr)
    /\ t[n].kind = "JOIN" => ProductLaid(o, m[t[n].left], m[t[n].right], m[n])
    /\ t[n].kind \in Flattens => VisitsLaid(o, t[n], m[t[n].left], m[n])

Laying(t, arr, m, off) == \A n \in DOMAIN t : LaidAt(t, arr, m, off[n], n)

\* The rows of a leaf have one column.
LEMMA LeafRowsAre ==
    ASSUME NEW t, IsSource(t), NEW arr \in Outers, NEW n \in DOMAIN t, t[n].kind \in Leaves
    PROVE  /\ IsSequence(LeafRows(t[n], arr)) /\ IsSequence(Rows(t[n], arr))
           /\ Len(LeafRows(t[n], arr)) = Len(Rows(t[n], arr))
           /\ \A i \in 1..Len(Rows(t[n], arr)) : LeafRows(t[n], arr)[i] = <<Rows(t[n], arr)[i]>>
<1>1. PICK node, rows, s : node = t[n] /\ rows = Rows(t[n], arr) /\ s = LeafRows(t[n], arr)
  OBVIOUS
<1>2. IsSequence(rows)
  <2>1. CASE node.kind = "PATH"
    <3>1. rows = IF arr.type = "array" THEN Values(arr) ELSE <<>>
      BY <1>1, <2>1 DEF Rows
    <3>2. IsSequence(<<>>)
      <4>1. <<>> \in Seq({})
        OBVIOUS
      <4> QED BY <4>1, IsSequenceOf
    <3>3. arr.type = "array" => IsSequence(Values(arr))
      <4> SUFFICES ASSUME arr.type = "array" PROVE IsSequence(Values(arr))
        OBVIOUS
      <4>1. IsSequence(arr.elems)
        BY OutersAssumption
      <4>2. Len(arr.elems) \in Nat /\ DOMAIN arr.elems = 1..Len(arr.elems)
        BY <4>1, SequenceOf
      <4>3. PICK vs : vs = Values(arr)
        OBVIOUS
      <4>4. vs = [i \in 1..Len(arr.elems) |-> vs[i]]
        BY <4>2, <4>3 DEF Values
      <4> QED BY <4>2, <4>3, <4>4, FunctionIsSequence
    <3> QED BY <3>1, <3>2, <3>3
  <2>2. CASE node.kind = "NULL"
    <3>1. rows = <<NoValue>>
      BY <1>1, <2>2 DEF Rows
    <3>2. <<NoValue>> \in Seq({NoValue})
      OBVIOUS
    <3> QED BY <3>1, <3>2, IsSequenceOf
  <2>3. CASE node.kind \in {"TABLE", "SUBQUERY"}
    <3>1. rows = node.rows
      BY <1>1, <2>3 DEF Rows
    <3>2. IsSequence(node.rows)
      BY <1>1, <2>3 DEF IsSource
    <3> QED BY <3>1, <3>2
  <2> QED BY <1>1, <2>1, <2>2, <2>3 DEF Leaves
<1>3. Len(rows) \in Nat /\ DOMAIN rows = 1..Len(rows)
  BY <1>2, SequenceOf
<1>4. s = [i \in 1..Len(rows) |-> s[i]] /\ \A i \in 1..Len(rows) : s[i] = <<rows[i]>>
  BY <1>1, <1>3 DEF LeafRows
<1>5. IsSequence(s) /\ Len(s) = Len(rows)
  BY <1>3, <1>4, FunctionIsSequence
<1> QED BY <1>1, <1>2, <1>4, <1>5

\* The rows that a FROM clause means are laid like that at each node.
LEMMA MeaningLays ==
    ASSUME NEW c \in Cases, NEW t, t = c.tree, NEW arr \in Outers, NEW m, m = Meaning(t, arr)
    PROVE  \E off : Laying(t, arr, m, off)
<1>1. IsSource(t)
  BY CasesAssumption
<1>2. \A n \in DOMAIN t :
        m[n] = IF t[n].kind \in Leaves THEN LeafRows(t[n], arr)
               ELSE IF t[n].kind = "JOIN" THEN Product(m[t[n].left], m[t[n].right])
               ELSE FlattenedRows(t[n], m[t[n].left])
  BY <1>1, MeaningIs
<1>3. /\ DOMAIN t = 1..Len(t) /\ Len(t) \in Nat
      /\ \A n \in DOMAIN t :
            /\ t[n].kind \in Kinds
            /\ t[n].left \in Nat /\ t[n].left < n
            /\ t[n].right \in Nat /\ t[n].right < n
            /\ t[n].left # 0 <=> t[n].kind \notin Leaves
            /\ t[n].right # 0 <=> t[n].kind = "JOIN"
  BY <1>1, SourceNodes
<1>4. \A n \in DOMAIN t : t[n].kind \in Flattens =>
        \A row \in ToSet(m[t[n].left]) : DeepEnough(t[n], row[1])
  <2> SUFFICES ASSUME NEW n \in DOMAIN t, t[n].kind \in Flattens, NEW row \in ToSet(m[t[n].left])
               PROVE  DeepEnough(t[n], row[1])
    OBVIOUS
  <2>1. n \in { k \in DOMAIN c.tree : c.tree[k].kind \in Flattens }
    OBVIOUS
  <2>2. LET v == At(row[1], c.tree[n].path) IN IsContainer(v) => Nests(v, Depth)
    BY <2>1, DepthAssumption
  <2> QED BY <2>2 DEF DeepEnough
<1> DEFINE Fine(n) == IsSequence(m[n]) /\ \E o : LaidAt(t, arr, m, o, n)
           S == { n \in DOMAIN t : Fine(n) }
<1>5. ASSUME NEW n \in DOMAIN t, \A k \in Operands(t, n) \cap DOMAIN t : Fine(k)
      PROVE  Fine(n)
  <2>1. PICK l, r : l = t[n].left /\ r = t[n].right
    OBVIOUS
  <2>2. /\ l # 0 => l \in Operands(t, n) \cap DOMAIN t
        /\ r # 0 => r \in Operands(t, n) \cap DOMAIN t
    BY <1>3, <2>1 DEF Operands
  <2>3. CASE t[n].kind \in Leaves
    <3>1. t[n].kind # "JOIN" /\ t[n].kind \notin Flattens
      BY <2>3 DEF Leaves, Flattens
    <3>2. m[n] = LeafRows(t[n], arr)
      BY <1>2, <2>3
    <3>3. IsSequence(LeafRows(t[n], arr))
      BY <1>1, <2>3, LeafRowsAre
    <3> QED BY <3>1, <3>2, <3>3 DEF LaidAt
  <2>4. CASE t[n].kind = "JOIN"
    <3>1. t[n].kind \notin Leaves /\ t[n].kind \notin Flattens
      BY <2>4 DEF Leaves, Flattens
    <3>2. PICK x, y, s : x = m[l] /\ y = m[r] /\ s = m[n]
      OBVIOUS
    <3>3. s = Product(x, y)
      BY <1>2, <2>1, <2>4, <3>1, <3>2
    <3>4. IsSequence(x) /\ IsSequence(y)
      BY <1>3, <1>5, <2>1, <2>2, <2>4, <3>1, <3>2
    <3>5. IsSequence(s) /\ \E o : ProductLaid(o, x, y, s)
      BY <3>3, <3>4, ProductLays
    <3> QED BY <2>1, <2>4, <3>1, <3>2, <3>5 DEF LaidAt
  <2>5. CASE t[n].kind \in Flattens
    <3>1. t[n].kind \notin Leaves /\ t[n].kind # "JOIN"
      BY <2>5 DEF Leaves, Flattens
    <3>2. PICK x, s : x = m[l] /\ s = m[n]
      OBVIOUS
    <3>3. s = FlattenedRows(t[n], x)
      BY <1>2, <2>1, <3>1, <3>2
    <3>4. IsSequence(x)
      BY <1>3, <1>5, <2>1, <2>2, <3>1, <3>2
    <3>5. \A i \in 1..Len(x) : x[i] \in ToSet(x)
      BY <3>4, SequenceOf DEF ToSet
    <3>6. \A i \in 1..Len(x) : DeepEnough(t[n], x[i][1])
      BY <1>4, <2>1, <2>5, <3>2, <3>5
    <3>7. IsSequence(s) /\ \E o : VisitsLaid(o, t[n], x, s)
      BY <2>5, <3>3, <3>4, <3>6, VisitsLay
    <3> QED BY <2>1, <2>5, <3>1, <3>2, <3>7 DEF LaidAt
  <2> QED BY <1>3, <2>3, <2>4, <2>5 DEF Kinds
<1> HIDE DEF Fine
<1>6. Inherited(t, S)
  BY <1>5 DEF Inherited
<1>7. DOMAIN t \subseteq S
  <2> HIDE DEF S
  <2> QED BY <1>1, <1>6, TreeInduction
<1>8. \A n \in DOMAIN t : \E o : LaidAt(t, arr, m, o, n)
  BY <1>7 DEF Fine
<1> DEFINE off == [n \in DOMAIN t |-> CHOOSE o : LaidAt(t, arr, m, o, n)]
<1>9. \A n \in DOMAIN t : LaidAt(t, arr, m, off[n], n)
  <2> SUFFICES ASSUME NEW n \in DOMAIN t PROVE LaidAt(t, arr, m, off[n], n)
    OBVIOUS
  <2>1. off[n] = CHOOSE o : LaidAt(t, arr, m, o, n)
    OBVIOUS
  <2> HIDE DEF off
  <2> QED BY <1>8, <2>1
<1> HIDE DEF off
<1> QED BY <1>9 DEF Laying

-----------------------------------------------------------------------------
(* Where the sources are among their rows *)

\* The sources that wait for no operand and have not ended.
Rest(t, s, e) == { n \in DOMAIN t \ e : \A i \in 1..(Len(s) - 1) : s[i].node # n }

\* The place of a source that waits for none, pos[n], is the one that its state
\* and the places of its operands say.
PlacedAt(t, m, o, a, it, pos, n) ==
    LET l == t[n].left
        r == t[n].right
    IN  /\ t[n].kind \in Leaves => a[n] = pos[n]
        /\ t[n].kind = "JOIN" =>
            IF a[n] = 0 THEN pos[n] = 0 /\ pos[l] = 0 /\ pos[r] = 0
            ELSE pos[l] > 0 /\ pos[r] > 0 /\ pos[n] = o[pos[l] - 1] + pos[r]
        /\ t[n].kind \in Flattens =>
            IF pos[l] = 0 THEN pos[n] = 0 /\ it[n] = <<>>
            ELSE \E j \in Nat : /\ pos[n] = o[pos[l] - 1] + j
                                /\ IterOf(t[n], m[l][pos[l]][1], it[n], j)

\* Where a cursor has failed, rows are passed over.
Near(f, k, j) == k <= j /\ (~f => k = j)

\* What is near the last item of a group is near its end.
LEMMA NearEnd ==
    \A f, k, z, r, len, j :
        /\ Near(f, k, z + r) /\ j = z + len
        /\ k \in Nat /\ z \in Nat /\ r \in Nat /\ len \in Nat /\ r <= len /\ (~f => r = len)
        => Near(f, k, j)
  BY DEF Near

\* The place of a source that waits for an operand, from the places that the
\* operands had when it called.
WaitsAt(t, o, f, a, it, was, n, w) ==
    LET l == t[n].left
        r == t[n].right
    IN  /\ w # "next" => a[n] # 0
        /\ w = "first" => was[n] = 0 /\ was[l] = 0 /\ was[r] = 0
        /\ w \in {"right", "again"} => was[l] > 0 /\ Near(f, was[n], o[was[l] - 1] + was[r])
        /\ w = "again" => was[r] = 0
        /\ w = "left" => Near(f, was[n], o[was[l]])
        /\ w = "next" => it[n] = <<>> /\ was[n] = o[was[l]]

ValuedAt(t, m, va, pos, n) == t[n].kind # "JOIN" /\ pos[n] > 0 => m[n][pos[n]] = <<va[n]>>

\* The source that returns has gone to its next row, or to its end.
Moved(t, m, s, c, code, f, pos, was) ==
    LET n == s[Len(s)].node
    IN  /\ \A k \in DOMAIN t : was[k] = pos[k] \/ (c = "return" /\ code = "ROW" /\ k = n)
        /\ c = "return" /\ code = "ROW" =>
            /\ was[n] < pos[n]
            /\ ~f \/ t[n].kind # "JOIN" => pos[n] = was[n] + 1
        /\ c = "return" /\ code = "DONE" /\ ~f => pos[n] = Len(m[n])

Counts(t, m, pos, was) ==
    /\ pos \in [DOMAIN t -> Nat] /\ was \in [DOMAIN t -> Nat]
    /\ \A n \in DOMAIN t : was[n] <= pos[n] /\ pos[n] <= Len(m[n])

Placed(t, m, off, s, e, a, it, pos) ==
    \A n \in Rest(t, s, e) : PlacedAt(t, m, off[n], a, it, pos, n)

Valued(t, m, s, e, c, va, pos) ==
    \A n \in Rest(t, s, e) :
        (c = "iterate" /\ n = s[Len(s)].node) \/ ValuedAt(t, m, va, pos, n)

Awaited(t, off, s, f, a, it, was) ==
    \A i \in 1..(Len(s) - 1) : WaitsAt(t, off[s[i].node], f, a, it, was, s[i].node, s[i].for)

Follows(t, m, off, s, e, c, code, f, va, a, it, pos, was) ==
    /\ Counts(t, m, pos, was)
    /\ Placed(t, m, off, s, e, a, it, pos)
    /\ Valued(t, m, s, e, c, va, pos)
    /\ Awaited(t, off, s, f, a, it, was)
    /\ Moved(t, m, s, c, code, f, pos, was)

-----------------------------------------------------------------------------
(* What the place of a source depends on *)

\* The place of a source whose state, and whose operands, stay the same.
LEMMA PlacedSame ==
    ASSUME NEW t, IsSource(t), NEW m, NEW o, NEW a, NEW it, NEW pos, NEW n \in DOMAIN t,
           PlacedAt(t, m, o, a, it, pos, n),
           NEW b, b[n] = a[n], NEW iu, iu[n] = it[n], NEW q, q[n] = pos[n],
           \A k \in Operands(t, n) \ {0} : q[k] = pos[k]
    PROVE  PlacedAt(t, m, o, b, iu, q, n)
<1>1. PICK l, r : l = t[n].left /\ r = t[n].right
  OBVIOUS
<1>2. (l # 0 => q[l] = pos[l]) /\ (r # 0 => q[r] = pos[r])
  BY <1>1 DEF Operands
<1>3. /\ t[n].kind \in Kinds
      /\ l # 0 <=> t[n].kind \notin Leaves
      /\ r # 0 <=> t[n].kind = "JOIN"
  BY <1>1, SourceNodes
<1>4. CASE t[n].kind \in Leaves
  <2>1. t[n].kind # "JOIN" /\ t[n].kind \notin Flattens
    BY <1>4 DEF Leaves, Flattens
  <2> QED BY <1>4, <2>1 DEF PlacedAt
<1>5. CASE t[n].kind = "JOIN"
  <2>1. t[n].kind \notin Leaves /\ t[n].kind \notin Flattens
    BY <1>5 DEF Leaves, Flattens
  <2>2. q[l] = pos[l] /\ q[r] = pos[r]
    BY <1>2, <1>3, <1>5, <2>1
  <2> QED BY <1>1, <1>5, <2>1, <2>2 DEF PlacedAt
<1>6. CASE t[n].kind \in Flattens
  <2>1. t[n].kind \notin Leaves /\ t[n].kind # "JOIN"
    BY <1>6 DEF Leaves, Flattens
  <2>2. q[l] = pos[l]
    BY <1>2, <1>3, <2>1
  <2> QED BY <1>1, <1>6, <2>1, <2>2 DEF PlacedAt
<1> QED BY <1>3, <1>4, <1>5, <1>6 DEF Kinds

\* And that of one that waits.
LEMMA WaitsSame ==
    ASSUME NEW t, IsSource(t), NEW o, NEW f, NEW a, NEW it, NEW was, NEW n \in DOMAIN t, NEW w,
           NEW x, Waits(t, n, w, x), WaitsAt(t, o, f, a, it, was, n, w),
           NEW g, f => g, NEW b, b[n] = a[n], NEW iu, iu[n] = it[n], NEW q, q[n] = was[n],
           \A k \in Operands(t, n) \ {0} : q[k] = was[k]
    PROVE  WaitsAt(t, o, g, b, iu, q, n, w)
<1>1. PICK l, r : l = t[n].left /\ r = t[n].right
  OBVIOUS
<1>2. (l # 0 => q[l] = was[l]) /\ (r # 0 => q[r] = was[r])
  BY <1>1 DEF Operands
<1>3. /\ l # 0 <=> t[n].kind \notin Leaves
      /\ r # 0 <=> t[n].kind = "JOIN"
  BY <1>1, SourceNodes
<1>4. t[n].kind \notin Leaves /\ (w # "next" => t[n].kind = "JOIN")
  BY DEF Waits, Leaves, Flattens
<1>5. q[l] = was[l] /\ (w # "next" => q[r] = was[r])
  BY <1>2, <1>3, <1>4
<1>6. \A i, j : Near(f, i, j) => Near(g, i, j)
  BY DEF Near
<1>7. CASE w = "next"
  BY <1>1, <1>5, <1>7 DEF WaitsAt
<1>8. CASE w # "next"
  <2>1. q[l] = was[l] /\ q[r] = was[r]
    BY <1>5, <1>8
  <2>2. PICK k : k = o[was[l] - 1] + was[r]
    OBVIOUS
  <2>3. PICK j : j = o[was[l]]
    OBVIOUS
  <2>4. /\ a[n] # 0
        /\ w = "first" => was[n] = 0 /\ was[l] = 0 /\ was[r] = 0
        /\ w \in {"right", "again"} => was[l] > 0 /\ Near(f, was[n], k)
        /\ w = "again" => was[r] = 0
        /\ w = "left" => Near(f, was[n], j)
    BY <1>1, <1>8, <2>2, <2>3 DEF WaitsAt
  <2>5. /\ b[n] # 0
        /\ w = "first" => q[n] = 0 /\ q[l] = 0 /\ q[r] = 0
        /\ w \in {"right", "again"} => q[l] > 0 /\ Near(g, q[n], o[q[l] - 1] + q[r])
        /\ w = "again" => q[r] = 0
        /\ w = "left" => Near(g, q[n], o[q[l]])
    BY <1>6, <2>1, <2>2, <2>3, <2>4
  <2> QED BY <1>1, <1>8, <2>5 DEF WaitsAt
<1> QED BY <1>7, <1>8

\* The source at work is an operand of the one that called it, and of no other.
LEMMA TopOperand ==
    ASSUME NEW t, NEW s, IsStack(t, s), s # <<>>, NEW n, n = s[Len(s)].node
    PROVE  /\ n \in DOMAIN t /\ Len(s) \in Nat /\ Len(s) > 0
           /\ Len(s) = 1 => n = Len(t)
           /\ Len(s) > 1 => OnlyCaller(t, s)
           /\ \A e : \A x \in Rest(t, s, e) : n \notin Operands(t, x)
           /\ \A i \in 1..(Len(s) - 1) :
                /\ s[i].node \in DOMAIN t /\ s[i].node # n /\ n < s[i].node
                /\ Waits(t, s[i].node, s[i].for, s[i + 1].node)
                /\ i # Len(s) - 1 => n \notin Operands(t, s[i].node)
<1>1. /\ Len(s) \in Nat /\ Len(s) > 0 /\ DOMAIN s = 1..Len(s)
      /\ \A i \in 1..Len(s) : s[i].node \in DOMAIN t /\ s[i].node \in Nat
      /\ \A i, j \in 1..Len(s) : s[i].node = s[j].node => i = j
  BY StackFacts
<1>2. Len(s) \in 1..Len(s) /\ n \in DOMAIN t
  BY <1>1
<1>3. IsSource(t) /\ IsPath(t, s)
  BY DEF IsStack
<1>4. /\ \A k, x \in DOMAIN t : n \in Operands(t, k) /\ n \in Operands(t, x) => k = x
      /\ \A x \in DOMAIN t : n \in Operands(t, x) => n < x /\ x <= Len(t)
  BY <1>2, <1>3, Parents
<1>5. Len(s) = 1 => n = Len(t)
  BY <1>3 DEF IsPath
<1>6. ASSUME Len(s) > 1
      PROVE  /\ Len(s) - 1 \in 1..Len(s) /\ s[Len(s) - 1].node \in DOMAIN t
             /\ n \in Operands(t, s[Len(s) - 1].node)
  <2>1. PICK k : k = Len(s) - 1
    OBVIOUS
  <2>2. k \in 1..(Len(s) - 1) /\ k \in 1..Len(s) /\ k + 1 = Len(s)
    BY <1>1, <1>6, <2>1
  <2>3. Waits(t, s[k].node, s[k].for, s[k + 1].node)
    BY <1>3, <2>2 DEF IsPath
  <2>4. n \in Operands(t, s[k].node)
    BY <2>2, <2>3 DEF Waits, Operands
  <2> QED BY <1>1, <2>1, <2>2, <2>4
<1>7. Len(s) > 1 => OnlyCaller(t, s)
  BY <1>4, <1>6 DEF OnlyCaller
<1>8. ASSUME NEW e, NEW x \in Rest(t, s, e) PROVE n \notin Operands(t, x)
  <2>1. x \in DOMAIN t /\ \A i \in 1..(Len(s) - 1) : s[i].node # x
    BY DEF Rest
  <2> SUFFICES ASSUME n \in Operands(t, x) PROVE FALSE
    OBVIOUS
  <2>2. n < x /\ x <= Len(t)
    BY <1>4, <2>1
  <2>3. Len(t) \in Nat /\ x \in Nat /\ n \in Nat
    BY <1>2, <1>3, <2>1, SourceNodes
  <2>4. Len(s) # 1
    BY <1>5, <2>2, <2>3
  <2>5. Len(s) > 1 /\ Len(s) - 1 \in 1..(Len(s) - 1)
    BY <1>1, <2>4
  <2>6. x = s[Len(s) - 1].node
    BY <1>4, <1>6, <2>1, <2>5
  <2> QED BY <2>1, <2>5, <2>6
<1>9. ASSUME NEW i \in 1..(Len(s) - 1)
      PROVE  /\ s[i].node \in DOMAIN t /\ s[i].node # n /\ n < s[i].node
             /\ Waits(t, s[i].node, s[i].for, s[i + 1].node)
             /\ i # Len(s) - 1 => n \notin Operands(t, s[i].node)
  <2>1. i \in 1..Len(s) /\ i # Len(s) /\ i < Len(s) /\ Len(s) > 1
    <3>1. \A k \in Nat : \A j \in 1..(k - 1) : j \in 1..k /\ j # k /\ j < k /\ k > 1
      OBVIOUS
    <3>2. Len(s) \in Nat
      BY <1>1
    <3> QED BY <3>1, <3>2
  <2>2. s[i].node \in DOMAIN t /\ s[i].node # n
    BY <1>1, <1>2, <2>1
  <2>3. n < s[i].node
    BY <1>1, <1>2, <1>3, <2>1, Zenon DEF IsPath
  <2>4. i # Len(s) - 1 => s[i].node # s[Len(s) - 1].node
    BY <1>1, <1>6, <2>1, Zenon
  <2>5. i # Len(s) - 1 => n \notin Operands(t, s[i].node)
    BY <1>4, <1>6, <2>1, <2>2, <2>4
  <2>6. Waits(t, s[i].node, s[i].for, s[i + 1].node)
    BY <1>3 DEF IsPath
  <2> QED BY <2>2, <2>3, <2>5, <2>6
<1> QED BY <1>1, <1>2, <1>5, <1>7, <1>8, <1>9, Zenon

-----------------------------------------------------------------------------
(* What a step leaves as it is *)

\* Functions f and g on the sources differ at n only.
SameBut(t, n, f, g) == \A k \in DOMAIN t : k # n => g[k] = f[k]

\* Those that wait for none, but n, did so before, and none has n for operand.
RestKept(t, n, s, e, c, u, d) ==
    \A x \in Rest(t, u, d) : x # n =>
        x \in Rest(t, s, e) /\ n \notin Operands(t, x) /\ ~(c = "iterate" /\ x = s[Len(s)].node)

\* Where n is now, if it waits for none.
PlacedAnew(t, m, o, u, d, n, c, va, a, it, pos) ==
    n \in Rest(t, u, d) =>
        /\ PlacedAt(t, m, o, a, it, pos, n)
        /\ (c = "iterate" /\ n = u[Len(u)].node) \/ ValuedAt(t, m, va, pos, n)

\* The sources that wait for none, but n, are where they were.
LEMMA PlacedKept ==
    ASSUME NEW t, IsSource(t), NEW m, NEW off, NEW s, NEW e, NEW c, NEW va, NEW a, NEW it, NEW pos,
           Placed(t, m, off, s, e, a, it, pos), Valued(t, m, s, e, c, va, pos),
           NEW u, NEW d, NEW n, NEW cu, NEW vb, NEW b, NEW iu, NEW q,
           SameBut(t, n, va, vb), SameBut(t, n, a, b), SameBut(t, n, it, iu), SameBut(t, n, pos, q),
           RestKept(t, n, s, e, c, u, d), PlacedAnew(t, m, off[n], u, d, n, cu, vb, b, iu, q)
    PROVE  Placed(t, m, off, u, d, b, iu, q) /\ Valued(t, m, u, d, cu, vb, q)
<1>1. ASSUME NEW x \in Rest(t, u, d), x # n
      PROVE  PlacedAt(t, m, off[x], b, iu, q, x) /\ ValuedAt(t, m, vb, q, x)
  <2>1. x \in DOMAIN t
    BY <1>1 DEF Rest
  <2>2. x \in Rest(t, s, e) /\ n \notin Operands(t, x) /\ ~(c = "iterate" /\ x = s[Len(s)].node)
    BY <1>1 DEF RestKept
  <2>3. vb[x] = va[x] /\ b[x] = a[x] /\ iu[x] = it[x] /\ q[x] = pos[x]
    BY <1>1, <2>1 DEF SameBut
  <2>4. \A k \in Operands(t, x) \ {0} : q[k] = pos[k]
    <3> SUFFICES ASSUME NEW k \in Operands(t, x) \ {0} PROVE q[k] = pos[k]
      OBVIOUS
    <3>1. k # n
      BY <2>2
    <3>2. k \in DOMAIN t
      <4>1. /\ Len(t) \in Nat /\ DOMAIN t = 1..Len(t)
            /\ t[x].left \in Nat /\ t[x].left < x /\ t[x].right \in Nat /\ t[x].right < x
        BY <2>1, SourceNodes
      <4>2. k \in Nat /\ k # 0 /\ k < x /\ x \in 1..Len(t)
        BY <2>1, <4>1 DEF Operands
      <4> QED BY <4>1, <4>2
    <3> QED BY <3>1, <3>2 DEF SameBut
  <2>5. PlacedAt(t, m, off[x], a, it, pos, x)
    BY <2>2 DEF Placed
  <2>6. ValuedAt(t, m, va, pos, x)
    BY <2>2 DEF Valued
  <2>7. PlacedAt(t, m, off[x], b, iu, q, x)
    <3>1. PICK o : o = off[x]
      OBVIOUS
    <3>2. PlacedAt(t, m, o, a, it, pos, x)
      BY <2>5, <3>1
    <3>3. PlacedAt(t, m, o, b, iu, q, x)
      BY <2>1, <2>3, <2>4, <3>2, PlacedSame
    <3> QED BY <3>1, <3>3
  <2>8. ValuedAt(t, m, vb, q, x)
    BY <2>3, <2>6 DEF ValuedAt
  <2> QED BY <2>7, <2>8
<1>2. Placed(t, m, off, u, d, b, iu, q)
  BY <1>1 DEF Placed, PlacedAnew
<1>3. Valued(t, m, u, d, cu, vb, q)
  BY <1>1 DEF Valued, PlacedAnew
<1> QED BY <1>2, <1>3

AwaitedTo(t, off, s, j, f, a, it, was) ==
    \A i \in 1..j : WaitsAt(t, off[s[i].node], f, a, it, was, s[i].node, s[i].for)

\* Those that wait, up to the j-th of the stack, wait on.
LEMMA AwaitedKept ==
    ASSUME NEW t, NEW s, IsStack(t, s), s # <<>>, NEW off, NEW f, NEW a, NEW it, NEW was,
           Awaited(t, off, s, f, a, it, was), NEW x, NEW j \in Nat, j <= Len(s) - 1,
           \A i \in 1..j : s[i].node # x,
           NEW g, f => g, NEW b, NEW iu, SameBut(t, x, a, b), SameBut(t, x, it, iu),
           NEW q, SameBut(t, s[Len(s)].node, was, q),
           j < Len(s) - 1 \/ q[s[Len(s)].node] = was[s[Len(s)].node]
    PROVE  AwaitedTo(t, off, s, j, g, b, iu, q)
<1>1. PICK n, len : n = s[Len(s)].node /\ len = Len(s)
  OBVIOUS
<1>2. len \in Nat /\ len > 0 /\ IsSource(t)
  BY <1>1, TopOperand DEF IsStack
<1> SUFFICES ASSUME NEW i \in 1..j
             PROVE  WaitsAt(t, off[s[i].node], g, b, iu, q, s[i].node, s[i].for)
  BY DEF AwaitedTo
<1>3. i \in 1..(len - 1) /\ (j < len - 1 => i # len - 1)
  <2>1. \A k, h \in Nat : \A y \in 1..h : h <= k - 1 => y \in 1..(k - 1) /\ (h < k - 1 => y # k - 1)
    OBVIOUS
  <2> QED BY <1>1, <1>2, <2>1
<1>4. PICK y, w : y = s[i].node /\ w = s[i].for
  OBVIOUS
<1>5. /\ y \in DOMAIN t /\ y # n /\ Waits(t, y, w, s[i + 1].node)
      /\ i # len - 1 => n \notin Operands(t, y)
  BY <1>1, <1>3, <1>4, TopOperand
<1>6. b[y] = a[y] /\ iu[y] = it[y] /\ q[y] = was[y]
  BY <1>1, <1>4, <1>5 DEF SameBut
<1>7. \A k \in Operands(t, y) \ {0} : q[k] = was[k]
  <2> SUFFICES ASSUME NEW k \in Operands(t, y) \ {0} PROVE q[k] = was[k]
    OBVIOUS
  <2>1. k \in DOMAIN t
    <3>1. /\ Len(t) \in Nat /\ DOMAIN t = 1..Len(t)
          /\ t[y].left \in Nat /\ t[y].left < y /\ t[y].right \in Nat /\ t[y].right < y
      BY <1>2, <1>5, SourceNodes
    <3>2. k \in Nat /\ k # 0 /\ k < y /\ y \in 1..Len(t)
      BY <1>5, <3>1 DEF Operands
    <3> QED BY <3>1, <3>2
  <2>2. CASE k # n
    BY <1>1, <2>1, <2>2 DEF SameBut
  <2>3. CASE k = n
    <3>1. i = len - 1
      BY <1>5, <2>3
    <3> QED BY <1>1, <1>3, <2>3, <3>1
  <2> QED BY <2>2, <2>3
<1>8. PICK o : o = off[y]
  OBVIOUS
<1>9. WaitsAt(t, o, f, a, it, was, y, w)
  BY <1>1, <1>3, <1>4, <1>8 DEF Awaited
<1>10. WaitsAt(t, o, g, b, iu, q, y, w)
  BY <1>2, <1>5, <1>6, <1>7, <1>9, WaitsSame
<1> QED BY <1>4, <1>8, <1>10

\* The stack when the source at work calls an operand.
LEMMA PushedIs ==
    ASSUME NEW t, NEW s, IsStack(t, s), s # <<>>, NEW w \in Fors, NEW k \in DOMAIN t,
           NEW u, u = Pushed(s, w, k)
    PROVE  /\ Len(s) \in Nat /\ Len(s) > 0 /\ Len(u) = Len(s) + 1
           /\ \A i \in 1..(Len(s) - 1) : u[i] = s[i]
           /\ u[Len(s)].node = s[Len(s)].node /\ u[Len(s)].for = w
<1>1. PICK N : N = DOMAIN t
  OBVIOUS
<1>2. s \in Seq(FramesOf(N)) /\ k \in N
  BY <1>1 DEF IsStack
<1>3. /\ Len(s) \in Nat /\ Len(s) > 0 /\ Len(u) = Len(s) + 1
      /\ \A i \in 1..(Len(s) - 1) : u[i] = s[i]
      /\ u[Len(s)].node = s[Len(s)].node /\ u[Len(s)].for = w
  <2> HIDE <1>1
  <2> QED BY <1>2, StackPushed
<1> QED BY <1>3

\* Those that wait for none when the source at work calls an operand,
LEMMA RestPushed ==
    ASSUME NEW t, NEW s, IsStack(t, s), s # <<>>, NEW w \in Fors, NEW k \in DOMAIN t,
           NEW u, u = Pushed(s, w, k), NEW e
    PROVE  \A x \in Rest(t, u, e) : x \in Rest(t, s, e) /\ x # s[Len(s)].node
<1>1. /\ Len(s) \in Nat /\ Len(s) > 0 /\ Len(u) = Len(s) + 1
      /\ \A i \in 1..(Len(s) - 1) : u[i] = s[i]
      /\ u[Len(s)].node = s[Len(s)].node
  BY PushedIs
<1> SUFFICES ASSUME NEW x \in Rest(t, u, e) PROVE x \in Rest(t, s, e) /\ x # s[Len(s)].node
  OBVIOUS
<1>2. x \in DOMAIN t \ e /\ \A i \in 1..Len(s) : u[i].node # x
  <2>1. Len(u) - 1 = Len(s)
    BY <1>1
  <2> QED BY <2>1 DEF Rest
<1>3. x # s[Len(s)].node
  BY <1>1, <1>2
<1>4. ASSUME NEW i \in 1..(Len(s) - 1) PROVE s[i].node # x
  <2>1. i \in 1..Len(s)
    BY <1>1
  <2> QED BY <1>1, <1>2, <2>1
<1> QED BY <1>2, <1>3, <1>4 DEF Rest

\* when the one that called it goes on to another operand,
LEMMA RestNext ==
    ASSUME NEW t, NEW s, IsStack(t, s), Len(s) > 1, NEW w \in Fors, NEW k \in DOMAIN t,
           NEW u, u = Pushed(Front(s), w, k), NEW e
    PROVE  \A x \in Rest(t, u, e) : x \in Rest(t, s, e)
<1>1. PICK v : v = Front(s)
  OBVIOUS
<1>2. /\ IsStack(t, v) /\ v # <<>> /\ Len(s) \in Nat /\ Len(v) = Len(s) - 1
      /\ \A i \in 1..(Len(s) - 1) : v[i] = s[i]
  BY <1>1, PathPopped, StackPopped DEF IsStack
<1> SUFFICES ASSUME NEW x \in Rest(t, u, e) PROVE x \in Rest(t, s, e)
  OBVIOUS
<1>3. x \in Rest(t, v, e) /\ x # v[Len(v)].node
  BY <1>1, <1>2, RestPushed
<1>4. ASSUME NEW i \in 1..(Len(s) - 1) PROVE s[i].node # x
  <2>1. CASE i = Len(s) - 1
    BY <1>2, <1>3, <2>1
  <2>2. CASE i # Len(s) - 1
    <3>1. i \in 1..(Len(v) - 1)
      BY <1>2, <2>2
    <3>2. v[i].node # x
      BY <1>3, <3>1 DEF Rest
    <3> QED BY <1>2, <3>2
  <2> QED BY <2>1, <2>2
<1> QED BY <1>3, <1>4 DEF Rest

\* and when that one returns, or works on.
LEMMA RestPopped ==
    ASSUME NEW t, NEW s, IsStack(t, s), Len(s) > 1, NEW u, u = Front(s), NEW e
    PROVE  \A x \in Rest(t, u, e) : x \in Rest(t, s, e) \/ x = s[Len(s) - 1].node
<1>1. /\ Len(s) \in Nat /\ Len(u) = Len(s) - 1
      /\ \A i \in 1..(Len(s) - 1) : u[i] = s[i]
  BY StackPopped DEF IsStack
<1> SUFFICES ASSUME NEW x \in Rest(t, u, e), x # s[Len(s) - 1].node PROVE x \in Rest(t, s, e)
  OBVIOUS
<1>2. ASSUME NEW i \in 1..(Len(s) - 1) PROVE s[i].node # x
  <2>1. CASE i = Len(s) - 1
    BY <2>1
  <2>2. CASE i # Len(s) - 1
    <3>1. i \in 1..(Len(u) - 1)
      BY <1>1, <2>2
    <3>2. u[i].node # x
      BY <3>1 DEF Rest
    <3> QED BY <1>1, <3>2
  <2> QED BY <2>1, <2>2
<1> QED BY <1>2 DEF Rest

-----------------------------------------------------------------------------
(* The steps, as far as the places go *)

\* Places that do not move.
LEMMA CountsKept ==
    ASSUME NEW t, IsSource(t), NEW m, NEW pos, NEW was, Counts(t, m, pos, was)
    PROVE  Counts(t, m, pos, pos)
<1>1. \A n \in DOMAIN t : pos[n] <= pos[n]
  BY DEF Counts
<1> QED BY <1>1 DEF Counts

\* Where the source at work does not return a row, the places do not change.
LEMMA NotMoved ==
    ASSUME NEW t, NEW m, NEW s, NEW c, NEW code, NEW f, NEW pos, NEW was,
           Moved(t, m, s, c, code, f, pos, was)
    PROVE  /\ SameBut(t, s[Len(s)].node, was, pos)
           /\ c # "return" \/ code # "ROW" => \A k \in DOMAIN t : was[k] = pos[k]
BY DEF Moved, SameBut

\* What a step without a row says of how the places move.
LEMMA StillMoved ==
    ASSUME NEW t, NEW m, NEW s, NEW c, NEW code, NEW f, NEW pos,
           c # "return" \/ (code = "DONE" /\ (~f => pos[s[Len(s)].node] = Len(m[s[Len(s)].node])))
    PROVE  Moved(t, m, s, c, code, f, pos, pos)
BY DEF Moved

\* The source at work returns a row of its own.
LEMMA RowMove ==
    ASSUME NEW t, NEW s, IsStack(t, s), s # <<>>, NEW n, n = s[Len(s)].node,
           NEW m, NEW off, NEW e, NEW c, NEW code, NEW f, NEW va, NEW a, NEW it, NEW pos, NEW was,
           Follows(t, m, off, s, e, c, code, f, va, a, it, pos, was),
           c # "return", \A k \in DOMAIN t : Len(m[k]) \in Nat,
           NEW vb, NEW b, NEW iu,
           SameBut(t, n, va, vb), SameBut(t, n, a, b), SameBut(t, n, it, iu),
           pos[n] + 1 <= Len(m[n]), m[n][pos[n] + 1] = <<vb[n]>>,
           NEW q, q = [pos EXCEPT ![n] = pos[n] + 1], PlacedAt(t, m, off[n], b, iu, q, n)
    PROVE  Follows(t, m, off, s, e, "return", "ROW", f, vb, b, iu, q, pos)
<1>1. IsSource(t) /\ n \in DOMAIN t /\ Len(s) \in Nat /\ Len(s) > 0
  BY TopOperand DEF IsStack
<1>2. pos \in [DOMAIN t -> Nat] /\ \A k \in DOMAIN t : pos[k] <= Len(m[k])
  BY DEF Follows, Counts
<1>3. /\ q \in [DOMAIN t -> Nat] /\ q[n] = pos[n] + 1
      /\ \A k \in DOMAIN t : k # n => q[k] = pos[k]
  BY <1>1, <1>2
<1>4. Counts(t, m, q, pos)
  <2>1. \A k \in DOMAIN t : pos[k] <= q[k] /\ q[k] <= Len(m[k])
    <3> SUFFICES ASSUME NEW k \in DOMAIN t PROVE pos[k] <= q[k] /\ q[k] <= Len(m[k])
      OBVIOUS
    <3>1. pos[k] \in Nat
      BY <1>2
    <3> QED BY <1>2, <1>3, <3>1
  <2> QED BY <1>2, <1>3, <2>1 DEF Counts
<1>5. ValuedAt(t, m, vb, q, n)
  BY <1>3 DEF ValuedAt
<1>6. Placed(t, m, off, s, e, b, iu, q) /\ Valued(t, m, s, e, "return", vb, q)
  <2>1. Placed(t, m, off, s, e, a, it, pos) /\ Valued(t, m, s, e, c, va, pos)
    BY DEF Follows
  <2>2. SameBut(t, n, pos, q)
    BY <1>3 DEF SameBut
  <2>3. RestKept(t, n, s, e, c, s, e)
    BY TopOperand DEF RestKept
  <2>4. PICK cu : cu = "return"
    OBVIOUS
  <2>5. PlacedAnew(t, m, off[n], s, e, n, cu, vb, b, iu, q)
    BY <1>5 DEF PlacedAnew
  <2>6. Placed(t, m, off, s, e, b, iu, q) /\ Valued(t, m, s, e, cu, vb, q)
    BY <1>1, <2>1, <2>2, <2>3, <2>5, PlacedKept
  <2> QED BY <2>4, <2>6
<1>7. Awaited(t, off, s, f, b, iu, pos)
  <2>1. Awaited(t, off, s, f, a, it, was)
    BY DEF Follows
  <2>2. SameBut(t, s[Len(s)].node, was, pos) /\ pos[s[Len(s)].node] = was[s[Len(s)].node]
    BY <1>1, NotMoved DEF Follows
  <2>3. PICK j : j = Len(s) - 1
    OBVIOUS
  <2>4. j \in Nat /\ j <= Len(s) - 1
    BY <1>1, <2>3
  <2>5. \A i \in 1..j : s[i].node # n
    BY <2>3, TopOperand
  <2>6. AwaitedTo(t, off, s, j, f, b, iu, pos)
    BY <2>1, <2>2, <2>4, <2>5, AwaitedKept
  <2> QED BY <2>3, <2>6 DEF AwaitedTo, Awaited
<1>8. Moved(t, m, s, "return", "ROW", f, q, pos)
  <2>1. pos[n] < pos[n] + 1
    BY <1>1, <1>2
  <2> QED BY <1>3, <2>1 DEF Moved
<1> QED BY <1>4, <1>6, <1>7, <1>8 DEF Follows

\* It returns that it is at its end.
LEMMA DoneMove ==
    ASSUME NEW t, NEW s, IsStack(t, s), s # <<>>, NEW n, n = s[Len(s)].node,
           NEW m, NEW off, NEW e, NEW c, NEW code, NEW f, NEW va, NEW a, NEW it, NEW pos, NEW was,
           Follows(t, m, off, s, e, c, code, f, va, a, it, pos, was),
           c # "return",
           NEW vb, NEW b, NEW iu,
           SameBut(t, n, va, vb), SameBut(t, n, a, b), SameBut(t, n, it, iu),
           NEW d, d = e \cup {n}, NEW g, f => g, ~g => pos[n] = Len(m[n])
    PROVE  Follows(t, m, off, s, d, "return", "DONE", g, vb, b, iu, pos, pos)
<1>1. IsSource(t) /\ n \in DOMAIN t /\ Len(s) \in Nat /\ Len(s) > 0
  BY TopOperand DEF IsStack
<1>2. Counts(t, m, pos, pos)
  BY <1>1, CountsKept DEF Follows
<1>3. Placed(t, m, off, s, d, b, iu, pos) /\ Valued(t, m, s, d, "return", vb, pos)
  <2>1. Placed(t, m, off, s, e, a, it, pos) /\ Valued(t, m, s, e, c, va, pos)
    BY DEF Follows
  <2>2. SameBut(t, n, pos, pos)
    BY DEF SameBut
  <2>3. \A x \in Rest(t, s, d) : x \in Rest(t, s, e) /\ x # n
    BY DEF Rest
  <2>4. RestKept(t, n, s, e, c, s, d)
    BY <2>3, TopOperand DEF RestKept
  <2>5. PICK cu : cu = "return"
    OBVIOUS
  <2>6. PlacedAnew(t, m, off[n], s, d, n, cu, vb, b, iu, pos)
    BY <2>3 DEF PlacedAnew
  <2>7. Placed(t, m, off, s, d, b, iu, pos) /\ Valued(t, m, s, d, cu, vb, pos)
    BY <1>1, <2>1, <2>2, <2>4, <2>6, PlacedKept
  <2> QED BY <2>5, <2>7
<1>4. Awaited(t, off, s, g, b, iu, pos)
  <2>1. Awaited(t, off, s, f, a, it, was)
    BY DEF Follows
  <2>2. SameBut(t, s[Len(s)].node, was, pos) /\ pos[s[Len(s)].node] = was[s[Len(s)].node]
    BY <1>1, NotMoved DEF Follows
  <2>3. PICK j : j = Len(s) - 1
    OBVIOUS
  <2>4. j \in Nat /\ j <= Len(s) - 1
    BY <1>1, <2>3
  <2>5. \A i \in 1..j : s[i].node # n
    BY <2>3, TopOperand
  <2>6. AwaitedTo(t, off, s, j, g, b, iu, pos)
    BY <2>1, <2>2, <2>4, <2>5, AwaitedKept
  <2> QED BY <2>3, <2>6 DEF AwaitedTo, Awaited
<1>5. Moved(t, m, s, "return", "DONE", g, pos, pos)
  BY StillMoved
<1> QED BY <1>2, <1>3, <1>4, <1>5 DEF Follows

\* It iterates.
LEMMA IterateMove ==
    ASSUME NEW t, NEW s, IsStack(t, s), s # <<>>, NEW n, n = s[Len(s)].node,
           NEW m, NEW off, NEW e, NEW c, NEW code, NEW f, NEW va, NEW a, NEW it, NEW pos, NEW was,
           Follows(t, m, off, s, e, c, code, f, va, a, it, pos, was),
           c # "return",
           NEW vb, NEW iu, SameBut(t, n, va, vb), SameBut(t, n, it, iu),
           PlacedAt(t, m, off[n], a, iu, pos, n)
    PROVE  Follows(t, m, off, s, e, "iterate", code, f, vb, a, iu, pos, pos)
<1>1. IsSource(t) /\ n \in DOMAIN t /\ Len(s) \in Nat /\ Len(s) > 0
  BY TopOperand DEF IsStack
<1>2. Counts(t, m, pos, pos)
  BY <1>1, CountsKept DEF Follows
<1>3. SameBut(t, n, a, a) /\ SameBut(t, n, pos, pos)
  BY DEF SameBut
<1>4. Placed(t, m, off, s, e, a, iu, pos) /\ Valued(t, m, s, e, "iterate", vb, pos)
  <2>1. Placed(t, m, off, s, e, a, it, pos) /\ Valued(t, m, s, e, c, va, pos)
    BY DEF Follows
  <2>2. RestKept(t, n, s, e, c, s, e)
    BY TopOperand DEF RestKept
  <2>3. PICK cu : cu = "iterate"
    OBVIOUS
  <2>4. PlacedAnew(t, m, off[n], s, e, n, cu, vb, a, iu, pos)
    BY <2>3 DEF PlacedAnew
  <2>5. Placed(t, m, off, s, e, a, iu, pos) /\ Valued(t, m, s, e, cu, vb, pos)
    <3>1. SameBut(t, n, a, a)
      BY DEF SameBut
    <3> QED BY <1>1, <1>3, <2>1, <2>2, <2>4, <3>1, PlacedKept
  <2> QED BY <2>3, <2>5
<1>5. Awaited(t, off, s, f, a, iu, pos)
  <2>1. Awaited(t, off, s, f, a, it, was)
    BY DEF Follows
  <2>2. SameBut(t, s[Len(s)].node, was, pos) /\ pos[s[Len(s)].node] = was[s[Len(s)].node]
    BY <1>1, NotMoved DEF Follows
  <2>3. PICK j : j = Len(s) - 1
    OBVIOUS
  <2>4. j \in Nat /\ j <= Len(s) - 1
    BY <1>1, <2>3
  <2>5. \A i \in 1..j : s[i].node # n
    BY <2>3, TopOperand
  <2>6. AwaitedTo(t, off, s, j, f, a, iu, pos)
    BY <1>3, <2>1, <2>2, <2>4, <2>5, AwaitedKept
  <2> QED BY <2>3, <2>6 DEF AwaitedTo, Awaited
<1>6. Moved(t, m, s, "iterate", code, f, pos, pos)
  BY StillMoved
<1> QED BY <1>2, <1>4, <1>5, <1>6 DEF Follows

\* It calls an operand.
LEMMA PushMove ==
    ASSUME NEW t, NEW s, IsStack(t, s), s # <<>>, NEW n, n = s[Len(s)].node,
           NEW m, NEW off, NEW e, NEW c, NEW code, NEW f, NEW va, NEW a, NEW it, NEW pos, NEW was,
           Follows(t, m, off, s, e, c, code, f, va, a, it, pos, was),
           c # "return",
           NEW b, SameBut(t, n, a, b), NEW w \in Fors, NEW k \in DOMAIN t,
           NEW u, u = Pushed(s, w, k), WaitsAt(t, off[n], f, b, it, pos, n, w)
    PROVE  Follows(t, m, off, u, e, "call", code, f, va, b, it, pos, pos)
<1>1. IsSource(t) /\ n \in DOMAIN t /\ Len(s) \in Nat /\ Len(s) > 0
  BY TopOperand DEF IsStack
<1>2. Counts(t, m, pos, pos)
  BY <1>1, CountsKept DEF Follows
<1>3. SameBut(t, n, it, it) /\ SameBut(t, n, pos, pos) /\ SameBut(t, n, va, va)
  BY DEF SameBut
<1>4. Placed(t, m, off, u, e, b, it, pos) /\ Valued(t, m, u, e, "call", va, pos)
  <2>1. Placed(t, m, off, s, e, a, it, pos) /\ Valued(t, m, s, e, c, va, pos)
    BY DEF Follows
  <2>2. \A x \in Rest(t, u, e) : x \in Rest(t, s, e) /\ x # n
    BY RestPushed
  <2>3. RestKept(t, n, s, e, c, u, e)
    BY <2>2, TopOperand DEF RestKept
  <2>4. PICK cu : cu = "call"
    OBVIOUS
  <2>5. PlacedAnew(t, m, off[n], u, e, n, cu, va, b, it, pos)
    BY <2>2 DEF PlacedAnew
  <2>6. Placed(t, m, off, u, e, b, it, pos) /\ Valued(t, m, u, e, cu, va, pos)
    BY <1>1, <1>3, <2>1, <2>3, <2>5, PlacedKept
  <2> QED BY <2>4, <2>6
<1>5. Awaited(t, off, u, f, b, it, pos)
  <2>1. Awaited(t, off, s, f, a, it, was)
    BY DEF Follows
  <2>2. SameBut(t, s[Len(s)].node, was, pos) /\ pos[s[Len(s)].node] = was[s[Len(s)].node]
    BY <1>1, NotMoved DEF Follows
  <2>3. PICK j : j = Len(s) - 1
    OBVIOUS
  <2>4. j \in Nat /\ j <= Len(s) - 1
    BY <1>1, <2>3
  <2>5. \A i \in 1..j : s[i].node # n
    BY <2>3, TopOperand
  <2>6. AwaitedTo(t, off, s, j, f, b, it, pos)
    BY <1>3, <2>1, <2>2, <2>4, <2>5, AwaitedKept
  <2>7. /\ Len(u) = Len(s) + 1
        /\ \A i \in 1..(Len(s) - 1) : u[i] = s[i]
        /\ u[Len(s)].node = n /\ u[Len(s)].for = w
    BY PushedIs
  <2> SUFFICES ASSUME NEW i \in 1..(Len(u) - 1)
               PROVE  WaitsAt(t, off[u[i].node], f, b, it, pos, u[i].node, u[i].for)
    BY DEF Awaited
  <2>8. i \in 1..Len(s)
    BY <1>1, <2>7
  <2>9. CASE i = Len(s)
    BY <2>7, <2>9
  <2>10. CASE i # Len(s)
    <3>1. i \in 1..j /\ i \in 1..(Len(s) - 1)
      BY <1>1, <2>3, <2>8, <2>10
    <3> QED BY <2>6, <2>7, <3>1 DEF AwaitedTo
  <2> QED BY <2>9, <2>10
<1>6. Moved(t, m, u, "call", code, f, pos, pos)
  BY StillMoved
<1> QED BY <1>2, <1>4, <1>5, <1>6 DEF Follows

\* Source n is at work, which h called.
HasCaller(t, s, h, n) ==
    /\ IsSource(t) /\ h \in DOMAIN t /\ n \in DOMAIN t /\ n # h /\ n < h
    /\ s # <<>> /\ Len(s) \in Nat /\ Len(s) - 2 \in Nat
    /\ Waits(t, h, s[Len(s) - 1].for, n) /\ n \in Operands(t, h)
    /\ IsStack(t, Front(s)) /\ Front(s) # <<>>
    /\ Len(Front(s)) = Len(s) - 1 /\ Front(s)[Len(Front(s))].node = h
    /\ \A i \in 1..(Len(s) - 1) : Front(s)[i] = s[i]
    /\ \A i \in 1..(Len(s) - 2) : /\ i \in 1..(Len(s) - 1) /\ s[i].node # h /\ h < s[i].node
                                  /\ s[i].node \in DOMAIN t
    /\ \A e : \A x \in Rest(t, s, e) : x # h /\ n \notin Operands(t, x)
    /\ \A e : \A x \in Rest(t, Front(s), e) : h \notin Operands(t, x)
    /\ OnlyCaller(t, s)

\* The source that called the one at work, and those that wait below it.
LEMMA CallerIs ==
    ASSUME NEW t, NEW s, IsStack(t, s), Len(s) > 1, NEW h, h = s[Len(s) - 1].node,
           NEW n, n = s[Len(s)].node
    PROVE  HasCaller(t, s, h, n)
<1>1. Len(s) \in Nat /\ s # <<>> /\ IsSource(t) /\ IsPath(t, s)
  <2>1. s # <<>>
    <3>1. Len(<<>>) = 0
      OBVIOUS
    <3> QED BY <3>1
  <2> QED BY <2>1, StackFacts DEF IsStack
<1>2. PICK len, g : len = Len(s) /\ g = Front(s)
  OBVIOUS
<1>3. len \in Nat /\ len > 1 /\ len - 1 \in 1..(len - 1) /\ len - 2 \in Nat /\ (len - 1) + 1 = len
      /\ (\A i \in 1..(len - 2) : i \in 1..(len - 1) /\ i # len - 1 /\ i < len - 1 /\ i \in 1..len)
      /\ len - 1 \in 1..len
  BY <1>1, <1>2
<1>4. /\ n \in DOMAIN t /\ OnlyCaller(t, s)
      /\ \A e : \A x \in Rest(t, s, e) : n \notin Operands(t, x)
      /\ \A i \in 1..(len - 1) :
            /\ s[i].node \in DOMAIN t /\ s[i].node # n /\ n < s[i].node
            /\ Waits(t, s[i].node, s[i].for, s[i + 1].node)
  BY <1>1, <1>2, TopOperand
<1>5. h \in DOMAIN t /\ n # h /\ n < h /\ Waits(t, h, s[len - 1].for, n)
  BY <1>2, <1>3, <1>4
<1>6. n \in Operands(t, h)
  BY <1>5 DEF Waits, Operands
<1>7. /\ IsStack(t, g) /\ g # <<>> /\ Len(g) = len - 1
      /\ \A i \in 1..(len - 1) : g[i] = s[i]
  BY <1>1, <1>2, PathPopped, StackPopped DEF IsStack
<1>8. g[Len(g)].node = h
  BY <1>2, <1>3, <1>7
<1>9. \A e : \A x \in Rest(t, g, e) : h \notin Operands(t, x)
  BY <1>7, <1>8, TopOperand
<1>10. \A e : \A x \in Rest(t, s, e) : x # h
  BY <1>2, <1>3 DEF Rest
<1>11. ASSUME NEW i \in 1..(len - 2)
       PROVE  i \in 1..(len - 1) /\ s[i].node # h /\ h < s[i].node /\ s[i].node \in DOMAIN t
  <2>1. i \in 1..(len - 1) /\ i < len - 1 /\ i \in DOMAIN s /\ len - 1 \in DOMAIN s /\ i # len - 1
    <3>1. DOMAIN s = 1..len
      BY <1>2, StackFacts
    <3> QED BY <1>3, <1>11, <3>1
  <2>2. h < s[i].node
    BY <1>1, <1>2, <2>1 DEF IsPath
  <2>3. s[i].node # h
    <3>1. i \in 1..Len(s) /\ len - 1 \in 1..Len(s)
      BY <1>2, <1>3, <2>1
    <3>2. \A y, z \in 1..Len(s) : s[y].node = s[z].node => y = z
      BY StackFacts
    <3> QED BY <1>2, <2>1, <3>1, <3>2
  <2> QED BY <1>4, <2>1, <2>2, <2>3
<1> QED BY <1>1, <1>2, <1>3, <1>4, <1>5, <1>6, <1>7, <1>8, <1>9, <1>10, <1>11 DEF HasCaller

\* Those that wait below the caller wait on.
LEMMA AwaitedBelow ==
    ASSUME NEW t, NEW s, IsStack(t, s), Len(s) > 1, NEW h, h = s[Len(s) - 1].node,
           NEW m, NEW off, NEW e, NEW c, NEW code, NEW f, NEW va, NEW a, NEW it, NEW pos, NEW was,
           Follows(t, m, off, s, e, c, code, f, va, a, it, pos, was),
           NEW iu, SameBut(t, h, it, iu)
    PROVE  AwaitedTo(t, off, s, Len(s) - 2, f, a, iu, pos)
<1>1. Awaited(t, off, s, f, a, it, was) /\ SameBut(t, s[Len(s)].node, was, pos)
  BY NotMoved DEF Follows
<1>2. PICK j, n : j = Len(s) - 2 /\ n = s[Len(s)].node /\ HasCaller(t, s, h, n)
  BY CallerIs
<1>3. s # <<>> /\ j \in Nat /\ \A i \in 1..j : s[i].node # h
  BY <1>2 DEF HasCaller
<1>4. j <= Len(s) - 1 /\ j < Len(s) - 1
  <2>1. Len(s) \in Nat
    BY <1>2 DEF HasCaller
  <2> QED BY <1>2, <2>1
<1>5. SameBut(t, h, a, a)
  BY DEF SameBut
<1>6. AwaitedTo(t, off, s, j, f, a, iu, pos)
  BY <1>1, <1>3, <1>4, <1>5, AwaitedKept
<1> QED BY <1>2, <1>6

\* The caller goes on to an operand.
LEMMA NextMove ==
    ASSUME NEW t, NEW s, IsStack(t, s), Len(s) > 1, NEW h, h = s[Len(s) - 1].node,
           NEW m, NEW off, NEW e, NEW c, NEW code, NEW f, NEW va, NEW a, NEW it, NEW pos, NEW was,
           Follows(t, m, off, s, e, c, code, f, va, a, it, pos, was), c = "return",
           NEW w \in Fors, NEW k \in DOMAIN t,
           NEW u, u = Pushed(Front(s), w, k), WaitsAt(t, off[h], f, a, it, pos, h, w)
    PROVE  Follows(t, m, off, u, e, "call", code, f, va, a, it, pos, pos)
<1>1. PICK n, v : n = s[Len(s)].node /\ v = Front(s) /\ HasCaller(t, s, h, n)
  BY CallerIs
<1>2. /\ IsSource(t) /\ IsStack(t, v) /\ v # <<>> /\ Len(s) \in Nat
      /\ Len(v) = Len(s) - 1 /\ v[Len(v)].node = h /\ Len(s) - 2 \in Nat
      /\ \A i \in 1..(Len(s) - 1) : v[i] = s[i]
  BY <1>1 DEF HasCaller
<1>3. Counts(t, m, pos, pos)
  BY <1>2, CountsKept DEF Follows
<1>4. /\ SameBut(t, n, va, va) /\ SameBut(t, n, a, a) /\ SameBut(t, n, it, it) /\ SameBut(t, n, pos, pos)
      /\ SameBut(t, h, it, it)
  BY DEF SameBut
<1>5. Placed(t, m, off, u, e, a, it, pos) /\ Valued(t, m, u, e, "call", va, pos)
  <2>1. Placed(t, m, off, s, e, a, it, pos) /\ Valued(t, m, s, e, c, va, pos)
    BY DEF Follows
  <2>2. \A x \in Rest(t, u, e) : x \in Rest(t, s, e)
    BY RestNext
  <2>3. RestKept(t, n, s, e, c, u, e)
    BY <1>1, <2>2 DEF RestKept, HasCaller
  <2>4. PICK cu : cu = "call"
    OBVIOUS
  <2>5. PlacedAnew(t, m, off[n], u, e, n, cu, va, a, it, pos)
    BY <2>1, <2>2 DEF PlacedAnew, Placed, Valued
  <2>6. Placed(t, m, off, u, e, a, it, pos) /\ Valued(t, m, u, e, cu, va, pos)
    BY <1>2, <1>4, <2>1, <2>3, <2>5, PlacedKept
  <2> QED BY <2>4, <2>6
<1>6. Awaited(t, off, u, f, a, it, pos)
  <2>1. AwaitedTo(t, off, s, Len(s) - 2, f, a, it, pos)
    BY <1>4, AwaitedBelow
  <2>2. /\ Len(u) = Len(v) + 1
        /\ \A i \in 1..(Len(v) - 1) : u[i] = v[i]
        /\ u[Len(v)].node = h /\ u[Len(v)].for = w
    <3>1. /\ Len(u) = Len(v) + 1
          /\ \A i \in 1..(Len(v) - 1) : u[i] = v[i]
          /\ u[Len(v)].node = v[Len(v)].node /\ u[Len(v)].for = w
      <4>1. IsStack(t, v) /\ v # <<>> /\ u = Pushed(v, w, k)
        BY <1>1, <1>2
      <4> QED BY <4>1, PushedIs
    <3> QED BY <1>2, <3>1
  <2>3. PICK len : len = Len(s)
    OBVIOUS
  <2>4. Len(u) = len /\ Len(v) = len - 1 /\ len \in Nat /\ \A i \in 1..(len - 2) : u[i] = s[i]
    <3>1. Len(v) - 1 = len - 2 /\ \A i \in 1..(len - 2) : i \in 1..(len - 1)
      BY <1>2, <2>3
    <3> QED BY <1>2, <2>2, <2>3, <3>1
  <2> SUFFICES ASSUME NEW i \in 1..(len - 1)
               PROVE  WaitsAt(t, off[u[i].node], f, a, it, pos, u[i].node, u[i].for)
    BY <2>4 DEF Awaited
  <2>5. CASE i = len - 1
    BY <2>2, <2>4, <2>5
  <2>6. CASE i # len - 1
    <3>1. i \in 1..(len - 2)
      BY <2>4, <2>6
    <3> QED BY <2>1, <2>3, <2>4, <3>1 DEF AwaitedTo
  <2> QED BY <2>5, <2>6
<1>7. Moved(t, m, u, "call", code, f, pos, pos)
  BY StillMoved
<1> QED BY <1>3, <1>5, <1>6, <1>7 DEF Follows

\* Those that wait when the caller is at work.
LEMMA AwaitedPopped ==
    ASSUME NEW t, NEW s, IsStack(t, s), Len(s) > 1, NEW u, u = Front(s),
           NEW off, NEW f, NEW a, NEW it, NEW pos, AwaitedTo(t, off, s, Len(s) - 2, f, a, it, pos)
    PROVE  Awaited(t, off, u, f, a, it, pos)
<1>1. /\ Len(s) \in Nat /\ Len(u) = Len(s) - 1
      /\ \A i \in 1..(Len(s) - 1) : u[i] = s[i]
  <2>1. PICK h, n : h = s[Len(s) - 1].node /\ n = s[Len(s)].node
    OBVIOUS
  <2>2. HasCaller(t, s, h, n)
    BY <2>1, CallerIs
  <2> QED BY <2>2 DEF HasCaller
<1> SUFFICES ASSUME NEW i \in 1..(Len(u) - 1)
             PROVE  WaitsAt(t, off[u[i].node], f, a, it, pos, u[i].node, u[i].for)
  BY DEF Awaited
<1>2. i \in 1..(Len(s) - 2) /\ i \in 1..(Len(s) - 1)
  BY <1>1
<1> QED BY <1>1, <1>2 DEF AwaitedTo

\* A join returns the row that its operands make.
LEMMA CallerRowMove ==
    ASSUME NEW t, NEW s, IsStack(t, s), Len(s) > 1, NEW h, h = s[Len(s) - 1].node,
           NEW m, NEW off, NEW e, NEW c, NEW code, NEW f, NEW va, NEW a, NEW it, NEW pos, NEW was,
           Follows(t, m, off, s, e, c, code, f, va, a, it, pos, was), c = "return",
           \A y \in DOMAIN t : Len(m[y]) \in Nat, t[h].kind = "JOIN", NEW u, u = Front(s),
           NEW x \in Nat, pos[h] < x, x <= Len(m[h]), ~f => x = pos[h] + 1,
           NEW q, q = [pos EXCEPT ![h] = x], PlacedAt(t, m, off[h], a, it, q, h)
    PROVE  Follows(t, m, off, u, e, "return", "ROW", f, va, a, it, q, pos)
<1>1. PICK n : n = s[Len(s)].node /\ HasCaller(t, s, h, n)
  BY CallerIs
<1>2. IsSource(t) /\ h \in DOMAIN t /\ Len(u) = Len(s) - 1 /\ u[Len(u)].node = h
  BY <1>1 DEF HasCaller
<1>3. pos \in [DOMAIN t -> Nat] /\ \A y \in DOMAIN t : pos[y] <= Len(m[y])
  BY DEF Follows, Counts
<1>4. /\ q \in [DOMAIN t -> Nat] /\ q[h] = x
      /\ \A y \in DOMAIN t : y # h => q[y] = pos[y]
  BY <1>2, <1>3
<1>5. Counts(t, m, q, pos)
  <2>1. \A y \in DOMAIN t : pos[y] <= q[y] /\ q[y] <= Len(m[y])
    <3> SUFFICES ASSUME NEW y \in DOMAIN t PROVE pos[y] <= q[y] /\ q[y] <= Len(m[y])
      OBVIOUS
    <3>1. pos[y] \in Nat
      BY <1>3
    <3> QED BY <1>3, <1>4, <3>1
  <2> QED BY <1>3, <1>4, <2>1 DEF Counts
<1>6. /\ SameBut(t, h, va, va) /\ SameBut(t, h, a, a) /\ SameBut(t, h, it, it) /\ SameBut(t, h, pos, pos)
  BY DEF SameBut
<1>7. Placed(t, m, off, u, e, a, it, q) /\ Valued(t, m, u, e, "return", va, q)
  <2>1. Placed(t, m, off, s, e, a, it, pos) /\ Valued(t, m, s, e, c, va, pos)
    BY DEF Follows
  <2>2. \A y \in Rest(t, u, e) : (y \in Rest(t, s, e) \/ y = h) /\ h \notin Operands(t, y)
    BY <1>1, RestPopped DEF HasCaller
  <2>3. RestKept(t, h, s, e, c, u, e)
    BY <2>2 DEF RestKept
  <2>4. SameBut(t, h, pos, q)
    BY <1>4 DEF SameBut
  <2>5. PICK cu : cu = "return"
    OBVIOUS
  <2>6. PlacedAnew(t, m, off[h], u, e, h, cu, va, a, it, q)
    BY DEF PlacedAnew, ValuedAt
  <2>7. Placed(t, m, off, u, e, a, it, q) /\ Valued(t, m, u, e, cu, va, q)
    BY <1>2, <1>6, <2>1, <2>3, <2>4, <2>6, PlacedKept
  <2> QED BY <2>5, <2>7
<1>8. Awaited(t, off, u, f, a, it, pos)
  <2>1. AwaitedTo(t, off, s, Len(s) - 2, f, a, it, pos)
    BY <1>6, AwaitedBelow
  <2> QED BY <2>1, AwaitedPopped
<1>9. Moved(t, m, u, "return", "ROW", f, q, pos)
  BY <1>2, <1>4 DEF Moved
<1> QED BY <1>5, <1>7, <1>8, <1>9 DEF Follows

\* A caller returns that it is at its end, because its operand is.
LEMMA CallerDoneMove ==
    ASSUME NEW t, NEW s, IsStack(t, s), Len(s) > 1, NEW h, h = s[Len(s) - 1].node,
           NEW m, NEW off, NEW e, NEW c, NEW code, NEW f, NEW va, NEW a, NEW it, NEW pos, NEW was,
           Follows(t, m, off, s, e, c, code, f, va, a, it, pos, was), c = "return",
           NEW u, u = Front(s), NEW d, d = e \cup {h}, ~f => pos[h] = Len(m[h])
    PROVE  Follows(t, m, off, u, d, "return", "DONE", f, va, a, it, pos, pos)
<1>1. PICK n : n = s[Len(s)].node /\ HasCaller(t, s, h, n)
  BY CallerIs
<1>2. IsSource(t) /\ h \in DOMAIN t /\ Len(u) = Len(s) - 1 /\ u[Len(u)].node = h
  BY <1>1 DEF HasCaller
<1>3. Counts(t, m, pos, pos)
  BY <1>2, CountsKept DEF Follows
<1>4. /\ SameBut(t, h, va, va) /\ SameBut(t, h, a, a) /\ SameBut(t, h, it, it) /\ SameBut(t, h, pos, pos)
  BY DEF SameBut
<1>5. Placed(t, m, off, u, d, a, it, pos) /\ Valued(t, m, u, d, "return", va, pos)
  <2>1. Placed(t, m, off, s, e, a, it, pos) /\ Valued(t, m, s, e, c, va, pos)
    BY DEF Follows
  <2>2. \A y \in Rest(t, u, d) : y \in Rest(t, s, e) /\ y # h /\ h \notin Operands(t, y)
    <3> SUFFICES ASSUME NEW y \in Rest(t, u, d)
                 PROVE  y \in Rest(t, s, e) /\ y # h /\ h \notin Operands(t, y)
      OBVIOUS
    <3>1. y \in Rest(t, u, e) /\ y # h
      BY DEF Rest
    <3> QED BY <1>1, <3>1, RestPopped DEF HasCaller
  <2>3. RestKept(t, h, s, e, c, u, d)
    BY <2>2 DEF RestKept
  <2>4. PICK cu : cu = "return"
    OBVIOUS
  <2>5. PlacedAnew(t, m, off[h], u, d, h, cu, va, a, it, pos)
    BY <2>2 DEF PlacedAnew
  <2>6. Placed(t, m, off, u, d, a, it, pos) /\ Valued(t, m, u, d, cu, va, pos)
    BY <1>2, <1>4, <2>1, <2>3, <2>5, PlacedKept
  <2> QED BY <2>4, <2>6
<1>6. Awaited(t, off, u, f, a, it, pos)
  <2>1. AwaitedTo(t, off, s, Len(s) - 2, f, a, it, pos)
    BY <1>4, AwaitedBelow
  <2> QED BY <2>1, AwaitedPopped
<1>7. Moved(t, m, u, "return", "DONE", f, pos, pos)
  BY <1>2, StillMoved
<1> QED BY <1>3, <1>5, <1>6, <1>7 DEF Follows

\* EACH and FLATTEN go on to iterate, over what the next row contains.
LEMMA CallerIteratesMove ==
    ASSUME NEW t, NEW s, IsStack(t, s), Len(s) > 1, NEW h, h = s[Len(s) - 1].node,
           NEW m, NEW off, NEW e, NEW c, NEW code, NEW f, NEW va, NEW a, NEW it, NEW pos, NEW was,
           Follows(t, m, off, s, e, c, code, f, va, a, it, pos, was), c = "return",
           NEW u, u = Front(s), NEW iu, SameBut(t, h, it, iu), PlacedAt(t, m, off[h], a, iu, pos, h)
    PROVE  Follows(t, m, off, u, e, "iterate", code, f, va, a, iu, pos, pos)
<1>1. PICK n : n = s[Len(s)].node /\ HasCaller(t, s, h, n)
  BY CallerIs
<1>2. IsSource(t) /\ h \in DOMAIN t /\ Len(u) = Len(s) - 1 /\ u[Len(u)].node = h
  BY <1>1 DEF HasCaller
<1>3. Counts(t, m, pos, pos)
  BY <1>2, CountsKept DEF Follows
<1>4. /\ SameBut(t, h, va, va) /\ SameBut(t, h, a, a) /\ SameBut(t, h, it, it) /\ SameBut(t, h, pos, pos)
  BY DEF SameBut
<1>5. Placed(t, m, off, u, e, a, iu, pos) /\ Valued(t, m, u, e, "iterate", va, pos)
  <2>1. Placed(t, m, off, s, e, a, it, pos) /\ Valued(t, m, s, e, c, va, pos)
    BY DEF Follows
  <2>2. \A y \in Rest(t, u, e) : (y \in Rest(t, s, e) \/ y = h) /\ h \notin Operands(t, y)
    BY <1>1, RestPopped DEF HasCaller
  <2>3. RestKept(t, h, s, e, c, u, e)
    BY <2>2 DEF RestKept
  <2>4. PICK cu : cu = "iterate"
    OBVIOUS
  <2>5. PlacedAnew(t, m, off[h], u, e, h, cu, va, a, iu, pos)
    BY <1>2, <2>4 DEF PlacedAnew
  <2>6. Placed(t, m, off, u, e, a, iu, pos) /\ Valued(t, m, u, e, cu, va, pos)
    BY <1>2, <1>4, <2>1, <2>3, <2>5, PlacedKept
  <2> QED BY <2>4, <2>6
<1>6. Awaited(t, off, u, f, a, iu, pos)
  <2>1. AwaitedTo(t, off, s, Len(s) - 2, f, a, iu, pos)
    BY AwaitedBelow
  <2> QED BY <2>1, AwaitedPopped
<1>7. Moved(t, m, u, "iterate", code, f, pos, pos)
  BY StillMoved
<1> QED BY <1>3, <1>5, <1>6, <1>7 DEF Follows

\* B is r and what is below it.
IsBelow(t, r, B) ==
    /\ B \subseteq DOMAIN t /\ r \in B
    /\ \A x \in B : x <= r /\ Operands(t, x) \subseteq B \cup {0}
    /\ \A x \in B : x # r => \E y \in B : x \in Operands(t, y)

\* The operator Below gives such a set.
LEMMA BelowFrom ==
    ASSUME IsSource(tree), NEW r \in Nodes
    PROVE  IsBelow(tree, r, Below(r))
<1>1. PICK f : /\ f[0] = {}
               /\ \A n \in Nodes : f[n] = {n} \cup f[tree[n].left] \cup f[tree[n].right]
               /\ \A n \in Nodes : Below(n) = f[n] /\ f[n] \subseteq Nodes
  BY BelowIs
<1>2. PICK t : t = tree
  OBVIOUS
<1>3. /\ DOMAIN t = Nodes /\ IsSource(t) /\ Len(t) \in Nat /\ DOMAIN t = 1..Len(t)
      /\ \A n \in DOMAIN t :
            /\ t[n].left \in Nat /\ t[n].left < n
            /\ t[n].right \in Nat /\ t[n].right < n
  BY <1>2, SourceNodes DEF Nodes
<1>4. \A n \in DOMAIN t : f[n] = {n} \cup f[t[n].left] \cup f[t[n].right] /\ f[n] \subseteq DOMAIN t
  BY <1>1, <1>2, <1>3
<1> DEFINE Fine(n) == /\ \A x \in f[n] : x <= n
                      /\ \A x \in f[n] : x # n => \E y \in f[n] : x \in Operands(t, y)
           S == { n \in DOMAIN t : Fine(n) }
<1>5. ASSUME NEW n \in DOMAIN t, \A k \in Operands(t, n) \cap DOMAIN t : Fine(k)
      PROVE  Fine(n)
  <2>1. n \in f[n] /\ n \in Nat
    BY <1>3, <1>4
  <2>2. ASSUME NEW x \in f[n], x # n
        PROVE  \E k \in Operands(t, n) \cap DOMAIN t : x \in f[k] /\ k \in f[n] /\ k < n /\ f[k] \subseteq f[n]
    <3>1. PICK k \in Operands(t, n) : x \in f[k]
      BY <1>4, <2>2 DEF Operands
    <3>2. k # 0
      BY <1>1, <3>1
    <3>3. k \in Nat /\ k < n
      BY <1>3, <3>1 DEF Operands
    <3>4. k \in DOMAIN t
      BY <1>3, <2>1, <3>2, <3>3
    <3>5. k \in f[k]
      BY <1>4, <3>4
    <3>6. f[k] \subseteq f[n]
      BY <1>4, <3>1 DEF Operands
    <3> QED BY <3>1, <3>3, <3>4, <3>5, <3>6
  <2>3. \A x \in f[n] : x <= n
    <3> SUFFICES ASSUME NEW x \in f[n] PROVE x <= n
      OBVIOUS
    <3>1. CASE x = n
      BY <2>1, <3>1
    <3>2. CASE x # n
      <4>1. PICK k \in Operands(t, n) \cap DOMAIN t : x \in f[k] /\ k < n
        BY <2>2, <3>2
      <4>2. x <= k
        BY <1>5, <4>1
      <4>3. x \in Nat /\ k \in Nat
        BY <1>3, <1>4, <4>1
      <4> QED BY <2>1, <4>1, <4>2, <4>3
    <3> QED BY <3>1, <3>2
  <2>4. \A x \in f[n] : x # n => \E y \in f[n] : x \in Operands(t, y)
    <3> SUFFICES ASSUME NEW x \in f[n], x # n PROVE \E y \in f[n] : x \in Operands(t, y)
      OBVIOUS
    <3>1. PICK k \in Operands(t, n) \cap DOMAIN t : x \in f[k] /\ f[k] \subseteq f[n]
      BY <2>2
    <3>2. CASE x = k
      BY <2>1, <3>1, <3>2
    <3>3. CASE x # k
      BY <1>5, <3>1, <3>3
    <3> QED BY <3>2, <3>3
  <2> QED BY <2>3, <2>4
<1>6. r \in S
  <2> HIDE DEF Fine
  <2>1. Inherited(t, S)
    BY <1>5 DEF Inherited
  <2>2. DOMAIN t \subseteq S
    <3> HIDE DEF S
    <3> QED BY <1>3, <2>1, TreeInduction
  <2> QED BY <1>3, <2>2
<1>7. PICK B : B = Below(r)
  OBVIOUS
<1>8. B = f[r] /\ B \subseteq DOMAIN t /\ r \in B
  BY <1>1, <1>3, <1>4, <1>7
<1>9. \A x \in B : Operands(t, x) \subseteq B \cup {0}
  BY <1>2, <1>7, BelowDown
<1>10. IsBelow(t, r, B)
  BY <1>6, <1>8, <1>9 DEF IsBelow
<1> QED BY <1>2, <1>7, <1>10

\* A source that is not below r, and has not r for operand, has none below r.
LEMMA BelowApart ==
    ASSUME NEW t, IsSource(t), NEW r, NEW B, IsBelow(t, r, B),
           NEW y \in DOMAIN t, y \notin B, r \notin Operands(t, y)
    PROVE  \A k \in Operands(t, y) : k \notin B
<1> SUFFICES ASSUME NEW k \in Operands(t, y), k \in B PROVE FALSE
  OBVIOUS
<1>1. k # r
  OBVIOUS
<1>2. PICK z \in B : k \in Operands(t, z)
  BY <1>1 DEF IsBelow
<1>3. z \in DOMAIN t /\ k \in DOMAIN t
  BY DEF IsBelow
<1>4. y = z
  BY <1>2, <1>3, Parents
<1> QED BY <1>4

\* f, set to v below r.
SetTo(t, B, v, f, g) == \A k \in DOMAIN t : g[k] = IF k \in B THEN v ELSE f[k]

SameOutside(t, B, f, g) == \A k \in DOMAIN t : k \notin B => g[k] = f[k]

\* What is below r begins anew.
LEMMA RewoundPlaced ==
    ASSUME NEW t, IsSource(t), NEW r, NEW B, IsBelow(t, r, B), NEW m, NEW o, NEW x \in B,
           NEW b, NEW iu, NEW q, \A k \in B : b[k] = 0 /\ iu[k] = <<>> /\ q[k] = 0
    PROVE  PlacedAt(t, m, o, b, iu, q, x)
<1>1. PICK l, y : l = t[x].left /\ y = t[x].right
  OBVIOUS
<1>2. x \in DOMAIN t /\ {l, y} \subseteq B \cup {0}
  BY <1>1 DEF IsBelow, Operands
<1>3. /\ t[x].kind \in Kinds
      /\ l # 0 <=> t[x].kind \notin Leaves
      /\ y # 0 <=> t[x].kind = "JOIN"
  BY <1>1, <1>2, SourceNodes
<1>4. b[x] = 0 /\ q[x] = 0 /\ iu[x] = <<>>
  OBVIOUS
<1>5. l # 0 => q[l] = 0
  BY <1>2
<1>6. y # 0 => q[y] = 0
  BY <1>2
<1>7. t[x].kind = "JOIN" => q[l] = 0 /\ q[y] = 0
  BY <1>3, <1>5, <1>6 DEF Leaves
<1>8. t[x].kind \in Flattens => q[l] = 0
  BY <1>3, <1>5 DEF Leaves, Flattens
<1> QED BY <1>1, <1>4, <1>7, <1>8 DEF PlacedAt

\* A join steps its right operand through its rows again, with the next row of
\* the left one.
LEMMA RewindMove ==
    ASSUME NEW t, NEW s, IsStack(t, s), Len(s) > 1, NEW h, h = s[Len(s) - 1].node,
           NEW m, NEW off, NEW e, NEW c, NEW code, NEW f, NEW va, NEW a, NEW it, NEW pos, NEW was,
           Follows(t, m, off, s, e, c, code, f, va, a, it, pos, was),
           \A y \in DOMAIN t : Len(m[y]) \in Nat,
           c = "return", NEW r, r = t[h].right, NEW B, IsBelow(t, r, B),
           NEW vb, SameOutside(t, B, va, vb),
           NEW b, SetTo(t, B, 0, a, b), NEW iu, SetTo(t, B, <<>>, it, iu),
           NEW q \in [DOMAIN t -> Nat], SetTo(t, B, 0, pos, q),
           NEW d, d = e \ B, NEW w \in Fors, NEW u, u = Pushed(Front(s), w, r),
           WaitsAt(t, off[h], f, b, iu, q, h, w)
    PROVE  Follows(t, m, off, u, d, "call", code, f, vb, b, iu, q, q)
<1>1. PICK n, v : n = s[Len(s)].node /\ v = Front(s) /\ HasCaller(t, s, h, n)
  BY CallerIs
<1>2. /\ IsSource(t) /\ IsStack(t, v) /\ v # <<>> /\ Len(s) \in Nat /\ s # <<>>
      /\ Len(v) = Len(s) - 1 /\ v[Len(v)].node = h /\ Len(s) - 2 \in Nat
      /\ \A i \in 1..(Len(s) - 1) : v[i] = s[i]
      /\ h \in DOMAIN t
  BY <1>1 DEF HasCaller
<1>3. r \in DOMAIN t /\ r \in Operands(t, h)
  BY DEF IsBelow, Operands
<1>4. \A y \in DOMAIN t : r \in Operands(t, y) => y = h
  BY <1>2, <1>3, Parents
<1>5. r < h /\ r \in Nat /\ h \in Nat
  BY <1>2, <1>3, SourceNodes
<1>6. Counts(t, m, q, q)
  <2>1. Counts(t, m, pos, was)
    BY DEF Follows
  <2>2. \A k \in DOMAIN t : q[k] <= q[k] /\ q[k] <= Len(m[k])
    <3> SUFFICES ASSUME NEW k \in DOMAIN t PROVE q[k] <= q[k] /\ q[k] <= Len(m[k])
      OBVIOUS
    <3>1. pos[k] \in Nat /\ pos[k] <= Len(m[k]) /\ Len(m[k]) \in Nat
      BY <2>1 DEF Counts
    <3>2. q[k] = 0 \/ q[k] = pos[k]
      BY DEF SetTo
    <3> QED BY <3>1, <3>2
  <2> QED BY <2>2 DEF Counts
<1>7. ASSUME NEW x \in Rest(t, u, d)
      PROVE  PlacedAt(t, m, off[x], b, iu, q, x) /\ ValuedAt(t, m, vb, q, x)
  <2>1. x \in DOMAIN t
    BY DEF Rest
  <2>2. CASE x \in B
    <3>1. \A k \in B : b[k] = 0 /\ iu[k] = <<>> /\ q[k] = 0
      BY DEF SetTo, IsBelow
    <3>2. PICK o : o = off[x]
      OBVIOUS
    <3>3. PlacedAt(t, m, o, b, iu, q, x)
      BY <1>2, <2>2, <3>1, RewoundPlaced
    <3>4. q[x] = 0
      BY <2>2, <3>1
    <3>5. ValuedAt(t, m, vb, q, x)
      BY <3>4 DEF ValuedAt
    <3> QED BY <3>2, <3>3, <3>5
  <2>3. CASE x \notin B
    <3>1. x \in Rest(t, u, e)
      BY <2>3 DEF Rest
    <3>2. x \in Rest(t, s, e)
      <4>1. \A z \in Rest(t, u, e) : z \in Rest(t, s, e)
        BY <1>3, RestNext
      <4> QED BY <3>1, <4>1
    <3>3. x # h
      BY <1>1, <3>2 DEF HasCaller
    <3>4. \A k \in Operands(t, x) : k \notin B
      BY <1>2, <1>4, <2>1, <2>3, <3>3, BelowApart
    <3>5. b[x] = a[x] /\ iu[x] = it[x] /\ q[x] = pos[x] /\ vb[x] = va[x]
      BY <2>1, <2>3 DEF SetTo, SameOutside
    <3>6. \A k \in Operands(t, x) \ {0} : q[k] = pos[k]
      <4> SUFFICES ASSUME NEW k \in Operands(t, x) \ {0} PROVE q[k] = pos[k]
        OBVIOUS
      <4>1. k \in DOMAIN t
        <5>1. /\ Len(t) \in Nat /\ DOMAIN t = 1..Len(t)
              /\ t[x].left \in Nat /\ t[x].left < x /\ t[x].right \in Nat /\ t[x].right < x
          BY <1>2, <2>1, SourceNodes
        <5>2. k \in Nat /\ k # 0 /\ k < x /\ x \in 1..Len(t)
          BY <2>1, <5>1 DEF Operands
        <5> QED BY <5>1, <5>2
      <4> QED BY <3>4, <4>1 DEF SetTo
    <3>7. PICK o : o = off[x]
      OBVIOUS
    <3>8. PlacedAt(t, m, o, a, it, pos, x)
      BY <3>2, <3>7 DEF Follows, Placed
    <3>9. PlacedAt(t, m, o, b, iu, q, x)
      BY <1>2, <2>1, <3>5, <3>6, <3>8, PlacedSame
    <3>10. ValuedAt(t, m, va, pos, x)
      BY <3>2 DEF Follows, Valued
    <3>11. ValuedAt(t, m, vb, q, x)
      BY <3>5, <3>10 DEF ValuedAt
    <3> QED BY <3>7, <3>9, <3>11
  <2> QED BY <2>2, <2>3
<1>8. Placed(t, m, off, u, d, b, iu, q) /\ Valued(t, m, u, d, "call", vb, q)
  BY <1>7 DEF Placed, Valued
<1>9. Awaited(t, off, u, f, b, iu, q)
  <2>1. AwaitedTo(t, off, s, Len(s) - 2, f, a, it, pos)
    <3>1. SameBut(t, h, it, it)
      BY DEF SameBut
    <3> QED BY <3>1, AwaitedBelow
  <2>2. /\ Len(u) = Len(v) + 1
        /\ \A i \in 1..(Len(v) - 1) : u[i] = v[i]
        /\ u[Len(v)].node = h /\ u[Len(v)].for = w
    <3>1. /\ Len(u) = Len(v) + 1
          /\ \A i \in 1..(Len(v) - 1) : u[i] = v[i]
          /\ u[Len(v)].node = v[Len(v)].node /\ u[Len(v)].for = w
      <4>1. IsStack(t, v) /\ v # <<>> /\ u = Pushed(v, w, r)
        BY <1>1, <1>2
      <4>2. r \in DOMAIN t
        BY <1>3
      <4> HIDE <1>1, <1>2
      <4> QED BY <4>1, <4>2, PushedIs
    <3> QED BY <1>2, <3>1
  <2>3. PICK len : len = Len(s)
    OBVIOUS
  <2>4. Len(u) = len /\ Len(v) = len - 1 /\ len \in Nat /\ \A i \in 1..(len - 2) : u[i] = s[i]
    <3>1. Len(v) - 1 = len - 2 /\ \A i \in 1..(len - 2) : i \in 1..(len - 1)
      BY <1>2, <2>3
    <3> QED BY <1>2, <2>2, <2>3, <3>1
  <2> SUFFICES ASSUME NEW i \in 1..(len - 1)
               PROVE  WaitsAt(t, off[u[i].node], f, b, iu, q, u[i].node, u[i].for)
    BY <2>4 DEF Awaited
  <2>5. CASE i = len - 1
    BY <2>2, <2>4, <2>5
  <2>6. CASE i # len - 1
    <3>1. i \in 1..(len - 2)
      BY <2>4, <2>6
    <3>2. PICK y, x : y = s[i].node /\ x = s[i].for
      OBVIOUS
    <3>3. /\ y \in DOMAIN t /\ y # h /\ h < y /\ Waits(t, y, x, s[i + 1].node)
      <4>1. i \in 1..(Len(s) - 1) /\ y # h /\ h < y
        BY <1>1, <2>3, <3>1, <3>2 DEF HasCaller
      <4> QED BY <1>2, <3>2, <4>1, TopOperand
    <3>4. y \notin B
      <4>1. y \in B => y <= r
        BY DEF IsBelow
      <4>2. y \in Nat
        BY <1>2, <3>3, SourceNodes
      <4> QED BY <1>5, <3>3, <4>1, <4>2
    <3>5. \A k \in Operands(t, y) : k \notin B
      BY <1>2, <1>4, <3>3, <3>4, BelowApart
    <3>6. b[y] = a[y] /\ iu[y] = it[y] /\ q[y] = pos[y]
      BY <3>3, <3>4 DEF SetTo
    <3>7. \A k \in Operands(t, y) \ {0} : q[k] = pos[k]
      <4> SUFFICES ASSUME NEW k \in Operands(t, y) \ {0} PROVE q[k] = pos[k]
        OBVIOUS
      <4>1. k \in DOMAIN t
        <5>1. /\ Len(t) \in Nat /\ DOMAIN t = 1..Len(t)
              /\ t[y].left \in Nat /\ t[y].left < y /\ t[y].right \in Nat /\ t[y].right < y
          BY <1>2, <3>3, SourceNodes
        <5>2. k \in Nat /\ k # 0 /\ k < y /\ y \in 1..Len(t)
          BY <3>3, <5>1 DEF Operands
        <5> QED BY <5>1, <5>2
      <4> QED BY <3>5, <4>1 DEF SetTo
    <3>8. PICK o : o = off[y]
      OBVIOUS
    <3>9. WaitsAt(t, o, f, a, it, pos, y, x)
      BY <2>1, <2>3, <3>1, <3>2, <3>8 DEF AwaitedTo
    <3>10. WaitsAt(t, o, f, b, iu, q, y, x)
      <4>1. PICK z : z = s[i + 1].node
        OBVIOUS
      <4>2. IsSource(t) /\ y \in DOMAIN t /\ Waits(t, y, x, z) /\ (f => f)
        BY <1>2, <3>3, <4>1
      <4> QED BY <3>6, <3>7, <3>9, <4>2, WaitsSame
    <3> QED BY <2>4, <3>1, <3>2, <3>8, <3>10
  <2> QED BY <2>5, <2>6
<1>10. Moved(t, m, u, "call", code, f, q, q)
  BY StillMoved
<1> QED BY <1>6, <1>8, <1>9, <1>10 DEF Follows

-----------------------------------------------------------------------------
(* What the operations of the leaves and of a join do *)

\* The rows of a node are a sequence.
LEMMA LengthsAre ==
    ASSUME NEW t, NEW arr, NEW m, NEW off, Laying(t, arr, m, off)
    PROVE  \A k \in DOMAIN t : IsSequence(m[k]) /\ Len(m[k]) \in Nat
<1>1. \A k \in DOMAIN t : IsSequence(m[k])
  BY DEF Laying, LaidAt
<1> QED BY <1>1, SequenceOf

\* What is at hand of the source at work, if it has not ended.
LEMMA TopRests ==
    ASSUME NEW t, NEW s, IsStack(t, s), s # <<>>, NEW n, n = s[Len(s)].node, NEW e, n \notin e
    PROVE  n \in Rest(t, s, e)
<1>1. /\ n \in DOMAIN t
      /\ \A i \in 1..(Len(s) - 1) : s[i].node # n
  BY TopOperand
<1> QED BY <1>1 DEF Rest

\* Where the source at work is.
LEMMA TopPlaced ==
    ASSUME NEW t, NEW s, IsStack(t, s), s # <<>>, NEW n, n = s[Len(s)].node,
           NEW m, NEW off, NEW e, NEW c, NEW code, NEW f, NEW va, NEW a, NEW it, NEW pos, NEW was,
           Follows(t, m, off, s, e, c, code, f, va, a, it, pos, was), n \notin e
    PROVE  /\ PlacedAt(t, m, off[n], a, it, pos, n)
           /\ c # "iterate" => ValuedAt(t, m, va, pos, n)
           /\ n \in DOMAIN t /\ pos[n] \in Nat /\ pos[n] <= Len(m[n])
<1>1. n \in Rest(t, s, e)
  BY TopRests
<1>2. n \in DOMAIN t
  BY <1>1 DEF Rest
<1>3. Placed(t, m, off, s, e, a, it, pos) /\ Valued(t, m, s, e, c, va, pos) /\ Counts(t, m, pos, was)
  BY DEF Follows
<1>4. pos[n] \in Nat /\ pos[n] <= Len(m[n])
  BY <1>2, <1>3 DEF Counts
<1>5. c # "iterate" => ValuedAt(t, m, va, pos, n)
  BY <1>1, <1>3 DEF Valued
<1> QED BY <1>1, <1>2, <1>3, <1>4, <1>5 DEF Placed

\* A leaf reads its next row.
LEMMA LeafRowMove ==
    ASSUME NEW t, NEW s, IsStack(t, s), s # <<>>, NEW n, n = s[Len(s)].node,
           NEW m, NEW off, NEW e, NEW c, NEW code, NEW f, NEW va, NEW a, NEW it, NEW pos, NEW was,
           Follows(t, m, off, s, e, c, code, f, va, a, it, pos, was), n \notin e,
           c # "return", NEW arr \in Outers, Laying(t, arr, m, off), t[n].kind \in Leaves,
           NEW x, x = a[n] + 1, x <= Len(Rows(t[n], arr)),
           NEW vb, SameBut(t, n, va, vb), vb[n] = Rows(t[n], arr)[x],
           NEW b, SameBut(t, n, a, b), b[n] = x
    PROVE  \E q : Follows(t, m, off, s, e, "return", "ROW", f, vb, b, it, q, pos)
<1>1. /\ PlacedAt(t, m, off[n], a, it, pos, n)
      /\ n \in DOMAIN t /\ pos[n] \in Nat /\ pos[n] <= Len(m[n])
  BY TopPlaced
<1>2. IsSource(t)
  BY DEF IsStack
<1>3. LaidAt(t, arr, m, off[n], n)
  BY <1>1 DEF Laying
<1>4. m[n] = LeafRows(t[n], arr)
  BY <1>3 DEF LaidAt
<1>5. /\ Len(LeafRows(t[n], arr)) = Len(Rows(t[n], arr))
      /\ \A i \in 1..Len(Rows(t[n], arr)) : LeafRows(t[n], arr)[i] = <<Rows(t[n], arr)[i]>>
  BY <1>1, <1>2, LeafRowsAre
<1>6. \A k \in DOMAIN t : Len(m[k]) \in Nat
  BY LengthsAre, Zenon
<1>7. a[n] = pos[n]
  BY <1>1 DEF PlacedAt
<1>8. x = pos[n] + 1 /\ x \in Nat /\ x \in 1..Len(Rows(t[n], arr)) /\ pos[n] + 1 <= Len(m[n])
  BY <1>1, <1>4, <1>5, <1>6, <1>7
<1>9. m[n][pos[n] + 1] = <<vb[n]>>
  BY <1>4, <1>5, <1>8
<1>10. PICK q : q = [pos EXCEPT ![n] = pos[n] + 1]
  OBVIOUS
<1>11. pos \in [DOMAIN t -> Nat]
  BY DEF Follows, Counts
<1>12. q[n] = x
  BY <1>1, <1>8, <1>10, <1>11
<1>13. PlacedAt(t, m, off[n], b, it, q, n)
  <2>1. t[n].kind # "JOIN" /\ t[n].kind \notin Flattens
    BY DEF Leaves, Flattens
  <2> QED BY <1>12, <2>1, Zenon DEF PlacedAt
<1>14. SameBut(t, n, it, it)
  BY DEF SameBut
<1>15. Follows(t, m, off, s, e, "return", "ROW", f, vb, b, it, q, pos)
  BY <1>6, <1>8, <1>9, <1>10, <1>13, <1>14, RowMove
<1> QED BY <1>15

\* A leaf that has no further row is at its end.
LEMMA LeafDoneMove ==
    ASSUME NEW t, NEW s, IsStack(t, s), s # <<>>, NEW n, n = s[Len(s)].node,
           NEW m, NEW off, NEW e, NEW c, NEW code, NEW f, NEW va, NEW a, NEW it, NEW pos, NEW was,
           Follows(t, m, off, s, e, c, code, f, va, a, it, pos, was), n \notin e,
           c # "return", NEW arr \in Outers, Laying(t, arr, m, off), t[n].kind \in Leaves,
           NEW vb, SameBut(t, n, va, vb), NEW b, SameBut(t, n, a, b),
           NEW d, d = e \cup {n}, NEW g, f => g, ~g => a[n] >= Len(Rows(t[n], arr))
    PROVE  Follows(t, m, off, s, d, "return", "DONE", g, vb, b, it, pos, pos)
<1>1. /\ PlacedAt(t, m, off[n], a, it, pos, n)
      /\ n \in DOMAIN t /\ pos[n] \in Nat /\ pos[n] <= Len(m[n])
  BY TopPlaced
<1>2. IsSource(t)
  BY DEF IsStack
<1>3. LaidAt(t, arr, m, off[n], n)
  BY <1>1 DEF Laying
<1>4. m[n] = LeafRows(t[n], arr)
  BY <1>3 DEF LaidAt
<1>5. Len(LeafRows(t[n], arr)) = Len(Rows(t[n], arr))
  BY <1>1, <1>2, LeafRowsAre
<1>6. \A k \in DOMAIN t : Len(m[k]) \in Nat
  BY LengthsAre
<1>7. a[n] = pos[n]
  BY <1>1 DEF PlacedAt
<1>8. ~g => pos[n] = Len(m[n])
  BY <1>1, <1>4, <1>5, <1>6, <1>7
<1>9. SameBut(t, n, it, it)
  BY DEF SameBut
<1> QED BY <1>8, <1>9, DoneMove

-----------------------------------------------------------------------------
\* A join calls an operand.
LEMMA JoinCallMove ==
    ASSUME NEW t, NEW s, IsStack(t, s), s # <<>>, NEW n, n = s[Len(s)].node,
           NEW m, NEW off, NEW e, NEW c, NEW code, NEW f, NEW va, NEW a, NEW it, NEW pos, NEW was,
           Follows(t, m, off, s, e, c, code, f, va, a, it, pos, was), n \notin e,
           c # "return", t[n].kind = "JOIN", NEW b, SameBut(t, n, a, b),
           NEW w, NEW k, NEW u, u = Pushed(s, w, k), k \in DOMAIN t,
           \/ w = "first" /\ a[n] = 0 /\ b[n] = 1
           \/ w = "right" /\ a[n] # 0 /\ b[n] = a[n]
    PROVE  Follows(t, m, off, u, e, "call", code, f, va, b, it, pos, pos)
<1>1. PICK l, r : l = t[n].left /\ r = t[n].right
  OBVIOUS
<1>2. /\ PlacedAt(t, m, off[n], a, it, pos, n)
      /\ n \in DOMAIN t /\ pos[n] \in Nat
  BY TopPlaced
<1>3. IF a[n] = 0 THEN pos[n] = 0 /\ pos[l] = 0 /\ pos[r] = 0
      ELSE pos[l] > 0 /\ pos[r] > 0 /\ pos[n] = off[n][pos[l] - 1] + pos[r]
  BY <1>1, <1>2 DEF PlacedAt
<1>4. \A j \in Nat : Near(f, j, j)
  BY DEF Near
<1>5. w \in Fors
  BY DEF Fors
<1>6. WaitsAt(t, off[n], f, b, it, pos, n, w)
  <2>1. CASE w = "first"
    BY <1>1, <1>3, <2>1 DEF WaitsAt
  <2>2. CASE w = "right"
    <3>1. PICK x : x = off[n][pos[l] - 1] + pos[r]
      OBVIOUS
    <3>2. pos[l] > 0 /\ pos[n] = x
      BY <1>3, <2>2, <3>1
    <3>3. Near(f, pos[n], x)
      BY <1>2, <1>4, <3>2
    <3>4. pos[l] > 0 /\ Near(f, pos[n], off[n][pos[l] - 1] + pos[r])
      BY <3>1, <3>2, <3>3
    <3>5. b[n] # 0
      BY <2>2
    <3> QED BY <1>1, <2>2, <3>4, <3>5 DEF WaitsAt
  <2> QED BY <2>1, <2>2
<1> QED BY <1>5, <1>6, PushMove

-----------------------------------------------------------------------------
(* What the source does that another one returns to *)

\* The places as the source h finds them that operand n returns to.
FoundBy(t, m, off, s, code, f, a, it, pos, was, h, n) ==
    /\ IsSource(t) /\ h \in DOMAIN t /\ n \in DOMAIN t /\ n # h /\ n \in Operands(t, h)
    /\ n = t[h].left \/ n = t[h].right
    /\ pos \in [DOMAIN t -> Nat] /\ was \in [DOMAIN t -> Nat]
    /\ \A k \in DOMAIN t : pos[k] <= Len(m[k]) /\ Len(m[k]) \in Nat
    /\ \A k \in DOMAIN t : was[k] = pos[k] \/ (code = "ROW" /\ k = n)
    /\ code = "ROW" => was[n] < pos[n]
    /\ code = "ROW" /\ (~f \/ t[n].kind # "JOIN") => pos[n] = was[n] + 1
    /\ code = "DONE" /\ ~f => pos[n] = Len(m[n])
    /\ Waits(t, h, s[Len(s) - 1].for, n)
    /\ WaitsAt(t, off[h], f, a, it, was, h, s[Len(s) - 1].for)

\* Where a source is when an operand returns to it.
LEMMA CallerFinds ==
    ASSUME NEW t, NEW s, IsStack(t, s), Len(s) > 1, NEW h, h = s[Len(s) - 1].node,
           NEW n, n = s[Len(s)].node, NEW arr,
           NEW m, NEW off, NEW e, NEW c, NEW code, NEW f, NEW va, NEW a, NEW it, NEW pos, NEW was,
           Follows(t, m, off, s, e, c, code, f, va, a, it, pos, was), c = "return",
           Laying(t, arr, m, off)
    PROVE  FoundBy(t, m, off, s, code, f, a, it, pos, was, h, n)
<1>1. HasCaller(t, s, h, n)
  BY CallerIs
<1>2. /\ IsSource(t) /\ h \in DOMAIN t /\ n \in DOMAIN t /\ n # h /\ n \in Operands(t, h)
      /\ Waits(t, h, s[Len(s) - 1].for, n) /\ Len(s) \in Nat
  BY <1>1 DEF HasCaller
<1>3. n = t[h].left \/ n = t[h].right
  BY <1>2 DEF Operands
<1>4. Counts(t, m, pos, was) /\ Awaited(t, off, s, f, a, it, was) /\ Moved(t, m, s, c, code, f, pos, was)
  BY DEF Follows
<1>5. \A k \in DOMAIN t : Len(m[k]) \in Nat
  BY LengthsAre
<1>6. Len(s) - 1 \in 1..(Len(s) - 1)
  BY <1>2
<1>7. WaitsAt(t, off[h], f, a, it, was, h, s[Len(s) - 1].for)
  BY <1>4, <1>6 DEF Awaited
<1>8. /\ pos \in [DOMAIN t -> Nat] /\ was \in [DOMAIN t -> Nat]
      /\ \A k \in DOMAIN t : pos[k] <= Len(m[k])
  BY <1>4 DEF Counts
<1>9. /\ \A k \in DOMAIN t : was[k] = pos[k] \/ (code = "ROW" /\ k = n)
      /\ code = "ROW" => was[n] < pos[n]
      /\ code = "ROW" /\ (~f \/ t[n].kind # "JOIN") => pos[n] = was[n] + 1
      /\ code = "DONE" /\ ~f => pos[n] = Len(m[n])
  BY <1>4 DEF Moved
<1> QED BY <1>2, <1>3, <1>5, <1>7, <1>8, <1>9 DEF FoundBy

\* A join that an operand returns to, with the places of both.
JoinFoundBy(t, m, o, w, code, f, a, pos, was, h, l, r, n) ==
    /\ l \in DOMAIN t /\ r \in DOMAIN t /\ l # r /\ l # h /\ r # h /\ h \in DOMAIN t
    /\ t[r].kind # "JOIN"
    /\ ProductLaid(o, m[l], m[r], m[h])
    /\ was[h] = pos[h] /\ (n = l => was[r] = pos[r]) /\ (n = r => was[l] = pos[l])
    /\ (code # "ROW" => was[l] = pos[l] /\ was[r] = pos[r])
    /\ pos[h] \in Nat /\ pos[l] \in Nat /\ pos[r] \in Nat /\ was[l] \in Nat /\ was[r] \in Nat
    /\ pos[h] <= Len(m[h]) /\ pos[l] <= Len(m[l]) /\ pos[r] <= Len(m[r])
    /\ a[h] # 0
    /\ w \in {"first", "left"} => n = l
    /\ w \in {"right", "again"} => n = r
    /\ w = "first" => was[h] = 0 /\ was[l] = 0 /\ was[r] = 0
    /\ w \in {"right", "again"} => was[l] > 0 /\ Near(f, was[h], o[was[l] - 1] + was[r])
    /\ w = "again" => was[r] = 0
    /\ w = "left" => Near(f, was[h], o[was[l]])
    /\ code = "ROW" => was[n] < pos[n]
    /\ code = "ROW" /\ (~f \/ n = r) => pos[n] = was[n] + 1
    /\ code = "DONE" /\ ~f => pos[n] = Len(m[n])

\* Where a join is then.
LEMMA JoinFinds ==
    ASSUME NEW t, NEW s, IsStack(t, s), Len(s) > 1, NEW h, h = s[Len(s) - 1].node,
           NEW n, n = s[Len(s)].node, NEW arr,
           NEW m, NEW off, NEW e, NEW c, NEW code, NEW f, NEW va, NEW a, NEW it, NEW pos, NEW was,
           Follows(t, m, off, s, e, c, code, f, va, a, it, pos, was), c = "return",
           Laying(t, arr, m, off), t[h].kind = "JOIN",
           NEW l, l = t[h].left, NEW r, r = t[h].right, NEW w, w = s[Len(s) - 1].for
    PROVE  JoinFoundBy(t, m, off[h], w, code, f, a, pos, was, h, l, r, n)
<1>1. FoundBy(t, m, off, s, code, f, a, it, pos, was, h, n)
  BY CallerFinds
<1>2. /\ IsSource(t) /\ h \in DOMAIN t /\ n \in DOMAIN t /\ n # h
      /\ pos \in [DOMAIN t -> Nat] /\ was \in [DOMAIN t -> Nat]
      /\ \A k \in DOMAIN t : pos[k] <= Len(m[k]) /\ Len(m[k]) \in Nat
      /\ \A k \in DOMAIN t : was[k] = pos[k] \/ (code = "ROW" /\ k = n)
      /\ code = "ROW" => was[n] < pos[n]
      /\ code = "ROW" /\ (~f \/ t[n].kind # "JOIN") => pos[n] = was[n] + 1
      /\ code = "DONE" /\ ~f => pos[n] = Len(m[n])
      /\ Waits(t, h, w, n) /\ WaitsAt(t, off[h], f, a, it, was, h, w)
  BY <1>1 DEF FoundBy
<1>3. /\ l \in Nat /\ l < h /\ r \in Nat /\ r < h /\ l # 0 /\ r # 0 /\ l # r
      /\ DOMAIN t = 1..Len(t) /\ Len(t) \in Nat
  <2>1. t[h].kind \notin Leaves
    BY DEF Leaves
  <2> QED BY <1>2, <2>1, SourceNodes
<1>4. l \in DOMAIN t /\ r \in DOMAIN t /\ l # h /\ r # h
  BY <1>2, <1>3, LessIsInBounds, Zenon
<1>5. t[r].kind # "JOIN"
  BY <1>2, <1>3 DEF IsSource
<1>6. ProductLaid(off[h], m[l], m[r], m[h])
  <2>1. LaidAt(t, arr, m, off[h], h)
    BY <1>2 DEF Laying
  <2> QED BY <2>1 DEF LaidAt
<1>7. /\ w # "next" /\ w \in {"first", "left", "right", "again"}
      /\ w \in {"first", "left"} => n = l
      /\ w \in {"right", "again"} => n = r
  BY <1>2 DEF Waits, Flattens
<1>8. n = l \/ n = r
  BY <1>7
<1>9. /\ was[h] = pos[h] /\ (n = l => was[r] = pos[r]) /\ (n = r => was[l] = pos[l])
      /\ (code # "ROW" => was[l] = pos[l] /\ was[r] = pos[r])
  BY <1>2, <1>3, <1>4, <1>8
<1>10. /\ a[h] # 0
       /\ w = "first" => was[h] = 0 /\ was[l] = 0 /\ was[r] = 0
       /\ w \in {"right", "again"} => was[l] > 0 /\ Near(f, was[h], off[h][was[l] - 1] + was[r])
       /\ w = "again" => was[r] = 0
       /\ w = "left" => Near(f, was[h], off[h][was[l]])
  BY <1>2, <1>7 DEF WaitsAt
<1>11. /\ pos[h] \in Nat /\ pos[l] \in Nat /\ pos[r] \in Nat /\ was[l] \in Nat /\ was[r] \in Nat
       /\ pos[h] <= Len(m[h]) /\ pos[l] <= Len(m[l]) /\ pos[r] <= Len(m[r])
  BY <1>2, <1>4
<1>12. code = "ROW" /\ (~f \/ n = r) => pos[n] = was[n] + 1
  BY <1>2, <1>5
<1> QED BY <1>2, <1>3, <1>4, <1>5, <1>6, <1>7, <1>9, <1>10, <1>11, <1>12, Zenon DEF JoinFoundBy

\* A join whose left operand has a row asks the right one for its first.
LEMMA JoinFirstMove ==
    ASSUME NEW t, NEW s, IsStack(t, s), Len(s) > 1, NEW h, h = s[Len(s) - 1].node,
           NEW arr, NEW m, NEW off, NEW e, NEW c, NEW code, NEW f, NEW va, NEW a, NEW it, NEW pos, NEW was,
           Follows(t, m, off, s, e, c, code, f, va, a, it, pos, was), c = "return", code = "ROW",
           Laying(t, arr, m, off), t[h].kind = "JOIN", s[Len(s) - 1].for = "first",
           NEW w, w = "right", NEW k, k = t[h].right, NEW u, u = Pushed(Front(s), w, k)
    PROVE  Follows(t, m, off, u, e, "call", code, f, va, a, it, pos, pos)
<1>1. PICK l, n : l = t[h].left /\ n = s[Len(s)].node
  OBVIOUS
<1>2. PICK o : o = off[h]
  OBVIOUS
<1>3. JoinFoundBy(t, m, o, "first", code, f, a, pos, was, h, l, k, n)
  BY <1>1, <1>2, JoinFinds
<1>4. /\ k \in DOMAIN t /\ n = l /\ was[k] = pos[k] /\ was[h] = pos[h]
      /\ was[h] = 0 /\ was[l] = 0 /\ was[k] = 0 /\ a[h] # 0 /\ pos[l] \in Nat
      /\ was[n] < pos[n] /\ (~f => pos[n] = was[n] + 1)
      /\ ProductLaid(o, m[l], m[k], m[h]) /\ pos[l] <= Len(m[l])
  BY <1>3 DEF JoinFoundBy
<1>5. pos[h] = 0 /\ pos[k] = 0 /\ pos[l] > 0 /\ (~f => pos[l] = 1)
  BY <1>4
<1>6. PICK j : j = pos[l] - 1
  OBVIOUS
<1>7. j \in 0..Len(m[l]) /\ (~f => j = 0) /\ j \in Nat
  <2>1. Len(m[l]) \in Nat
    BY <1>4, Zenon DEF ProductLaid
  <2> QED BY <1>4, <1>5, <1>6, <2>1
<1>8. o[j] \in Nat /\ (~f => o[j] = 0)
  BY <1>4, <1>7, Zenon DEF ProductLaid
<1>9. Near(f, pos[h], o[pos[l] - 1] + pos[k])
  BY <1>5, <1>6, <1>8 DEF Near
<1>10. WaitsAt(t, o, f, a, it, pos, h, w)
  BY <1>1, <1>4, <1>5, <1>9, Zenon DEF WaitsAt
<1>11. w \in Fors
  BY DEF Fors
<1> QED BY <1>2, <1>4, <1>10, <1>11, NextMove

\* A join goes on to the next row of its left operand.
LEMMA JoinRightDoneMove ==
    ASSUME NEW t, NEW s, IsStack(t, s), Len(s) > 1, NEW h, h = s[Len(s) - 1].node,
           NEW arr, NEW m, NEW off, NEW e, NEW c, NEW code, NEW f, NEW va, NEW a, NEW it, NEW pos, NEW was,
           Follows(t, m, off, s, e, c, code, f, va, a, it, pos, was), c = "return", code = "DONE",
           Laying(t, arr, m, off), t[h].kind = "JOIN", s[Len(s) - 1].for = "right",
           NEW w, w = "left", NEW k, k = t[h].left, NEW u, u = Pushed(Front(s), w, k)
    PROVE  Follows(t, m, off, u, e, "call", code, f, va, a, it, pos, pos)
<1>1. PICK r, n : r = t[h].right /\ n = s[Len(s)].node
  OBVIOUS
<1>2. PICK o : o = off[h]
  OBVIOUS
<1>3. JoinFoundBy(t, m, o, "right", code, f, a, pos, was, h, k, r, n)
  BY <1>1, <1>2, JoinFinds
<1>4. /\ k \in DOMAIN t /\ n = r /\ was[k] = pos[k] /\ was[h] = pos[h] /\ was[r] = pos[r]
      /\ a[h] # 0 /\ pos[k] \in Nat /\ pos[r] \in Nat /\ pos[h] \in Nat
      /\ was[k] > 0 /\ Near(f, was[h], o[was[k] - 1] + was[r])
      /\ ProductLaid(o, m[k], m[r], m[h]) /\ pos[k] <= Len(m[k]) /\ pos[r] <= Len(m[r])
      /\ (~f => pos[r] = Len(m[r]))
  BY <1>3 DEF JoinFoundBy
<1>5. Len(m[k]) \in Nat /\ Len(m[r]) \in Nat
  BY <1>4, Zenon DEF ProductLaid
<1>6. pos[k] \in 1..Len(m[k]) /\ pos[k] \in 0..Len(m[k]) /\ pos[k] - 1 \in 0..Len(m[k])
  <2>1. pos[k] > 0 /\ pos[k] \in Nat /\ pos[k] <= Len(m[k])
    BY <1>4, Zenon
  <2> QED BY <1>5, <2>1, InBounds, Zenon
<1>7. o[pos[k]] = o[pos[k] - 1] + Len(m[r]) /\ o[pos[k]] \in Nat /\ o[pos[k] - 1] \in Nat
  BY <1>4, <1>6, Zenon DEF ProductLaid
<1>8. Near(f, pos[h], o[pos[k] - 1] + pos[r])
  BY <1>4
<1>9. Near(f, pos[h], o[pos[k]])
  <2>1. pos[h] \in Nat /\ pos[r] \in Nat /\ pos[r] <= Len(m[r]) /\ (~f => pos[r] = Len(m[r]))
    BY <1>4
  <2> QED BY <1>5, <1>7, <1>8, <2>1, NearEnd, Zenon
<1>10. WaitsAt(t, o, f, a, it, pos, h, w)
  BY <1>1, <1>4, <1>9, Zenon DEF WaitsAt
<1>11. w \in Fors
  BY DEF Fors
<1> QED BY <1>2, <1>4, <1>10, <1>11, NextMove, Zenon

\* A join has a row: one of the left operand with the next of the right one.
LEMMA JoinRowMove ==
    ASSUME NEW t, NEW s, IsStack(t, s), Len(s) > 1, NEW h, h = s[Len(s) - 1].node,
           NEW arr, NEW m, NEW off, NEW e, NEW c, NEW code, NEW f, NEW va, NEW a, NEW it, NEW pos, NEW was,
           Follows(t, m, off, s, e, c, code, f, va, a, it, pos, was), c = "return", code = "ROW",
           Laying(t, arr, m, off), t[h].kind = "JOIN", s[Len(s) - 1].for \in {"right", "again"},
           NEW u, u = Front(s)
    PROVE  \E q : Follows(t, m, off, u, e, "return", "ROW", f, va, a, it, q, pos)
<1>1. PICK l, r, n, w : l = t[h].left /\ r = t[h].right /\ n = s[Len(s)].node /\ w = s[Len(s) - 1].for
  OBVIOUS
<1>2. PICK o : o = off[h]
  OBVIOUS
<1>3. JoinFoundBy(t, m, o, w, code, f, a, pos, was, h, l, r, n)
  BY <1>1, <1>2, JoinFinds
<1>4. /\ h \in DOMAIN t /\ l \in DOMAIN t /\ r \in DOMAIN t /\ l # h /\ r # h
      /\ n = r /\ was[l] = pos[l] /\ was[h] = pos[h]
      /\ a[h] # 0 /\ pos[l] \in Nat /\ pos[r] \in Nat /\ pos[h] \in Nat /\ was[r] \in Nat
      /\ was[l] > 0 /\ Near(f, was[h], o[was[l] - 1] + was[r])
      /\ ProductLaid(o, m[l], m[r], m[h]) /\ pos[l] <= Len(m[l]) /\ pos[r] <= Len(m[r])
      /\ pos[r] = was[r] + 1
  BY <1>1, <1>3 DEF JoinFoundBy
<1>5. Len(m[l]) \in Nat /\ Len(m[r]) \in Nat /\ Len(m[h]) \in Nat
  BY <1>4 DEF ProductLaid
<1>6. pos[l] \in 1..Len(m[l]) /\ pos[l] - 1 \in 0..Len(m[l]) /\ pos[r] \in 1..Len(m[r])
  BY <1>4, <1>5
<1>7. PICK z : z = o[pos[l] - 1]
  OBVIOUS
<1>8. z \in Nat /\ z + pos[r] \in 1..Len(m[h])
  BY <1>4, <1>6, <1>7 DEF ProductLaid
<1>9. Near(f, pos[h], z + was[r])
  BY <1>4, <1>7
<1>10. PICK x : x = z + pos[r]
  OBVIOUS
<1>11. x \in Nat /\ pos[h] < x /\ x <= Len(m[h]) /\ (~f => x = pos[h] + 1)
  <2>1. pos[h] \in Nat /\ pos[r] \in Nat /\ was[r] \in Nat /\ pos[r] = was[r] + 1
    BY <1>4
  <2>2. \A i, j, x1 \in Nat : i <= x1 + j /\ (~f => i = x1 + j) =>
            /\ x1 + (j + 1) \in Nat /\ i < x1 + (j + 1) /\ (~f => x1 + (j + 1) = i + 1)
    OBVIOUS
  <2>3. pos[h] <= z + was[r] /\ (~f => pos[h] = z + was[r])
    BY <1>9, Zenon DEF Near
  <2>4. \A i \in Nat : \A j \in 1..i : j <= i
    OBVIOUS
  <2>5. x <= Len(m[h])
    BY <1>5, <1>8, <1>10, <2>4, Zenon
  <2>6. x = z + (was[r] + 1)
    BY <1>10, <2>1, Zenon
  <2>7. x \in Nat /\ pos[h] < x /\ (~f => x = pos[h] + 1)
    <3>1. z \in Nat
      BY <1>8
    <3> QED BY <2>1, <2>2, <2>3, <2>6, <3>1, Zenon
  <2> QED BY <2>5, <2>7, Zenon
<1>12. PICK q : q = [pos EXCEPT ![h] = x]
  OBVIOUS
<1>13. pos \in [DOMAIN t -> Nat]
  BY DEF Follows, Counts
<1>14. q[h] = x /\ q[l] = pos[l] /\ q[r] = pos[r]
  BY <1>4, <1>12, <1>13
<1>15. PlacedAt(t, m, o, a, it, q, h)
  <2>1. t[h].kind \notin Leaves /\ t[h].kind \notin Flattens
    BY DEF Leaves, Flattens
  <2>2. q[l] > 0 /\ q[r] > 0 /\ q[h] = o[q[l] - 1] + q[r]
    BY <1>4, <1>6, <1>7, <1>10, <1>14
  <2> QED BY <1>1, <1>4, <2>1, <2>2, Zenon DEF PlacedAt
<1>16. \A y \in DOMAIN t : Len(m[y]) \in Nat
  BY LengthsAre
<1>17. Follows(t, m, off, u, e, "return", "ROW", f, va, a, it, q, pos)
  BY <1>2, <1>11, <1>12, <1>15, <1>16, CallerRowMove
<1> QED BY <1>17

\* If the right operand has no rows, then the join has none.
LEMMA EmptyProduct ==
    ASSUME NEW o, NEW x, NEW y, NEW s, ProductLaid(o, x, y, s), Len(y) = 0
    PROVE  Len(s) = 0
<1> DEFINE Bad == { i \in 0..Len(x) : o[i] # 0 }
<1>1. Len(x) \in Nat /\ o[0] = 0 /\ o[Len(x)] = Len(s) /\ o \in [0..Len(x) -> Nat]
  BY DEF ProductLaid
<1>2. \A i \in 1..Len(x) : o[i] = o[i - 1] + 0
  BY DEF ProductLaid
<1>3. Bad = {}
  <2> SUFFICES ASSUME Bad # {} PROVE FALSE
    OBVIOUS
  <2>1. PICK i \in Bad : \A j \in Bad : i <= j
    <3>1. Bad \subseteq Nat
      BY <1>1
    <3> QED BY <3>1, LeastElement
  <2>2. i \in 0..Len(x) /\ o[i] # 0
    BY <2>1
  <2>3. i \in 1..Len(x) /\ i - 1 \in 0..Len(x) /\ ~(i <= i - 1)
    BY <1>1, <2>2
  <2>4. i - 1 \notin Bad
    BY <2>1, <2>3
  <2>5. o[i - 1] = 0
    BY <2>3, <2>4
  <2> QED BY <1>2, <2>2, <2>3, <2>5
<1>4. Len(x) \in 0..Len(x)
  BY <1>1
<1> QED BY <1>1, <1>3, <1>4

\* A join that comes to its end has had all its rows.
LEMMA JoinDoneMove ==
    ASSUME NEW t, NEW s, IsStack(t, s), Len(s) > 1, NEW h, h = s[Len(s) - 1].node,
           NEW arr, NEW m, NEW off, NEW e, NEW c, NEW code, NEW f, NEW va, NEW a, NEW it, NEW pos, NEW was,
           Follows(t, m, off, s, e, c, code, f, va, a, it, pos, was), c = "return", code = "DONE",
           Laying(t, arr, m, off), t[h].kind = "JOIN", s[Len(s) - 1].for \in {"first", "left", "again"},
           NEW u, u = Front(s), NEW d, d = e \cup {h}
    PROVE  Follows(t, m, off, u, d, "return", "DONE", f, va, a, it, pos, pos)
<1>1. PICK l, r, n, w : l = t[h].left /\ r = t[h].right /\ n = s[Len(s)].node /\ w = s[Len(s) - 1].for
  OBVIOUS
<1>2. PICK o : o = off[h]
  OBVIOUS
<1>3. JoinFoundBy(t, m, o, w, code, f, a, pos, was, h, l, r, n)
  BY <1>1, <1>2, JoinFinds
<1>4. /\ w \in {"first", "left"} => n = l
      /\ w = "again" => n = r
      /\ was[l] = pos[l] /\ was[h] = pos[h] /\ was[r] = pos[r]
      /\ pos[l] \in Nat /\ pos[r] \in Nat /\ pos[h] \in Nat
      /\ w = "first" => was[h] = 0 /\ was[l] = 0
      /\ w = "again" => was[r] = 0
      /\ w = "left" => Near(f, was[h], o[was[l]])
      /\ ProductLaid(o, m[l], m[r], m[h]) /\ pos[h] <= Len(m[h])
      /\ (~f => pos[n] = Len(m[n]))
  BY <1>1, <1>3 DEF JoinFoundBy
<1>5. Len(m[h]) \in Nat /\ o[0] = 0 /\ o[Len(m[l])] = Len(m[h])
  BY <1>4 DEF ProductLaid
<1>6. ASSUME ~f PROVE pos[h] = Len(m[h])
  <2>1. pos[n] = Len(m[n])
    BY <1>4, <1>6
  <2>2. CASE w = "first"
    BY <1>4, <1>5, <2>1, <2>2
  <2>3. CASE w = "left"
    BY <1>4, <1>5, <1>6, <2>1, <2>3 DEF Near
  <2>4. CASE w = "again"
    <3>1. Len(m[r]) = 0
      BY <1>4, <2>1, <2>4
    <3>2. Len(m[h]) = 0
      BY <1>4, <3>1, EmptyProduct
    <3> QED BY <1>4, <3>2
  <2> QED BY <1>1, <2>2, <2>3, <2>4
<1> QED BY <1>6, CallerDoneMove

\* The sources of B are rewound.
IsRewound(t, B, va, vb, a, b, it, iu, e, d) ==
    /\ SameOutside(t, B, va, vb) /\ SetTo(t, B, 0, a, b) /\ SetTo(t, B, <<>>, it, iu)
    /\ d = e \ B

StartsOver(t, m, off, u, d, code, f, vb, b, iu, pos) ==
    \E q : /\ Follows(t, m, off, u, d, "call", code, f, vb, b, iu, q, q)
           /\ q[Len(t)] = pos[Len(t)]

\* A join has a new row of its left operand, and starts over with the right one.
LEMMA JoinAgainMove ==
    ASSUME NEW t, NEW s, IsStack(t, s), Len(s) > 1, NEW h, h = s[Len(s) - 1].node,
           NEW arr, NEW m, NEW off, NEW e, NEW c, NEW code, NEW f, NEW va, NEW a, NEW it, NEW pos, NEW was,
           Follows(t, m, off, s, e, c, code, f, va, a, it, pos, was), c = "return", code = "ROW",
           Laying(t, arr, m, off), t[h].kind = "JOIN", s[Len(s) - 1].for = "left",
           NEW r, r = t[h].right, NEW B, IsBelow(t, r, B),
           NEW vb, NEW b, NEW iu, NEW d, IsRewound(t, B, va, vb, a, b, it, iu, e, d),
           NEW w, w = "again", NEW u, u = Pushed(Front(s), w, r)
    PROVE  StartsOver(t, m, off, u, d, code, f, vb, b, iu, pos)
<1>0. SameOutside(t, B, va, vb) /\ SetTo(t, B, 0, a, b) /\ SetTo(t, B, <<>>, it, iu) /\ d = e \ B
  BY DEF IsRewound
<1>1. PICK l, n : l = t[h].left /\ n = s[Len(s)].node
  OBVIOUS
<1>2. PICK o : o = off[h]
  OBVIOUS
<1>3. JoinFoundBy(t, m, o, "left", code, f, a, pos, was, h, l, r, n)
  BY <1>1, <1>2, JoinFinds
<1>4. /\ h \in DOMAIN t /\ l \in DOMAIN t /\ r \in DOMAIN t /\ l # h /\ r # h /\ l # r
      /\ n = l /\ was[r] = pos[r] /\ was[h] = pos[h]
      /\ a[h] # 0 /\ pos[l] \in Nat /\ pos[r] \in Nat /\ pos[h] \in Nat /\ was[l] \in Nat
      /\ Near(f, was[h], o[was[l]])
      /\ ProductLaid(o, m[l], m[r], m[h]) /\ pos[l] <= Len(m[l])
      /\ was[n] < pos[n] /\ (~f => pos[n] = was[n] + 1)
  BY <1>3 DEF JoinFoundBy
<1>5. Len(m[l]) \in Nat
  BY <1>4, Zenon DEF ProductLaid
<1>6. pos[l] > 0 /\ pos[l] - 1 \in 0..Len(m[l]) /\ was[l] \in 0..Len(m[l]) /\ was[l] <= pos[l] - 1
  BY <1>4, <1>5
<1>7. PICK z, y : z = o[was[l]] /\ y = o[pos[l] - 1]
  OBVIOUS
<1>8. z \in Nat /\ y \in Nat /\ z <= y /\ (~f => y = z)
  <2>1. z \in Nat /\ y \in Nat /\ z <= y
    BY <1>4, <1>6, <1>7, Zenon DEF ProductLaid
  <2>2. ~f => pos[l] - 1 = was[l]
    BY <1>4
  <2> QED BY <1>7, <2>1, <2>2
<1>9. Near(f, pos[h], y)
  BY <1>4, <1>7, <1>8 DEF Near
<1>10. IsSource(t)
  BY DEF IsStack
<1>11. r < h /\ h \in Nat /\ r \in Nat /\ \A x, k \in DOMAIN t : l \in Operands(t, x) /\ l \in Operands(t, k) => x = k
  <2>1. r \in Nat /\ r < h
    BY <1>4, <1>10, SourceNodes
  <2>2. h \in Nat
    BY <1>4, StackFacts
  <2>3. \A x, k \in DOMAIN t : l \in Operands(t, x) /\ l \in Operands(t, k) => x = k
    BY <1>4, <1>10, Parents
  <2> QED BY <2>1, <2>2, <2>3
<1>12. /\ B \subseteq DOMAIN t /\ r \in B
       /\ \A x \in B : x <= r
       /\ \A x \in B : x # r => \E v \in B : x \in Operands(t, v)
  BY DEF IsBelow
<1>13. h \notin B
  BY <1>11, <1>12
<1>14. l \notin B
  <2> SUFFICES ASSUME l \in B PROVE FALSE
    OBVIOUS
  <2>1. PICK v \in B : l \in Operands(t, v)
    BY <1>4, <1>12
  <2>2. l \in Operands(t, h)
    BY <1>1 DEF Operands
  <2> QED BY <1>4, <1>11, <1>12, <1>13, <2>1, <2>2
<1>15. PICK q : q = [k \in DOMAIN t |-> IF k \in B THEN 0 ELSE pos[k]]
  OBVIOUS
<1>16. pos \in [DOMAIN t -> Nat]
  BY DEF Follows, Counts
<1>17. q \in [DOMAIN t -> Nat] /\ q[h] = pos[h] /\ q[l] = pos[l] /\ q[r] = 0
  BY <1>4, <1>12, <1>13, <1>14, <1>15, <1>16
<1>18. SetTo(t, B, 0, pos, q)
  BY <1>15 DEF SetTo
<1>19. b[h] # 0
  BY <1>0, <1>4, <1>13 DEF SetTo
<1>20. q[l] > 0 /\ Near(f, q[h], o[q[l] - 1] + q[r])
  <2>1. y + 0 = y
    BY <1>8, PlusZero, Zenon
  <2> QED BY <1>6, <1>7, <1>9, <1>17, <2>1
<1>21. WaitsAt(t, o, f, b, iu, q, h, w)
  BY <1>1, <1>17, <1>19, <1>20 DEF WaitsAt
<1>22. \A k \in DOMAIN t : Len(m[k]) \in Nat
  BY LengthsAre
<1>23. w \in Fors
  BY DEF Fors
<1>24. WaitsAt(t, off[h], f, b, iu, q, h, w) /\ q \in [DOMAIN t -> Nat]
  BY <1>2, <1>17, <1>21
<1>25. Follows(t, m, off, u, d, "call", code, f, vb, b, iu, q, q)
  BY <1>0, <1>18, <1>22, <1>23, <1>24, RewindMove
<1>26. q[Len(t)] = pos[Len(t)]
  <2>1. Len(t) \in DOMAIN t /\ Len(t) \in Nat /\ h <= Len(t)
    BY <1>4, <1>10, SourceNodes
  <2>2. Len(t) \notin B
    BY <1>11, <1>12, <2>1
  <2> QED BY <1>15, <2>1, <2>2
<1> QED BY <1>25, <1>26 DEF StartsOver

-----------------------------------------------------------------------------
(* What EACH and FLATTEN do *)

\* Where EACH or FLATTEN is, by its iterator and the place of its source.
IteratesAt(t, m, o, it, pos, n, l) ==
    /\ l \in DOMAIN t /\ l # n /\ n \in DOMAIN t /\ l < n /\ t[l].kind # "JOIN" /\ t[n].kind \notin Leaves
    /\ t[n].kind # "JOIN" /\ l = t[n].left
    /\ VisitsLaid(o, t[n], m[l], m[n])
    /\ pos[l] \in Nat /\ pos[n] \in Nat /\ pos[l] <= Len(m[l]) /\ Len(m[l]) \in Nat /\ Len(m[n]) \in Nat
    /\ IF pos[l] = 0 THEN pos[n] = 0 /\ it[n] = <<>>
       ELSE \E j \in Nat : /\ pos[n] = o[pos[l] - 1] + j
                           /\ IterOf(t[n], m[l][pos[l]][1], it[n], j)

\* What EACH and FLATTEN are applied to is no join.
LEMMA FlattenOperand ==
    ASSUME NEW t, IsSource(t), NEW n \in DOMAIN t, t[n].kind \in Flattens, NEW l, l = t[n].left
    PROVE  /\ l \in DOMAIN t /\ l # n /\ l < n /\ t[l].kind # "JOIN" /\ t[n].kind \notin Leaves
           /\ t[n].kind # "JOIN" /\ l \in Nat /\ n \in Nat /\ l # 0
<1>1. t[n].kind \notin Leaves /\ t[n].kind # "JOIN"
  BY DEF Leaves, Flattens
<1>2. /\ l \in Nat /\ l < n /\ l # 0
      /\ DOMAIN t = 1..Len(t) /\ Len(t) \in Nat
  BY <1>1, SourceNodes
<1>3. l \in DOMAIN t /\ l # n /\ n \in Nat
  BY <1>2
<1>4. t[l].kind # "JOIN"
  BY Zenon DEF IsSource
<1> QED BY <1>1, <1>2, <1>3, <1>4

\* Where EACH and FLATTEN are.
LEMMA FlattenFinds ==
    ASSUME NEW t, NEW s, IsStack(t, s), s # <<>>, NEW n, n = s[Len(s)].node,
           NEW arr, NEW m, NEW off, NEW e, NEW c, NEW code, NEW f, NEW va, NEW a, NEW it, NEW pos, NEW was,
           Follows(t, m, off, s, e, c, code, f, va, a, it, pos, was), n \notin e,
           Laying(t, arr, m, off), t[n].kind \in Flattens, NEW l, l = t[n].left
    PROVE  IteratesAt(t, m, off[n], it, pos, n, l)
<1>1. /\ PlacedAt(t, m, off[n], a, it, pos, n)
      /\ n \in DOMAIN t /\ pos[n] \in Nat /\ pos[n] <= Len(m[n])
  BY TopPlaced
<1>2. IsSource(t)
  BY DEF IsStack
<1>3. /\ l \in DOMAIN t /\ l # n /\ l < n /\ t[l].kind # "JOIN" /\ t[n].kind \notin Leaves
      /\ t[n].kind # "JOIN"
  BY <1>1, <1>2, FlattenOperand
<1>4. VisitsLaid(off[n], t[n], m[l], m[n])
  <2>1. LaidAt(t, arr, m, off[n], n)
    BY <1>1 DEF Laying
  <2> QED BY <2>1 DEF LaidAt
<1>5. pos[l] \in Nat /\ pos[l] <= Len(m[l])
  BY <1>3 DEF Follows, Counts
<1>6. Len(m[l]) \in Nat /\ Len(m[n]) \in Nat
  BY <1>4, Zenon DEF VisitsLaid
<1>7. IF pos[l] = 0 THEN pos[n] = 0 /\ it[n] = <<>>
      ELSE \E j \in Nat : /\ pos[n] = off[n][pos[l] - 1] + j
                          /\ IterOf(t[n], m[l][pos[l]][1], it[n], j)
  BY <1>1 DEF PlacedAt
<1> QED BY <1>1, <1>3, <1>4, <1>5, <1>6, <1>7 DEF IteratesAt

\* The row that the iterator is in, where there is one.
InRow(node, o, x, s, i, k, j, it) ==
    /\ i \in 1..Len(x) /\ i - 1 \in 0..Len(x) /\ i \in 0..Len(x)
    /\ j \in Nat /\ k = o[i - 1] + j /\ o[i - 1] \in Nat
    /\ DeepEnough(node, x[i][1]) /\ IterOf(node, x[i][1], it, j)
    /\ o[i] = o[i - 1] + Len(Visited(node, x[i][1]))

\* They are in a row of what they are applied to.
LEMMA IteratesInRow ==
    ASSUME NEW t, NEW m, NEW o, NEW it, NEW pos, NEW n, NEW l, IteratesAt(t, m, o, it, pos, n, l),
           pos[l] # 0
    PROVE  \E j : InRow(t[n], o, m[l], m[n], pos[l], pos[n], j, it[n])
<1>1. PICK i : i = pos[l]
  OBVIOUS
<1>2. PICK j \in Nat : pos[n] = o[i - 1] + j /\ IterOf(t[n], m[l][i][1], it[n], j)
  BY <1>1 DEF IteratesAt
<1>3. /\ VisitsLaid(o, t[n], m[l], m[n])
      /\ i \in Nat /\ i <= Len(m[l]) /\ Len(m[l]) \in Nat /\ i # 0
  BY <1>1 DEF IteratesAt
<1>4. i \in 1..Len(m[l]) /\ i - 1 \in 0..Len(m[l]) /\ i \in 0..Len(m[l])
  BY <1>3
<1>5. /\ DeepEnough(t[n], m[l][i][1])
      /\ o[i] = o[i - 1] + Len(Visited(t[n], m[l][i][1]))
      /\ o[i - 1] \in Nat
  BY <1>3, <1>4 DEF VisitsLaid
<1>6. InRow(t[n], o, m[l], m[n], i, pos[n], j, it[n])
  BY <1>2, <1>4, <1>5 DEF InRow
<1> QED BY <1>1, <1>6

\* EACH and FLATTEN are placed in the row that their iterator is in.
LEMMA PlacedInRow ==
    ASSUME NEW t, NEW m, NEW o, NEW n, t[n].kind \in Flattens, NEW l, l = t[n].left,
           NEW a, NEW iu, NEW q, q[l] # 0, NEW j \in Nat, q[n] = o[q[l] - 1] + j,
           IterOf(t[n], m[l][q[l]][1], iu[n], j)
    PROVE  PlacedAt(t, m, o, a, iu, q, n)
<1>1. t[n].kind \notin Leaves /\ t[n].kind # "JOIN"
  BY DEF Leaves, Flattens
<1>2. \E x \in Nat : /\ q[n] = o[q[l] - 1] + x
                     /\ IterOf(t[n], m[l][q[l]][1], iu[n], x)
  OBVIOUS
<1> QED BY <1>1, <1>2 DEF PlacedAt

\* It is so for what they are applied to.
LEMMA PlacedThere ==
    ASSUME NEW t, NEW m, NEW o, NEW n, NEW l, NEW it, NEW pos, IteratesAt(t, m, o, it, pos, n, l),
           t[n].kind \in Flattens,
           NEW a, NEW iu, NEW q, q[l] # 0, NEW j \in Nat, q[n] = o[q[l] - 1] + j,
           IterOf(t[n], m[l][q[l]][1], iu[n], j)
    PROVE  PlacedAt(t, m, o, a, iu, q, n)
<1>1. l = t[n].left
  BY DEF IteratesAt
<1> QED BY <1>1, PlacedInRow

\* EACH and FLATTEN stay before the entry that their iterator is at,
LEMMA StaysInRow ==
    ASSUME NEW t, NEW s, IsStack(t, s), s # <<>>, NEW n, n = s[Len(s)].node,
           NEW m, NEW off, NEW e, NEW c, NEW code, NEW f, NEW va, NEW a, NEW it, NEW pos, NEW was,
           Follows(t, m, off, s, e, c, code, f, va, a, it, pos, was), n \notin e, c # "return",
           t[n].kind \in Flattens, NEW l, IteratesAt(t, m, off[n], it, pos, n, l), pos[l] # 0,
           NEW iu, SameBut(t, n, it, iu), NEW j, InRow(t[n], off[n], m[l], m[n], pos[l], pos[n], j, it[n]),
           IterOf(t[n], m[l][pos[l]][1], iu[n], j)
    PROVE  Follows(t, m, off, s, e, "iterate", code, f, va, a, iu, pos, pos)
<1>1. PICK o : o = off[n]
  OBVIOUS
<1>2. j \in Nat /\ pos[n] = o[pos[l] - 1] + j
  BY <1>1 DEF InRow
<1>3. PlacedAt(t, m, o, a, iu, pos, n)
  BY <1>1, <1>2, PlacedThere
<1>4. SameBut(t, n, va, va)
  BY DEF SameBut
<1> QED BY <1>1, <1>3, <1>4, IterateMove

\* as in a step of the iterator that yields nothing.
LEMMA IterStaysMove ==
    ASSUME NEW t, NEW s, IsStack(t, s), s # <<>>, NEW n, n = s[Len(s)].node,
           NEW arr, NEW m, NEW off, NEW e, NEW c, NEW code, NEW f, NEW va, NEW a, NEW it, NEW pos, NEW was,
           Follows(t, m, off, s, e, c, code, f, va, a, it, pos, was), n \notin e, c # "return",
           Laying(t, arr, m, off), t[n].kind \in Flattens,
           NEW V, it[n] \in Seq(Places(V)), it[n] # <<>>,
           NEW iu, SameBut(t, n, it, iu),
           \/ Last(it[n]).at = Len(Last(it[n]).of.elems) /\ iu[n] = Front(it[n])
           \/ /\ t[n].kind = "FLATTEN" /\ Last(it[n]).at # Len(Last(it[n]).of.elems)
              /\ IsContainer(Last(it[n]).of.elems[Last(it[n]).at + 1].val)
              /\ iu[n] = Append(PassTo(it[n], Last(it[n]).at + 1),
                                [of |-> Last(it[n]).of.elems[Last(it[n]).at + 1].val, at |-> 0])
    PROVE  Follows(t, m, off, s, e, "iterate", code, f, va, a, iu, pos, pos)
<1>1. PICK l : l = t[n].left
  BY Zenon
<1>2. IteratesAt(t, m, off[n], it, pos, n, l)
  BY <1>1, FlattenFinds, Zenon
<1>3. pos[l] # 0
  BY <1>2, Zenon DEF IteratesAt
<1>4. PICK j : InRow(t[n], off[n], m[l], m[n], pos[l], pos[n], j, it[n])
  BY <1>2, <1>3, IteratesInRow, Zenon
<1>5. PICK v, x, y, node : v = m[l][pos[l]][1] /\ x = it[n] /\ y = iu[n] /\ node = t[n]
  BY Zenon
<1>6. DeepEnough(node, v) /\ IterOf(node, v, x, j) /\ j \in Nat
  BY <1>4, <1>5, Zenon DEF InRow
<1>7. IterOf(node, v, y, j)
  <2>1. x \in Seq(Places(V)) /\ x # <<>>
    BY <1>5, Zenon
  <2>2. CASE Last(x).at = Len(Last(x).of.elems) /\ y = Front(x)
    BY <1>6, <2>1, <2>2, IterOfLeaves, Zenon
  <2>3. CASE /\ node.kind = "FLATTEN" /\ Last(x).at # Len(Last(x).of.elems)
             /\ IsContainer(Last(x).of.elems[Last(x).at + 1].val)
             /\ y = Append(PassTo(x, Last(x).at + 1),
                           [of |-> Last(x).of.elems[Last(x).at + 1].val, at |-> 0])
    <3>1. PICK w : w = Last(x).of.elems[Last(x).at + 1].val
      BY Zenon
    <3>2. /\ node.kind = "FLATTEN" /\ Last(x).at # Len(Last(x).of.elems) /\ IsContainer(w)
          /\ y = Append(PassTo(x, Last(x).at + 1), [of |-> w, at |-> 0])
      BY <2>3, <3>1, Zenon
    <3> QED BY <1>6, <2>1, <3>1, <3>2, IterOfEnters, Zenon
  <2> QED BY <1>5, <2>2, <2>3, Zenon
<1>8. IterOf(t[n], m[l][pos[l]][1], iu[n], j)
  BY <1>5, <1>7, Zenon
<1> QED BY <1>2, <1>3, <1>4, <1>8, StaysInRow, Zenon

\* An operand of the source at work that has not ended waits for nothing.
LEMMA OperandRests ==
    ASSUME NEW t, NEW s, IsStack(t, s), s # <<>>, NEW n, n = s[Len(s)].node,
           NEW l \in DOMAIN t, l < n, NEW e, l \notin e
    PROVE  l \in Rest(t, s, e)
<1>1. \A i \in 1..(Len(s) - 1) : s[i].node \in DOMAIN t /\ n < s[i].node
  BY TopOperand
<1>2. n \in DOMAIN t /\ DOMAIN t \subseteq Nat
  BY TopOperand, StackFacts
<1>3. \A i \in 1..(Len(s) - 1) : s[i].node # l
  <2> SUFFICES ASSUME NEW i \in 1..(Len(s) - 1) PROVE s[i].node # l
    OBVIOUS
  <2>1. PICK k : k = s[i].node
    OBVIOUS
  <2>2. k \in Nat /\ n \in Nat /\ l \in Nat /\ n < k
    BY <1>1, <1>2, <2>1
  <2> QED BY <2>1, <2>2
<1> QED BY <1>3 DEF Rest

\* EACH and FLATTEN have the next entry of the row,
LEMMA NextInRow ==
    ASSUME NEW t, NEW s, IsStack(t, s), s # <<>>, NEW n, n = s[Len(s)].node,
           NEW m, NEW off, NEW e, NEW c, NEW code, NEW f, NEW va, NEW a, NEW it, NEW pos, NEW was,
           Follows(t, m, off, s, e, c, code, f, va, a, it, pos, was), n \notin e, c # "return",
           t[n].kind \in Flattens,
           NEW l, IteratesAt(t, m, off[n], it, pos, n, l), l \notin e,
           NEW w, NEW iu, SameBut(t, n, it, iu), NEW vb, SameBut(t, n, va, vb),
           vb[n] = Flattened(t[n], va[l], PathTo(iu[n], Len(iu[n])), w),
           NEW j, InRow(t[n], off[n], m[l], m[n], pos[l], pos[n], j, it[n]),
           NextVisited(t[n], m[l][pos[l]][1], iu[n], j, w)
    PROVE  \E q : Follows(t, m, off, s, e, "return", "ROW", f, vb, a, iu, q, pos)
<1>1. PICK o : o = off[n]
  OBVIOUS
<1>2. IteratesAt(t, m, o, it, pos, n, l)
  BY <1>1
<1>3. pos[l] # 0
  BY DEF InRow
<1>4. PICK v, y, node : v = m[l][pos[l]][1] /\ y = iu[n] /\ node = t[n]
  OBVIOUS
<1>5. DeepEnough(node, v) /\ j \in Nat /\ pos[n] = o[pos[l] - 1] + j
  BY <1>1, <1>4 DEF InRow
<1>6. NextVisited(node, v, y, j, w)
  BY <1>4
<1>7. /\ IterOf(node, v, y, j + 1) /\ j + 1 \in 1..Len(Visited(node, v))
      /\ Visited(node, v)[j + 1] = Entry(PathTo(y, Len(y)), w)
  BY <1>6 DEF NextVisited
<1>8. /\ l \in DOMAIN t /\ l # n /\ n \in DOMAIN t /\ l < n /\ t[l].kind # "JOIN"
       /\ VisitsLaid(o, node, m[l], m[n]) /\ pos[n] \in Nat /\ pos[l] \in Nat
       /\ Len(m[l]) \in Nat /\ pos[l] <= Len(m[l])
  BY <1>2, <1>4, Zenon DEF IteratesAt
<1>9. l \in Rest(t, s, e)
  BY <1>8, OperandRests
<1>10. va[l] = v
  <2>1. ValuedAt(t, m, va, pos, l)
    BY <1>8, <1>9 DEF Follows, Valued
  <2>2. m[l][pos[l]] = <<va[l]>>
    <3>1. pos[l] > 0
      BY <1>3, <1>8
    <3> QED BY <1>8, <2>1, <3>1 DEF ValuedAt
  <2> QED BY <1>4, <2>2
<1>11. PICK z : z = o[pos[l] - 1]
  OBVIOUS
<1>12. z + (j + 1) \in 1..Len(m[n]) /\ m[n][z + (j + 1)] = WithEntries(node, v)[j + 1]
  <2>1. pos[l] \in 1..Len(m[l])
    BY <1>3, <1>8
  <2> QED BY <1>4, <1>7, <1>8, <1>11, <2>1 DEF VisitsLaid
<1>13. z \in Nat
  <2>1. pos[l] - 1 \in 0..Len(m[l])
    BY <1>3, <1>8
  <2> QED BY <1>8, <1>11, <2>1 DEF VisitsLaid
<1>14. pos[n] + 1 = z + (j + 1) /\ Len(m[n]) \in Nat /\ pos[n] + 1 <= Len(m[n])
  <2>1. Len(m[n]) \in Nat
    BY <1>8 DEF VisitsLaid
  <2>2. pos[n] = z + j /\ j \in Nat /\ pos[n] \in Nat
    BY <1>5, <1>8, <1>11
  <2>3. pos[n] + 1 = z + (j + 1)
    BY <1>13, <2>2
  <2>4. PICK k, len : k = pos[n] + 1 /\ len = Len(m[n])
    OBVIOUS
  <2>5. k \in 1..len /\ len \in Nat
    BY <1>12, <2>1, <2>3, <2>4
  <2> QED BY <2>1, <2>3, <2>4, <2>5
<1>15. m[n][pos[n] + 1] = <<vb[n]>>
  <2>1. IsSequence(Visited(node, v))
    BY <1>4, <1>5, VisitedIs
  <2>2. j + 1 \in DOMAIN Visited(node, v)
    BY <1>7, <2>1, SequenceOf
  <2>3. WithEntries(node, v)[j + 1] =
            <<Put(v, node.as, KeyValue(Key(node.kind, PathTo(y, Len(y))), w))>>
    <3>1. PICK k, E, P : k = j + 1 /\ P = PathTo(y, Len(y)) /\ E = Entry(P, w)
      OBVIOUS
    <3>2. E.key = P /\ E.val = w
      BY <3>1 DEF Entry
    <3>3. Visited(node, v)[k] = E /\ k \in DOMAIN Visited(node, v)
      BY <1>7, <2>2, <3>1
    <3>4. WithEntries(node, v)[k] = <<Put(v, node.as, KeyValue(Key(node.kind, E.key), E.val))>>
      BY <3>3 DEF WithEntries
    <3> QED BY <3>1, <3>2, <3>4
  <2> QED BY <1>4, <1>10, <1>12, <1>14, <2>3 DEF Flattened
<1>16. PICK q : q = [pos EXCEPT ![n] = pos[n] + 1]
  OBVIOUS
<1>17. q[n] = o[q[l] - 1] + (j + 1) /\ q[l] = pos[l] /\ q[l] # 0 /\ j + 1 \in Nat
  <2>1. pos \in [DOMAIN t -> Nat]
    BY DEF Follows, Counts
  <2>2. q[n] = pos[n] + 1 /\ q[l] = pos[l]
    BY <1>8, <1>16, <2>1
  <2> QED BY <1>3, <1>5, <1>11, <1>14, <2>2
<1>18. PlacedAt(t, m, o, a, iu, q, n)
  <2>1. IterOf(t[n], m[l][q[l]][1], iu[n], j + 1)
    BY <1>4, <1>7, <1>17
  <2>2. PICK k : k = j + 1
    OBVIOUS
  <2>3. k \in Nat /\ q[n] = o[q[l] - 1] + k /\ IterOf(t[n], m[l][q[l]][1], iu[n], k)
    BY <1>17, <2>1, <2>2
  <2> QED BY <1>2, <1>17, <2>3, PlacedThere
<1>19. SameBut(t, n, a, a)
  BY DEF SameBut
<1>20. \A k \in DOMAIN t : Len(m[k]) \in Nat
  BY LengthsAre
<1>21. Follows(t, m, off, s, e, "return", "ROW", f, vb, a, iu, q, pos)
  BY <1>1, <1>14, <1>15, <1>16, <1>18, <1>19, <1>20, RowMove
<1> QED BY <1>21

\* as when the iterator yields a value.
LEMMA IterRowMove ==
    ASSUME NEW t, NEW s, IsStack(t, s), s # <<>>, NEW n, n = s[Len(s)].node,
           NEW arr, NEW m, NEW off, NEW e, NEW c, NEW code, NEW f, NEW va, NEW a, NEW it, NEW pos, NEW was,
           Follows(t, m, off, s, e, c, code, f, va, a, it, pos, was), n \notin e, c # "return",
           Laying(t, arr, m, off), t[n].kind \in Flattens, t[n].left \notin e,
           NEW V, it[n] \in Seq(Places(V)), it[n] # <<>>,
           Last(it[n]).at # Len(Last(it[n]).of.elems),
           NEW w, w = Last(it[n]).of.elems[Last(it[n]).at + 1].val,
           ~(t[n].kind = "FLATTEN" /\ IsContainer(w)),
           NEW iu, SameBut(t, n, it, iu), iu[n] = PassTo(it[n], Last(it[n]).at + 1),
           NEW vb, SameBut(t, n, va, vb),
           vb[n] = Flattened(t[n], va[t[n].left], PathTo(iu[n], Len(iu[n])), w)
    PROVE  \E q : Follows(t, m, off, s, e, "return", "ROW", f, vb, a, iu, q, pos)
<1>1. PICK l : l = t[n].left
  BY Zenon
<1>2. PICK o : o = off[n]
  BY Zenon
<1>3. IteratesAt(t, m, o, it, pos, n, l)
  BY <1>1, <1>2, FlattenFinds
<1>4. pos[l] # 0
  BY <1>3, Zenon DEF IteratesAt
<1>5. PICK j : InRow(t[n], o, m[l], m[n], pos[l], pos[n], j, it[n])
  BY <1>3, <1>4, IteratesInRow, Zenon
<1>6. PICK v, x, y, node : v = m[l][pos[l]][1] /\ x = it[n] /\ y = iu[n] /\ node = t[n]
  BY Zenon
<1>7. DeepEnough(node, v) /\ IterOf(node, v, x, j) /\ j \in Nat
  BY <1>5, <1>6, Zenon DEF InRow
<1>8. NextVisited(node, v, y, j, w)
  <2>1. /\ x \in Seq(Places(V)) /\ x # <<>> /\ node.kind \in Flattens
        /\ Last(x).at # Len(Last(x).of.elems) /\ w = Last(x).of.elems[Last(x).at + 1].val
        /\ ~(node.kind = "FLATTEN" /\ IsContainer(w)) /\ y = PassTo(x, Last(x).at + 1)
    BY <1>6, Zenon
  <2> QED BY <1>7, <2>1, IterOfRows
<1>9. NextVisited(t[n], m[l][pos[l]][1], iu[n], j, w)
  BY <1>6, <1>8, Zenon
<1>10. IteratesAt(t, m, off[n], it, pos, n, l) /\ l \notin e
       /\ InRow(t[n], off[n], m[l], m[n], pos[l], pos[n], j, it[n])
       /\ vb[n] = Flattened(t[n], va[l], PathTo(iu[n], Len(iu[n])), w)
  BY <1>1, <1>2, <1>3, <1>5, Zenon
<1> QED BY <1>9, <1>10, NextInRow, Zenon

\* A step of EACH or FLATTEN begins.
LEMMA FlattenStartMove ==
    ASSUME NEW t, NEW s, IsStack(t, s), s # <<>>, NEW n, n = s[Len(s)].node,
           NEW m, NEW off, NEW e, NEW c, NEW code, NEW f, NEW va, NEW a, NEW it, NEW pos, NEW was,
           Follows(t, m, off, s, e, c, code, f, va, a, it, pos, was), n \notin e, c # "return",
           NEW vb, SameBut(t, n, va, vb)
    PROVE  Follows(t, m, off, s, e, "iterate", code, f, vb, a, it, pos, pos)
<1>1. PlacedAt(t, m, off[n], a, it, pos, n)
  BY TopPlaced
<1>2. SameBut(t, n, it, it)
  BY DEF SameBut
<1> QED BY <1>1, <1>2, IterateMove

\* EACH or FLATTEN asks for the next row.
LEMMA FlattenCallMove ==
    ASSUME NEW t, NEW s, IsStack(t, s), s # <<>>, NEW n, n = s[Len(s)].node,
           NEW arr, NEW m, NEW off, NEW e, NEW c, NEW code, NEW f, NEW va, NEW a, NEW it, NEW pos, NEW was,
           Follows(t, m, off, s, e, c, code, f, va, a, it, pos, was), n \notin e, c # "return",
           Laying(t, arr, m, off), t[n].kind \in Flattens, it[n] = <<>>,
           NEW w, w = "next", NEW l, l = t[n].left, NEW u, u = Pushed(s, w, l)
    PROVE  Follows(t, m, off, u, e, "call", code, f, va, a, it, pos, pos)
<1>1. PICK o : o = off[n]
  OBVIOUS
<1>2. IteratesAt(t, m, o, it, pos, n, l)
  BY <1>1, FlattenFinds
<1>3. pos[n] = o[pos[l]]
  <2>1. CASE pos[l] = 0
    BY <1>2, <2>1 DEF IteratesAt, VisitsLaid
  <2>2. CASE pos[l] # 0
    <3>1. PICK j : InRow(t[n], o, m[l], m[n], pos[l], pos[n], j, it[n])
      BY <1>2, <2>2, IteratesInRow
    <3>2. PICK v, node : v = m[l][pos[l]][1] /\ node = t[n]
      OBVIOUS
    <3>3. /\ DeepEnough(node, v) /\ IterOf(node, v, <<>>, j) /\ pos[n] = o[pos[l] - 1] + j
          /\ o[pos[l]] = o[pos[l] - 1] + Len(Visited(node, v))
      BY <3>1, <3>2, Zenon DEF InRow
    <3>4. j = Len(Visited(node, v))
      <4>1. node.kind \in Flattens
        BY <3>2
      <4>2. PICK y : y = <<>>
        OBVIOUS
      <4>3. IterOf(node, v, y, j)
        BY <3>3, <4>2
      <4> QED BY <3>3, <4>1, <4>2, <4>3, IterOfCounts
    <3> QED BY <3>3, <3>4
  <2> QED BY <2>1, <2>2, Zenon
<1>4. l \in DOMAIN t
  BY <1>2 DEF IteratesAt
<1>5. WaitsAt(t, o, f, a, it, pos, n, w)
  BY <1>3 DEF WaitsAt
<1>6. w \in Fors
  BY DEF Fors
<1>7. SameBut(t, n, a, a)
  BY DEF SameBut
<1> QED BY <1>1, <1>4, <1>5, <1>6, <1>7, PushMove

\* EACH or FLATTEN gets a row, and an iterator if a container is at the path.
LEMMA FlattenNextMove ==
    ASSUME NEW t, NEW s, IsStack(t, s), Len(s) > 1, NEW h, h = s[Len(s) - 1].node,
           NEW n, n = s[Len(s)].node,
           NEW arr, NEW m, NEW off, NEW e, NEW c, NEW code, NEW f, NEW va, NEW a, NEW it, NEW pos, NEW was,
           Follows(t, m, off, s, e, c, code, f, va, a, it, pos, was), c = "return", code = "ROW", n \notin e,
           Laying(t, arr, m, off), t[h].kind \in Flattens,
           NEW u, u = Front(s), NEW k, k = At(va[n], t[h].path),
           NEW iu, SameBut(t, h, it, iu),
           iu[h] = IF IsContainer(k) THEN <<[of |-> k, at |-> 0]>> ELSE <<>>
    PROVE  Follows(t, m, off, u, e, "iterate", code, f, va, a, iu, pos, pos)
<1>1. PICK o : o = off[h]
  OBVIOUS
<1>2. FoundBy(t, m, off, s, code, f, a, it, pos, was, h, n)
  BY CallerFinds
<1>3. /\ IsSource(t) /\ h \in DOMAIN t /\ n \in DOMAIN t /\ n # h
      /\ pos \in [DOMAIN t -> Nat] /\ was \in [DOMAIN t -> Nat]
      /\ \A x \in DOMAIN t : pos[x] <= Len(m[x]) /\ Len(m[x]) \in Nat
      /\ \A x \in DOMAIN t : was[x] = pos[x] \/ x = n
      /\ ~f \/ t[n].kind # "JOIN" => pos[n] = was[n] + 1
      /\ Waits(t, h, s[Len(s) - 1].for, n)
      /\ WaitsAt(t, o, f, a, it, was, h, s[Len(s) - 1].for)
  BY <1>1, <1>2 DEF FoundBy
<1>4. n = t[h].left /\ s[Len(s) - 1].for = "next"
  BY <1>3 DEF Waits, Flattens
<1>5. t[n].kind # "JOIN"
  BY <1>3, <1>4, FlattenOperand
<1>6. pos[n] = was[n] + 1 /\ was[h] = pos[h] /\ was[h] = o[was[n]] /\ was[n] \in Nat /\ pos[n] \in Nat
      /\ pos[h] \in Nat /\ pos[n] <= Len(m[n]) /\ Len(m[n]) \in Nat
  BY <1>3, <1>4, <1>5 DEF WaitsAt
<1>7. pos[n] \in 1..Len(m[n]) /\ pos[n] # 0 /\ pos[n] - 1 = was[n] /\ pos[n] > 0
  BY <1>6
<1>8. va[n] = m[n][pos[n]][1]
  <2>1. n \in Rest(t, s, e)
    <3>1. s # <<>>
      BY StackFacts
    <3> QED BY <3>1, TopRests
  <2>2. ValuedAt(t, m, va, pos, n)
    BY <2>1 DEF Follows, Valued
  <2>3. m[n][pos[n]] = <<va[n]>>
    BY <1>5, <1>7, <2>2 DEF ValuedAt
  <2> QED BY <2>3
<1>9. VisitsLaid(o, t[h], m[n], m[h])
  <2>1. LaidAt(t, arr, m, o, h)
    BY <1>1, <1>3 DEF Laying
  <2> QED BY <1>4, <2>1 DEF LaidAt
<1>10. PICK v, node, y : v = va[n] /\ node = t[h] /\ y = iu[h]
  BY Zenon
<1>11. DeepEnough(node, v)
  BY <1>7, <1>8, <1>9, <1>10, Zenon DEF VisitsLaid
<1>12. IterOf(node, v, y, 0)
  BY <1>10, <1>11, IterOfNew
<1>13. PlacedAt(t, m, o, a, iu, pos, h)
  <2>1. IterOf(t[h], m[n][pos[n]][1], iu[h], 0)
    BY <1>8, <1>10, <1>12, Zenon
  <2>2. pos[h] = o[pos[n] - 1] + 0
    BY <1>6, <1>7
  <2>3. PICK j : j = 0
    OBVIOUS
  <2>4. j \in Nat /\ pos[h] = o[pos[n] - 1] + j /\ IterOf(t[h], m[n][pos[n]][1], iu[h], j)
    BY <2>1, <2>2, <2>3
  <2> QED BY <1>4, <1>7, <2>4, PlacedInRow, Zenon
<1> QED BY <1>1, <1>13, CallerIteratesMove

\* EACH or FLATTEN is at its end when its source is.
LEMMA FlattenDoneMove ==
    ASSUME NEW t, NEW s, IsStack(t, s), Len(s) > 1, NEW h, h = s[Len(s) - 1].node,
           NEW arr, NEW m, NEW off, NEW e, NEW c, NEW code, NEW f, NEW va, NEW a, NEW it, NEW pos, NEW was,
           Follows(t, m, off, s, e, c, code, f, va, a, it, pos, was), c = "return", code = "DONE",
           Laying(t, arr, m, off), t[h].kind \in Flattens,
           NEW u, u = Front(s), NEW d, d = e \cup {h}
    PROVE  Follows(t, m, off, u, d, "return", "DONE", f, va, a, it, pos, pos)
<1>1. PICK o, n : o = off[h] /\ n = s[Len(s)].node
  OBVIOUS
<1>2. FoundBy(t, m, off, s, code, f, a, it, pos, was, h, n)
  BY <1>1, CallerFinds
<1>3. /\ IsSource(t) /\ h \in DOMAIN t /\ n \in DOMAIN t
      /\ \A x \in DOMAIN t : was[x] = pos[x]
      /\ (~f => pos[n] = Len(m[n]))
      /\ Waits(t, h, s[Len(s) - 1].for, n)
      /\ WaitsAt(t, o, f, a, it, was, h, s[Len(s) - 1].for)
  BY <1>1, <1>2 DEF FoundBy
<1>4. n = t[h].left /\ s[Len(s) - 1].for = "next"
  BY <1>3 DEF Waits, Flattens
<1>5. pos[h] = o[pos[n]]
  BY <1>3, <1>4, Zenon DEF WaitsAt
<1>6. o[Len(m[n])] = Len(m[h])
  <2>1. LaidAt(t, arr, m, o, h)
    BY <1>1, <1>3 DEF Laying
  <2> QED BY <1>4, <2>1 DEF LaidAt, VisitsLaid
<1>7. ~f => pos[h] = Len(m[h])
  BY <1>3, <1>5, <1>6
<1> QED BY <1>7, CallerDoneMove

-----------------------------------------------------------------------------
(* The rows that the query saves *)

ValuesOf(va, x) == [i \in DOMAIN x |-> va[x[i]]]

\* Values side by side.
LEMMA ValuesConcat ==
    ASSUME NEW N, NEW va, NEW x \in Seq(N), NEW y \in Seq(N)
    PROVE  ValuesOf(va, x \o y) = ValuesOf(va, x) \o ValuesOf(va, y)
<1>1. PICK W : \A i \in DOMAIN x : va[x[i]] \in W
  <2>1. \A i \in DOMAIN x : va[x[i]] \in { va[x[k]] : k \in DOMAIN x }
    OBVIOUS
  <2> QED BY <2>1
<1>2. PICK X : \A i \in DOMAIN y : va[y[i]] \in X
  <2>1. \A i \in DOMAIN y : va[y[i]] \in { va[y[k]] : k \in DOMAIN y }
    OBVIOUS
  <2> QED BY <2>1
<1>3. PICK f, g : f = ValuesOf(va, x) /\ g = ValuesOf(va, y)
  OBVIOUS
<1>4. Len(x) \in Nat /\ DOMAIN x = 1..Len(x) /\ Len(y) \in Nat /\ DOMAIN y = 1..Len(y)
  OBVIOUS
<1>5. f \in Seq(W \cup X) /\ Len(f) = Len(x) /\ \A i \in 1..Len(x) : f[i] = va[x[i]]
  <2>1. f = [i \in 1..Len(x) |-> va[x[i]]]
    BY <1>3, <1>4 DEF ValuesOf
  <2>2. \A i \in 1..Len(x) : va[x[i]] \in W \cup X
    BY <1>1, <1>4
  <2> QED BY <1>4, <2>1, <2>2
<1>6. g \in Seq(W \cup X) /\ Len(g) = Len(y) /\ \A i \in 1..Len(y) : g[i] = va[y[i]]
  <2>1. g = [i \in 1..Len(y) |-> va[y[i]]]
    BY <1>3, <1>4 DEF ValuesOf
  <2>2. \A i \in 1..Len(y) : va[y[i]] \in W \cup X
    BY <1>2, <1>4
  <2> QED BY <1>4, <2>1, <2>2
<1>7. PICK z, h : z = x \o y /\ h = f \o g
  OBVIOUS
<1>8. /\ z \in Seq(N) /\ Len(z) = Len(x) + Len(y) /\ DOMAIN z = 1..Len(z)
      /\ \A j \in 1..Len(x) : z[j] = x[j]
      /\ \A j \in 1..Len(y) : z[Len(x) + j] = y[j]
  BY <1>7, ConcatItems
<1>9. /\ h \in Seq(W \cup X) /\ Len(h) = Len(z) /\ DOMAIN h = 1..Len(h)
      /\ \A j \in 1..Len(x) : h[j] = f[j]
      /\ \A j \in 1..Len(y) : h[Len(x) + j] = g[j]
  <2>1. PICK V : V = W \cup X
    OBVIOUS
  <2>2. f \in Seq(V) /\ g \in Seq(V)
    BY <1>5, <1>6, <2>1
  <2>3. /\ h \in Seq(V) /\ Len(h) = Len(f) + Len(g)
        /\ \A j \in 1..Len(f) : h[j] = f[j]
        /\ \A j \in 1..Len(g) : h[Len(f) + j] = g[j]
    <3>1. /\ f \o g \in Seq(V) /\ Len(f \o g) = Len(f) + Len(g)
          /\ \A j \in 1..Len(f) : (f \o g)[j] = f[j]
          /\ \A j \in 1..Len(g) : (f \o g)[Len(f) + j] = g[j]
      BY <2>2, ConcatItems
    <3> QED BY <1>7, <3>1, Zenon
  <2> QED BY <1>5, <1>6, <1>8, <2>1, <2>3
<1>10. \A i \in 1..Len(z) : h[i] = va[z[i]]
  <2> SUFFICES ASSUME NEW i \in 1..Len(z) PROVE h[i] = va[z[i]]
    OBVIOUS
  <2>1. CASE i <= Len(x)
    <3>1. i \in 1..Len(x)
      BY <1>4, <1>8, <2>1
    <3> QED BY <1>5, <1>8, <1>9, <3>1
  <2>2. CASE ~(i <= Len(x))
    <3>1. PICK j : j = i - Len(x)
      OBVIOUS
    <3>2. j \in 1..Len(y) /\ i = Len(x) + j
      BY <1>4, <1>8, <2>2, <3>1
    <3> QED BY <1>6, <1>8, <1>9, <3>2
  <2> QED BY <2>1, <2>2
<1>11. h = [i \in 1..Len(z) |-> va[z[i]]]
  BY <1>9, <1>10
<1>12. ValuesOf(va, z) = [i \in 1..Len(z) |-> va[z[i]]]
  BY <1>8 DEF ValuesOf
<1> QED BY <1>3, <1>7, <1>11, <1>12

\* The sources from left to right, of each node.
FromLeft(t, ent) ==
    \A n \in DOMAIN t : ent[n] = IF t[n].kind = "JOIN" THEN ent[t[n].left] \o ent[t[n].right] ELSE <<n>>

\* What the columns of the rows of each node are.
Columns(t, ent) == ent \in [DOMAIN t -> Seq(DOMAIN t)] /\ FromLeft(t, ent)

\* The root returns a row.
AtRow(t, s, e, c, pos) ==
    /\ IsStack(t, s) /\ Len(s) = 1 /\ s[Len(s)].node = Len(t)
    /\ c = "return" /\ Fresh(t, s, e, c) /\ Len(t) \notin e /\ pos[Len(t)] # 0

\* When the root returns a row, the sources hold the values of the row.
LEMMA RowIsRead ==
    ASSUME NEW t, NEW s, NEW arr, NEW m, NEW off, NEW e, NEW c, NEW code, NEW f, NEW va, NEW a, NEW it,
           NEW pos, NEW was, Follows(t, m, off, s, e, c, code, f, va, a, it, pos, was),
           Laying(t, arr, m, off), AtRow(t, s, e, c, pos), NEW ent, Columns(t, ent)
    PROVE  m[Len(t)][pos[Len(t)]] = ValuesOf(va, ent[Len(t)])
<1> /\ IsStack(t, s) /\ Len(s) = 1 /\ s[Len(s)].node = Len(t)
    /\ c = "return" /\ Fresh(t, s, e, c) /\ Len(t) \notin e /\ pos[Len(t)] # 0
  BY DEF AtRow
<1> ent \in [DOMAIN t -> Seq(DOMAIN t)] /\ FromLeft(t, ent)
  BY DEF Columns
<1>1. IsSource(t)
  BY DEF IsStack
<1>2. Len(t) \in DOMAIN t /\ Len(t) \in Nat /\ DOMAIN t = 1..Len(t)
  BY <1>1, SourceNodes
<1>3. Rest(t, s, e) = DOMAIN t \ e
  <2>1. 1..(Len(s) - 1) = {}
    OBVIOUS
  <2> QED BY <2>1 DEF Rest
<1>4. \A n \in DOMAIN t : pos[n] \in Nat /\ pos[n] <= Len(m[n])
  BY DEF Follows, Counts
<1> DEFINE Is(n) == m[n][pos[n]] = ValuesOf(va, ent[n])
           S == { n \in DOMAIN t : n \in e \/ pos[n] = 0 \/ Is(n) }
<1>5. ASSUME NEW n \in DOMAIN t, \A k \in Operands(t, n) \cap DOMAIN t : k \in S
      PROVE  n \in S
  <2> HIDE DEF Is
  <2> SUFFICES ASSUME n \notin e, pos[n] # 0 PROVE Is(n)
    OBVIOUS
  <2>1. /\ PlacedAt(t, m, off[n], a, it, pos, n) /\ ValuedAt(t, m, va, pos, n)
    BY <1>3 DEF Follows, Placed, Valued
  <2>2. CASE t[n].kind # "JOIN"
    <3>1. m[n][pos[n]] = <<va[n]>>
      <4>1. pos[n] > 0
        BY <1>4
      <4> QED BY <2>1, <2>2, <4>1 DEF ValuedAt
    <3>2. ent[n] = <<n>>
      BY <2>2 DEF FromLeft
    <3>3. ValuesOf(va, <<n>>) = <<va[n]>>
      BY DEF ValuesOf
    <3> QED BY <3>1, <3>2, <3>3 DEF Is
  <2>3. CASE t[n].kind = "JOIN"
    <3>1. PICK l, r : l = t[n].left /\ r = t[n].right
      OBVIOUS
    <3>2. /\ l \in Nat /\ l < n /\ l # 0 /\ r \in Nat /\ r < n /\ r # 0
      <4>1. t[n].kind \notin Leaves
        BY <2>3 DEF Leaves
      <4> QED BY <1>1, <2>3, <3>1, <4>1, SourceNodes
    <3>3. l \in DOMAIN t /\ r \in DOMAIN t /\ l # Len(t) /\ r # Len(t)
      <4>1. \A N \in Nat : \A x \in 1..N : \A k \in Nat : k # 0 /\ k < x => k \in 1..N /\ k # N
        OBVIOUS
      <4>2. n \in 1..Len(t)
        BY <1>2, <1>5
      <4> QED BY <1>2, <3>2, <4>1, <4>2, Zenon
    <3>4. l \notin e /\ r \notin e
      <4>1. ~Returns(s, c, l) /\ ~Returns(s, c, r)
        BY <3>3 DEF Returns
      <4>2. ~StepsLeft(s, n)
        <5>1. 1..(Len(s) - 1) = {}
          OBVIOUS
        <5> QED BY <5>1 DEF StepsLeft
      <4> QED BY <3>1, <4>1, <4>2 DEF Fresh
    <3>5. PICK o : o = off[n]
      OBVIOUS
    <3>6. PlacedAt(t, m, o, a, it, pos, n)
      BY <2>1, <3>5
    <3>7. pos[l] > 0 /\ pos[r] > 0 /\ pos[n] = o[pos[l] - 1] + pos[r]
      BY <2>3, <3>1, <3>6 DEF PlacedAt
    <3>8. ProductLaid(o, m[l], m[r], m[n])
      <4>1. LaidAt(t, arr, m, o, n)
        BY <3>5 DEF Laying
      <4> QED BY <2>3, <3>1, <4>1 DEF LaidAt
    <3>9. Len(m[l]) \in Nat /\ Len(m[r]) \in Nat
      BY <3>8 DEF ProductLaid
    <3>10. pos[l] \in 1..Len(m[l]) /\ pos[r] \in 1..Len(m[r])
      BY <1>4, <3>3, <3>7, <3>9
    <3>11. m[n][pos[n]] = m[l][pos[l]] \o m[r][pos[r]]
      BY <3>7, <3>8, <3>10 DEF ProductLaid
    <3>12. Is(l) /\ Is(r)
      <4>1. l \in S /\ r \in S
        BY <1>5, <3>1, <3>3 DEF Operands
      <4>2. pos[l] # 0 /\ pos[r] # 0
        BY <3>7
      <4> QED BY <3>4, <4>1, <4>2
    <3>13. PICK x, y, N : x = ent[l] /\ y = ent[r] /\ N = DOMAIN t
      OBVIOUS
    <3>14. x \in Seq(N) /\ y \in Seq(N)
      BY <3>3, <3>13
    <3>15. ValuesOf(va, x \o y) = ValuesOf(va, x) \o ValuesOf(va, y)
      BY <3>14, ValuesConcat
    <3>16. ent[n] = x \o y
      BY <2>3, <3>1, <3>13 DEF FromLeft
    <3> QED BY <3>11, <3>12, <3>13, <3>15, <3>16 DEF Is
  <2> QED BY <2>2, <2>3
<1>6. Inherited(t, S)
  <2> HIDE DEF S
  <2> QED BY <1>5 DEF Inherited
<1>7. Len(t) \in S
  <2> HIDE DEF S
  <2>1. DOMAIN t \subseteq S
    BY <1>1, <1>6, TreeInduction
  <2> QED BY <1>2, <2>1
<1> QED BY <1>7

-----------------------------------------------------------------------------
(* A step of the query begins and ends *)

\* What depends on the stack only through the sources that wait is the same
\* with one source on it and with none.
LEMMA BetweenSteps ==
    ASSUME NEW t, NEW m, NEW off, NEW s, NEW e, NEW c, NEW code, NEW f, NEW va, NEW a, NEW it,
           NEW pos, NEW was, NEW u, NEW d,
           Follows(t, m, off, s, e, c, code, f, va, a, it, pos, was), IsSource(t),
           s = <<>> \/ Len(s) = 1, u = <<>> \/ Len(u) = 1,
           c # "iterate", d # "iterate", d # "return"
    PROVE  Follows(t, m, off, u, e, d, code, f, va, a, it, pos, pos)
<1>1. 1..(Len(s) - 1) = {} /\ 1..(Len(u) - 1) = {}
  <2>1. 1..(0 - 1) = {} /\ 1..(1 - 1) = {}
    OBVIOUS
  <2>2. Len(s) \in {0, 1} /\ Len(u) \in {0, 1}
    OBVIOUS
  <2> QED BY <2>1, <2>2
<1>2. Rest(t, u, e) = Rest(t, s, e)
  BY <1>1 DEF Rest
<1>3. Counts(t, m, pos, was) /\ Placed(t, m, off, s, e, a, it, pos) /\ Valued(t, m, s, e, c, va, pos)
  BY DEF Follows
<1>4. Counts(t, m, pos, pos)
  BY <1>3, CountsKept
<1>5. Placed(t, m, off, u, e, a, it, pos) /\ Valued(t, m, u, e, d, va, pos)
  BY <1>2, <1>3 DEF Placed, Valued
<1>6. Awaited(t, off, u, f, a, it, pos)
  BY <1>1 DEF Awaited
<1>7. Moved(t, m, u, d, code, f, pos, pos)
  BY DEF Moved
<1> QED BY <1>4, <1>5, <1>6, <1>7 DEF Follows

\* A FROM clause at its start.
LEMMA StartFollows ==
    ASSUME NEW t, IsSource(t), NEW arr, NEW m, NEW off, Laying(t, arr, m, off), NEW code, NEW f,
           NEW va, NEW a, NEW it, \A k \in DOMAIN t : a[k] = 0 /\ it[k] = <<>>,
           NEW s, s = <<>>, NEW c, c = "idle", NEW e, NEW pos, pos = [k \in DOMAIN t |-> 0]
    PROVE  Follows(t, m, off, s, e, c, code, f, va, a, it, pos, pos)
<1>1. \A k \in DOMAIN t : pos[k] = 0
  OBVIOUS
<1>2. \A k \in DOMAIN t : Len(m[k]) \in Nat
  BY LengthsAre
<1>3. Counts(t, m, pos, pos)
  BY <1>1, <1>2 DEF Counts
<1>4. IsBelow(t, Len(t), DOMAIN t)
  <2>1. /\ Len(t) \in Nat /\ DOMAIN t = 1..Len(t) /\ Len(t) \in DOMAIN t
        /\ \A n \in DOMAIN t : /\ t[n].left \in Nat /\ t[n].left < n
                               /\ t[n].right \in Nat /\ t[n].right < n
    BY SourceNodes
  <2>2. ASSUME NEW x \in DOMAIN t
        PROVE  x <= Len(t) /\ Operands(t, x) \subseteq DOMAIN t \cup {0}
    <3>1. x <= Len(t) /\ x \in Nat
      BY <2>1
    <3>2. t[x].left \in DOMAIN t \cup {0} /\ t[x].right \in DOMAIN t \cup {0}
      BY <2>1, <3>1
    <3> QED BY <3>1, <3>2 DEF Operands
  <2>3. \A x \in DOMAIN t : x # Len(t) => \E y \in DOMAIN t : x \in Operands(t, y)
    BY Parents
  <2> QED BY <2>1, <2>2, <2>3 DEF IsBelow
<1>5. ASSUME NEW n \in Rest(t, s, e)
      PROVE  PlacedAt(t, m, off[n], a, it, pos, n) /\ ValuedAt(t, m, va, pos, n)
  <2>1. n \in DOMAIN t
    BY DEF Rest
  <2>2. PICK o, B, r : o = off[n] /\ B = DOMAIN t /\ r = Len(t)
    OBVIOUS
  <2>3. \A k \in B : a[k] = 0 /\ it[k] = <<>> /\ pos[k] = 0
    BY <1>1, <2>2
  <2>4. PlacedAt(t, m, o, a, it, pos, n)
    BY <1>4, <2>1, <2>2, <2>3, RewoundPlaced
  <2>5. ValuedAt(t, m, va, pos, n)
    BY <1>1, <2>1 DEF ValuedAt
  <2> QED BY <2>2, <2>4, <2>5
<1>6. Placed(t, m, off, s, e, a, it, pos) /\ Valued(t, m, s, e, c, va, pos)
  BY <1>5 DEF Placed, Valued
<1>7. Awaited(t, off, s, f, a, it, pos)
  <2>1. 1..(Len(s) - 1) = {}
    OBVIOUS
  <2> QED BY <2>1 DEF Awaited
<1>8. Moved(t, m, s, c, code, f, pos, pos)
  BY DEF Moved
<1> QED BY <1>3, <1>6, <1>7, <1>8 DEF Follows

\* The place of the root changes only when it returns a row.
LEMMA RootStays ==
    ASSUME NEW t, NEW s, IsStack(t, s), s # <<>>,
           NEW m, NEW off, NEW e, NEW c, NEW code, NEW f, NEW va, NEW a, NEW it, NEW pos, NEW was,
           Follows(t, m, off, s, e, c, code, f, va, a, it, pos, was),
           c # "return" \/ code # "ROW" \/ s[Len(s)].node # Len(t)
    PROVE  pos[Len(t)] = was[Len(t)]
<1>1. IsSource(t)
  BY DEF IsStack
<1>2. Len(t) \in DOMAIN t
  BY <1>1, SourceNodes
<1>3. Moved(t, m, s, c, code, f, pos, was)
  BY DEF Follows
<1> QED BY <1>2, <1>3 DEF Moved

-----------------------------------------------------------------------------
(* What the query has got of the rows of its FROM clause *)

\* q says which of the first k rows each item of out is; if no cursor has
\* failed, then all of them are there.
Chooses(q, rows, out_, k, f) ==
    /\ q \in [1..Len(out_) -> Nat]
    /\ \A i \in 1..Len(out_) : 1 <= q[i] /\ q[i] <= k /\ out_[i] = rows[q[i]]
    /\ \A i \in 2..Len(out_) : q[i - 1] < q[i]
    /\ ~f => Len(out_) = k /\ \A i \in 1..Len(out_) : q[i] = i

Chosen(rows, out_, k, f) ==
    /\ IsSequence(out_) /\ k \in Nat /\ k <= Len(rows)
    /\ \E q : Chooses(q, rows, out_, k, f)

\* No row has been seen.
LEMMA NoneChosen ==
    ASSUME NEW rows, Len(rows) \in Nat, NEW k, k = 0, NEW f, NEW s, s = <<>>
    PROVE  Chosen(rows, s, k, f)
<1> DEFINE q == [i \in 1..0 |-> 0]
<1>1. Len(s) = 0 /\ 1..Len(s) = {} /\ 2..Len(s) = {}
  OBVIOUS
<1>2. q \in [1..Len(s) -> Nat]
  BY <1>1
<1> HIDE DEF q
<1>3. Chooses(q, rows, s, k, f)
  BY <1>1, <1>2 DEF Chooses
<1>4. IsSequence(s)
  <2>1. s \in Seq({})
    OBVIOUS
  <2> QED BY <2>1, IsSequenceOf
<1> QED BY <1>3, <1>4 DEF Chosen

\* A cursor may fail.
LEMMA ChosenStill ==
    ASSUME NEW rows, NEW s, NEW k, NEW f, Chosen(rows, s, k, f), NEW g, f => g
    PROVE  Chosen(rows, s, k, g)
<1>1. PICK q : Chooses(q, rows, s, k, f)
  BY DEF Chosen
<1>2. Chooses(q, rows, s, k, g)
  BY <1>1 DEF Chooses
<1> QED BY <1>2 DEF Chosen

\* The query gets a further row.
LEMMA ChosenNext ==
    ASSUME NEW rows, Len(rows) \in Nat, NEW s, NEW k, NEW f, Chosen(rows, s, k, f),
           NEW j \in Nat, k < j, j <= Len(rows), ~f => j = k + 1, NEW row, row = rows[j],
           NEW u, u = Append(s, row)
    PROVE  Chosen(rows, u, j, f)
<1>1. PICK q : Chooses(q, rows, s, k, f)
  BY DEF Chosen
<1>2. PICK V : s \in Seq(V) /\ row \in V
  <2>1. PICK W : s \in Seq(W)
    BY DEF Chosen, IsSequence
  <2>2. s \in Seq(W \cup {row})
    <3>1. \A i \in 1..Len(s) : s[i] \in W \cup {row}
      BY <2>1
    <3> QED BY <3>1, SequenceOf DEF Chosen
  <2> QED BY <2>2
<1>3. PICK len : len = Len(s)
  OBVIOUS
<1>4. /\ u \in Seq(V) /\ len \in Nat /\ Len(u) = len + 1
      /\ \A i \in 1..len : u[i] = s[i]
      /\ u[len + 1] = row
  BY <1>2, <1>3
<1>5. IsSequence(u)
  BY <1>4, IsSequenceOf
<1>6. /\ q \in [1..len -> Nat] /\ k \in Nat
      /\ \A i \in 1..len : 1 <= q[i] /\ q[i] <= k /\ s[i] = rows[q[i]]
      /\ \A i \in 2..len : q[i - 1] < q[i]
      /\ ~f => len = k /\ \A i \in 1..len : q[i] = i
  BY <1>1, <1>3 DEF Chooses, Chosen
<1>7. PICK r : r = [i \in 1..(len + 1) |-> IF i = len + 1 THEN j ELSE q[i]]
  OBVIOUS
<1>8. r[len + 1] = j /\ \A i \in 1..len : r[i] = q[i] /\ i \in 1..(len + 1)
  BY <1>4, <1>7
<1>9. \A i \in 1..(len + 1) : i \in 1..len \/ i = len + 1
  BY <1>4
<1>10. r \in [1..(len + 1) -> Nat]
  <2>1. \A i \in 1..(len + 1) : r[i] \in Nat
    BY <1>6, <1>8, <1>9
  <2> QED BY <1>7, <2>1
<1>11. \A i \in 1..(len + 1) : 1 <= r[i] /\ r[i] <= j /\ u[i] = rows[r[i]]
  <2> SUFFICES ASSUME NEW i \in 1..(len + 1) PROVE 1 <= r[i] /\ r[i] <= j /\ u[i] = rows[r[i]]
    OBVIOUS
  <2>1. CASE i \in 1..len
    <3>1. q[i] \in Nat /\ 1 <= q[i] /\ q[i] <= k /\ r[i] = q[i] /\ u[i] = rows[q[i]]
      BY <1>4, <1>6, <1>8, <2>1
    <3>2. q[i] <= j
      BY <1>6, <3>1
    <3> QED BY <3>1, <3>2
  <2>2. CASE i = len + 1
    <3>1. 1 <= j
      BY <1>6
    <3> QED BY <1>4, <1>8, <2>2, <3>1
  <2> QED BY <1>9, <2>1, <2>2
<1>12. \A i \in 2..(len + 1) : r[i - 1] < r[i]
  <2> SUFFICES ASSUME NEW i \in 2..(len + 1) PROVE r[i - 1] < r[i]
    OBVIOUS
  <2>1. i - 1 \in 1..len /\ (i \in 2..len \/ i = len + 1)
    BY <1>4
  <2>2. r[i - 1] = q[i - 1] /\ q[i - 1] \in Nat /\ q[i - 1] <= k
    BY <1>6, <1>8, <2>1
  <2>3. CASE i \in 2..len
    <3>1. i \in 1..len
      BY <2>3
    <3> QED BY <1>6, <1>8, <2>2, <2>3, <3>1
  <2>4. CASE i = len + 1
    <3>1. r[i] = j
      BY <1>8, <2>4
    <3> QED BY <1>6, <2>2, <3>1
  <2> QED BY <2>1, <2>3, <2>4
<1>13. ASSUME ~f PROVE len + 1 = j /\ \A i \in 1..(len + 1) : r[i] = i
  <2>1. len + 1 = j
    BY <1>6, <1>13
  <2>2. \A i \in 1..len : r[i] = i
    BY <1>6, <1>8, <1>13
  <2> QED BY <1>8, <1>9, <2>1, <2>2
<1>14. Chooses(r, rows, u, j, f)
  BY <1>4, <1>10, <1>11, <1>12, <1>13 DEF Chooses
<1> QED BY <1>5, <1>14 DEF Chosen

\* Rows that are all there, from the first on, are a prefix of all rows.
LEMMA ChosenIsPrefix ==
    ASSUME NEW rows, IsSequence(rows), NEW s, NEW k, NEW f, Chosen(rows, s, k, f), ~f
    PROVE  IsPrefix(s, rows) /\ (k = Len(rows) => s = rows)
<1>1. PICK q : Chooses(q, rows, s, k, f)
  BY DEF Chosen
<1>2. /\ IsSequence(s) /\ k \in Nat /\ k <= Len(rows)
      /\ Len(s) = k /\ \A i \in 1..k : s[i] = rows[i]
  BY <1>1 DEF Chosen, Chooses
<1>3. Len(s) \in Nat /\ DOMAIN s = 1..Len(s) /\ Len(rows) \in Nat /\ DOMAIN rows = 1..Len(rows)
  BY <1>2, SequenceOf
<1>4. PICK V : s \in Seq(V) /\ rows \in Seq(V)
  <2>1. PICK W : W = { s[i] : i \in 1..Len(s) } \cup { rows[i] : i \in 1..Len(rows) }
    OBVIOUS
  <2>2. (\A i \in 1..Len(s) : s[i] \in W) /\ (\A i \in 1..Len(rows) : rows[i] \in W)
    BY <2>1
  <2>3. s \in Seq(W) /\ rows \in Seq(W)
    BY <1>2, <2>2, SequenceOf
  <2> QED BY <2>3
<1>5. SubSeq(s, 1, k) = SubSeq(rows, 1, k)
  <2>1. SubSeq(s, 1, k) \in Seq(V) /\ SubSeq(rows, 1, k) \in Seq(V)
    BY <1>2, <1>3, <1>4
  <2>2. Len(SubSeq(s, 1, k)) = k /\ Len(SubSeq(rows, 1, k)) = k
    BY <1>2, <1>3, <1>4
  <2>3. \A i \in 1..k : SubSeq(s, 1, k)[i] = s[i] /\ SubSeq(rows, 1, k)[i] = rows[i]
    BY <1>2, <1>3, <1>4
  <2>4. PICK x, y : x = SubSeq(s, 1, k) /\ y = SubSeq(rows, 1, k)
    OBVIOUS
  <2>5. /\ x \in Seq(V) /\ y \in Seq(V) /\ Len(x) = Len(y)
        /\ \A i \in 1..Len(x) : x[i] = y[i]
    BY <1>2, <2>1, <2>2, <2>3, <2>4
  <2>6. x = y
    BY <2>5
  <2> QED BY <2>4, <2>6
<1>6. k = Len(rows) => s = rows
  <2> SUFFICES ASSUME k = Len(rows) PROVE s = rows
    OBVIOUS
  <2> QED BY <1>2, <1>4
<1> QED BY <1>2, <1>5, <1>6 DEF IsPrefix

-----------------------------------------------------------------------------
\* The place in t behind j of an item.
NextPlace(t, x, j) == Min({ i \in DOMAIN t : i > j /\ t[i] = x } \cup {Len(t) + 1})

\* The next place of an item is at most any place of it further on.
LEMMA NextPlaceIs ==
    ASSUME NEW t, Len(t) \in Nat, DOMAIN t = 1..Len(t), NEW x, NEW j
    PROVE  /\ NextPlace(t, x, j) \in Nat
           /\ \A i \in 1..Len(t) : i > j /\ t[i] = x => NextPlace(t, x, j) <= i
<1> DEFINE T == { i \in DOMAIN t : i > j /\ t[i] = x } \cup {Len(t) + 1}
<1>1. T \subseteq Nat /\ T # {}
  OBVIOUS
<1>2. \A i \in 1..Len(t) : i > j /\ t[i] = x => i \in T
  OBVIOUS
<1>3. NextPlace(t, x, j) = Min(T)
  BY DEF NextPlace
<1> HIDE DEF T
<1>4. \E i \in T : \A k \in T : i <= k
  BY <1>1, LeastElement
<1>5. Min(T) \in T /\ \A k \in T : Min(T) <= k
  BY <1>4 DEF Min
<1> QED BY <1>1, <1>2, <1>3, <1>5

\* Rows some of which are missing are a selection of all rows.
LEMMA ChosenIsSelection ==
    ASSUME NEW t, IsSequence(t), NEW s, NEW k, NEW f, Chosen(t, s, k, f)
    PROVE  IsSelection(s, t)
<1>1. PICK q : Chooses(q, t, s, k, f)
  BY DEF Chosen
<1>2. PICK N : N = Len(s)
  OBVIOUS
<1>3. Len(t) \in Nat /\ DOMAIN t = 1..Len(t) /\ N \in Nat
  BY <1>2, SequenceOf DEF Chosen
<1>4. /\ q \in [1..N -> Nat] /\ k \in Nat /\ k <= Len(t)
      /\ \A i \in 1..N : 1 <= q[i] /\ q[i] <= k /\ s[i] = t[q[i]]
      /\ \A i \in 2..N : q[i - 1] < q[i]
  BY <1>1, <1>2 DEF Chooses, Chosen
<1> DEFINE Of(h) == [i \in 0..N |-> IF i = 0 THEN 0 ELSE NextPlace(t, s[i], h[i - 1])]
           g == CHOOSE h : h = Of(h)
           step == [i \in 1..N |-> [x \in Nat \X Nat |-> NextPlace(t, s[i], x[1])]]
           before == [i \in 1..N |-> i - 1]
<1>5. PICK h \in [0..N -> Nat] : Folds(h, step, before, before, 0, N)
  <2>1. step \in [1..N -> [Nat \X Nat -> Nat]]
    BY <1>3, NextPlaceIs
  <2>2. Descend(before, before, N)
    BY <1>3 DEF Descend
  <2> HIDE DEF step, before
  <2>3. Folded(step, before, before, Nat, 0, N)
    BY <1>3, <2>1, <2>2, FoldExists
  <2> QED BY <2>3 DEF Folded
<1>6. h[0] = 0 /\ \A i \in 1..N : h[i] = NextPlace(t, s[i], h[i - 1])
  <2>1. \A i \in 1..N : h[i] = step[i][<<h[before[i]], h[before[i]]>>] /\ h[0] = 0
    BY <1>5 DEF Folds
  <2>2. h[0] = 0
    BY <1>5 DEF Folds
  <2>3. ASSUME NEW i \in 1..N PROVE h[i] = NextPlace(t, s[i], h[i - 1])
    <3>1. before[i] = i - 1 /\ i - 1 \in 0..N
      BY <1>3
    <3>2. h[i - 1] \in Nat
      BY <1>5, <3>1
    <3>3. PICK z : z = h[i - 1]
      OBVIOUS
    <3>4. h[i] = step[i][<<z, z>>] /\ z \in Nat
      BY <2>1, <3>1, <3>2, <3>3
    <3>5. step[i][<<z, z>>] = NextPlace(t, s[i], z)
      BY <3>4
    <3> QED BY <3>3, <3>4, <3>5
  <2> QED BY <2>2, <2>3
<1> HIDE DEF step, before
<1>7. \A i \in 0..N : i # 0 => i \in 1..N
  BY <1>3
<1>8. h = Of(h)
  <2>1. \A i \in 0..N : h[i] = IF i = 0 THEN 0 ELSE NextPlace(t, s[i], h[i - 1])
    BY <1>6, <1>7
  <2> QED BY <1>5, <2>1
<1>9. g = Of(g)
  <2> HIDE DEF Of
  <2> QED BY <1>8
<1>10. IsSelection(s, t) <=> g[N] <= Len(t)
  BY <1>2 DEF IsSelection, NextPlace
<1> HIDE DEF g
<1>11. g[0] = 0 /\ \A i \in 1..N : g[i] = NextPlace(t, s[i], g[i - 1])
  <2>1. \A i \in 0..N : g[i] = IF i = 0 THEN 0 ELSE NextPlace(t, s[i], g[i - 1])
    BY <1>9
  <2>2. 0 \in 0..N /\ \A i \in 1..N : i \in 0..N /\ i # 0
    BY <1>3
  <2> QED BY <2>1, <2>2
<1> HIDE DEF Of
<1> DEFINE Bad == { i \in 1..N : ~(g[i] <= q[i]) }
<1>12. Bad = {}
  <2> SUFFICES ASSUME Bad # {} PROVE FALSE
    OBVIOUS
  <2>1. PICK i \in Bad : \A j \in Bad : i <= j
    <3>1. Bad \subseteq Nat
      BY <1>3
    <3> HIDE DEF Bad
    <3> QED BY <3>1, LeastElement
  <2>2. i \in 1..N /\ ~(g[i] <= q[i])
    OBVIOUS
  <2>3. q[i] \in Nat /\ 1 <= q[i] /\ q[i] <= Len(t) /\ s[i] = t[q[i]]
    BY <1>3, <1>4, <2>2
  <2>4. q[i] \in 1..Len(t)
    BY <1>3, <2>3
  <2>5. g[i - 1] < q[i]
    <3>1. CASE i = 1
      BY <1>11, <2>3, <3>1
    <3>2. CASE i # 1
      <4>1. i \in 2..N /\ i - 1 \in 1..N /\ ~(i <= i - 1)
        BY <1>3, <2>2, <3>2
      <4>2. i - 1 \notin Bad
        BY <2>1, <4>1
      <4>3. g[i - 1] <= q[i - 1] /\ q[i - 1] < q[i] /\ q[i - 1] \in Nat
        BY <1>4, <4>1, <4>2
      <4>4. g[i - 1] \in Nat
        <5>1. PICK z : z = g[i - 2]
          OBVIOUS
        <5>2. g[i - 1] = NextPlace(t, s[i - 1], z)
          <6>1. (i - 1) - 1 = i - 2
            BY <4>1
          <6> QED BY <1>11, <4>1, <5>1, <6>1
        <5> QED BY <1>3, <5>2, NextPlaceIs
      <4> QED BY <2>3, <4>3, <4>4
    <3> QED BY <3>1, <3>2
  <2>6. PICK z : z = g[i - 1]
    OBVIOUS
  <2>7. NextPlace(t, s[i], z) <= q[i]
    <3>1. q[i] > z
      BY <2>3, <2>5, <2>6
    <3> QED BY <1>3, <2>3, <2>4, <3>1, NextPlaceIs
  <2> QED BY <1>11, <2>2, <2>6, <2>7
<1>13. g[N] <= Len(t)
  <2>1. CASE N = 0
    BY <1>3, <1>11, <2>1
  <2>2. CASE N # 0
    <3>1. N \in 1..N
      BY <1>3, <2>2
    <3>2. g[N] <= q[N] /\ q[N] \in Nat /\ q[N] <= k
      BY <1>4, <1>12, <3>1
    <3>3. g[N] \in Nat
      <4>1. PICK z : z = g[N - 1]
        OBVIOUS
      <4>2. g[N] = NextPlace(t, s[N], z)
        BY <1>11, <3>1, <4>1
      <4> QED BY <1>3, <4>2, NextPlaceIs
    <3> QED BY <1>3, <1>4, <3>2, <3>3
  <2> QED BY <2>1, <2>2
<1> QED BY <1>10, <1>13

-----------------------------------------------------------------------------
(* What is true of the rows of a FROM clause in every state *)

Tracks(t, arr, m, s, e, c, code, f, va, a, it, k) ==
    \E off, pos, was : /\ Laying(t, arr, m, off)
                       /\ Follows(t, m, off, s, e, c, code, f, va, a, it, pos, was)
                       /\ was[Len(t)] = k

\* The sources are among their rows, and the query has seen k of the root's.
Following(k) == Tracks(tree, outer, meaning, stack, ended, pc, rc, failed, val, at, iter, k)

Loads == DOMAIN val = Nodes /\ array \in [Nodes -> {NoValue, outer}]

\* The places of the sources after a step.
LEMMA FollowsNext ==
    ASSUME NEW t, t = tree, NEW m, m = meaning, NEW arr, arr = outer, UNCHANGED env,
           NEW off, Laying(t, arr, m, off),
           NEW u, u = stack', NEW d, d = ended', NEW cu, cu = pc', NEW cd, cd = rc', NEW g, g = failed',
           NEW vb, vb = val', NEW b, b = at', NEW iu, iu = iter', NEW q, NEW w, NEW k, w[Len(t)] = k,
           Follows(t, m, off, u, d, cu, cd, g, vb, b, iu, q, w)
    PROVE  Following(k)'
<1>1. Tracks(t, arr, m, u, d, cu, cd, g, vb, b, iu, k)
  BY DEF Tracks
<1> QED BY <1>1 DEF Following, env

-----------------------------------------------------------------------------
(* The leaves *)

\* A leaf returns its next row.
LEMMA LeafRowFollows ==
    ASSUME Sound, Loads, NEW k, Following(k), pc = "call", Kind \in Leaves,
           NEW v, LeafRow(v), NEW x, x = at[p] + 1, x <= Len(Rows(tree[p], outer)),
           v = Rows(tree[p], outer)[x]
    PROVE  Following(k)'
<1>1. PICK t, m, arr, s, e, c, code, f : /\ t = tree /\ m = meaning /\ arr = outer /\ s = stack
                                         /\ e = ended /\ c = pc /\ code = rc /\ f = failed
  OBVIOUS
<1>2. PICK va, a, it, n : va = val /\ a = at /\ it = iter /\ n = p
  OBVIOUS
<1>3. PICK off, pos, was : /\ Laying(t, arr, m, off) /\ was[Len(t)] = k
                           /\ Follows(t, m, off, s, e, c, code, f, va, a, it, pos, was)
  BY <1>1, <1>2 DEF Following, Tracks
<1>4. PICK u, d, g, vb, b, iu : /\ u = stack' /\ d = ended' /\ g = failed'
                                /\ vb = val' /\ b = at' /\ iu = iter'
  OBVIOUS
<1>5. /\ IsStack(t, s) /\ s # <<>> /\ n = s[Len(s)].node /\ n \in DOMAIN t
      /\ Len(s) \in Nat /\ Len(s) > 0 /\ Len(s) \in 1..Len(s)
  BY <1>1, <1>2, Working
<1>6. IsSource(t)
  BY <1>5 DEF IsStack
<1>7. arr \in Outers /\ DOMAIN va = DOMAIN t /\ DOMAIN a = DOMAIN t /\ DOMAIN it = DOMAIN t
  BY <1>1, <1>2 DEF Sound, Typed, TypeOK, IterTyped, Loads, Nodes
<1>8. n \notin e
  <2>1. NoneEnded(s, e)
    BY <1>1, Working
  <2> QED BY <1>5, <2>1 DEF NoneEnded
<1>9. pos[Len(t)] = k
  <2>1. c # "return" \/ code # "ROW" \/ s[Len(s)].node # Len(t)
    BY <1>1, <1>2, <1>5 DEF Root
  <2>2. pos[Len(t)] = was[Len(t)]
    BY <1>3, <1>5, <2>1, RootStays
  <2> QED BY <1>3, <2>2
<1>10. /\ UNCHANGED env /\ u = s /\ d = e /\ pc' = "return" /\ rc' = "ROW" /\ g = f /\ iu = it
       /\ vb = [va EXCEPT ![n] = v] /\ b = [a EXCEPT ![n] = a[n] + 1]
  BY <1>1, <1>2, <1>4 DEF LeafRow, Return, env
<1>11. SameBut(t, n, va, vb) /\ vb[n] = v /\ SameBut(t, n, a, b) /\ b[n] = x
  BY <1>2, <1>5, <1>7, <1>10 DEF SameBut
<1>12. /\ t[n].kind \in Leaves /\ x = a[n] + 1 /\ x <= Len(Rows(t[n], arr)) /\ vb[n] = Rows(t[n], arr)[x]
       /\ c # "return"
  BY <1>1, <1>2, <1>11 DEF Kind
<1>13. PICK q : Follows(t, m, off, s, e, "return", "ROW", f, vb, b, it, q, pos)
  BY <1>3, <1>5, <1>7, <1>8, <1>11, <1>12, LeafRowMove
<1>14. PICK cu, cd : cu = pc' /\ cd = rc'
  OBVIOUS
<1>15. Follows(t, m, off, u, d, cu, cd, g, vb, b, iu, q, pos)
  BY <1>10, <1>13, <1>14
<1> QED BY <1>1, <1>3, <1>4, <1>9, <1>10, <1>14, <1>15, FollowsNext

\* A leaf returns that it is at its end.
LEMMA LeafDoneFollows ==
    ASSUME Sound, Loads, NEW k, Following(k), pc = "call", Kind \in Leaves, Return("DONE"),
           UNCHANGED <<env, iter, stack>>, failed => failed',
           val' = val \/ \E v : val' = [val EXCEPT ![p] = v],
           at' = at \/ at' = [at EXCEPT ![p] = 0],
           ~failed' => at[p] >= Len(Rows(tree[p], outer))
    PROVE  Following(k)'
<1>1. PICK t, m, arr, s, e, c, code, f : /\ t = tree /\ m = meaning /\ arr = outer /\ s = stack
                                         /\ e = ended /\ c = pc /\ code = rc /\ f = failed
  OBVIOUS
<1>2. PICK va, a, it, n : va = val /\ a = at /\ it = iter /\ n = p
  OBVIOUS
<1>3. PICK off, pos, was : /\ Laying(t, arr, m, off) /\ was[Len(t)] = k
                           /\ Follows(t, m, off, s, e, c, code, f, va, a, it, pos, was)
  BY <1>1, <1>2 DEF Following, Tracks
<1>4. PICK u, d, g, vb, b, iu : /\ u = stack' /\ d = ended' /\ g = failed'
                                /\ vb = val' /\ b = at' /\ iu = iter'
  OBVIOUS
<1>5. /\ IsStack(t, s) /\ s # <<>> /\ n = s[Len(s)].node /\ n \in DOMAIN t
      /\ Len(s) \in Nat /\ Len(s) > 0 /\ Len(s) \in 1..Len(s)
  BY <1>1, <1>2, Working
<1>6. IsSource(t)
  BY <1>5 DEF IsStack
<1>7. arr \in Outers /\ DOMAIN va = DOMAIN t /\ DOMAIN a = DOMAIN t /\ DOMAIN it = DOMAIN t
  BY <1>1, <1>2 DEF Sound, Typed, TypeOK, IterTyped, Loads, Nodes
<1>8. n \notin e
  <2>1. NoneEnded(s, e)
    BY <1>1, Working
  <2> QED BY <1>5, <2>1 DEF NoneEnded
<1>9. pos[Len(t)] = k
  <2>1. c # "return" \/ code # "ROW" \/ s[Len(s)].node # Len(t)
    BY <1>1, <1>2, <1>5 DEF Root
  <2>2. pos[Len(t)] = was[Len(t)]
    BY <1>3, <1>5, <2>1, RootStays
  <2> QED BY <1>3, <2>2
<1>10. /\ UNCHANGED env /\ u = s /\ d = e \cup {n} /\ pc' = "return" /\ rc' = "DONE" /\ iu = it
       /\ (f => g)
  BY <1>1, <1>2, <1>4 DEF Return, env
<1>11. SameBut(t, n, va, vb)
  <2>1. vb = va \/ \E v : vb = [va EXCEPT ![n] = v]
    BY <1>2, <1>4
  <2> QED BY <1>5, <1>7, <2>1 DEF SameBut
<1>12. SameBut(t, n, a, b)
  <2>1. b = a \/ b = [a EXCEPT ![n] = 0]
    BY <1>2, <1>4
  <2> QED BY <1>5, <1>7, <2>1 DEF SameBut
<1>13. t[n].kind \in Leaves /\ c # "return" /\ (~g => a[n] >= Len(Rows(t[n], arr)))
  BY <1>1, <1>2, <1>4 DEF Kind
<1>14. Follows(t, m, off, s, d, "return", "DONE", g, vb, b, it, pos, pos)
  BY <1>3, <1>5, <1>7, <1>8, <1>10, <1>11, <1>12, <1>13, LeafDoneMove
<1>15. PICK cu, cd : cu = pc' /\ cd = rc'
  OBVIOUS
<1>16. Follows(t, m, off, u, d, cu, cd, g, vb, b, iu, pos, pos)
  BY <1>10, <1>14, <1>15
<1> QED BY <1>1, <1>3, <1>4, <1>9, <1>10, <1>15, <1>16, FollowsNext

-----------------------------------------------------------------------------
(* A join *)

\* A join calls its left operand, or its right one (datasrc.c:345-352).
LEMMA JoinCallFollows ==
    ASSUME Sound, Loads, NEW k, Following(k), JoinStart \/ JoinOn
    PROVE  Following(k)'
<1>0. pc = "call" /\ Kind = "JOIN" /\ UNCHANGED <<env, val, iter, rc, ended, failed>> /\ pc' = "call"
  BY DEF JoinStart, JoinOn, Call
<1>1. PICK t, m, arr, s, e, c, code, f : /\ t = tree /\ m = meaning /\ arr = outer /\ s = stack
                                         /\ e = ended /\ c = pc /\ code = rc /\ f = failed
  OBVIOUS
<1>2. PICK va, a, it, n : va = val /\ a = at /\ it = iter /\ n = p
  OBVIOUS
<1>3. PICK off, pos, was : /\ Laying(t, arr, m, off) /\ was[Len(t)] = k
                           /\ Follows(t, m, off, s, e, c, code, f, va, a, it, pos, was)
  BY <1>1, <1>2 DEF Following, Tracks
<1>4. PICK u, d, g, vb, b, iu : /\ u = stack' /\ d = ended' /\ g = failed'
                                /\ vb = val' /\ b = at' /\ iu = iter'
  OBVIOUS
<1>5. /\ IsStack(t, s) /\ s # <<>> /\ n = s[Len(s)].node /\ n \in DOMAIN t
      /\ Len(s) \in Nat /\ Len(s) > 0 /\ Len(s) \in 1..Len(s)
  BY <1>1, <1>2, <1>0, Working
<1>6. IsSource(t)
  BY <1>5 DEF IsStack
<1>7. arr \in Outers /\ DOMAIN va = DOMAIN t /\ DOMAIN a = DOMAIN t /\ DOMAIN it = DOMAIN t
  BY <1>1, <1>2 DEF Sound, Typed, TypeOK, IterTyped, Loads, Nodes
<1>8. n \notin e
  <2>1. NoneEnded(s, e)
    BY <1>1, <1>0, Working
  <2> QED BY <1>5, <2>1 DEF NoneEnded
<1>9. pos[Len(t)] = k
  <2>1. c # "return" \/ code # "ROW" \/ s[Len(s)].node # Len(t)
    BY <1>1, <1>2, <1>5, <1>0 DEF Root
  <2>2. pos[Len(t)] = was[Len(t)]
    BY <1>3, <1>5, <2>1, RootStays
  <2> QED BY <1>3, <2>2
<1>10. /\ UNCHANGED env /\ d = e /\ g = f /\ vb = va /\ iu = it /\ pc' = "call" /\ rc' = code
  BY <1>1, <1>2, <1>4, <1>0
<1>11. PICK l, r : l = t[n].left /\ r = t[n].right
  OBVIOUS
<1>12. PICK w, y : /\ u = Pushed(s, w, y)
                   /\ \/ w = "first" /\ y = l /\ a[n] = 0 /\ b = [a EXCEPT ![n] = 1]
                      \/ w = "right" /\ y = r /\ a[n] # 0 /\ b = a
  <2>1. CASE JoinStart
    <3>1. a[n] = 0 /\ b = [a EXCEPT ![n] = 1] /\ u = Pushed(s, "first", l)
      BY <1>1, <1>2, <1>4, <1>11, <2>1 DEF JoinStart, Call, Frame, Pushed
    <3> QED BY <3>1
  <2>2. CASE JoinOn
    <3>1. a[n] # 0 /\ b = a /\ u = Pushed(s, "right", r)
      BY <1>1, <1>2, <1>4, <1>11, <2>2 DEF JoinOn, Call, Frame, Pushed
    <3> QED BY <3>1
  <2> QED BY <2>1, <2>2
<1>13. SameBut(t, n, a, b) /\ (w = "first" => b[n] = 1) /\ (w = "right" => b[n] = a[n])
  BY <1>5, <1>7, <1>12 DEF SameBut
<1>14. t[n].kind = "JOIN" /\ c # "return" /\ l \in DOMAIN t /\ r \in DOMAIN t
  <2>1. t[n].kind = "JOIN" /\ tree[p].kind = "JOIN" /\ p \in Nodes /\ IsSource(tree)
    BY <1>1, <1>2, <1>5, <1>6, <1>0 DEF Kind, Nodes
  <2>2. tree[p].left \in Nodes /\ tree[p].right \in Nodes
    BY <2>1, OperandNodes
  <2> QED BY <1>1, <1>2, <1>11, <1>0, <2>1, <2>2 DEF Nodes
<1>15. Follows(t, m, off, u, e, "call", code, f, va, b, it, pos, pos)
  <2>1. y \in DOMAIN t /\ \/ w = "first" /\ a[n] = 0 /\ b[n] = 1
                          \/ w = "right" /\ a[n] # 0 /\ b[n] = a[n]
    BY <1>12, <1>13, <1>14
  <2> QED BY <1>3, <1>5, <1>8, <1>12, <1>13, <1>14, <2>1, JoinCallMove
<1>16. PICK cu, cd : cu = pc' /\ cd = rc'
  OBVIOUS
<1>17. Follows(t, m, off, u, d, cu, cd, g, vb, b, iu, pos, pos)
  BY <1>10, <1>15, <1>16
<1> QED BY <1>1, <1>3, <1>4, <1>9, <1>10, <1>16, <1>17, FollowsNext

\* The operand that a join calls next (datasrc.c:346-353).
LEMMA JoinNextFollows ==
    ASSUME Sound, Loads, NEW k, Following(k), JoinFirstRow \/ JoinRightDone
    PROVE  Following(k)'
<1>0. /\ pc = "return" /\ p # Root /\ UNCHANGED <<env, val, at, iter, rc, ended, failed>> /\ pc' = "call"
       /\ CallerWaits # "next"
  BY DEF JoinFirstRow, JoinRightDone, CallNext, Returned
<1>1. PICK t, m, arr, s, e, c, code, f : /\ t = tree /\ m = meaning /\ arr = outer /\ s = stack
                                         /\ e = ended /\ c = pc /\ code = rc /\ f = failed
  OBVIOUS
<1>2. PICK va, a, it, n : va = val /\ a = at /\ it = iter /\ n = p
  OBVIOUS
<1>3. PICK off, pos, was : /\ Laying(t, arr, m, off) /\ was[Len(t)] = k
                           /\ Follows(t, m, off, s, e, c, code, f, va, a, it, pos, was)
  BY <1>1, <1>2 DEF Following, Tracks
<1>4. PICK u, d, g, vb, b, iu : /\ u = stack' /\ d = ended' /\ g = failed'
                                /\ vb = val' /\ b = at' /\ iu = iter'
  OBVIOUS
<1>5. /\ IsStack(t, s) /\ s # <<>> /\ n = s[Len(s)].node /\ n \in DOMAIN t
      /\ Len(s) \in Nat /\ Len(s) > 0 /\ Len(s) \in 1..Len(s)
  BY <1>1, <1>2, <1>0, Working
<1>6. IsSource(t)
  BY <1>5 DEF IsStack
<1>7. arr \in Outers /\ DOMAIN va = DOMAIN t /\ DOMAIN a = DOMAIN t /\ DOMAIN it = DOMAIN t
  BY <1>1, <1>2 DEF Sound, Typed, TypeOK, IterTyped, Loads, Nodes
<1>8. PICK h, x : h = Caller /\ x = CallerWaits
  OBVIOUS
<1>9. pos[Len(t)] = k
  <2>1. s[Len(s)].node # Len(t)
    BY <1>1, <1>2, <1>5, <1>0 DEF Root
  <2>2. pos[Len(t)] = was[Len(t)]
    BY <1>3, <1>5, <2>1, RootStays
  <2> QED BY <1>3, <2>2
<1>10. Len(s) > 1 /\ h = s[Len(s) - 1].node /\ x = s[Len(s) - 1].for /\ h \in DOMAIN t /\ h \notin e
       /\ Waits(t, h, x, n)
  BY <1>1, <1>2, <1>8, <1>0, ReturnsTo
<1>11. /\ UNCHANGED env /\ d = e /\ g = f /\ vb = va /\ b = a /\ iu = it /\ pc' = "call" /\ rc' = code
       /\ c = "return" /\ t[h].kind = "JOIN"
  BY <1>1, <1>2, <1>4, <1>8, <1>0, JoinReturnedTo
<1>12. PICK v : v = Front(s)
  OBVIOUS
<1>13. Follows(t, m, off, u, e, "call", code, f, va, a, it, pos, pos)
  <2>1. CASE JoinFirstRow
    <3>1. PICK w, y : w = "right" /\ y = t[h].right
      OBVIOUS
    <3>2. CallNext(tree[Caller].right, "right") /\ code = "ROW" /\ x = "first"
      BY <1>1, <1>8, <2>1 DEF JoinFirstRow, Returned
    <3>3. u = Pushed(Front(s), w, y)
      BY <1>1, <1>4, <1>8, <1>0, <3>1, <3>2, CallNextIs
    <3> QED BY <1>3, <1>5, <1>10, <1>11, <3>1, <3>2, <3>3, JoinFirstMove
  <2>2. CASE JoinRightDone
    <3>1. PICK w, y : w = "left" /\ y = t[h].left
      OBVIOUS
    <3>2. CallNext(tree[Caller].left, "left") /\ code = "DONE" /\ x = "right"
      BY <1>1, <1>8, <2>2 DEF JoinRightDone, Returned
    <3>3. u = Pushed(Front(s), w, y)
      BY <1>1, <1>4, <1>8, <1>0, <3>1, <3>2, CallNextIs
    <3> QED BY <1>3, <1>5, <1>10, <1>11, <3>1, <3>2, <3>3, JoinRightDoneMove
  <2> QED BY <2>1, <2>2
<1>14. PICK cu, cd : cu = pc' /\ cd = rc'
  OBVIOUS
<1>15. Follows(t, m, off, u, d, cu, cd, g, vb, b, iu, pos, pos)
  BY <1>11, <1>13, <1>14
<1> QED BY <1>1, <1>3, <1>4, <1>9, <1>11, <1>14, <1>15, FollowsNext

\* A join has the next row of its left operand, and rewinds the right one
\* (datasrc.c:355-361).
LEMMA JoinLeftRowFollows ==
    ASSUME Sound, Loads, NEW k, Following(k), JoinLeftRow
    PROVE  Following(k)'
<1>0. /\ pc = "return" /\ p # Root /\ UNCHANGED <<env, rc, failed>> /\ pc' = "call"
       /\ CallerWaits = "left" /\ rc = "ROW" /\ CallNext(tree[Caller].right, "again")
       /\ RewindAll(Below(tree[Caller].right))
  BY DEF JoinLeftRow, CallNext, Returned
<1>1. PICK t, m, arr, s, e, c, code, f : /\ t = tree /\ m = meaning /\ arr = outer /\ s = stack
                                         /\ e = ended /\ c = pc /\ code = rc /\ f = failed
  OBVIOUS
<1>2. PICK va, a, it, n : va = val /\ a = at /\ it = iter /\ n = p
  OBVIOUS
<1>3. PICK off, pos, was : /\ Laying(t, arr, m, off) /\ was[Len(t)] = k
                           /\ Follows(t, m, off, s, e, c, code, f, va, a, it, pos, was)
  BY <1>1, <1>2 DEF Following, Tracks
<1>4. PICK u, d, g, vb, b, iu : /\ u = stack' /\ d = ended' /\ g = failed'
                                /\ vb = val' /\ b = at' /\ iu = iter'
  OBVIOUS
<1>5. /\ IsStack(t, s) /\ s # <<>> /\ n = s[Len(s)].node /\ n \in DOMAIN t
      /\ Len(s) \in Nat /\ Len(s) > 0 /\ Len(s) \in 1..Len(s)
  BY <1>1, <1>2, <1>0, Working
<1>6. IsSource(t)
  BY <1>5 DEF IsStack
<1>7. arr \in Outers /\ DOMAIN va = DOMAIN t /\ DOMAIN a = DOMAIN t /\ DOMAIN it = DOMAIN t
  BY <1>1, <1>2 DEF Sound, Typed, TypeOK, IterTyped, Loads, Nodes
<1>8. PICK h, x : h = Caller /\ x = CallerWaits
  OBVIOUS
<1>9. pos[Len(t)] = k
  <2>1. s[Len(s)].node # Len(t)
    BY <1>1, <1>2, <1>5, <1>0 DEF Root
  <2>2. pos[Len(t)] = was[Len(t)]
    BY <1>3, <1>5, <2>1, RootStays
  <2> QED BY <1>3, <2>2
<1>10. Len(s) > 1 /\ h = s[Len(s) - 1].node /\ x = s[Len(s) - 1].for /\ h \in DOMAIN t /\ h \notin e
       /\ Waits(t, h, x, n)
  BY <1>1, <1>2, <1>8, <1>0, ReturnsTo
<1>11. /\ UNCHANGED env /\ g = f /\ pc' = "call" /\ rc' = code /\ code = "ROW" /\ x = "left"
       /\ c = "return" /\ t[h].kind = "JOIN" /\ t[h].right \in Nodes
  BY <1>1, <1>2, <1>4, <1>8, <1>0, JoinReturnedTo
<1>12. PICK w, r, B : w = "again" /\ r = t[h].right /\ B = Below(r)
  OBVIOUS
<1>13. IsBelow(t, r, B)
  <2>1. IsSource(tree) /\ r \in Nodes
    BY <1>1, <1>6, <1>11, <1>12
  <2>2. IsBelow(tree, r, Below(r))
    BY <2>1, BelowFrom
  <2> QED BY <1>1, <1>12, <2>2
<1>14. u = Pushed(Front(s), w, r)
  BY <1>1, <1>4, <1>8, <1>12, <1>0, CallNextIs
<1>15. /\ vb = Set(va, B, NoValue) /\ b = Set(a, B, 0) /\ iu = Set(it, B, <<>>) /\ d = e \ B
  BY <1>1, <1>2, <1>4, <1>8, <1>12, <1>0 DEF RewindAll
<1>16. SameOutside(t, B, va, vb) /\ SetTo(t, B, 0, a, b) /\ SetTo(t, B, <<>>, it, iu)
  BY <1>7, <1>15 DEF Set, SetTo, SameOutside
<1>17. PICK q : /\ Follows(t, m, off, u, d, "call", code, f, vb, b, iu, q, q)
                /\ q[Len(t)] = pos[Len(t)]
  <2>1. /\ IsStack(t, s) /\ Len(s) > 1 /\ h = s[Len(s) - 1].node
        /\ Follows(t, m, off, s, e, c, code, f, va, a, it, pos, was) /\ Laying(t, arr, m, off)
        /\ c = "return" /\ code = "ROW" /\ t[h].kind = "JOIN" /\ s[Len(s) - 1].for = "left"
        /\ r = t[h].right /\ w = "again" /\ u = Pushed(Front(s), w, r) /\ d = e \ B
    BY <1>3, <1>5, <1>10, <1>11, <1>12, <1>14, <1>15
  <2>2. IsBelow(t, r, B) /\ IsRewound(t, B, va, vb, a, b, it, iu, e, d)
    BY <1>13, <1>15, <1>16 DEF IsRewound
  <2>3. StartsOver(t, m, off, u, d, code, f, vb, b, iu, pos)
    BY <2>1, <2>2, JoinAgainMove
  <2> QED BY <2>3 DEF StartsOver
<1>18. PICK cu, cd : cu = pc' /\ cd = rc'
  OBVIOUS
<1>19. Follows(t, m, off, u, d, cu, cd, g, vb, b, iu, q, q)
  BY <1>11, <1>17, <1>18
<1>21. q[Len(t)] = k
  BY <1>9, <1>17
<1> QED BY <1>1, <1>3, <1>4, <1>11, <1>18, <1>19, <1>21, FollowsNext

\* A join, or an EACH or FLATTEN, returns what its operand has returned.
LEMMA ReturnsFollow ==
    ASSUME Sound, Loads, NEW k, Following(k), JoinReturns \/ FlattenReturns, rc # "NOMEM"
    PROVE  Following(k)'
<1>0. /\ pc = "return" /\ p # Root /\ UNCHANGED <<env, val, at, iter, failed>>
       /\ ReturnFromCaller(rc)
  BY Zenon DEF JoinReturns, FlattenReturns, ReturnFromCaller, Returned
<1>1. PICK t, m, arr, s, e, c, code, f : /\ t = tree /\ m = meaning /\ arr = outer /\ s = stack
                                         /\ e = ended /\ c = pc /\ code = rc /\ f = failed
  OBVIOUS
<1>2. PICK va, a, it, n : va = val /\ a = at /\ it = iter /\ n = p
  OBVIOUS
<1>3. PICK off, pos, was : /\ Laying(t, arr, m, off) /\ was[Len(t)] = k
                           /\ Follows(t, m, off, s, e, c, code, f, va, a, it, pos, was)
  BY <1>1, <1>2 DEF Following, Tracks
<1>4. PICK u, d, g, vb, b, iu : /\ u = stack' /\ d = ended' /\ g = failed'
                                /\ vb = val' /\ b = at' /\ iu = iter'
  OBVIOUS
<1>5. /\ IsStack(t, s) /\ s # <<>> /\ n = s[Len(s)].node /\ n \in DOMAIN t
      /\ Len(s) \in Nat /\ Len(s) > 0 /\ Len(s) \in 1..Len(s)
  BY <1>1, <1>2, <1>0, Working
<1>6. IsSource(t)
  BY <1>5 DEF IsStack
<1>7. arr \in Outers /\ DOMAIN va = DOMAIN t /\ DOMAIN a = DOMAIN t /\ DOMAIN it = DOMAIN t
  BY <1>1, <1>2 DEF Sound, Typed, TypeOK, IterTyped, Loads, Nodes
<1>8. PICK h, x : h = Caller /\ x = CallerWaits
  OBVIOUS
<1>9. pos[Len(t)] = k
  <2>1. s[Len(s)].node # Len(t)
    BY <1>1, <1>2, <1>5, <1>0 DEF Root
  <2>2. pos[Len(t)] = was[Len(t)]
    BY <1>3, <1>5, <2>1, RootStays
  <2> QED BY <1>3, <2>2
<1>10. Len(s) > 1 /\ h = s[Len(s) - 1].node /\ x = s[Len(s) - 1].for /\ h \in DOMAIN t /\ h \notin e
       /\ Waits(t, h, x, n)
  BY <1>1, <1>2, <1>8, <1>0, ReturnsTo
<1>11. /\ UNCHANGED env /\ g = f /\ vb = va /\ b = a /\ iu = it /\ pc' = "return" /\ rc' = code
       /\ c = "return" /\ u = Front(s) /\ d = IF code = "DONE" THEN e \cup {h} ELSE e
  BY <1>1, <1>2, <1>4, <1>8, <1>0 DEF ReturnFromCaller
<1>12. \/ code = "DONE" /\ x \in {"first", "left", "again", "next"}
       \/ code = "ROW" /\ x \in {"right", "again"}
  BY <1>1, <1>8, Zenon DEF JoinReturns, FlattenReturns, Returned, Others
<1>13. PICK q : Follows(t, m, off, u, d, "return", code, f, va, a, it, q, pos)
  <2>1. CASE code = "DONE" /\ x = "next"
    <3>1. t[h].kind \in Flattens
      BY <1>10, <2>1 DEF Waits
    <3>2. d = e \cup {h}
      BY <1>11, <2>1
    <3>3. Follows(t, m, off, u, d, "return", "DONE", f, va, a, it, pos, pos)
      BY <1>3, <1>5, <1>10, <1>11, <2>1, <3>1, <3>2, FlattenDoneMove
    <3> QED BY <2>1, <3>3
  <2>2. CASE code = "DONE" /\ x # "next"
    <3>1. t[h].kind = "JOIN"
      BY <1>10, <2>2 DEF Waits
    <3>2. d = e \cup {h} /\ x \in {"first", "left", "again"}
      BY <1>11, <1>12, <2>2
    <3>3. Follows(t, m, off, u, d, "return", "DONE", f, va, a, it, pos, pos)
      BY <1>3, <1>5, <1>10, <1>11, <2>2, <3>1, <3>2, JoinDoneMove
    <3> QED BY <2>2, <3>3
  <2>3. CASE code = "ROW"
    <3>1. x \in {"right", "again"}
      BY <1>12, <2>3
    <3>2. t[h].kind = "JOIN"
      BY <1>10, <3>1 DEF Waits
    <3>3. PICK q : Follows(t, m, off, u, e, "return", "ROW", f, va, a, it, q, pos)
      BY <1>3, <1>5, <1>10, <1>11, <2>3, <3>1, <3>2, JoinRowMove
    <3>4. d = e
      BY <1>11, <2>3
    <3> QED BY <2>3, <3>3, <3>4
  <2> QED BY <1>12, <2>1, <2>2, <2>3
<1>14. PICK cu, cd : cu = pc' /\ cd = rc'
  OBVIOUS
<1>15. Follows(t, m, off, u, d, cu, cd, g, vb, b, iu, q, pos)
  BY <1>11, <1>13, <1>14
<1> QED BY <1>1, <1>3, <1>4, <1>9, <1>11, <1>14, <1>15, FollowsNext

-----------------------------------------------------------------------------
(* EACH and FLATTEN *)

\* EACH and FLATTEN begin a step.
LEMMA FlattenStartFollows ==
    ASSUME Sound, Loads, NEW k, Following(k), FlattenStart
    PROVE  Following(k)'
<1>0. /\ pc = "call" /\ UNCHANGED <<env, at, iter, stack, rc, ended, failed>> /\ pc' = "iterate"
       /\ val' = [val EXCEPT ![p] = NoValue]
  BY DEF FlattenStart
<1>1. PICK t, m, arr, s, e, c, code, f : /\ t = tree /\ m = meaning /\ arr = outer /\ s = stack
                                         /\ e = ended /\ c = pc /\ code = rc /\ f = failed
  OBVIOUS
<1>2. PICK va, a, it, n : va = val /\ a = at /\ it = iter /\ n = p
  OBVIOUS
<1>3. PICK off, pos, was : /\ Laying(t, arr, m, off) /\ was[Len(t)] = k
                           /\ Follows(t, m, off, s, e, c, code, f, va, a, it, pos, was)
  BY <1>1, <1>2 DEF Following, Tracks
<1>4. PICK u, d, g, vb, b, iu : /\ u = stack' /\ d = ended' /\ g = failed'
                                /\ vb = val' /\ b = at' /\ iu = iter'
  OBVIOUS
<1>5. /\ IsStack(t, s) /\ s # <<>> /\ n = s[Len(s)].node /\ n \in DOMAIN t
      /\ Len(s) \in Nat /\ Len(s) > 0 /\ Len(s) \in 1..Len(s)
  BY <1>1, <1>2, <1>0, Working
<1>6. IsSource(t)
  BY <1>5 DEF IsStack
<1>7. arr \in Outers /\ DOMAIN va = DOMAIN t /\ DOMAIN a = DOMAIN t /\ DOMAIN it = DOMAIN t
  BY <1>1, <1>2 DEF Sound, Typed, TypeOK, IterTyped, Loads, Nodes
<1>8. n \notin e
  <2>1. NoneEnded(s, e)
    BY <1>1, <1>0, Working
  <2> QED BY <1>5, <2>1 DEF NoneEnded
<1>9. pos[Len(t)] = k
  <2>1. c # "return" \/ code # "ROW" \/ s[Len(s)].node # Len(t)
    BY <1>1, <1>2, <1>5, <1>0 DEF Root
  <2>2. pos[Len(t)] = was[Len(t)]
    BY <1>3, <1>5, <2>1, RootStays
  <2> QED BY <1>3, <2>2
<1>10. /\ UNCHANGED env /\ u = s /\ d = e /\ g = f /\ b = a /\ iu = it /\ pc' = "iterate" /\ rc' = code
       /\ vb = [va EXCEPT ![n] = NoValue] /\ c # "return"
  BY <1>1, <1>2, <1>4, <1>0
<1>11. SameBut(t, n, va, vb)
  BY <1>5, <1>7, <1>10 DEF SameBut
<1>12. Follows(t, m, off, s, e, "iterate", code, f, vb, a, it, pos, pos)
  BY <1>3, <1>5, <1>8, <1>10, <1>11, FlattenStartMove
<1>13. PICK cu, cd : cu = pc' /\ cd = rc'
  OBVIOUS
<1>14. Follows(t, m, off, u, d, cu, cd, g, vb, b, iu, pos, pos)
  BY <1>10, <1>12, <1>13
<1> QED BY <1>1, <1>3, <1>4, <1>9, <1>10, <1>13, <1>14, FollowsNext

\* What is known where the iterator of EACH or FLATTEN is in a container.
LEMMA IterAtWork ==
    ASSUME Sound, pc = "iterate", NEW t, t = tree, NEW it, it = iter, NEW n, n = p
    PROVE  /\ t[n].kind \in Flattens
           /\ \E V : it[n] \in Seq(Places(V))
<1>1. p \in Nodes /\ Typed
  BY AtWork DEF Sound, Typed
<1>2. PICK V : iter \in [Nodes -> Seq(Places(V))]
  BY <1>1 DEF Typed, IterTyped
<1>3. it[n] \in Seq(Places(V))
  BY <1>1, <1>2
<1>4. t[n].kind \in Flattens
  BY DEF Sound, Control, Kind
<1> QED BY <1>3, <1>4

\* Their iterator leaves a container, or enters one.
LEMMA IterStaysFollows ==
    ASSUME Sound, Loads, NEW k, Following(k), IterPop \/ IterEnter
    PROVE  Following(k)'
<1>0. /\ pc = "iterate" /\ UNCHANGED <<env, val, at, stack, pc, rc, ended, failed>> /\ iter[p] # <<>>
  BY DEF IterPop, IterEnter
<1>1. PICK t, m, arr, s, e, c, code, f : /\ t = tree /\ m = meaning /\ arr = outer /\ s = stack
                                         /\ e = ended /\ c = pc /\ code = rc /\ f = failed
  OBVIOUS
<1>2. PICK va, a, it, n : va = val /\ a = at /\ it = iter /\ n = p
  OBVIOUS
<1>3. PICK off, pos, was : /\ Laying(t, arr, m, off) /\ was[Len(t)] = k
                           /\ Follows(t, m, off, s, e, c, code, f, va, a, it, pos, was)
  BY <1>1, <1>2 DEF Following, Tracks
<1>4. PICK u, d, g, vb, b, iu : /\ u = stack' /\ d = ended' /\ g = failed'
                                /\ vb = val' /\ b = at' /\ iu = iter'
  OBVIOUS
<1>5. /\ IsStack(t, s) /\ s # <<>> /\ n = s[Len(s)].node /\ n \in DOMAIN t
      /\ Len(s) \in Nat /\ Len(s) > 0 /\ Len(s) \in 1..Len(s)
  BY <1>1, <1>2, <1>0, Working
<1>6. IsSource(t)
  BY <1>5 DEF IsStack
<1>7. arr \in Outers /\ DOMAIN va = DOMAIN t /\ DOMAIN a = DOMAIN t /\ DOMAIN it = DOMAIN t
  BY <1>1, <1>2 DEF Sound, Typed, TypeOK, IterTyped, Loads, Nodes
<1>8. n \notin e
  <2>1. NoneEnded(s, e)
    BY <1>1, <1>0, Working
  <2> QED BY <1>5, <2>1 DEF NoneEnded
<1>9. pos[Len(t)] = k
  <2>1. c # "return" \/ code # "ROW" \/ s[Len(s)].node # Len(t)
    BY <1>1, <1>2, <1>5, <1>0 DEF Root
  <2>2. pos[Len(t)] = was[Len(t)]
    BY <1>3, <1>5, <2>1, RootStays
  <2> QED BY <1>3, <2>2
<1>10. /\ UNCHANGED env /\ u = s /\ d = e /\ g = f /\ b = a /\ vb = va /\ pc' = "iterate" /\ rc' = code
       /\ c # "return" /\ it[n] # <<>>
  BY <1>1, <1>2, <1>4, <1>0
<1>11. t[n].kind \in Flattens /\ \E V : it[n] \in Seq(Places(V))
  BY <1>1, <1>2, <1>0, IterAtWork
<1>12. PICK V : it[n] \in Seq(Places(V))
  BY <1>11
<1>13. PICK y : y = it[n]
  OBVIOUS
<1>14. PICK z : /\ iu = [it EXCEPT ![n] = z]
                /\ \/ Last(y).at = Len(Last(y).of.elems) /\ z = Front(y)
                   \/ /\ t[n].kind = "FLATTEN" /\ Last(y).at # Len(Last(y).of.elems)
                      /\ IsContainer(Last(y).of.elems[Last(y).at + 1].val)
                      /\ z = Append(PassTo(y, Last(y).at + 1),
                                    [of |-> Last(y).of.elems[Last(y).at + 1].val, at |-> 0])
  <2>1. Top = Last(y) /\ AtTop(Top.at + 1) = PassTo(y, Last(y).at + 1)
        /\ TopEntry = Last(y).of.elems[Last(y).at + 1]
    BY <1>2, <1>13 DEF Top, AtTop, PassTo, TopEntry
  <2>2. Exhausted <=> Last(y).at = Len(Last(y).of.elems)
    BY <2>1 DEF Exhausted
  <2>3. CASE IterPop
    <3>1. Exhausted /\ iu = [it EXCEPT ![n] = Front(y)]
      BY <1>2, <1>4, <1>13, <2>3 DEF IterPop
    <3> QED BY <2>2, <3>1
  <2>4. CASE IterEnter
    <3>1. /\ ~Exhausted /\ t[n].kind = "FLATTEN" /\ IsContainer(TopEntry.val)
          /\ iu = [it EXCEPT ![n] = Append(AtTop(Top.at + 1), [of |-> TopEntry.val, at |-> 0])]
      BY <1>1, <1>2, <1>4, <2>4 DEF IterEnter, Kind
    <3> QED BY <2>1, <2>2, <3>1
  <2> QED BY <2>3, <2>4
<1>15. SameBut(t, n, it, iu) /\ iu[n] = z
  BY <1>5, <1>7, <1>14 DEF SameBut
<1>16. \/ Last(it[n]).at = Len(Last(it[n]).of.elems) /\ iu[n] = Front(it[n])
       \/ /\ t[n].kind = "FLATTEN" /\ Last(it[n]).at # Len(Last(it[n]).of.elems)
          /\ IsContainer(Last(it[n]).of.elems[Last(it[n]).at + 1].val)
          /\ iu[n] = Append(PassTo(it[n], Last(it[n]).at + 1),
                            [of |-> Last(it[n]).of.elems[Last(it[n]).at + 1].val, at |-> 0])
  BY <1>13, <1>14, <1>15
<1>17. Follows(t, m, off, s, e, "iterate", code, f, va, a, iu, pos, pos)
  BY <1>3, <1>5, <1>8, <1>10, <1>11, <1>12, <1>15, <1>16, IterStaysMove, Zenon
<1>18. PICK cu, cd : cu = pc' /\ cd = rc'
  OBVIOUS
<1>19. Follows(t, m, off, u, d, cu, cd, g, vb, b, iu, pos, pos)
  BY <1>10, <1>17, <1>18
<1> QED BY <1>1, <1>3, <1>4, <1>9, <1>10, <1>18, <1>19, FollowsNext

\* It finds an entry, and they return a row.
LEMMA IterRowFollows ==
    ASSUME Sound, Loads, NEW k, Following(k), IterRow
    PROVE  Following(k)'
<1>0. /\ pc = "iterate" /\ UNCHANGED <<env, at, stack, failed>> /\ iter[p] # <<>> /\ Return("ROW")
       /\ ~Exhausted /\ ~(Kind = "FLATTEN" /\ IsContainer(TopEntry.val))
       /\ iter' = [iter EXCEPT ![p] = AtTop(Top.at + 1)]
  BY DEF IterRow
<1>1. PICK t, m, arr, s, e, c, code, f : /\ t = tree /\ m = meaning /\ arr = outer /\ s = stack
                                         /\ e = ended /\ c = pc /\ code = rc /\ f = failed
  OBVIOUS
<1>2. PICK va, a, it, n : va = val /\ a = at /\ it = iter /\ n = p
  OBVIOUS
<1>3. PICK off, pos, was : /\ Laying(t, arr, m, off) /\ was[Len(t)] = k
                           /\ Follows(t, m, off, s, e, c, code, f, va, a, it, pos, was)
  BY <1>1, <1>2 DEF Following, Tracks
<1>4. PICK u, d, g, vb, b, iu : /\ u = stack' /\ d = ended' /\ g = failed'
                                /\ vb = val' /\ b = at' /\ iu = iter'
  OBVIOUS
<1>5. /\ IsStack(t, s) /\ s # <<>> /\ n = s[Len(s)].node /\ n \in DOMAIN t
      /\ Len(s) \in Nat /\ Len(s) > 0 /\ Len(s) \in 1..Len(s)
  BY <1>1, <1>2, <1>0, Working
<1>6. IsSource(t)
  BY <1>5 DEF IsStack
<1>7. arr \in Outers /\ DOMAIN va = DOMAIN t /\ DOMAIN a = DOMAIN t /\ DOMAIN it = DOMAIN t
  BY <1>1, <1>2 DEF Sound, Typed, TypeOK, IterTyped, Loads, Nodes
<1>8. n \notin e
  <2>1. NoneEnded(s, e)
    BY <1>1, <1>0, Working
  <2> QED BY <1>5, <2>1 DEF NoneEnded
<1>9. pos[Len(t)] = k
  <2>1. c # "return" \/ code # "ROW" \/ s[Len(s)].node # Len(t)
    BY <1>1, <1>2, <1>5, <1>0 DEF Root
  <2>2. pos[Len(t)] = was[Len(t)]
    BY <1>3, <1>5, <2>1, RootStays
  <2> QED BY <1>3, <2>2
<1>10. /\ UNCHANGED env /\ u = s /\ d = e /\ g = f /\ b = a /\ pc' = "return" /\ rc' = "ROW"
       /\ c # "return" /\ it[n] # <<>>
  BY <1>1, <1>2, <1>4, <1>0 DEF Return
<1>11. t[n].kind \in Flattens /\ \E V : it[n] \in Seq(Places(V))
  BY <1>1, <1>2, <1>0, IterAtWork
<1>12. PICK V : it[n] \in Seq(Places(V))
  BY <1>11
<1>13. PICK y : y = it[n]
  OBVIOUS
<1>14. PICK w, x : w = Last(y).of.elems[Last(y).at + 1].val /\ x = Last(y).at + 1
  OBVIOUS
<1>15. /\ iu = [it EXCEPT ![n] = PassTo(y, x)] /\ Last(y).at # Len(Last(y).of.elems)
       /\ ~(t[n].kind = "FLATTEN" /\ IsContainer(w)) /\ TopEntry.val = w
  <2>1. Top = Last(y) /\ AtTop(Top.at + 1) = PassTo(y, x)
        /\ TopEntry = Last(y).of.elems[Last(y).at + 1]
    BY <1>2, <1>13, <1>14 DEF Top, AtTop, PassTo, TopEntry
  <2>2. Exhausted <=> Last(y).at = Len(Last(y).of.elems)
    BY <2>1 DEF Exhausted
  <2> QED BY <1>1, <1>2, <1>4, <1>14, <1>0, <2>1, <2>2 DEF Kind
<1>16. SameBut(t, n, it, iu) /\ iu[n] = PassTo(y, x)
  BY <1>5, <1>7, <1>15 DEF SameBut
<1>17. DOMAIN iu[n] = 1..Len(iu[n])
  <2>1. y \in Seq(Places(V)) /\ y # <<>>
    BY <1>10, <1>12, <1>13
  <2>2. x \in Nat
    <3>1. y[Len(y)] \in Places(V) /\ Last(y) = y[Len(y)]
      BY <2>1 DEF Last
    <3>2. Last(y).at \in Nat
      BY <3>1 DEF Places
    <3> QED BY <1>14, <3>2
  <2>3. PICK z : z = PassTo(y, x)
    OBVIOUS
  <2>4. IsPassedTo(V, y, x, z)
    BY <2>1, <2>2, <2>3, PlacePassed
  <2>5. z \in Seq(Places(V))
    BY <2>4 DEF IsPassedTo
  <2> QED BY <1>16, <2>3, <2>5
<1>18. vb = [va EXCEPT ![n] = Flattened(t[n], va[t[n].left], PathTo(iu[n], Len(iu[n])), w)]
  <2>1. PICK path : path = [i \in DOMAIN iu[n] |-> iu[n][i].of.elems[iu[n][i].at].key]
    OBVIOUS
  <2>2. vb = [va EXCEPT ![n] = Flattened(t[n], va[t[n].left], path, w)]
    <3>1. val' = [val EXCEPT ![p] = Flattened(tree[p], val[tree[p].left],
                    [i \in DOMAIN iter'[p] |-> iter'[p][i].of.elems[iter'[p][i].at].key], TopEntry.val)]
      BY DEF IterRow
    <3>2. [i \in DOMAIN iter'[p] |-> iter'[p][i].of.elems[iter'[p][i].at].key] = path
      BY <1>2, <1>4, <2>1
    <3>3. val' = [val EXCEPT ![p] = Flattened(tree[p], val[tree[p].left], path, TopEntry.val)]
      BY <3>1, <3>2
    <3> QED BY <1>1, <1>2, <1>4, <1>15, <3>3
  <2>3. path = PathTo(iu[n], Len(iu[n]))
    BY <1>17, <2>1 DEF PathTo
  <2> QED BY <2>2, <2>3
<1>19. /\ SameBut(t, n, va, vb)
       /\ vb[n] = Flattened(t[n], va[t[n].left], PathTo(iu[n], Len(iu[n])), w)
  BY <1>5, <1>7, <1>18 DEF SameBut
<1>21. t[n].left \notin e
  <2>1. Fresh(t, s, e, c)
    BY <1>1, <1>0, Working
  <2> QED BY <1>5, <1>8, <1>10, <2>1 DEF Fresh, Returns
<1>22. /\ it[n] \in Seq(Places(V)) /\ it[n] # <<>> /\ Last(it[n]).at # Len(Last(it[n]).of.elems)
       /\ w = Last(it[n]).of.elems[Last(it[n]).at + 1].val
       /\ ~(t[n].kind = "FLATTEN" /\ IsContainer(w))
       /\ iu[n] = PassTo(it[n], Last(it[n]).at + 1)
  BY <1>10, <1>12, <1>13, <1>14, <1>15, <1>16
<1>23. PICK q : Follows(t, m, off, s, e, "return", "ROW", f, vb, a, iu, q, pos)
  BY <1>3, <1>5, <1>8, <1>10, <1>11, <1>16, <1>19, <1>21, <1>22, IterRowMove, Zenon
<1>24. PICK cu, cd : cu = pc' /\ cd = rc'
  OBVIOUS
<1>25. Follows(t, m, off, u, d, cu, cd, g, vb, b, iu, q, pos)
  BY <1>10, <1>23, <1>24
<1> QED BY <1>1, <1>3, <1>4, <1>9, <1>10, <1>24, <1>25, FollowsNext

\* It is at its end, and the next row is asked for.
LEMMA FlattenCallsFollows ==
    ASSUME Sound, Loads, NEW k, Following(k), FlattenCalls
    PROVE  Following(k)'
<1>0. /\ pc = "iterate" /\ UNCHANGED <<env, val, at, iter, rc, ended, failed>> /\ iter[p] = <<>>
       /\ Call(tree[p].left, "next")
  BY DEF FlattenCalls
<1>1. PICK t, m, arr, s, e, c, code, f : /\ t = tree /\ m = meaning /\ arr = outer /\ s = stack
                                         /\ e = ended /\ c = pc /\ code = rc /\ f = failed
  OBVIOUS
<1>2. PICK va, a, it, n : va = val /\ a = at /\ it = iter /\ n = p
  OBVIOUS
<1>3. PICK off, pos, was : /\ Laying(t, arr, m, off) /\ was[Len(t)] = k
                           /\ Follows(t, m, off, s, e, c, code, f, va, a, it, pos, was)
  BY <1>1, <1>2 DEF Following, Tracks
<1>4. PICK u, d, g, vb, b, iu : /\ u = stack' /\ d = ended' /\ g = failed'
                                /\ vb = val' /\ b = at' /\ iu = iter'
  OBVIOUS
<1>5. /\ IsStack(t, s) /\ s # <<>> /\ n = s[Len(s)].node /\ n \in DOMAIN t
      /\ Len(s) \in Nat /\ Len(s) > 0 /\ Len(s) \in 1..Len(s)
  BY <1>1, <1>2, <1>0, Working
<1>6. IsSource(t)
  BY <1>5 DEF IsStack
<1>7. arr \in Outers /\ DOMAIN va = DOMAIN t /\ DOMAIN a = DOMAIN t /\ DOMAIN it = DOMAIN t
  BY <1>1, <1>2 DEF Sound, Typed, TypeOK, IterTyped, Loads, Nodes
<1>8. n \notin e
  <2>1. NoneEnded(s, e)
    BY <1>1, <1>0, Working
  <2> QED BY <1>5, <2>1 DEF NoneEnded
<1>9. pos[Len(t)] = k
  <2>1. c # "return" \/ code # "ROW" \/ s[Len(s)].node # Len(t)
    BY <1>1, <1>2, <1>5, <1>0 DEF Root
  <2>2. pos[Len(t)] = was[Len(t)]
    BY <1>3, <1>5, <2>1, RootStays
  <2> QED BY <1>3, <2>2
<1>10. /\ UNCHANGED env /\ d = e /\ g = f /\ b = a /\ vb = va /\ iu = it /\ pc' = "call" /\ rc' = code
       /\ c # "return" /\ it[n] = <<>>
  BY <1>1, <1>2, <1>4, <1>0 DEF Call
<1>11. t[n].kind \in Flattens
  BY <1>1, <1>2, <1>0, IterAtWork
<1>12. PICK w, l : w = "next" /\ l = t[n].left
  OBVIOUS
<1>13. u = Pushed(s, w, l)
  BY <1>1, <1>2, <1>4, <1>12, <1>0 DEF Call, Frame, Pushed
<1>14. Follows(t, m, off, u, e, "call", code, f, va, a, it, pos, pos)
  BY <1>3, <1>5, <1>8, <1>10, <1>11, <1>12, <1>13, FlattenCallMove
<1>15. PICK cu, cd : cu = pc' /\ cd = rc'
  OBVIOUS
<1>16. Follows(t, m, off, u, d, cu, cd, g, vb, b, iu, pos, pos)
  BY <1>10, <1>14, <1>15
<1> QED BY <1>1, <1>3, <1>4, <1>9, <1>10, <1>15, <1>16, FollowsNext

\* There is a next row, and an iterator over what it has at the path.
LEMMA FlattenNextFollows ==
    ASSUME Sound, Loads, NEW k, Following(k), FlattenNext
    PROVE  Following(k)'
<1>0. /\ pc = "return" /\ p # Root /\ UNCHANGED <<env, val, at, rc, ended, failed>> /\ pc' = "iterate"
       /\ CallerWaits = "next" /\ rc = "ROW" /\ stack' = Front(stack)
  BY DEF FlattenNext, Returned
<1>1. PICK t, m, arr, s, e, c, code, f : /\ t = tree /\ m = meaning /\ arr = outer /\ s = stack
                                         /\ e = ended /\ c = pc /\ code = rc /\ f = failed
  OBVIOUS
<1>2. PICK va, a, it, n : va = val /\ a = at /\ it = iter /\ n = p
  OBVIOUS
<1>3. PICK off, pos, was : /\ Laying(t, arr, m, off) /\ was[Len(t)] = k
                           /\ Follows(t, m, off, s, e, c, code, f, va, a, it, pos, was)
  BY <1>1, <1>2 DEF Following, Tracks
<1>4. PICK u, d, g, vb, b, iu : /\ u = stack' /\ d = ended' /\ g = failed'
                                /\ vb = val' /\ b = at' /\ iu = iter'
  OBVIOUS
<1>5. /\ IsStack(t, s) /\ s # <<>> /\ n = s[Len(s)].node /\ n \in DOMAIN t
      /\ Len(s) \in Nat /\ Len(s) > 0 /\ Len(s) \in 1..Len(s)
  BY <1>1, <1>2, <1>0, Working
<1>6. IsSource(t)
  BY <1>5 DEF IsStack
<1>7. arr \in Outers /\ DOMAIN va = DOMAIN t /\ DOMAIN a = DOMAIN t /\ DOMAIN it = DOMAIN t
  BY <1>1, <1>2 DEF Sound, Typed, TypeOK, IterTyped, Loads, Nodes
<1>8. PICK h, x : h = Caller /\ x = CallerWaits
  OBVIOUS
<1>9. pos[Len(t)] = k
  <2>1. s[Len(s)].node # Len(t)
    BY <1>1, <1>2, <1>5, <1>0 DEF Root
  <2>2. pos[Len(t)] = was[Len(t)]
    BY <1>3, <1>5, <2>1, RootStays
  <2> QED BY <1>3, <2>2
<1>10. Len(s) > 1 /\ h = s[Len(s) - 1].node /\ x = s[Len(s) - 1].for /\ h \in DOMAIN t /\ h \notin e
       /\ Waits(t, h, x, n)
  BY <1>1, <1>2, <1>8, <1>0, ReturnsTo
<1>11. /\ UNCHANGED env /\ d = e /\ g = f /\ vb = va /\ b = a /\ pc' = "iterate" /\ rc' = code
       /\ c = "return" /\ code = "ROW" /\ u = Front(s) /\ x = "next"
  BY <1>1, <1>2, <1>4, <1>8, <1>0
<1>12. t[h].kind \in Flattens
  BY <1>10, <1>11 DEF Waits
<1>13. PICK y : y = At(va[n], t[h].path)
  OBVIOUS
<1>14. PICK z : z = IF IsContainer(y) THEN <<[of |-> y, at |-> 0]>> ELSE <<>>
  OBVIOUS
<1>15. iu = [it EXCEPT ![h] = z]
  BY <1>1, <1>2, <1>4, <1>8, <1>13, <1>14 DEF FlattenNext
<1>16. SameBut(t, h, it, iu) /\ iu[h] = IF IsContainer(y) THEN <<[of |-> y, at |-> 0]>> ELSE <<>>
  BY <1>7, <1>10, <1>14, <1>15 DEF SameBut
<1>17. n \notin e
  <2>1. NoneEnded(s, e)
    BY <1>1, <1>0, Working
  <2> QED BY <1>5, <2>1 DEF NoneEnded
<1>18. Follows(t, m, off, u, e, "iterate", code, f, va, a, iu, pos, pos)
  BY <1>3, <1>5, <1>10, <1>11, <1>12, <1>13, <1>16, <1>17, FlattenNextMove
<1>19. PICK cu, cd : cu = pc' /\ cd = rc'
  OBVIOUS
<1>21. Follows(t, m, off, u, d, cu, cd, g, vb, b, iu, pos, pos)
  BY <1>11, <1>18, <1>19
<1> QED BY <1>1, <1>3, <1>4, <1>9, <1>11, <1>19, <1>21, FollowsNext

-----------------------------------------------------------------------------
(* The leaves, one by one *)

\* What is known of a leaf that is called.
LEMMA LeafAtWork ==
    ASSUME Sound, pc = "call"
    PROVE  /\ IsSource(tree) /\ p \in Nodes /\ at[p] \in Nat /\ outer \in Outers
           /\ Kind = tree[p].kind
           /\ Kind \in {"TABLE", "SUBQUERY"} => IsSequence(tree[p].rows) /\ Len(tree[p].rows) \in Nat
<1>1. IsSource(tree) /\ p \in Nodes /\ at[p] \in Nat /\ outer \in Outers
  BY AtWork DEF Sound, Typed, TypeOK
<1>2. Kind = tree[p].kind
  BY DEF Kind
<1>3. Kind \in {"TABLE", "SUBQUERY"} => IsSequence(tree[p].rows)
  BY <1>1, <1>2 DEF IsSource, Nodes
<1>4. \A s : IsSequence(s) => Len(s) \in Nat
  BY DEF IsSequence
<1> QED BY <1>1, <1>2, <1>3, <1>4

\* The rows of a path that leads to an array.
LEMMA ArrayRows ==
    ASSUME NEW arr \in Outers, arr.type = "array"
    PROVE  /\ Len(arr.elems) \in Nat /\ Len(Values(arr)) = Len(arr.elems)
           /\ \A i \in 1..Len(arr.elems) : Values(arr)[i] = arr.elems[i].val
<1>1. IsSequence(arr.elems)
  BY OutersAssumption
<1>2. Len(arr.elems) \in Nat /\ DOMAIN arr.elems = 1..Len(arr.elems)
  BY <1>1 DEF IsSequence
<1>3. Values(arr) = [i \in 1..Len(arr.elems) |-> arr.elems[i].val]
  BY <1>2 DEF Values
<1> QED BY <1>2, <1>3

\* A leaf has a row.
LEMMA RowOfLeafFollows ==
    ASSUME Sound, Loads, NEW k, Following(k), TableRow \/ SubqueryRow \/ PathRow \/ NullRow
    PROVE  Following(k)'
<1>1. pc = "call" /\ Kind \in Leaves
  BY DEF TableRow, SubqueryRow, PathRow, NullRow, AtLeaf, Leaves
<1>2. /\ IsSource(tree) /\ p \in Nodes /\ at[p] \in Nat /\ outer \in Outers
      /\ Kind = tree[p].kind
      /\ Kind \in {"TABLE", "SUBQUERY"} => IsSequence(tree[p].rows) /\ Len(tree[p].rows) \in Nat
  BY <1>1, LeafAtWork
<1>3. PICK x : x = at[p] + 1
  OBVIOUS
<1>4. PICK v : v = Rows(tree[p], outer)[x]
  OBVIOUS
<1>5. x <= Len(Rows(tree[p], outer)) /\ LeafRow(v)
  <2>1. CASE TableRow \/ SubqueryRow
    <3>1. Kind \in {"TABLE", "SUBQUERY"} /\ at[p] < Len(tree[p].rows) /\ LeafRow(tree[p].rows[x])
      BY <1>3, <2>1 DEF TableRow, SubqueryRow, AtLeaf
    <3>2. Rows(tree[p], outer) = tree[p].rows
      BY <1>2, <3>1 DEF Rows
    <3> QED BY <1>2, <1>3, <1>4, <3>1, <3>2
  <2>2. CASE PathRow
    <3>1. array[p] \in {NoValue, outer}
      BY <1>2 DEF Loads
    <3>2. Loaded = outer
      BY <3>1 DEF Loaded
    <3>3. Kind = "PATH" /\ outer.type = "array" /\ at[p] < Len(outer.elems) /\ LeafRow(outer.elems[x].val)
      BY <1>3, <2>2, <3>2 DEF PathRow, AtLeaf
    <3>4. Rows(tree[p], outer) = Values(outer)
      BY <1>2, <3>3 DEF Rows
    <3>5. /\ Len(outer.elems) \in Nat /\ Len(Values(outer)) = Len(outer.elems)
          /\ \A i \in 1..Len(outer.elems) : Values(outer)[i] = outer.elems[i].val
      BY <1>2, <3>3, ArrayRows
    <3>6. x \in 1..Len(outer.elems)
      BY <1>2, <1>3, <3>3, <3>5
    <3> QED BY <1>4, <3>3, <3>4, <3>5, <3>6
  <2>3. CASE NullRow
    <3>1. Kind = "NULL" /\ at[p] = 0 /\ LeafRow(NoValue)
      BY <2>3 DEF NullRow, AtLeaf
    <3>2. Rows(tree[p], outer) = <<NoValue>>
      BY <1>2, <3>1 DEF Rows
    <3>3. x = 1 /\ v = NoValue
      BY <1>3, <1>4, <3>1, <3>2
    <3>4. Len(<<NoValue>>) = 1
      OBVIOUS
    <3> QED BY <3>1, <3>2, <3>3, <3>4
  <2> QED BY <2>1, <2>2, <2>3
<1> QED BY <1>1, <1>3, <1>4, <1>5, LeafRowFollows

\* A leaf has none, or the cursor of a collection fails.
LEMMA EndOfLeafFollows ==
    ASSUME Sound, Loads, NEW k, Following(k), Whole',
           TableDone \/ SubqueryDone \/ PathDone \/ NullDone
    PROVE  Following(k)'
<1>1. pc = "call" /\ Kind \in Leaves /\ UNCHANGED <<env, iter, stack>>
  BY DEF TableDone, SubqueryDone, PathDone, NullDone, AtLeaf, Leaves
<1>2. /\ IsSource(tree) /\ p \in Nodes /\ at[p] \in Nat /\ outer \in Outers
      /\ Kind = tree[p].kind
      /\ Kind \in {"TABLE", "SUBQUERY"} => IsSequence(tree[p].rows) /\ Len(tree[p].rows) \in Nat
  BY <1>1, LeafAtWork
<1>3. CASE TableDone
  <2>1. Kind = "TABLE" /\ Return("DONE")
    BY <1>3 DEF TableDone, AtLeaf
  <2>2. val' = [val EXCEPT ![p] = NoValue] /\ at' = [at EXCEPT ![p] = 0]
    BY <1>3 DEF TableDone
  <2>3. (failed => failed') /\ (~failed' => at[p] = Len(tree[p].rows))
    BY <1>3 DEF TableDone
  <2>4. Rows(tree[p], outer) = tree[p].rows
    BY <1>2, <2>1 DEF Rows
  <2>5. ~failed' => at[p] >= Len(Rows(tree[p], outer))
    BY <1>2, <2>3, <2>4
  <2> QED BY <1>1, <2>1, <2>2, <2>3, <2>5, LeafDoneFollows
<1>4. CASE SubqueryDone
  <2>1. Kind = "SUBQUERY" /\ at[p] = Len(tree[p].rows) /\ failed' = failed
    BY <1>4 DEF SubqueryDone, AtLeaf
  <2>2. ~tree[p].fromList
    BY <1>4 DEF SubqueryDone, Whole
  <2>3. val' = [val EXCEPT ![p] = Null] /\ at' = [at EXCEPT ![p] = 0] /\ Return("DONE")
    BY <1>4, <2>2 DEF SubqueryDone
  <2>4. Rows(tree[p], outer) = tree[p].rows
    BY <1>2, <2>1 DEF Rows
  <2>5. at[p] >= Len(Rows(tree[p], outer))
    BY <1>2, <2>1, <2>4
  <2> QED BY <1>1, <2>1, <2>3, <2>5, LeafDoneFollows
<1>5. CASE PathDone
  <2>1. array[p] \in {NoValue, outer}
    BY <1>2 DEF Loads
  <2>2. Loaded = outer
    BY <2>1 DEF Loaded
  <2>3. /\ Kind = "PATH" /\ failed' = failed /\ Return("DONE") /\ at' = at
        /\ val' = [val EXCEPT ![p] = NoValue]
        /\ ~(outer.type = "array" /\ at[p] < Len(outer.elems))
    BY <1>5, <2>2 DEF PathDone, AtLeaf
  <2>4. at[p] >= Len(Rows(tree[p], outer))
    <3>1. CASE outer.type = "array"
      <4>1. Rows(tree[p], outer) = Values(outer)
        BY <1>2, <2>3, <3>1 DEF Rows
      <4>2. Len(outer.elems) \in Nat /\ Len(Values(outer)) = Len(outer.elems)
        BY <1>2, <3>1, ArrayRows
      <4> QED BY <1>2, <2>3, <3>1, <4>1, <4>2
    <3>2. CASE outer.type # "array"
      <4>1. Rows(tree[p], outer) = <<>>
        BY <1>2, <2>3, <3>2 DEF Rows
      <4> QED BY <1>2, <4>1
    <3> QED BY <3>1, <3>2
  <2> QED BY <1>1, <2>3, <2>4, LeafDoneFollows
<1>6. CASE NullDone
  <2>1. Kind = "NULL" /\ failed' = failed /\ Return("DONE") /\ val' = val /\ at' = at /\ at[p] # 0
    BY <1>6 DEF NullDone, AtLeaf
  <2>2. Rows(tree[p], outer) = <<NoValue>>
    BY <1>2, <2>1 DEF Rows
  <2>3. Len(<<NoValue>>) = 1
    OBVIOUS
  <2>4. at[p] >= Len(Rows(tree[p], outer))
    BY <1>2, <2>1, <2>2, <2>3
  <2> QED BY <1>1, <2>1, <2>4, LeafDoneFollows
<1> QED BY <1>3, <1>4, <1>5, <1>6

\* Any step within a call of the query, unless memory runs out.
LEMMA WithinFollows ==
    ASSUME Sound, Loads, NEW k, Following(k), Internal, ~StepReturns, Whole'
    PROVE  Following(k)'
<1>1. CASE TableRow \/ SubqueryRow \/ PathRow \/ NullRow
  BY <1>1, RowOfLeafFollows
<1>2. CASE TableDone \/ SubqueryDone \/ PathDone \/ NullDone
  BY <1>2, EndOfLeafFollows
<1>3. CASE JoinStart \/ JoinOn
  BY <1>3, JoinCallFollows
<1>4. CASE JoinFirstRow \/ JoinRightDone
  BY <1>4, JoinNextFollows
<1>5. CASE JoinLeftRow
  BY <1>5, JoinLeftRowFollows
<1>6. CASE JoinReturns \/ FlattenReturns
  <2>1. pc' = "return" /\ rc' = rc
    BY <1>6, Zenon DEF JoinReturns, FlattenReturns, ReturnFromCaller
  <2>2. rc # "NOMEM"
    BY <2>1 DEF Whole
  <2> QED BY <1>6, <2>2, ReturnsFollow
<1>7. CASE FlattenStart
  BY <1>7, FlattenStartFollows
<1>8. CASE IterPop \/ IterEnter
  BY <1>8, IterStaysFollows
<1>9. CASE IterRow
  BY <1>9, IterRowFollows
<1>10. CASE FlattenCalls
  BY <1>10, FlattenCallsFollows
<1>11. CASE FlattenNext
  BY <1>11, FlattenNextFollows
<1>12. CASE SubqueryNoMem
  <2>1. pc' = "return" /\ rc' = "NOMEM"
    BY <1>12 DEF SubqueryNoMem, Return
  <2> QED BY <2>1 DEF Whole
<1> QED BY <1>1, <1>2, <1>3, <1>4, <1>5, <1>6, <1>7, <1>8, <1>9, <1>10, <1>11, <1>12 DEF Internal

-----------------------------------------------------------------------------
(* What the query has got *)

\* The tree is a FROM clause, and the rows are those that it means.
Intended == meaning = Meaning(tree, outer) /\ \E c \in Cases : tree = c.tree

\* The rows that the query has got are among the first k of the root's.
Got(k) ==
    /\ Chosen(meaning[Root], out, k, failed)
    /\ ret = "DONE" /\ ~failed => k = Len(meaning[Root])

\* Within a call the query waits for a row.
Awaits == pc \in {"call", "iterate", "return"} => CanStep

Enumerating ==
    /\ Intended /\ Loads /\ Awaits
    /\ \E k : Got(k) /\ (Whole => Following(k))

\* What Set gives.
LEMMA SetsDomain ==
    ASSUME NEW N, NEW f, DOMAIN f = N, NEW S, NEW v, NEW g, g = Set(f, S, v)
    PROVE  DOMAIN g = N /\ \A n \in N : g[n] = IF n \in S THEN v ELSE f[n]
BY DEF Set

\* A step within a call keeps what an array was loaded from.
LEMMA LoadsWithin ==
    ASSUME Sound, Loads, Internal
    PROVE  Loads' /\ UNCHANGED env
<1>1. UNCHANGED env
  BY Zenon DEF Internal, StepReturns, LeafRow, TableRow,
     TableDone, SubqueryRow, SubqueryDone, SubqueryNoMem, PathRow, PathDone, NullRow,
     NullDone, JoinStart, JoinOn, JoinFirstRow, JoinRightDone, JoinLeftRow,
     JoinReturns, FlattenStart, IterPop, IterEnter, IterRow, FlattenCalls,
     FlattenNext, FlattenReturns
<1>2. PICK N, a, b, o, v, w : /\ N = Nodes /\ a = array /\ b = array' /\ o = outer /\ v = val /\ w = val'
  OBVIOUS
<1>3. DOMAIN v = N /\ a \in [N -> {NoValue, o}]
  BY <1>2 DEF Loads
<1>4. DOMAIN w = N
  <2>1. w = v \/ (\E n, x : w = [v EXCEPT ![n] = x]) \/ (\E S, x : w = Set(v, S, x))
    BY <1>2, Zenon DEF Internal, StepReturns, LeafRow, TableRow,
       TableDone, SubqueryRow, SubqueryDone, SubqueryNoMem, PathRow, PathDone, NullRow,
       NullDone, JoinStart, JoinOn, JoinFirstRow, JoinRightDone, JoinLeftRow, RewindAll,
       JoinReturns, FlattenStart, IterPop, IterEnter, IterRow, FlattenCalls,
       FlattenNext, FlattenReturns
  <2> QED BY <1>3, <2>1, SetsDomain
<1>5. b \in [N -> {NoValue, o}]
  <2>1. b = a \/ (\E n \in N : b = [a EXCEPT ![n] = Loaded] /\ n = p) \/ (\E S : b = Set(a, S, NoValue))
    <3>1. CASE PathRow \/ PathDone
      <4>1. p \in Nodes
        BY <3>1, LeafAtWork DEF PathRow, PathDone, AtLeaf
      <4>2. array' = [array EXCEPT ![p] = Loaded]
        BY <3>1 DEF PathRow, PathDone
      <4> QED BY <1>2, <4>1, <4>2
    <3>2. CASE JoinLeftRow
      BY <1>2, <3>2 DEF JoinLeftRow, RewindAll
    <3>3. CASE ~PathRow /\ ~PathDone /\ ~JoinLeftRow
      BY <1>2, <3>3, Zenon DEF Internal, StepReturns, LeafRow, TableRow,
         TableDone, SubqueryRow, SubqueryDone, SubqueryNoMem, NullRow,
         NullDone, JoinStart, JoinOn, JoinFirstRow, JoinRightDone,
         JoinReturns, FlattenStart, IterPop, IterEnter, IterRow, FlattenCalls,
         FlattenNext, FlattenReturns
    <3> QED BY <3>1, <3>2, <3>3
  <2>2. CASE \E n \in N : b = [a EXCEPT ![n] = Loaded] /\ n = p
    <3>1. p \in N
      BY <2>2
    <3>2. a[p] \in {NoValue, o}
      BY <1>3, <3>1
    <3>3. Loaded \in {NoValue, o}
      BY <1>2, <3>2 DEF Loaded
    <3> QED BY <1>3, <2>2, <3>3
  <2>3. CASE \E S : b = Set(a, S, NoValue)
    BY <1>3, <2>3 DEF Set
  <2> QED BY <1>3, <2>1, <2>2, <2>3
<1>6. Nodes' = N /\ outer' = o
  BY <1>1, <1>2 DEF Nodes, env
<1> QED BY <1>1, <1>2, <1>4, <1>5, <1>6 DEF Loads

\* What a step within a call of the query leaves as it is.
LEMMA ClientWithin ==
    ASSUME Sound, Internal, ~StepReturns
    PROVE  /\ pc \in {"call", "iterate", "return"} /\ pc' \in {"call", "iterate", "return", "stopped"}
           /\ out' = out /\ (failed => failed')
           /\ ret' = ret \/ (pc' = "stopped" /\ ret' = "FAULT")
<1>1. pc \in {"call", "iterate", "return"}
  BY Zenon DEF Internal, TableRow,
     TableDone, SubqueryRow, SubqueryDone, SubqueryNoMem, PathRow, PathDone, NullRow,
     NullDone, AtLeaf, JoinStart, JoinOn, JoinFirstRow, JoinRightDone, JoinLeftRow, Returned,
     JoinReturns, FlattenStart, IterPop, IterEnter, IterRow, FlattenCalls,
     FlattenNext, FlattenReturns
<1>2. pc' \in {"call", "iterate", "return", "stopped"}
  BY Zenon DEF Internal, LeafRow, TableRow, Return, ReturnFromCaller, Call, CallNext,
     TableDone, SubqueryRow, SubqueryDone, SubqueryNoMem, PathRow, PathDone, NullRow,
     NullDone, JoinStart, JoinOn, JoinFirstRow, JoinRightDone, JoinLeftRow,
     JoinReturns, FlattenStart, IterPop, IterEnter, IterRow, FlattenCalls,
     FlattenNext, FlattenReturns
<1>3. out' = out /\ (failed => failed')
  <2>1. out' = out
    BY Zenon DEF Internal, client, LeafRow, TableRow,
       TableDone, SubqueryRow, SubqueryDone, SubqueryNoMem, PathRow, PathDone, NullRow,
       NullDone, JoinStart, JoinOn, JoinFirstRow, JoinRightDone, JoinLeftRow,
       JoinReturns, FlattenStart, IterPop, IterEnter, IterRow, FlattenCalls,
       FlattenNext, FlattenReturns
  <2>2. CASE TableDone
    BY <2>1, <2>2 DEF TableDone
  <2>3. CASE ~TableDone
    <3>1. failed' = failed
      BY <2>3, Zenon DEF Internal, LeafRow, TableRow,
         SubqueryRow, SubqueryDone, SubqueryNoMem, PathRow, PathDone, NullRow,
         NullDone, JoinStart, JoinOn, JoinFirstRow, JoinRightDone, JoinLeftRow,
         JoinReturns, FlattenStart, IterPop, IterEnter, IterRow, FlattenCalls,
         FlattenNext, FlattenReturns
    <3> QED BY <2>1, <3>1
  <2> QED BY <2>1, <2>2, <2>3
<1>4. ret' = ret \/ (pc' = "stopped" /\ ret' = "FAULT")
  <2>1. CASE SubqueryDone
    BY <2>1 DEF SubqueryDone
  <2>2. CASE ~SubqueryDone
    <3>1. UNCHANGED client
      BY <2>2, Zenon DEF Internal, LeafRow, TableRow,
         TableDone, SubqueryRow, SubqueryNoMem, PathRow, PathDone, NullRow,
         NullDone, JoinStart, JoinOn, JoinFirstRow, JoinRightDone, JoinLeftRow,
         JoinReturns, FlattenStart, IterPop, IterEnter, IterRow, FlattenCalls,
         FlattenNext, FlattenReturns
    <3> QED BY <3>1 DEF client
  <2> QED BY <2>1, <2>2
<1> QED BY <1>1, <1>2, <1>3, <1>4

\* If memory has not run out after such a step, it had not before.
LEMMA WholeWithin ==
    ASSUME Sound, Internal, ~StepReturns, Whole'
    PROVE  Whole
<1>1. pc \in {"call", "iterate", "return"}
  BY ClientWithin
<1>2. CASE pc = "return" /\ rc = "NOMEM"
  <2>1. JoinReturns \/ FlattenReturns
    BY <1>2 DEF Internal, TableRow,
       TableDone, SubqueryRow, SubqueryDone, SubqueryNoMem, PathRow, PathDone, NullRow,
       NullDone, AtLeaf, JoinStart, JoinOn, JoinFirstRow, JoinRightDone, JoinLeftRow, Returned,
       FlattenStart, IterPop, IterEnter, IterRow, FlattenCalls, FlattenNext
  <2>2. pc' = "return" /\ rc' = rc
    BY <2>1, Zenon DEF JoinReturns, FlattenReturns, ReturnFromCaller
  <2> QED BY <1>2, <2>2 DEF Whole
<1> QED BY <1>1, <1>2 DEF Whole

\* So a step within a call keeps what the query has got right.
LEMMA EnumeratesWithin ==
    ASSUME Sound, Enumerating, Internal, ~StepReturns
    PROVE  Enumerating'
<1>1. PICK k : Got(k) /\ (Whole => Following(k))
  BY DEF Enumerating
<1>2. Loads' /\ UNCHANGED env
  BY LoadsWithin DEF Enumerating
<1>3. /\ pc \in {"call", "iterate", "return"} /\ pc' \in {"call", "iterate", "return", "stopped"}
      /\ out' = out /\ (failed => failed')
      /\ ret' = ret \/ (pc' = "stopped" /\ ret' = "FAULT")
  BY ClientWithin
<1>4. Whole' => Following(k)'
  <2> SUFFICES ASSUME Whole' PROVE Following(k)'
    OBVIOUS
  <2>1. Whole
    BY WholeWithin
  <2> QED BY <1>1, <2>1, WithinFollows DEF Enumerating
<1>5. Intended'
  BY <1>2 DEF Enumerating, Intended, env
<1>6. CanStep
  BY <1>3 DEF Enumerating, Awaits
<1>7. Awaits'
  BY <1>3, <1>6 DEF Awaits, CanStep
<1>8. Got(k)'
  <2>1. PICK rows, u, f, g : rows = meaning[Root] /\ u = out /\ f = failed /\ g = failed'
    OBVIOUS
  <2>2. Chosen(rows, u, k, f) /\ (f => g)
    BY <1>1, <1>3, <2>1 DEF Got
  <2>3. Chosen(rows, u, k, g)
    BY <2>2, ChosenStill
  <2>4. (meaning[Root])' = rows /\ out' = u
    BY <1>2, <1>3, <2>1 DEF env, Root
  <2>5. ret' # "DONE"
    BY <1>3, <1>6 DEF CanStep
  <2> QED BY <2>1, <2>3, <2>4, <2>5 DEF Got
<1> QED BY <1>2, <1>4, <1>5, <1>7, <1>8 DEF Enumerating

-----------------------------------------------------------------------------
(* The steps of the query *)

\* No row of a leaf has been read, and there is no iterator.
Unread(t, a, it) == \A n \in DOMAIN t : a[n] = 0 /\ it[n] = <<>>

\* Before the first row of a FROM clause.
LEMMA StartTracks ==
    ASSUME NEW case \in Cases, NEW t, t = case.tree, NEW arr \in Outers, NEW m, m = Meaning(t, arr),
           NEW a, NEW it, Unread(t, a, it),
           NEW s, s = <<>>, NEW c, c = "idle", NEW e, NEW code, NEW f, NEW va, NEW k, k = 0
    PROVE  Tracks(t, arr, m, s, e, c, code, f, va, a, it, k) /\ Chosen(m[Len(t)], s, k, f)
<1>1. IsSource(t)
  BY CasesAssumption
<1>2. PICK off : Laying(t, arr, m, off)
  BY MeaningLays
<1>3. PICK pos : pos = [n \in DOMAIN t |-> 0]
  OBVIOUS
<1>4. Follows(t, m, off, s, e, c, code, f, va, a, it, pos, pos)
  <2>1. \A n \in DOMAIN t : a[n] = 0 /\ it[n] = <<>>
    BY DEF Unread
  <2> QED BY <1>1, <1>2, <1>3, <2>1, StartFollows
<1>5. Len(t) \in DOMAIN t
  BY <1>1, SourceNodes
<1>6. pos[Len(t)] = k
  BY <1>3, <1>5
<1>7. Tracks(t, arr, m, s, e, c, code, f, va, a, it, k)
  BY <1>2, <1>4, <1>6 DEF Tracks
<1>8. PICK rows : rows = m[Len(t)]
  OBVIOUS
<1>9. Len(rows) \in Nat
  BY <1>1, <1>2, <1>5, <1>8, LengthsAre
<1>10. Chosen(rows, s, k, f)
  BY <1>9, NoneChosen
<1> QED BY <1>7, <1>8, <1>10

\* At first the query has nothing.
LEMMA EnumeratesFirst ==
    ASSUME Init
    PROVE  Enumerating
<1>1. PICK case \in Cases, arr \in Outers :
            tree = case.tree /\ outer = arr /\ meaning = Meaning(case.tree, arr)
  BY DEF Init
<1>2. PICK t, m, a, it, s, c, e, code, f, va :
            /\ t = tree /\ m = meaning /\ a = at /\ it = iter /\ s = stack /\ c = pc
            /\ e = ended /\ code = rc /\ f = failed /\ va = val
  OBVIOUS
<1>3. /\ at = [n \in Nodes |-> 0] /\ iter = [n \in Nodes |-> <<>>] /\ val = [n \in Nodes |-> NoValue]
      /\ array = [n \in Nodes |-> NoValue] /\ stack = <<>> /\ pc = "idle" /\ out = <<>> /\ ret = "NONE"
  BY DEF Init
<1>4. PICK k : k = 0
  OBVIOUS
<1>5. Tracks(t, arr, m, s, e, c, code, f, va, a, it, k) /\ Chosen(m[Len(t)], s, k, f)
  <2>1. t = case.tree /\ m = Meaning(t, arr) /\ s = <<>> /\ c = "idle"
    BY <1>1, <1>2, <1>3
  <2>2. Unread(t, a, it)
    BY <1>2, <1>3 DEF Nodes, Unread
  <2> QED BY <1>4, <2>1, <2>2, StartTracks
<1>6. Following(k)
  BY <1>1, <1>2, <1>5 DEF Following
<1>7. Got(k)
  <2>1. out = s /\ meaning[Root] = m[Len(t)] /\ ret # "DONE"
    BY <1>2, <1>3 DEF Root
  <2> QED BY <1>2, <1>5, <2>1 DEF Got
<1>8. Loads
  BY <1>3 DEF Loads
<1>9. Intended /\ Awaits
  BY <1>1, <1>3 DEF Intended, Awaits
<1> QED BY <1>6, <1>7, <1>8, <1>9 DEF Enumerating

\* A rewind begins anew, with the rows that the outer query makes of it.
LEMMA EnumeratesRewind ==
    ASSUME Sound, Enumerating, Rewind
    PROVE  Enumerating'
<1>1. PICK case \in Cases : tree = case.tree
  BY DEF Enumerating, Intended
<1>2. PICK arr \in Outers : outer' = arr /\ meaning' = Meaning(tree, arr)
  BY DEF Rewind
<1>3. PICK t, m, a, it, s, c, e, code, f, va :
            /\ t = tree /\ m = meaning' /\ a = at' /\ it = iter' /\ s = stack' /\ c = pc'
            /\ e = ended' /\ code = rc' /\ f = failed' /\ va = val'
  OBVIOUS
<1>4. /\ RewindAll(Nodes) /\ out' = <<>> /\ ret' = "NONE" /\ tree' = tree /\ stack' = stack /\ pc' = pc
      /\ pc = "idle"
  BY DEF Rewind
<1>5. stack = <<>>
  BY <1>4 DEF Sound, Typed, TypeOK
<1>6. PICK k : k = 0
  OBVIOUS
<1>7. /\ DOMAIN at = Nodes /\ DOMAIN iter = Nodes /\ DOMAIN val = Nodes /\ DOMAIN array = Nodes
  BY DEF Sound, Typed, IterTyped, Enumerating, Loads
<1>8. /\ at' = Set(at, Nodes, 0) /\ iter' = Set(iter, Nodes, <<>>) /\ val' = Set(val, Nodes, NoValue)
      /\ array' = Set(array, Nodes, NoValue)
  BY <1>4 DEF RewindAll
<1>9. Tracks(t, arr, m, s, e, c, code, f, va, a, it, k) /\ Chosen(m[Len(t)], s, k, f)
  <2>1. t = case.tree /\ m = Meaning(t, arr) /\ s = <<>> /\ c = "idle"
    BY <1>1, <1>2, <1>3, <1>4, <1>5
  <2>2. Unread(t, a, it)
    BY <1>3, <1>7, <1>8 DEF Nodes, Set, Unread
  <2> QED BY <1>6, <2>1, <2>2, StartTracks
<1>10. Following(k)'
  BY <1>2, <1>3, <1>4, <1>9 DEF Following
<1>11. Got(k)'
  <2>1. out' = s /\ (meaning[Root])' = m[Len(t)] /\ ret' # "DONE" /\ failed' = f
    BY <1>3, <1>4, <1>5 DEF Root
  <2>2. Chosen((meaning[Root])', out', k, failed')
    BY <1>9, <2>1
  <2> QED BY <2>1, <2>2 DEF Got
<1>12. Loads'
  <2>1. Nodes' = Nodes /\ outer' = arr
    BY <1>2, <1>4 DEF Nodes
  <2>2. DOMAIN val' = Nodes /\ array' \in [Nodes -> {NoValue, arr}]
    BY <1>7, <1>8 DEF Set
  <2> QED BY <2>1, <2>2 DEF Loads
<1>13. Intended' /\ Awaits'
  BY <1>1, <1>2, <1>4 DEF Intended, Awaits
<1> QED BY <1>10, <1>11, <1>12, <1>13 DEF Enumerating

\* A close changes nothing of what the query has got.
LEMMA EnumeratesClose ==
    ASSUME Sound, Enumerating, Close
    PROVE  Enumerating'
<1>1. PICK k : Got(k)
  BY DEF Enumerating
<1>2. /\ UNCHANGED <<env, array, pc, failed, out>> /\ ret' = "CLOSED" /\ pc = "idle"
      /\ val' = [val EXCEPT ![Root] = NoValue]
  BY DEF Close
<1>3. UNCHANGED <<tree, outer, meaning>> /\ Root' = Root /\ Nodes' = Nodes
  BY <1>2 DEF env, Root, Nodes
<1>4. Loads'
  BY <1>2, <1>3 DEF Enumerating, Loads
<1>5. Got(k)'
  BY <1>1, <1>2, <1>3 DEF Got
<1>6. ~Whole' /\ Awaits'
  BY <1>2 DEF Whole, CanStep, Awaits
<1>7. Intended'
  BY <1>3 DEF Enumerating, Intended
<1> QED BY <1>4, <1>5, <1>6, <1>7 DEF Enumerating

\* The query asks for a row.
LEMMA EnumeratesStep ==
    ASSUME Sound, Enumerating, Step
    PROVE  Enumerating'
<1>1. PICK k : Got(k) /\ (Whole => Following(k))
  BY DEF Enumerating
<1>2. /\ UNCHANGED <<env, val, at, array, iter, rc, ended, failed, out, ret>> /\ CanStep /\ pc = "idle"
      /\ pc' = "call" /\ stack' = <<Frame(Root)>>
  BY DEF Step, client
<1>3. UNCHANGED <<tree, outer, meaning>> /\ Root' = Root /\ Nodes' = Nodes
  BY <1>2 DEF env, Root, Nodes
<1>4. stack = <<>> /\ IsSource(tree)
  BY <1>2 DEF Sound, Typed, TypeOK
<1>5. Following(k)
  BY <1>1, <1>2 DEF Whole
<1>6. PICK t, m, arr, s, e, c, code, f : /\ t = tree /\ m = meaning /\ arr = outer /\ s = stack
                                         /\ e = ended /\ c = pc /\ code = rc /\ f = failed
  OBVIOUS
<1>7. PICK va, a, it : va = val /\ a = at /\ it = iter
  OBVIOUS
<1>8. PICK off, pos, was : /\ Laying(t, arr, m, off) /\ was[Len(t)] = k
                           /\ Follows(t, m, off, s, e, c, code, f, va, a, it, pos, was)
  BY <1>5, <1>6, <1>7 DEF Following, Tracks
<1>9. PICK u, d : u = stack' /\ d = pc'
  OBVIOUS
<1>10. s = <<>> /\ Len(u) = 1 /\ c = "idle" /\ d = "call" /\ IsSource(t)
  BY <1>2, <1>4, <1>6, <1>9
<1>11. Follows(t, m, off, u, e, d, code, f, va, a, it, pos, pos)
  BY <1>8, <1>10, BetweenSteps
<1>12. pos[Len(t)] = k
  <2>1. Len(t) \in DOMAIN t
    BY <1>10, SourceNodes
  <2> QED BY <1>8, <1>10, <2>1 DEF Follows, Moved
<1>13. PICK z, cd, g, vb, b, iu : /\ z = ended' /\ cd = rc' /\ g = failed' /\ vb = val' /\ b = at' /\ iu = iter'
  OBVIOUS
<1>14. Follows(t, m, off, u, z, d, cd, g, vb, b, iu, pos, pos)
  <2>1. z = e /\ cd = code /\ g = f /\ vb = va /\ b = a /\ iu = it
    BY <1>2, <1>6, <1>7, <1>13
  <2> QED BY <1>11, <2>1
<1>15. Following(k)'
  BY <1>2, <1>6, <1>8, <1>9, <1>12, <1>13, <1>14, FollowsNext
<1>16. Loads'
  BY <1>2, <1>3 DEF Enumerating, Loads
<1>17. Got(k)' /\ Awaits'
  BY <1>1, <1>2, <1>3 DEF Got, Awaits, CanStep
<1>18. Intended'
  BY <1>3 DEF Enumerating, Intended
<1> QED BY <1>15, <1>16, <1>17, <1>18 DEF Enumerating

-----------------------------------------------------------------------------
(* The query gets a row, or the end *)

\* When the root returns, it is alone on the stack.
LEMMA RootIsAlone ==
    ASSUME NEW t, NEW s, IsStack(t, s), s # <<>>, s[Len(s)].node = Len(t)
    PROVE  Len(s) = 1
<1>1. Len(s) \in Nat /\ Len(s) > 0 /\ DOMAIN s = 1..Len(s)
  BY StackFacts
<1>2. s[1].node = Len(t) /\ \A i, j \in 1..Len(s) : i < j => s[j].node < s[i].node
  BY <1>1 DEF IsStack, IsPath
<1>3. Len(t) \in Nat
  BY DEF IsStack, IsSource, IsSequence
<1>4. SUFFICES ASSUME Len(s) > 1 PROVE FALSE
  BY <1>1
<1>5. 1 \in 1..Len(s) /\ Len(s) \in 1..Len(s)
  BY <1>1
<1>6. s[Len(s)].node < s[1].node
  BY <1>2, <1>4, <1>5
<1> QED BY <1>2, <1>3, <1>6

\* The values of a row are those of the sources from left to right.
LEMMA SavedIs ==
    ASSUME IsSource(tree), NEW t, t = tree, NEW va, va = val
    PROVE  \E ent \in [DOMAIN t -> Seq(DOMAIN t)] :
                FromLeft(t, ent) /\ CacheSave = ValuesOf(va, ent[Len(t)])
<1>1. PICK ent \in [Nodes -> Seq(Nodes)] :
            /\ Entries = ent[Root]
            /\ \A n \in Nodes :
                ent[n] = IF tree[n].kind = "JOIN" THEN ent[tree[n].left] \o ent[tree[n].right] ELSE <<n>>
  BY EntriesAre
<1>2. FromLeft(t, ent)
  BY <1>1 DEF FromLeft, Nodes
<1>3. CacheSave = ValuesOf(va, ent[Len(t)])
  BY <1>1 DEF CacheSave, ValuesOf, Root
<1> QED BY <1>1, <1>2, <1>3 DEF Nodes

\* The query gets a row, the next one unless a cursor has failed, or the end.
LEMMA EnumeratesReturn ==
    ASSUME Sound, Enumerating, StepReturns
    PROVE  Enumerating'
<1>1. PICK k : Got(k) /\ (Whole => Following(k))
  BY DEF Enumerating
<1>2. /\ UNCHANGED <<env, val, at, array, iter, rc, ended, failed>> /\ pc = "return" /\ p = Root
      /\ pc' = "idle" /\ stack' = <<>> /\ ret' = rc
      /\ out' = IF rc = "ROW" THEN Append(out, CacheSave) ELSE out
  BY DEF StepReturns
<1>3. UNCHANGED <<tree, outer, meaning>> /\ Root' = Root /\ Nodes' = Nodes
  BY <1>2 DEF env, Root, Nodes
<1>4. Loads' /\ Intended' /\ Awaits'
  BY <1>2, <1>3 DEF Enumerating, Loads, Intended, Awaits
<1>5. PICK t, m, arr, s, e, c, code, f : /\ t = tree /\ m = meaning /\ arr = outer /\ s = stack
                                         /\ e = ended /\ c = pc /\ code = rc /\ f = failed
  OBVIOUS
<1>6. PICK va, a, it : va = val /\ a = at /\ it = iter
  OBVIOUS
<1>7. /\ IsStack(t, s) /\ s # <<>> /\ s[Len(s)].node = Len(t)
      /\ code # "DONE" => NoneEnded(s, e)
      /\ code # "NOMEM" => Fresh(t, s, e, c)
  BY <1>2, <1>5, Working DEF Root
<1>8. Len(s) = 1 /\ IsSource(t)
  BY <1>7, RootIsAlone DEF IsStack
<1>9. Len(t) \in DOMAIN t /\ Len(t) \in Nat
  BY <1>8, SourceNodes
<1>10. CASE code = "NOMEM"
  <2>1. out' = out /\ ret' = "NOMEM"
    BY <1>2, <1>5, <1>10
  <2>2. Got(k)'
    BY <1>1, <1>2, <1>3, <2>1 DEF Got
  <2>3. ~Whole'
    BY <1>2, <2>1 DEF Whole, CanStep
  <2> QED BY <1>4, <2>2, <2>3 DEF Enumerating
<1>11. ASSUME code # "NOMEM"
       PROVE  \E off, pos, was : /\ Laying(t, arr, m, off) /\ was[Len(t)] = k
                                 /\ Follows(t, m, off, s, e, c, code, f, va, a, it, pos, was)
  <2>1. Following(k)
    BY <1>1, <1>2, <1>5, <1>11 DEF Whole
  <2> QED BY <1>5, <1>6, <2>1 DEF Following, Tracks
<1>12. PICK rows : rows = m[Len(t)]
  OBVIOUS
<1>13. rows = meaning[Root] /\ (meaning[Root])' = rows
  BY <1>3, <1>5, <1>12 DEF Root
<1>14. CASE code = "DONE"
  <2>1. PICK off, pos, was : /\ Laying(t, arr, m, off) /\ was[Len(t)] = k
                             /\ Follows(t, m, off, s, e, c, code, f, va, a, it, pos, was)
    BY <1>11, <1>14
  <2>2. ~f => k = Len(rows)
    <3>1. was[Len(t)] = pos[Len(t)] /\ (~f => pos[Len(t)] = Len(m[Len(t)]))
      BY <1>2, <1>5, <1>7, <1>9, <1>14, <2>1 DEF Follows, Moved
    <3> QED BY <1>12, <2>1, <3>1
  <2>3. out' = out /\ ret' = "DONE"
    BY <1>2, <1>5, <1>14
  <2>4. Chosen((meaning[Root])', out', k, failed')
    BY <1>1, <1>2, <1>13, <2>3 DEF Got
  <2>5. Got(k)'
    BY <1>2, <1>5, <1>13, <2>2, <2>4 DEF Got
  <2>6. ~Whole'
    BY <1>2, <2>3 DEF Whole, CanStep
  <2> QED BY <1>4, <2>5, <2>6 DEF Enumerating
<1>15. CASE code = "ROW"
  <2>1. PICK off, pos, was : /\ Laying(t, arr, m, off) /\ was[Len(t)] = k
                             /\ Follows(t, m, off, s, e, c, code, f, va, a, it, pos, was)
    BY <1>11, <1>15
  <2>2. PICK j : j = pos[Len(t)]
    OBVIOUS
  <2>3. /\ pos[Len(t)] \in Nat /\ was[Len(t)] \in Nat /\ pos[Len(t)] <= Len(m[Len(t)])
        /\ was[Len(t)] < pos[Len(t)]
        /\ ~f => pos[Len(t)] = was[Len(t)] + 1
    <3>1. Counts(t, m, pos, was) /\ Moved(t, m, s, c, code, f, pos, was)
      BY <2>1 DEF Follows
    <3> QED BY <1>2, <1>5, <1>7, <1>9, <1>15, <3>1 DEF Counts, Moved
  <2>4. j \in Nat /\ k < j /\ j <= Len(rows) /\ (~f => j = k + 1) /\ k \in Nat /\ j # 0
    BY <1>12, <2>1, <2>2, <2>3
  <2>5. PICK ent \in [DOMAIN t -> Seq(DOMAIN t)] :
            FromLeft(t, ent) /\ CacheSave = ValuesOf(va, ent[Len(t)])
    BY <1>5, <1>6, <1>8, SavedIs
  <2>6. Len(t) \notin e
    <3>1. NoneEnded(s, e) /\ 1 \in DOMAIN s
      BY <1>7, <1>8, <1>15, StackFacts
    <3> QED BY <1>7, <1>8, <3>1 DEF NoneEnded
  <2>7. m[Len(t)][pos[Len(t)]] = ValuesOf(va, ent[Len(t)])
    <3>1. Fresh(t, s, e, c) /\ c = "return" /\ pos[Len(t)] # 0
      BY <1>2, <1>5, <1>7, <1>15, <2>2, <2>4
    <3>2. AtRow(t, s, e, c, pos)
      BY <1>7, <1>8, <2>6, <3>1 DEF AtRow
    <3>3. Columns(t, ent)
      BY <2>5 DEF Columns
    <3> QED BY <2>1, <3>2, <3>3, RowIsRead
  <2>8. PICK row, g, u : row = CacheSave /\ g = out /\ u = Append(g, row)
    OBVIOUS
  <2>9. row = rows[j]
    BY <1>12, <2>2, <2>5, <2>7, <2>8
  <2>10. Chosen(rows, u, j, f)
    <3>1. Chosen(rows, g, k, f)
      BY <1>1, <1>5, <1>13, <2>8 DEF Got
    <3>2. Len(rows) \in Nat
      BY <1>9, <1>12, <2>1, LengthsAre
    <3> QED BY <2>4, <2>8, <2>9, <3>1, <3>2, ChosenNext
  <2>11. Got(j)'
    <3>1. out' = u /\ ret' = "ROW" /\ failed' = f
      BY <1>2, <1>5, <1>15, <2>8
    <3> QED BY <1>13, <2>10, <3>1 DEF Got
  <2>12. Following(j)'
    <3>1. PICK v, d : v = stack' /\ d = pc'
      OBVIOUS
    <3>2. v = <<>> /\ c = "return" /\ d = "idle"
      BY <1>2, <1>5, <3>1
    <3>3. Follows(t, m, off, v, e, d, code, f, va, a, it, pos, pos)
      BY <1>8, <2>1, <3>2, BetweenSteps
    <3>4. PICK z, cd, h, vb, b, iu : /\ z = ended' /\ cd = rc' /\ h = failed' /\ vb = val'
                                     /\ b = at' /\ iu = iter'
      OBVIOUS
    <3>5. Follows(t, m, off, v, z, d, cd, h, vb, b, iu, pos, pos)
      <4>1. z = e /\ cd = code /\ h = f /\ vb = va /\ b = a /\ iu = it
        BY <1>2, <1>5, <1>6, <3>4
      <4> QED BY <3>3, <4>1
    <3> QED BY <1>2, <1>5, <2>1, <2>2, <3>1, <3>4, <3>5, FollowsNext
  <2> QED BY <1>4, <2>11, <2>12 DEF Enumerating
<1>16. code \in {"ROW", "DONE", "NOMEM"}
  BY <1>5 DEF Sound, Typed, TypeOK, Codes
<1> QED BY <1>10, <1>14, <1>15, <1>16

\* Nothing happens.
LEMMA EnumeratesStill ==
    ASSUME Sound, Enumerating, UNCHANGED vars
    PROVE  Enumerating'
<1>1. PICK k : Got(k) /\ (Whole => Following(k))
  BY DEF Enumerating
<1>2. UNCHANGED <<tree, outer, meaning, val, at, array, iter, stack, pc, rc, ended, failed, out, ret>>
  BY DEF vars, env, client
<1>3. Root' = Root /\ Nodes' = Nodes
  BY <1>2 DEF Root, Nodes
<1>4. Loads' /\ Intended' /\ Awaits'
  BY <1>2, <1>3 DEF Enumerating, Loads, Intended, Awaits, CanStep
<1>5. Got(k)'
  BY <1>1, <1>2, <1>3 DEF Got
<1>6. Whole' = Whole /\ Following(k)' = Following(k)
  BY <1>2 DEF Whole, CanStep, Following
<1> QED BY <1>1, <1>4, <1>5, <1>6 DEF Enumerating

\* Every step keeps what is known.
LEMMA EnumeratingStep == Sound /\ Enumerating /\ [Next]_vars => Enumerating'
<1> SUFFICES ASSUME Sound, Enumerating, [Next]_vars PROVE Enumerating'
  OBVIOUS
<1>1. CASE UNCHANGED vars
  BY <1>1, EnumeratesStill
<1>2. CASE Step
  BY <1>2, EnumeratesStep
<1>3. CASE Rewind
  BY <1>3, EnumeratesRewind
<1>4. CASE Close
  BY <1>4, EnumeratesClose
<1>5. CASE StepReturns
  BY <1>5, EnumeratesReturn
<1>6. CASE Internal /\ ~StepReturns
  BY <1>6, EnumeratesWithin
<1> QED BY <1>1, <1>2, <1>3, <1>4, <1>5, <1>6 DEF Next

\* What is known of a state is enough.
LEMMA EnumeratingMeans == Sound /\ Enumerating => Enumerates
<1> SUFFICES ASSUME Sound, Enumerating PROVE Enumerates
  OBVIOUS
<1>1. PICK case \in Cases : tree = case.tree
  BY DEF Enumerating, Intended
<1>2. PICK k : Got(k)
  BY DEF Enumerating
<1>3. PICK t, m, arr, rows, s, f : /\ t = tree /\ m = meaning /\ arr = outer /\ rows = m[Len(t)]
                                   /\ s = out /\ f = failed
  OBVIOUS
<1>4. t = case.tree /\ m = Meaning(t, arr) /\ arr \in Outers /\ IsSource(t)
  BY <1>1, <1>3 DEF Enumerating, Intended, Sound, Typed, TypeOK
<1>5. PICK off : Laying(t, arr, m, off)
  BY <1>4, MeaningLays
<1>6. IsSequence(rows)
  <2>1. Len(t) \in DOMAIN t
    BY <1>4, SourceNodes
  <2> QED BY <1>3, <1>5, <2>1, LengthsAre
<1>7. Chosen(rows, s, k, f) /\ (ret = "DONE" /\ ~f => k = Len(rows)) /\ meaning[Root] = rows
  BY <1>2, <1>3 DEF Got, Root
<1>8. CASE f
  BY <1>3, <1>6, <1>7, <1>8, ChosenIsSelection DEF Enumerates
<1>9. CASE ~f
  <2>1. IsPrefix(s, rows) /\ (k = Len(rows) => s = rows)
    BY <1>6, <1>7, <1>9, ChosenIsPrefix
  <2> QED BY <1>3, <1>7, <1>9, <2>1 DEF Enumerates
<1> QED BY <1>8, <1>9

-----------------------------------------------------------------------------
(* The theorem *)

\* Whatever FROM clause there is, however joins, EACH and FLATTEN nest and
\* whatever the values contain, the rows that the query gets from
\* xjd1DataSrcStep are those that the clause means, in order, and DONE comes
\* after the last (datasrc.c:343-447); after a rewind they come again, with
\* what the outer query has by then.  If the cursor of a collection fails,
\* rows may be missing, but none is made up, repeated or out of order.
THEOREM EnumeratesItsMeaning == Spec => []Enumerates
<1>1. Init => Sound /\ Enumerating
  BY InitSound, EnumeratesFirst
<1>2. Sound /\ Enumerating /\ [Next]_vars => Sound' /\ Enumerating'
  BY SoundStep, EnumeratingStep
<1> QED BY <1>1, <1>2, EnumeratingMeans, PTL DEF Spec
=============================================================================
