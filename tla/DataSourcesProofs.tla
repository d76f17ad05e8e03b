-------------------------- MODULE DataSourcesProofs --------------------------
(***************************************************************************)
(* A FROM clause of any tree of joins, EACH and FLATTEN:                   *)
(* that the types of the model are right, that no source is stepped after  *)
(* its end, that only a join keeps the cursor of a collection open, and    *)
(* that a name is one document, however it is looked up.                   *)
(*                                                                         *)
(* The invariant, Sound, says what the functions that call each other      *)
(* along the tree rely on.  The stack is a path down the tree, and each    *)
(* source on it waits for an operand (IsPath).  A source that waits has    *)
(* not ended (EndedOn).  And for each source of the tree that has not      *)
(* ended, on the stack or not, an operand has ended only on its way back   *)
(* to it, or it is the right operand of a join that steps the left one and *)
(* will rewind it (Fresh).  Where memory has run out the last does not     *)
(* hold: a rewind has to come first.                                       *)
(***************************************************************************)
EXTENDS DataSources, WellFoundedInduction, TLAPS

-----------------------------------------------------------------------------
(* Trees *)

\* A set of numbers that is not empty has a least element.
LEMMA LeastElement ==
    ASSUME NEW T, T \subseteq Nat, T # {}
    PROVE  \E x \in T : \A y \in T : x <= y
<1> DEFINE R == { pair \in Nat \X Nat : pair[1] < pair[2] }
<1>1. IsWellFoundedOn(R, Nat)
  BY NatLessThanWellFounded DEF OpToRel
<1> HIDE DEF R
<1>2. PICK x \in T : \A y \in T : <<y, x>> \notin R
  BY <1>1, WFMin, Zenon
<1>3. \A y \in T : ~(y < x)
  BY <1>2 DEF R
<1> QED BY <1>3

Operands(t, n) == {t[n].left, t[n].right}

\* The nodes of a FROM clause: operands come before the node they belong to.
LEMMA SourceNodes ==
    ASSUME NEW t, IsSource(t)
    PROVE  /\ Len(t) \in Nat /\ Len(t) > 0 /\ DOMAIN t = 1..Len(t) /\ Len(t) \in DOMAIN t
           /\ \A n \in DOMAIN t :
                /\ t[n].kind \in Kinds
                /\ t[n].left \in Nat /\ t[n].left < n
                /\ t[n].right \in Nat /\ t[n].right < n
                /\ t[n].left # 0 <=> t[n].kind \notin Leaves
                /\ t[n].right # 0 <=> t[n].kind = "JOIN"
                /\ t[n].kind = "JOIN" => t[n].left # t[n].right
<1>1. t \in Seq(ToSet(t)) /\ t # <<>>
  BY DEF IsSource, IsSequence
<1>2. Len(t) \in Nat /\ Len(t) > 0 /\ DOMAIN t = 1..Len(t) /\ Len(t) \in DOMAIN t
  BY <1>1
<1>3. ASSUME NEW n \in DOMAIN t
      PROVE  /\ t[n].kind \in Kinds
             /\ t[n].left \in Nat /\ t[n].left < n
             /\ t[n].right \in Nat /\ t[n].right < n
             /\ t[n].left # 0 <=> t[n].kind \notin Leaves
             /\ t[n].right # 0 <=> t[n].kind = "JOIN"
             /\ t[n].kind = "JOIN" => t[n].left # t[n].right
  <2>1. n \in Nat /\ n > 0
    BY <1>2
  <2>2. /\ t[n].kind \in Kinds
        /\ t[n].left # t[n].right \/ t[n].kind \in Leaves
        /\ t[n].left \in (IF t[n].kind \in Leaves THEN {0} ELSE 1..(n - 1))
        /\ t[n].right \in (IF t[n].kind = "JOIN" THEN 1..(n - 1) ELSE {0})
    BY DEF IsSource
  <2>3. t[n].kind = "JOIN" => t[n].kind \notin Leaves
    BY DEF Leaves
  <2>4. CASE t[n].kind \in Leaves
    BY <2>1, <2>2, <2>3, <2>4
  <2>5. CASE t[n].kind \notin Leaves
    BY <2>1, <2>2, <2>3, <2>5
  <2> QED BY <2>4, <2>5
<1> QED BY <1>2, <1>3

\* Each node but the root is the operand of one other, which is above it.
LEMMA Parents ==
    ASSUME NEW t, IsSource(t), NEW n \in DOMAIN t
    PROVE  /\ \A k, m \in DOMAIN t : n \in Operands(t, k) /\ n \in Operands(t, m) => k = m
           /\ n # Len(t) => \E m \in DOMAIN t : n \in Operands(t, m)
           /\ \A m \in DOMAIN t : n \in Operands(t, m) => n < m /\ m <= Len(t)
<1>1. /\ Len(t) \in Nat /\ DOMAIN t = 1..Len(t)
      /\ \A m \in DOMAIN t : t[m].left < m /\ t[m].right < m
  BY SourceNodes
<1>2. \A m \in DOMAIN t : n \in Operands(t, m) => n < m /\ m <= Len(t)
  BY <1>1 DEF Operands
<1>3. CASE n = Len(t)
  <2>1. \A m \in DOMAIN t : n \notin Operands(t, m)
    BY <1>1, <1>2, <1>3
  <2> QED BY <1>2, <1>3, <2>1
<1>4. CASE n # Len(t)
  <2>1. n \in 1..(Len(t) - 1)
    BY <1>1, <1>4
  <2>2. PICK m \in DOMAIN t : { k \in DOMAIN t : n \in {t[k].left, t[k].right} } = {m}
    BY <2>1 DEF IsSource
  <2>3. \A k \in DOMAIN t : n \in Operands(t, k) <=> k = m
    BY <2>2 DEF Operands
  <2> QED BY <1>2, <2>3
<1> QED BY <1>3, <1>4

\* The operands of the sources that have any.
LEMMA OperandNodes ==
    ASSUME IsSource(tree), NEW n \in Nodes
    PROVE  /\ tree[n].kind = "JOIN" => /\ tree[n].left \in Nodes /\ tree[n].right \in Nodes
                                       /\ tree[n].left # tree[n].right
           /\ tree[n].kind \in Flattens => tree[n].left \in Nodes
           /\ tree[n].left < n /\ tree[n].right < n /\ n \in Nat /\ n # 0
<1>1. /\ Root \in Nat /\ Nodes = 1..Root
      /\ tree[n].kind \in Kinds
      /\ tree[n].left \in Nat /\ tree[n].left < n
      /\ tree[n].right \in Nat /\ tree[n].right < n
      /\ tree[n].left # 0 <=> tree[n].kind \notin Leaves
      /\ tree[n].right # 0 <=> tree[n].kind = "JOIN"
      /\ tree[n].kind = "JOIN" => tree[n].left # tree[n].right
  BY SourceNodes DEF Root, Nodes
<1>2. n \in Nat /\ n # 0 /\ n <= Root
  BY <1>1
<1>3. "JOIN" \notin Leaves /\ Flattens \cap Leaves = {}
  BY DEF Leaves, Flattens
<1>4. ASSUME tree[n].kind = "JOIN" \/ tree[n].kind \in Flattens PROVE tree[n].left \in Nodes
  <2>1. tree[n].left # 0
    BY <1>1, <1>3, <1>4
  <2> QED BY <1>1, <1>2, <2>1
<1>5. ASSUME tree[n].kind = "JOIN" PROVE tree[n].right \in Nodes
  <2>1. tree[n].right # 0
    BY <1>1, <1>5
  <2> QED BY <1>1, <1>2, <2>1
<1> QED BY <1>1, <1>2, <1>4, <1>5

\* The operands l and r of the nodes up to k come before them.
Descend(l, r, k) == \A n \in 1..k : l[n] \in 0..(n - 1) /\ r[n] \in 0..(n - 1)

\* For each node up to k, g is what its step makes of what its operands have.
Folds(g, step, l, r, none, k) ==
    /\ g[0] = none
    /\ \A n \in 1..k : g[n] = step[n][<<g[l[n]], g[r[n]]>>]

Folded(step, l, r, V, none, k) == \E g \in [0..k -> V] : Folds(g, step, l, r, none, k)

\* A function that is defined by what it is for the operands of a node exists.
LEMMA FoldExists ==
    ASSUME NEW N \in Nat, NEW V, NEW none \in V, NEW step, NEW l, NEW r,
           step \in [1..N -> [V \X V -> V]], Descend(l, r, N)
    PROVE  Folded(step, l, r, V, none, N)
<1> DEFINE Bad == { k \in 0..N : ~Folded(step, l, r, V, none, k) }
<1> SUFFICES ASSUME Bad # {} PROVE FALSE
  OBVIOUS
<1>1. PICK k \in Bad : \A j \in Bad : k <= j
  <2>1. Bad \subseteq Nat
    OBVIOUS
  <2> QED BY <2>1, LeastElement
<1>2. k \in 0..N /\ ~Folded(step, l, r, V, none, k)
  OBVIOUS
<1>3. k # 0
  <2> SUFFICES ASSUME k = 0 PROVE Folded(step, l, r, V, none, k)
    BY <1>2
  <2> DEFINE g == [n \in 0..k |-> none]
  <2>1. g \in [0..k -> V] /\ g[0] = none /\ 1..k = {}
    OBVIOUS
  <2> HIDE DEF g
  <2> QED BY <2>1 DEF Folded, Folds
<1>4. k - 1 \in 0..N /\ k - 1 \notin Bad
  BY <1>1, <1>2, <1>3
<1>5. PICK g \in [0..(k - 1) -> V] :
        /\ g[0] = none
        /\ \A n \in 1..(k - 1) : g[n] = step[n][<<g[l[n]], g[r[n]]>>]
  BY <1>4 DEF Folded, Folds
<1> DEFINE last == step[k][<<g[l[k]], g[r[k]]>>]
           h == [n \in 0..k |-> IF n = k THEN last ELSE g[n]]
<1>6. \A n \in 1..k : l[n] \in 0..(k - 1) /\ r[n] \in 0..(k - 1)
  <2> SUFFICES ASSUME NEW n \in 1..k PROVE l[n] \in 0..(k - 1) /\ r[n] \in 0..(k - 1)
    OBVIOUS
  <2>1. l[n] \in 0..(n - 1) /\ r[n] \in 0..(n - 1)
    BY <1>2 DEF Descend
  <2> QED BY <2>1, <1>2
<1>7. last \in V
  <2>1. k \in 1..k /\ k \in 1..N
    BY <1>2, <1>3
  <2>2. step[k] \in [V \X V -> V]
    BY <2>1
  <2>3. g[l[k]] \in V /\ g[r[k]] \in V
    BY <1>6, <2>1
  <2> QED BY <2>2, <2>3
<1> HIDE DEF last
<1>8. \A n \in 0..k : n # k => n \in 0..(k - 1)
  BY <1>2, <1>3
<1>9. h \in [0..k -> V]
  BY <1>7, <1>8
<1>10. \A n \in 0..(k - 1) : n \in 0..k /\ h[n] = g[n]
  BY <1>2, <1>3
<1>11. h[k] = last /\ h[0] = none
  BY <1>2, <1>3, <1>5
<1> HIDE DEF h
<1>12. \A n \in 1..k : h[n] = step[n][<<h[l[n]], h[r[n]]>>]
  <2> SUFFICES ASSUME NEW n \in 1..k PROVE h[n] = step[n][<<h[l[n]], h[r[n]]>>]
    OBVIOUS
  <2>1. h[l[n]] = g[l[n]] /\ h[r[n]] = g[r[n]]
    BY <1>6, <1>10
  <2>2. CASE n = k
    BY <1>11, <2>1, <2>2 DEF last
  <2>3. CASE n # k
    <3>1. n \in 1..(k - 1) /\ n \in 0..(k - 1)
      BY <1>2, <2>3
    <3> QED BY <1>5, <1>10, <2>1, <3>1
  <2> QED BY <2>2, <2>3
<1> QED BY <1>2, <1>9, <1>11, <1>12 DEF Folded, Folds

\* For each node up to k, g is what base has for it and for all below it.
Gathers(g, base, l, r, k) ==
    /\ g[0] = {}
    /\ \A n \in 1..k : g[n] = base[n] \cup g[l[n]] \cup g[r[n]]

Gathered(base, l, r, k) ==
    \E g \in [0..k -> SUBSET UNION { base[n] : n \in DOMAIN base }] : Gathers(g, base, l, r, k)

\* It is defined for any tree.
LEMMA GatherExists ==
    ASSUME NEW N \in Nat, NEW base, NEW l, NEW r, DOMAIN base = 1..N, Descend(l, r, N)
    PROVE  Gathered(base, l, r, N)
<1> DEFINE V == SUBSET UNION { base[n] : n \in DOMAIN base }
           step == [n \in 1..N |-> [pair \in V \X V |-> base[n] \cup pair[1] \cup pair[2]]]
<1>1. \A n \in 1..N : base[n] \in V
  OBVIOUS
<1>2. \A n \in 1..N : \A x, y \in V : base[n] \cup x \cup y \in V
  BY <1>1
<1>3. {} \in V
  OBVIOUS
<1> HIDE DEF V
<1>4. \A n \in 1..N : [pair \in V \X V |-> base[n] \cup pair[1] \cup pair[2]] \in [V \X V -> V]
  <2> SUFFICES ASSUME NEW n \in 1..N, NEW pair \in V \X V
               PROVE  base[n] \cup pair[1] \cup pair[2] \in V
    OBVIOUS
  <2>1. pair[1] \in V /\ pair[2] \in V
    OBVIOUS
  <2> QED BY <1>2, <2>1
<1>5. step \in [1..N -> [V \X V -> V]]
  BY <1>4
<1>6. \A n \in 1..N : \A x, y \in V : step[n][<<x, y>>] = base[n] \cup x \cup y
  OBVIOUS
<1> HIDE DEF step
<1>7. Folded(step, l, r, V, {}, N)
  BY <1>3, <1>5, FoldExists
<1>8. PICK g \in [0..N -> V] : Folds(g, step, l, r, {}, N)
  BY <1>7 DEF Folded
<1>9. \A n \in 1..N : g[l[n]] \in V /\ g[r[n]] \in V
  <2> SUFFICES ASSUME NEW n \in 1..N PROVE g[l[n]] \in V /\ g[r[n]] \in V
    OBVIOUS
  <2>1. l[n] \in 0..(n - 1) /\ r[n] \in 0..(n - 1)
    BY DEF Descend
  <2>2. l[n] \in 0..N /\ r[n] \in 0..N
    BY <2>1
  <2> QED BY <2>2
<1>10. Gathers(g, base, l, r, N)
  <2>1. g[0] = {} /\ \A n \in 1..N : g[n] = step[n][<<g[l[n]], g[r[n]]>>]
    BY <1>8 DEF Folds
  <2>2. ASSUME NEW n \in 1..N PROVE g[n] = base[n] \cup g[l[n]] \cup g[r[n]]
    <3>1. PICK x \in V, y \in V : x = g[l[n]] /\ y = g[r[n]]
      BY <1>9
    <3>2. g[n] = step[n][<<x, y>>]
      BY <2>1, <3>1
    <3>3. step[n][<<x, y>>] = base[n] \cup x \cup y
      BY <1>6
    <3> QED BY <3>1, <3>2, <3>3
  <2> QED BY <2>1, <2>2 DEF Gathers
<1> QED BY <1>10 DEF Gathered, V

\* It is defined in one way only.
LEMMA GatherOneWay ==
    ASSUME NEW k \in Nat, NEW base, NEW l, NEW r, NEW f, NEW g,
           Descend(l, r, k),
           Gathers(f, base, l, r, k), Gathers(g, base, l, r, k)
    PROVE  \A n \in 0..k : f[n] = g[n]
<1> DEFINE Bad == { n \in 0..k : f[n] # g[n] }
<1> SUFFICES ASSUME Bad # {} PROVE FALSE
  OBVIOUS
<1>1. PICK n \in Bad : \A j \in Bad : n <= j
  <2>1. Bad \subseteq Nat
    OBVIOUS
  <2> QED BY <2>1, LeastElement
<1>2. n \in 1..k /\ f[n] # g[n]
  <2>1. f[0] = g[0]
    BY DEF Gathers
  <2> QED BY <2>1
<1>3. \A i \in 0..(n - 1) : f[i] = g[i]
  BY <1>1, <1>2
<1>4. l[n] \in 0..(n - 1) /\ r[n] \in 0..(n - 1)
  BY <1>2 DEF Descend
<1>5. f[n] = base[n] \cup f[l[n]] \cup f[r[n]] /\ g[n] = base[n] \cup g[l[n]] \cup g[r[n]]
  BY <1>2 DEF Gathers
<1>6. f[l[n]] = g[l[n]] /\ f[r[n]] = g[r[n]]
  BY <1>3, <1>4, Zenon
<1> QED BY <1>2, <1>5, <1>6

-----------------------------------------------------------------------------
(* What is below a source, and what is closed with it *)

Nodal == [n \in Nodes |-> {n}]
Lefts == [n \in Nodes |-> tree[n].left]
Rights == [n \in Nodes |-> tree[n].right]

\* Below, for all sources at once.
LEMMA BelowIs ==
    ASSUME IsSource(tree)
    PROVE  \E f : /\ f[0] = {}
                  /\ \A n \in Nodes : f[n] = {n} \cup f[tree[n].left] \cup f[tree[n].right]
                  /\ \A n \in Nodes : Below(n) = f[n] /\ f[n] \subseteq Nodes
<1>1. /\ Root \in Nat /\ Nodes = 1..Root
      /\ \A n \in Nodes : tree[n].left \in 0..(n - 1) /\ tree[n].right \in 0..(n - 1)
  BY SourceNodes DEF Root, Nodes
<1>2. Gathered(Nodal, Lefts, Rights, Root)
  <2>1. DOMAIN Nodal = 1..Root
    BY <1>1 DEF Nodal
  <2>2. Descend(Lefts, Rights, Root)
    BY <1>1 DEF Descend, Lefts, Rights
  <2> QED BY <1>1, <2>1, <2>2, GatherExists
<1>3. PICK f \in [0..Root -> SUBSET UNION { Nodal[n] : n \in DOMAIN Nodal }] :
        f[0] = {} /\ \A n \in 1..Root : f[n] = Nodal[n] \cup f[Lefts[n]] \cup f[Rights[n]]
  BY <1>2 DEF Gathered, Gathers
<1>4. \A n \in Nodes : f[n] = {n} \cup f[tree[n].left] \cup f[tree[n].right]
  BY <1>1, <1>3 DEF Nodal, Lefts, Rights
<1>5. UNION { Nodal[n] : n \in DOMAIN Nodal } \subseteq Nodes
  BY DEF Nodal
<1>6. \A n \in Nodes : f[n] \subseteq Nodes
  <2>1. \A n \in Nodes : n \in 0..Root
    BY <1>1
  <2> QED BY <1>3, <1>5, <2>1
<1>7. ASSUME NEW n \in Nodes PROVE Below(n) = f[n]
  <2> DEFINE Sub(s) == [m \in 0..n |-> IF m = 0 THEN {} ELSE {m} \cup s[tree[m].left] \cup s[tree[m].right]]
             u == [m \in 0..n |-> f[m]]
             g == CHOOSE s : s = Sub(s)
  <2>1. n \in Nat /\ n <= Root /\ n \in 0..n
    BY <1>1
  <2>2. \A m \in 0..n : m # 0 =>
            m \in Nodes /\ tree[m].left \in 0..n /\ tree[m].right \in 0..n
    <3> SUFFICES ASSUME NEW m \in 0..n, m # 0
                 PROVE  m \in Nodes /\ tree[m].left \in 0..n /\ tree[m].right \in 0..n
      OBVIOUS
    <3>1. m \in Nodes
      BY <1>1, <2>1
    <3>2. tree[m].left \in 0..(m - 1) /\ tree[m].right \in 0..(m - 1)
      BY <1>1, <3>1
    <3> QED BY <2>1, <3>1, <3>2
  <2>3. u = Sub(u)
    <3>1. \A m \in 0..n : u[m] = IF m = 0 THEN {} ELSE {m} \cup u[tree[m].left] \cup u[tree[m].right]
      BY <1>3, <1>4, <2>2
    <3> HIDE DEF u
    <3>2. u = [m \in 0..n |-> u[m]]
      BY DEF u
    <3> QED BY <3>1, <3>2
  <2>4. g = Sub(g)
    <3> HIDE DEF Sub, u
    <3> QED BY <2>3
  <2>5. Below(n) = g[n]
    BY DEF Below
  <2> HIDE DEF g
  <2>6. \A m \in 0..n : g[m] = IF m = 0 THEN {} ELSE {m} \cup g[tree[m].left] \cup g[tree[m].right]
    BY <2>4
  <2>7. g[0] = f[0] /\ 1..n \subseteq Nodes
    <3>1. 0 \in 0..n
      BY <2>1
    <3>2. g[0] = {}
      BY <2>6, <3>1, Zenon
    <3>3. 1..n \subseteq Nodes
      BY <1>1, <2>1
    <3> QED BY <1>3, <3>2, <3>3
  <2>8. \A m \in 1..n :
            /\ m \in Nodes /\ m \in 0..n /\ m # 0
            /\ Nodal[m] = {m} /\ Lefts[m] = tree[m].left /\ Rights[m] = tree[m].right
    BY <2>7 DEF Nodal, Lefts, Rights
  <2>9. \A m \in 1..n : g[m] = Nodal[m] \cup g[Lefts[m]] \cup g[Rights[m]]
    <3> SUFFICES ASSUME NEW m \in 1..n
                 PROVE  g[m] = Nodal[m] \cup g[Lefts[m]] \cup g[Rights[m]]
      OBVIOUS
    <3>1. g[m] = {m} \cup g[tree[m].left] \cup g[tree[m].right]
      BY <2>6, <2>8, Zenon
    <3> QED BY <2>8, <3>1
  <2>10. \A m \in 1..n : f[m] = Nodal[m] \cup f[Lefts[m]] \cup f[Rights[m]]
    BY <1>4, <2>8
  <2>11. Descend(Lefts, Rights, n)
    BY <1>1, <2>8 DEF Descend
  <2>12. Gathers(g, Nodal, Lefts, Rights, n) /\ Gathers(f, Nodal, Lefts, Rights, n)
    BY <1>3, <2>7, <2>9, <2>10 DEF Gathers
  <2>13. \A m \in 0..n : g[m] = f[m]
    <3>1. PICK b, l, r, f1, f2 : b = Nodal /\ l = Lefts /\ r = Rights /\ f1 = g /\ f2 = f
      OBVIOUS
    <3>2. Descend(l, r, n) /\ Gathers(f1, b, l, r, n) /\ Gathers(f2, b, l, r, n)
      BY <2>11, <2>12, <3>1
    <3>3. n \in Nat
      BY <2>1
    <3>4. \A m \in 0..n : f1[m] = f2[m]
      BY <3>2, <3>3, GatherOneWay
    <3> QED BY <3>1, <3>4
  <2> QED BY <2>1, <2>5, <2>13
<1> QED BY <1>3, <1>4, <1>6, <1>7

\* What is below a source is below those that it is an operand of.
LEMMA BelowUp ==
    ASSUME IsSource(tree), NEW n \in Nodes
    PROVE  /\ n \in Below(n) /\ Below(n) \subseteq Nodes
           /\ \A m \in Nodes : m \in Operands(tree, n) => Below(m) \subseteq Below(n)
<1>1. PICK f : /\ f[0] = {}
               /\ \A m \in Nodes : f[m] = {m} \cup f[tree[m].left] \cup f[tree[m].right]
               /\ \A m \in Nodes : Below(m) = f[m] /\ f[m] \subseteq Nodes
  BY BelowIs
<1> QED BY <1>1 DEF Operands

\* The operands of a source below n are below n.
LEMMA BelowDown ==
    ASSUME IsSource(tree), NEW n \in Nodes, NEW m \in Below(n),
           NEW k \in Operands(tree, m), k # 0
    PROVE  k \in Below(n)
<1>1. PICK f : /\ f[0] = {}
               /\ \A i \in Nodes : f[i] = {i} \cup f[tree[i].left] \cup f[tree[i].right]
               /\ \A i \in Nodes : Below(i) = f[i] /\ f[i] \subseteq Nodes
  BY BelowIs
<1>2. /\ Root \in Nat /\ Nodes = 1..Root
      /\ \A i \in Nodes : /\ tree[i].left \in 0..(i - 1) /\ tree[i].right \in 0..(i - 1)
                          /\ \A j \in Operands(tree, i) : j # 0 => j \in Nodes /\ j < i
  BY SourceNodes DEF Root, Nodes, Operands
<1> DEFINE Bad == { i \in Nodes : m \in f[i] /\ k \notin f[i] }
<1> SUFFICES ASSUME Bad # {} PROVE FALSE
  BY <1>1
<1>3. PICK i \in Bad : \A j \in Bad : i <= j
  <2>1. Bad \subseteq Nat
    BY <1>2
  <2> QED BY <2>1, LeastElement
<1>4. i \in Nodes /\ m \in f[i] /\ k \notin f[i]
  OBVIOUS
<1>5. CASE m = i
  <2>1. k \in Nodes
    BY <1>2, <1>4, <1>5
  <2>2. k \in f[k]
    BY <1>1, <2>1
  <2>3. f[k] \subseteq f[i]
    BY <1>1, <1>4, <1>5 DEF Operands
  <2> QED BY <1>4, <2>2, <2>3
<1>6. CASE m # i
  <2>1. PICK j \in Operands(tree, i) : m \in f[j]
    BY <1>1, <1>4, <1>6 DEF Operands
  <2>2. j # 0
    BY <1>1, <2>1
  <2>3. j \in Nodes /\ j < i
    BY <1>2, <1>4, <2>1, <2>2
  <2>4. f[j] \subseteq f[i]
    BY <1>1, <1>4, <2>1 DEF Operands
  <2>5. j \in Bad
    BY <1>4, <2>1, <2>3, <2>4
  <2>6. i \in Nat /\ j \in Nat
    BY <1>2, <1>4, <2>3
  <2> HIDE DEF Bad
  <2> QED BY <1>3, <2>3, <2>5, <2>6
<1> QED BY <1>5, <1>6

OwnCursor == [n \in Nodes |-> IF tree[n].kind \in Flattens THEN {} ELSE {n} \cap Tables]
OnlyOperand == [n \in Nodes |-> IF tree[n].kind \in Flattens THEN tree[n].left ELSE 0]
NoOperand == [n \in Nodes |-> 0]

\* What xjd1DataSrcClose finalizes, for all sources at once.
LEMMA FinalizedIs ==
    ASSUME IsSource(tree)
    PROVE  \E f : /\ Finalized = f[Root]
                  /\ \A n \in Nodes :
                        f[n] = IF tree[n].kind \in Flattens THEN f[tree[n].left] ELSE {n} \cap Tables
<1> DEFINE Of(s) == [n \in Nodes |-> IF tree[n].kind \in Flattens THEN s[tree[n].left] ELSE {n} \cap Tables]
           g == CHOOSE s : s = Of(s)
<1>1. /\ Root \in Nat /\ Nodes = 1..Root
      /\ \A n \in Nodes : /\ tree[n].left \in Nat /\ tree[n].left < n
                          /\ tree[n].left # 0 <=> tree[n].kind \notin Leaves
  BY SourceNodes DEF Root, Nodes
<1>2. \A n \in Nodes : tree[n].kind \in Flattens => tree[n].left \in Nodes
  <2> SUFFICES ASSUME NEW n \in Nodes, tree[n].kind \in Flattens PROVE tree[n].left \in Nodes
    OBVIOUS
  <2>1. tree[n].left # 0
    BY <1>1 DEF Flattens, Leaves
  <2>2. tree[n].left \in Nat /\ tree[n].left < n /\ n \in Nat /\ n <= Root
    BY <1>1
  <2>3. tree[n].left \in 1..Root
    BY <1>1, <2>1, <2>2
  <2> QED BY <1>1, <2>3
<1>3. Gathered(OwnCursor, OnlyOperand, NoOperand, Root)
  <2>1. DOMAIN OwnCursor = 1..Root
    BY <1>1 DEF OwnCursor
  <2>2. Descend(OnlyOperand, NoOperand, Root)
    BY <1>1 DEF Descend, OnlyOperand, NoOperand
  <2> QED BY <1>1, <2>1, <2>2, GatherExists
<1>4. PICK f : Gathers(f, OwnCursor, OnlyOperand, NoOperand, Root)
  BY <1>3 DEF Gathered
<1>5. \A n \in Nodes :
        /\ f[0] = {}
        /\ f[n] = OwnCursor[n] \cup f[OnlyOperand[n]] \cup f[NoOperand[n]]
  BY <1>1, <1>4 DEF Gathers
<1>6. ASSUME NEW n \in Nodes
      PROVE  f[n] = IF tree[n].kind \in Flattens THEN f[tree[n].left] ELSE {n} \cap Tables
  <2>1. CASE tree[n].kind \in Flattens
    <3>1. OwnCursor[n] = {} /\ OnlyOperand[n] = tree[n].left /\ NoOperand[n] = 0
      BY <2>1 DEF OwnCursor, OnlyOperand, NoOperand
    <3>2. /\ f[0] = {}
          /\ f[n] = OwnCursor[n] \cup f[OnlyOperand[n]] \cup f[NoOperand[n]]
      BY <1>5, Zenon
    <3>3. f[n] = {} \cup f[tree[n].left] \cup {}
      BY <3>1, <3>2, Zenon
    <3> QED BY <2>1, <3>3
  <2>2. CASE tree[n].kind \notin Flattens
    <3>1. OwnCursor[n] = {n} \cap Tables /\ OnlyOperand[n] = 0 /\ NoOperand[n] = 0
      BY <2>2 DEF OwnCursor, OnlyOperand, NoOperand
    <3>2. f[n] = {n} \cap Tables
      BY <1>5, <3>1
    <3> QED BY <2>2, <3>2
  <2> QED BY <2>1, <2>2
<1> DEFINE u == [n \in Nodes |-> f[n]]
<1>7. u = Of(u)
  <2>1. \A n \in Nodes : tree[n].kind \in Flattens => u[tree[n].left] = f[tree[n].left]
    BY <1>2
  <2>2. u = [n \in Nodes |-> f[n]]
    OBVIOUS
  <2> HIDE DEF u
  <2>3. \A n \in Nodes :
            f[n] = IF tree[n].kind \in Flattens THEN u[tree[n].left] ELSE {n} \cap Tables
    BY <1>6, <2>1
  <2> QED BY <2>2, <2>3
<1>8. g = Of(g)
  <2> HIDE DEF Of, u
  <2> QED BY <1>7
<1>9. Finalized = g[Root]
  BY DEF Finalized
<1> HIDE DEF g
<1>10. \A n \in Nodes :
        g[n] = IF tree[n].kind \in Flattens THEN g[tree[n].left] ELSE {n} \cap Tables
  BY <1>8
<1> QED BY <1>9, <1>10

\* A collection that is below no join is closed.
LEMMA ClosedUnlessJoined ==
    ASSUME IsSource(tree), NEW c \in Tables,
           \A n \in Nodes : tree[n].kind = "JOIN" => c \notin Below(n)
    PROVE  c \in Finalized
<1>1. PICK f : /\ Finalized = f[Root]
               /\ \A n \in Nodes :
                    f[n] = IF tree[n].kind \in Flattens THEN f[tree[n].left] ELSE {n} \cap Tables
  BY FinalizedIs
<1>2. /\ Root \in Nat /\ Nodes = 1..Root
      /\ \A n \in Nodes : /\ tree[n].kind \in Kinds
                          /\ tree[n].left # 0 <=> tree[n].kind \notin Leaves
                          /\ tree[n].right # 0 <=> tree[n].kind = "JOIN"
  BY SourceNodes DEF Root, Nodes
<1> DEFINE From == { n \in Nodes : c \in Below(n) /\ c \in f[n] }
           Depths == { Root - n : n \in From }
<1>3. c \in From
  <2>1. c \in Nodes /\ tree[c].kind = "TABLE"
    BY DEF Tables
  <2>2. c \in Below(c)
    BY <2>1, BelowUp
  <2>3. tree[c].kind \notin Flattens
    BY <2>1 DEF Flattens
  <2>4. f[c] = {c} \cap Tables
    BY <1>1, <2>1, <2>3
  <2> QED BY <2>1, <2>2, <2>4
<1>4. PICK d \in Depths : \A e \in Depths : d <= e
  <2>1. Depths \subseteq Nat /\ Depths # {}
    BY <1>2, <1>3
  <2> QED BY <2>1, LeastElement
<1>5. PICK n \in From : d = Root - n
  OBVIOUS
<1>6. \A m \in From : m <= n
  <2> SUFFICES ASSUME NEW m \in From PROVE m <= n
    OBVIOUS
  <2>1. Root - n <= Root - m
    BY <1>4, <1>5
  <2>2. m \in Nat /\ n \in Nat
    BY <1>2
  <2> QED BY <1>2, <2>1, <2>2
<1>7. n \in Nodes /\ n \in Nat /\ c \in Below(n) /\ c \in f[n]
  BY <1>2
<1>8. CASE n = Root
  BY <1>1, <1>7, <1>8
<1>9. CASE n # Root
  <2>1. PICK m \in Nodes : n \in Operands(tree, m) /\ n < m
    BY <1>7, <1>9, Parents DEF Root, Nodes
  <2>2. c \in Below(m)
    BY <1>7, <2>1, BelowUp
  <2>3. tree[m].kind # "JOIN"
    BY <2>2
  <2>4. n # 0
    BY <1>2, <1>7
  <2>5. tree[m].right = 0 /\ tree[m].left = n
    BY <1>2, <2>1, <2>3, <2>4 DEF Operands
  <2>6. tree[m].kind \in Flattens
    BY <1>2, <2>3, <2>4, <2>5 DEF Kinds
  <2>7. m \in From
    BY <1>1, <1>7, <2>2, <2>5, <2>6
  <2>8. m \in Nat
    BY <1>2
  <2> HIDE DEF From
  <2> QED BY <1>6, <1>7, <2>1, <2>7, <2>8
<1> QED BY <1>8, <1>9

\* And only such a collection is closed: a source whose own call to
\* xjd1DataSrcClose closes t is EACH or FLATTEN over another, or t itself.
LEMMA ClosedIsLone ==
    ASSUME IsSource(tree), NEW t \in Finalized
    PROVE  t \in Tables /\ ~IsBelowJoin(t)
<1>1. PICK f : /\ Finalized = f[Root]
               /\ \A n \in Nodes :
                    f[n] = IF tree[n].kind \in Flattens THEN f[tree[n].left] ELSE {n} \cap Tables
  BY FinalizedIs
<1>2. /\ Root \in Nat /\ Nodes = 1..Root /\ Root \in Nodes
      /\ \A n \in Nodes : /\ tree[n].left \in Nat /\ tree[n].left < n
                          /\ tree[n].left # 0 <=> tree[n].kind \notin Leaves
                          /\ tree[n].right # 0 <=> tree[n].kind = "JOIN"
  BY SourceNodes DEF Root, Nodes
<1> DEFINE Closing == { n \in Nodes : t \in f[n] }
<1>3. Root \in Closing
  BY <1>1, <1>2
<1>4. ASSUME NEW n \in Closing
      PROVE  \/ tree[n].kind \in Flattens /\ tree[n].left \in Closing
             \/ tree[n].kind = "TABLE" /\ n = t
  <2>1. n \in Nodes /\ t \in f[n]
    OBVIOUS
  <2>2. CASE tree[n].kind \in Flattens
    <3>1. t \in f[tree[n].left]
      BY <1>1, <2>1, <2>2
    <3>2. tree[n].left # 0
      BY <1>2, <2>1, <2>2 DEF Flattens, Leaves
    <3>3. tree[n].left \in Nodes
      BY <1>2, <2>1, <3>2
    <3> QED BY <2>2, <3>1, <3>3
  <2>3. CASE tree[n].kind \notin Flattens
    <3>1. t \in {n} \cap Tables
      BY <1>1, <2>1, <2>3
    <3> QED BY <3>1 DEF Tables
  <2> QED BY <2>2, <2>3
<1>5. t \in Tables
  <2>1. Closing \subseteq Nat /\ Closing # {}
    BY <1>2, <1>3
  <2> HIDE DEF Closing
  <2>2. PICK n \in Closing : \A m \in Closing : n <= m
    BY <2>1, LeastElement
  <2>3. n \in Nodes /\ n \in Nat
    BY <1>2 DEF Closing
  <2>4. tree[n].left \notin Closing
    BY <1>2, <2>1, <2>2, <2>3
  <2>5. tree[n].kind = "TABLE" /\ n = t
    BY <1>4, <2>4
  <2> QED BY <2>3, <2>5 DEF Tables
<1> DEFINE Apart == { n \in Nodes : t \in Below(n) /\ n \notin Closing }
           Depths == { Root - n : n \in Apart }
<1>6. ASSUME NEW j \in Nodes, tree[j].kind = "JOIN", t \in Below(j) PROVE FALSE
  <2>1. j \in Apart
    BY <1>4, <1>6 DEF Flattens
  <2>2. PICK d \in Depths : \A e \in Depths : d <= e
    <3>1. Depths \subseteq Nat /\ Depths # {}
      <4> HIDE DEF Closing
      <4> QED BY <1>2, <2>1
    <3> HIDE DEF Depths
    <3> QED BY <3>1, LeastElement
  <2>3. PICK n \in Apart : d = Root - n
    OBVIOUS
  <2>4. n \in Nodes /\ n \in Nat /\ t \in Below(n) /\ n \notin Closing /\ n # 0 /\ n # Root
    BY <1>2, <1>3
  <2>5. PICK m \in Nodes : n \in Operands(tree, m) /\ n < m
    BY <2>4, Parents DEF Root, Nodes
  <2>6. t \in Below(m)
    BY <2>4, <2>5, BelowUp
  <2>7. m \in Nat /\ m > n
    BY <1>2, <2>4, <2>5
  <2>8. m \notin Apart
    <3> SUFFICES ASSUME m \in Apart PROVE FALSE
      OBVIOUS
    <3>1. Root - n <= Root - m
      BY <2>2, <2>3
    <3> QED BY <1>2, <2>4, <2>7, <3>1
  <2>9. m \in Closing
    BY <2>6, <2>8
  <2>10. CASE tree[m].kind \in Flattens /\ tree[m].left \in Closing
    <3>1. tree[m].right = 0
      BY <1>2, <2>10 DEF Flattens
    <3>2. n = tree[m].left
      BY <2>4, <2>5, <3>1 DEF Operands
    <3> QED BY <2>4, <2>10, <3>2
  <2>11. CASE tree[m].kind = "TABLE"
    <3>1. tree[m].left = 0 /\ tree[m].right = 0
      BY <1>2, <2>11 DEF Leaves
    <3> QED BY <2>4, <2>5, <3>1 DEF Operands
  <2> QED BY <1>4, <2>9, <2>10, <2>11
<1> QED BY <1>5, <1>6 DEF IsBelowJoin

-----------------------------------------------------------------------------
(* Numbers and names *)

\* S has each node of a tree whose operands it has.
Inherited(t, S) ==
    \A n \in DOMAIN t : (\A m \in Operands(t, n) \cap DOMAIN t : m \in S) => n \in S

\* Then it has all.
LEMMA TreeInduction ==
    ASSUME NEW t, IsSource(t), NEW S, Inherited(t, S)
    PROVE  DOMAIN t \subseteq S
<1> DEFINE Bad == DOMAIN t \ S
<1> SUFFICES ASSUME Bad # {} PROVE FALSE
  OBVIOUS
<1>1. DOMAIN t = 1..Len(t) /\ Len(t) \in Nat
  BY SourceNodes
<1>2. PICK n \in Bad : \A m \in Bad : n <= m
  <2>1. Bad \subseteq Nat
    BY <1>1
  <2> QED BY <2>1, LeastElement
<1>3. PICK m \in Operands(t, n) \cap DOMAIN t : m \notin S
  BY DEF Inherited
<1>4. m < n /\ m \in Nat /\ n \in Nat
  BY <1>1, <1>3, SourceNodes DEF Operands
<1>5. n <= m
  BY <1>2, <1>3
<1> QED BY <1>4, <1>5

\* The sources of each subtree from left to right.
LEMMA EntriesAre ==
    ASSUME IsSource(tree)
    PROVE  \E e \in [Nodes -> Seq(Nodes)] :
                /\ Entries = e[Root]
                /\ \A n \in Nodes :
                    e[n] = IF tree[n].kind = "JOIN" THEN e[tree[n].left] \o e[tree[n].right] ELSE <<n>>
<1> DEFINE Of(s) == [n \in Nodes |-> IF tree[n].kind = "JOIN" THEN s[tree[n].left] \o s[tree[n].right] ELSE <<n>>]
           g == CHOOSE s : s = Of(s)
           V == Seq(Nodes)
           StepOf(n, x, y) == IF tree[n].kind = "JOIN" THEN x \o y ELSE <<n>>
           step == [n \in 1..Root |-> [pair \in V \X V |-> StepOf(n, pair[1], pair[2])]]
<1>1. /\ Root \in Nat /\ Nodes = 1..Root
      /\ \A n \in Nodes : /\ tree[n].left \in 0..(n - 1) /\ tree[n].right \in 0..(n - 1)
                          /\ tree[n].kind = "JOIN" => tree[n].left \in Nodes /\ tree[n].right \in Nodes
  <2>1. /\ Root \in Nat /\ Nodes = 1..Root
        /\ \A n \in Nodes : tree[n].left \in 0..(n - 1) /\ tree[n].right \in 0..(n - 1)
    BY SourceNodes DEF Root, Nodes
  <2> QED BY <2>1, OperandNodes
<1>2. \A n \in Nodes : \A x, y \in V : StepOf(n, x, y) \in V
  OBVIOUS
<1> HIDE DEF V, StepOf
<1>3. step \in [1..Root -> [V \X V -> V]]
  <2>1. ASSUME NEW n \in 1..Root
        PROVE  [pair \in V \X V |-> StepOf(n, pair[1], pair[2])] \in [V \X V -> V]
    <3> SUFFICES ASSUME NEW pair \in V \X V PROVE StepOf(n, pair[1], pair[2]) \in V
      OBVIOUS
    <3>1. pair[1] \in V /\ pair[2] \in V
      OBVIOUS
    <3> QED BY <1>1, <1>2, <3>1
  <2> QED BY <2>1
<1>4. \A n \in 1..Root : \A x, y \in V : step[n][<<x, y>>] = StepOf(n, x, y)
  OBVIOUS
<1> HIDE DEF step
<1>5. Folded(step, Lefts, Rights, V, <<>>, Root)
  <2>1. Descend(Lefts, Rights, Root)
    BY <1>1 DEF Descend, Lefts, Rights
  <2>2. <<>> \in V
    BY DEF V
  <2> QED BY <1>1, <1>3, <2>1, <2>2, FoldExists
<1>6. PICK f \in [0..Root -> V] : Folds(f, step, Lefts, Rights, <<>>, Root)
  BY <1>5 DEF Folded
<1>7. \A n \in Nodes : f[n] \in V /\ f[n] = StepOf(n, f[tree[n].left], f[tree[n].right])
  <2> SUFFICES ASSUME NEW n \in Nodes
               PROVE  f[n] \in V /\ f[n] = StepOf(n, f[tree[n].left], f[tree[n].right])
    OBVIOUS
  <2>1. n \in 0..Root /\ tree[n].left \in 0..Root /\ tree[n].right \in 0..Root
    BY <1>1
  <2>2. PICK x \in V, y \in V : x = f[tree[n].left] /\ y = f[tree[n].right]
    BY <2>1
  <2>3. f[n] = step[n][<<x, y>>]
    BY <1>1, <1>6, <2>2 DEF Folds, Lefts, Rights
  <2>4. step[n][<<x, y>>] = StepOf(n, x, y)
    BY <1>1, <1>4
  <2> QED BY <2>1, <2>2, <2>3, <2>4
<1> DEFINE u == [n \in Nodes |-> f[n]]
<1>8. u = Of(u)
  <2>1. \A n \in Nodes : tree[n].kind = "JOIN" =>
            u[tree[n].left] = f[tree[n].left] /\ u[tree[n].right] = f[tree[n].right]
    BY <1>1
  <2>2. u = [n \in Nodes |-> f[n]]
    OBVIOUS
  <2> HIDE DEF u
  <2>3. \A n \in Nodes :
            f[n] = IF tree[n].kind = "JOIN" THEN u[tree[n].left] \o u[tree[n].right] ELSE <<n>>
    BY <1>7, <2>1 DEF StepOf
  <2> QED BY <2>2, <2>3
<1>9. g = Of(g)
  <2> HIDE DEF Of, u
  <2> QED BY <1>8
<1>10. Entries = g[Root]
  BY DEF Entries
<1> HIDE DEF g, u
<1>11. \A n \in Nodes :
        g[n] = IF tree[n].kind = "JOIN" THEN g[tree[n].left] \o g[tree[n].right] ELSE <<n>>
  BY <1>9
<1>12. g \in [Nodes -> V]
  <2> DEFINE S == { n \in Nodes : g[n] \in V }
  <2>1. ASSUME NEW n \in Nodes, \A m \in Operands(tree, n) \cap Nodes : m \in S PROVE g[n] \in V
    <3>1. CASE tree[n].kind = "JOIN"
      <4>1. g[tree[n].left] \in V /\ g[tree[n].right] \in V
        BY <1>1, <2>1, <3>1 DEF Operands
      <4>2. g[n] = g[tree[n].left] \o g[tree[n].right]
        BY <1>11, <3>1, Zenon
      <4>3. \A x, y \in V : x \o y \in V
        BY DEF V
      <4> QED BY <4>1, <4>2, <4>3
    <3>2. CASE tree[n].kind # "JOIN"
      <4>1. g[n] = <<n>>
        BY <1>11, <3>2, Zenon
      <4>2. <<n>> \in V
        BY DEF V
      <4> QED BY <4>1, <4>2
    <3> QED BY <3>1, <3>2
  <2>2. PICK t, T : t = tree /\ T = S
    OBVIOUS
  <2>3. Inherited(t, T)
    BY <2>1, <2>2 DEF Inherited, Nodes
  <2>4. DOMAIN t \subseteq T
    BY <2>2, <2>3, TreeInduction
  <2>5. \A n \in Nodes : g[n] \in V
    BY <2>2, <2>4 DEF Nodes
  <2>6. g = [n \in Nodes |-> g[n]]
    BY <1>9
  <2> QED BY <2>5, <2>6
<1> QED BY <1>10, <1>11, <1>12 DEF V

\* xjd1DataSrcCount counts the sources that xjd1DataSrcCacheSave saves.
LEMMA CountIs ==
    ASSUME IsSource(tree), NEW e \in [Nodes -> Seq(Nodes)],
           \A n \in Nodes :
               e[n] = IF tree[n].kind = "JOIN" THEN e[tree[n].left] \o e[tree[n].right] ELSE <<n>>
    PROVE  Count = Len(e[Root])
<1> DEFINE Of(s) == [n \in Nodes |-> IF tree[n].kind = "JOIN" THEN s[tree[n].left] + s[tree[n].right] ELSE 1]
           g == CHOOSE s : s = Of(s)
           u == [n \in Nodes |-> Len(e[n])]
<1>1. \A n \in Nodes : tree[n].kind = "JOIN" => tree[n].left \in Nodes /\ tree[n].right \in Nodes
  BY OperandNodes
<1>2. ASSUME NEW n \in Nodes
      PROVE  Len(e[n]) = IF tree[n].kind = "JOIN" THEN Len(e[tree[n].left]) + Len(e[tree[n].right]) ELSE 1
  <2>1. CASE tree[n].kind = "JOIN"
    <3>1. e[tree[n].left] \in Seq(Nodes) /\ e[tree[n].right] \in Seq(Nodes)
      BY <1>1, <2>1
    <3>2. \A x, y \in Seq(Nodes) : Len(x \o y) = Len(x) + Len(y)
      OBVIOUS
    <3>3. e[n] = e[tree[n].left] \o e[tree[n].right]
      BY <2>1, Zenon
    <3> QED BY <2>1, <3>1, <3>2, <3>3
  <2>2. CASE tree[n].kind # "JOIN"
    <3>1. e[n] = <<n>>
      BY <2>2, Zenon
    <3> QED BY <2>2, <3>1
  <2> QED BY <2>1, <2>2
<1>3. u = Of(u)
  <2>1. \A n \in Nodes : u[n] = Len(e[n])
    OBVIOUS
  <2>2. u = [n \in Nodes |-> Len(e[n])]
    OBVIOUS
  <2> HIDE DEF u
  <2>3. \A n \in Nodes :
            Len(e[n]) = IF tree[n].kind = "JOIN" THEN u[tree[n].left] + u[tree[n].right] ELSE 1
    BY <1>1, <1>2, <2>1
  <2> QED BY <2>2, <2>3
<1>4. g = Of(g)
  <2> HIDE DEF Of, u
  <2> QED BY <1>3
<1>5. Count = g[Root]
  BY DEF Count
<1> HIDE DEF g, u
<1>6. \A n \in Nodes :
        g[n] = IF tree[n].kind = "JOIN" THEN g[tree[n].left] + g[tree[n].right] ELSE 1
  BY <1>4
<1>7. \A n \in Nodes : g[n] = Len(e[n])
  <2>1. PICK t, T : t = tree /\ T = { n \in Nodes : g[n] = Len(e[n]) }
    OBVIOUS
  <2>2. ASSUME NEW n \in Nodes, \A m \in Operands(tree, n) \cap Nodes : m \in T PROVE n \in T
    <3>1. CASE tree[n].kind = "JOIN"
      <4>1. tree[n].left \in T /\ tree[n].right \in T
        BY <1>1, <2>2, <3>1 DEF Operands
      <4> QED BY <1>2, <1>6, <2>1, <3>1, <4>1
    <3>2. CASE tree[n].kind # "JOIN"
      BY <1>2, <1>6, <2>1, <3>2
    <3> QED BY <3>1, <3>2
  <2>3. Inherited(t, T)
    BY <2>1, <2>2 DEF Inherited, Nodes
  <2> QED BY <2>1, <2>3, TreeInduction DEF Nodes
<1>8. Root \in Nodes
  BY SourceNodes DEF Root, Nodes
<1> QED BY <1>5, <1>7, <1>8

\* The name of EACH or FLATTEN is that of what it is applied to.
LEMMA NameOfIs ==
    ASSUME IsSource(tree)
    PROVE  \A n \in Nodes :
                NameOf(n) = IF tree[n].kind \in Flattens THEN NameOf(tree[n].left) ELSE tree[n].name
<1> DEFINE Of(s) == [n \in Nodes |-> IF tree[n].kind \in Flattens THEN s[tree[n].left] ELSE tree[n].name]
           g == CHOOSE s : s = Of(s)
           V == { tree[n].name : n \in Nodes }
           StepOf(n, x) == IF tree[n].kind \in Flattens THEN x ELSE tree[n].name
           step == [n \in 1..Root |-> [pair \in V \X V |-> StepOf(n, pair[1])]]
<1>1. /\ Root \in Nat /\ Nodes = 1..Root /\ Root \in Nodes
      /\ \A n \in Nodes : /\ tree[n].left \in 0..(n - 1) /\ tree[n].right \in 0..(n - 1)
                          /\ tree[n].kind \in Flattens => tree[n].left \in Nodes
  <2>1. /\ Root \in Nat /\ Nodes = 1..Root /\ Root \in Nodes
        /\ \A n \in Nodes : tree[n].left \in 0..(n - 1) /\ tree[n].right \in 0..(n - 1)
    BY SourceNodes DEF Root, Nodes
  <2> QED BY <2>1, OperandNodes
<1>2. /\ \A n \in Nodes : \A x \in V : StepOf(n, x) \in V
      /\ tree[Root].name \in V
  BY <1>1
<1> HIDE DEF V, StepOf
<1>3. step \in [1..Root -> [V \X V -> V]]
  <2>1. ASSUME NEW n \in 1..Root
        PROVE  [pair \in V \X V |-> StepOf(n, pair[1])] \in [V \X V -> V]
    <3> SUFFICES ASSUME NEW pair \in V \X V PROVE StepOf(n, pair[1]) \in V
      OBVIOUS
    <3>1. pair[1] \in V
      OBVIOUS
    <3> QED BY <1>1, <1>2, <3>1
  <2> QED BY <2>1
<1>4. \A n \in 1..Root : \A x, y \in V : step[n][<<x, y>>] = StepOf(n, x)
  OBVIOUS
<1> HIDE DEF step
<1>5. PICK none \in V : none = tree[Root].name
  BY <1>2
<1>6. Folded(step, Lefts, Rights, V, none, Root)
  <2>1. Descend(Lefts, Rights, Root)
    BY <1>1 DEF Descend, Lefts, Rights
  <2> QED BY <1>1, <1>3, <2>1, FoldExists
<1>7. PICK f \in [0..Root -> V] : Folds(f, step, Lefts, Rights, none, Root)
  BY <1>6 DEF Folded
<1>8. \A n \in Nodes : f[n] = StepOf(n, f[tree[n].left])
  <2> SUFFICES ASSUME NEW n \in Nodes PROVE f[n] = StepOf(n, f[tree[n].left])
    OBVIOUS
  <2>1. n \in 0..Root /\ tree[n].left \in 0..Root /\ tree[n].right \in 0..Root
    BY <1>1
  <2>2. PICK x \in V, y \in V : x = f[tree[n].left] /\ y = f[tree[n].right]
    BY <2>1
  <2>3. f[n] = step[n][<<x, y>>]
    BY <1>1, <1>7, <2>2 DEF Folds, Lefts, Rights
  <2>4. step[n][<<x, y>>] = StepOf(n, x)
    BY <1>1, <1>4
  <2> QED BY <2>2, <2>3, <2>4
<1> DEFINE u == [n \in Nodes |-> f[n]]
<1>9. u = Of(u)
  <2>1. \A n \in Nodes : tree[n].kind \in Flattens => u[tree[n].left] = f[tree[n].left]
    BY <1>1
  <2>2. u = [n \in Nodes |-> f[n]]
    OBVIOUS
  <2> HIDE DEF u
  <2>3. \A n \in Nodes : f[n] = IF tree[n].kind \in Flattens THEN u[tree[n].left] ELSE tree[n].name
    BY <1>8, <2>1 DEF StepOf
  <2> QED BY <2>2, <2>3
<1>10. g = Of(g)
  <2> HIDE DEF Of, u
  <2> QED BY <1>9
<1>11. \A n : NameOf(n) = g[n]
  BY DEF NameOf
<1> HIDE DEF g, u
<1>12. \A n \in Nodes : g[n] = IF tree[n].kind \in Flattens THEN g[tree[n].left] ELSE tree[n].name
  BY <1>10
<1> QED BY <1>11, <1>12

\* The source of x, a list of sources the first of which has the number k, that
\* the document doc is read from.
ReadFrom(x, v, doc, k) ==
    IF doc - k + 1 \in 1..Len(x) /\ v[x[doc - k + 1]] # NoValue
    THEN [ret |-> v[x[doc - k + 1]], entry |-> doc + 1]
    ELSE [ret |-> NoValue, entry |-> k + Len(x)]

\* A source that is no join.
LEMMA ReadOne ==
    ASSUME NEW n, NEW v, NEW doc \in Nat, NEW k \in Numbers
    PROVE  ReadFrom(<<n>>, v, doc, k) = [ret |-> IF k = doc THEN v[n] ELSE NoValue, entry |-> k + 1]
<1>1. k \in Nat /\ Len(<<n>>) = 1
  BY DEF Numbers
<1>2. CASE k = doc
  <2>1. doc - k + 1 = 1 /\ 1 \in 1..1 /\ doc + 1 = k + 1
    BY <1>1, <1>2
  <2>2. <<n>>[doc - k + 1] = n
    BY <2>1
  <2> QED BY <1>1, <1>2, <2>1, <2>2 DEF ReadFrom
<1>3. CASE k # doc
  <2>1. doc - k + 1 \notin 1..1
    BY <1>1, <1>3
  <2> QED BY <1>1, <1>3, <2>1 DEF ReadFrom
<1> QED BY <1>2, <1>3

\* The left operand of a join, and then the right one, if nothing is read.
LEMMA ReadBoth ==
    ASSUME NEW N, NEW x \in Seq(N), NEW y \in Seq(N), NEW v, NEW doc \in Nat, NEW k \in Numbers,
           NEW l, l = ReadFrom(x, v, doc, k)
    PROVE  /\ l.ret = NoValue => l.entry \in Numbers
           /\ ReadFrom(x \o y, v, doc, k) =
                IF l.ret # NoValue THEN l ELSE ReadFrom(y, v, doc, l.entry)
<1>1. /\ k \in Nat /\ k > 0 /\ Len(x) \in Nat /\ Len(y) \in Nat
      /\ Len(x \o y) = Len(x) + Len(y)
      /\ \A j \in 1..Len(x) : (x \o y)[j] = x[j]
      /\ \A j \in 1..Len(y) : (x \o y)[Len(x) + j] = y[j]
  BY DEF Numbers
<1>2. PICK z, i, a, b : z = x \o y /\ i = doc - k + 1 /\ a = Len(x) /\ b = Len(y)
  OBVIOUS
<1>3. i \in Int /\ a \in Nat /\ b \in Nat /\ Len(z) = a + b
  BY <1>1, <1>2
<1>4. CASE i \in 1..a
  <2>1. i \in 1..(a + b) /\ z[i] = x[i]
    BY <1>1, <1>2, <1>3, <1>4
  <2>2. CASE v[x[i]] # NoValue
    <3>1. l = [ret |-> v[x[i]], entry |-> doc + 1]
      BY <1>2, <1>4, <2>2 DEF ReadFrom
    <3>2. ReadFrom(z, v, doc, k) = [ret |-> v[x[i]], entry |-> doc + 1]
      BY <1>2, <1>3, <2>1, <2>2 DEF ReadFrom
    <3> QED BY <1>2, <2>2, <3>1, <3>2
  <2>3. CASE v[x[i]] = NoValue
    <3>1. l = [ret |-> NoValue, entry |-> k + a]
      BY <1>2, <1>4, <2>3 DEF ReadFrom
    <3>2. ReadFrom(z, v, doc, k) = [ret |-> NoValue, entry |-> k + (a + b)]
      BY <1>2, <1>3, <2>1, <2>3 DEF ReadFrom
    <3>3. doc - (k + a) + 1 \notin 1..b /\ k + a \in Numbers /\ (k + a) + b = k + (a + b)
      BY <1>1, <1>2, <1>3, <1>4 DEF Numbers
    <3>4. ReadFrom(y, v, doc, k + a) = [ret |-> NoValue, entry |-> (k + a) + b]
      BY <1>2, <3>3 DEF ReadFrom
    <3>5. l.ret = NoValue /\ l.entry = k + a
      BY <3>1
    <3> QED BY <1>2, <3>2, <3>3, <3>4, <3>5
  <2> QED BY <2>2, <2>3
<1>5. CASE i \notin 1..a
  <2>1. l = [ret |-> NoValue, entry |-> k + a]
    BY <1>2, <1>5 DEF ReadFrom
  <2>2. l.ret = NoValue /\ l.entry = k + a /\ k + a \in Numbers
    BY <1>1, <1>3, <2>1 DEF Numbers
  <2>3. PICK j : j = doc - (k + a) + 1
    OBVIOUS
  <2>4. j = i - a /\ (j \in 1..b <=> i \in 1..(a + b)) /\ (k + a) + b = k + (a + b)
    BY <1>1, <1>2, <1>3, <1>5, <2>3
  <2>5. j \in 1..b => z[i] = y[j]
    <3> SUFFICES ASSUME j \in 1..b PROVE z[i] = y[j]
      OBVIOUS
    <3>1. a + j = i
      BY <1>3, <2>4
    <3> QED BY <1>1, <1>2, <3>1
  <2>6. ReadFrom(z, v, doc, k) = ReadFrom(y, v, doc, k + a)
    <3>1. CASE j \in 1..b /\ v[y[j]] # NoValue
      <4>1. ReadFrom(z, v, doc, k) = [ret |-> v[y[j]], entry |-> doc + 1]
        BY <1>2, <1>3, <2>4, <2>5, <3>1 DEF ReadFrom
      <4>2. ReadFrom(y, v, doc, k + a) = [ret |-> v[y[j]], entry |-> doc + 1]
        BY <1>2, <2>3, <3>1 DEF ReadFrom
      <4> QED BY <4>1, <4>2
    <3>2. CASE ~(j \in 1..b /\ v[y[j]] # NoValue)
      <4>1. ReadFrom(z, v, doc, k) = [ret |-> NoValue, entry |-> k + (a + b)]
        BY <1>2, <1>3, <2>4, <2>5, <3>2 DEF ReadFrom
      <4>2. ReadFrom(y, v, doc, k + a) = [ret |-> NoValue, entry |-> (k + a) + b]
        BY <1>2, <2>3, <3>2 DEF ReadFrom
      <4> QED BY <2>4, <4>1, <4>2
    <3> QED BY <3>1, <3>2
  <2> QED BY <1>2, <2>2, <2>6
<1> QED BY <1>4, <1>5

\* xjd1DataSrcRead reads the source that the number is that of, or nothing.
LEMMA ReadIs ==
    ASSUME IsSource(tree), NEW e \in [Nodes -> Seq(Nodes)],
           \A n \in Nodes :
               e[n] = IF tree[n].kind = "JOIN" THEN e[tree[n].left] \o e[tree[n].right] ELSE <<n>>,
           NEW doc \in 1..Len(e[Root])
    PROVE  Read(doc) = val[e[Root][doc]]
<1> DEFINE Body(n, a, b) ==
                [entry \in Numbers |->
                    IF tree[n].kind = "JOIN"
                    THEN LET l == a[entry]
                         IN  IF l.ret # NoValue THEN l ELSE b[l.entry]
                    ELSE [ret |-> IF entry = doc THEN val[n] ELSE NoValue, entry |-> entry + 1]]
           Of(s) == [n \in Nodes |-> Body(n, s[tree[n].left], s[tree[n].right])]
           g == CHOOSE s : s = Of(s)
<1>1. /\ \A n \in Nodes : tree[n].kind = "JOIN" => tree[n].left \in Nodes /\ tree[n].right \in Nodes
      /\ Root \in Nodes /\ doc \in Nat
  <2>1. \A n \in Nodes : tree[n].kind = "JOIN" => tree[n].left \in Nodes /\ tree[n].right \in Nodes
    BY OperandNodes
  <2>2. Root \in Nodes
    BY SourceNodes DEF Root, Nodes
  <2>3. Len(e[Root]) \in Nat
    BY <2>2
  <2> QED BY <2>1, <2>2, <2>3
<1>2. PICK v : v = val
  OBVIOUS
<1> DEFINE u == [n \in Nodes |-> [k \in Numbers |-> ReadFrom(e[n], v, doc, k)]]
<1>3. \A n \in Nodes : \A k \in Numbers : u[n][k] = ReadFrom(e[n], v, doc, k)
  OBVIOUS
<1>4. \A n \in Nodes : u[n] = [k \in Numbers |-> ReadFrom(e[n], v, doc, k)]
  OBVIOUS
<1>5. u = [n \in Nodes |-> u[n]]
  OBVIOUS
<1> HIDE DEF u
<1>6. ASSUME NEW n \in Nodes PROVE u[n] = Body(n, u[tree[n].left], u[tree[n].right])
  <2>1. ASSUME NEW k \in Numbers, tree[n].kind = "JOIN"
        PROVE  u[n][k] = LET l == u[tree[n].left][k]
                         IN  IF l.ret # NoValue THEN l ELSE u[tree[n].right][l.entry]
    <3>1. PICK x \in Seq(Nodes), y \in Seq(Nodes) : x = e[tree[n].left] /\ y = e[tree[n].right]
      BY <1>1, <2>1
    <3>2. e[n] = x \o y
      BY <2>1, <3>1, Zenon
    <3>3. PICK l : l = ReadFrom(x, v, doc, k)
      OBVIOUS
    <3>4. u[tree[n].left][k] = l
      BY <1>1, <1>3, <2>1, <3>1, <3>3
    <3>5. /\ l.ret = NoValue => l.entry \in Numbers
          /\ ReadFrom(x \o y, v, doc, k) =
                IF l.ret # NoValue THEN l ELSE ReadFrom(y, v, doc, l.entry)
      BY <1>1, <3>3, ReadBoth
    <3>6. l.ret = NoValue => u[tree[n].right][l.entry] = ReadFrom(y, v, doc, l.entry)
      BY <1>1, <1>3, <2>1, <3>1, <3>5
    <3>7. u[n][k] = IF l.ret # NoValue THEN l ELSE u[tree[n].right][l.entry]
      BY <1>3, <3>2, <3>5, <3>6
    <3> QED BY <3>4, <3>7
  <2>2. ASSUME NEW k \in Numbers, tree[n].kind # "JOIN"
        PROVE  u[n][k] = [ret |-> IF k = doc THEN val[n] ELSE NoValue, entry |-> k + 1]
    <3>1. e[n] = <<n>>
      BY <2>2, Zenon
    <3>2. ReadFrom(<<n>>, v, doc, k) = [ret |-> IF k = doc THEN v[n] ELSE NoValue, entry |-> k + 1]
      BY <1>1, ReadOne
    <3> QED BY <1>2, <1>3, <3>1, <3>2
  <2>3. u[n] = [k \in Numbers |-> u[n][k]]
    BY <1>4
  <2>4. CASE tree[n].kind = "JOIN"
    BY <2>1, <2>3, <2>4
  <2>5. CASE tree[n].kind # "JOIN"
    BY <2>2, <2>3, <2>5
  <2> QED BY <2>4, <2>5
<1>7. \A n \in Nodes : tree[n].kind # "JOIN" => \A a, b, c, d : Body(n, a, b) = Body(n, c, d)
  OBVIOUS
<1>8. Read(doc) = g[Root][1].ret
  BY DEF Read
<1> HIDE DEF Body
<1>9. u = Of(u)
  BY <1>5, <1>6
<1>10. g = Of(g)
  <2> HIDE DEF Of
  <2> QED BY <1>9
<1> HIDE DEF g
<1>11. \A n \in Nodes : g[n] = Body(n, g[tree[n].left], g[tree[n].right])
  BY <1>10
<1>12. g[Root] = u[Root]
  <2>1. PICK t, T : t = tree /\ T = { n \in Nodes : g[n] = u[n] }
    OBVIOUS
  <2>2. ASSUME NEW n \in Nodes, \A m \in Operands(tree, n) \cap Nodes : m \in T PROVE n \in T
    <3>1. CASE tree[n].kind = "JOIN"
      <4>1. tree[n].left \in T /\ tree[n].right \in T
        BY <1>1, <2>2, <3>1 DEF Operands
      <4>2. g[tree[n].left] = u[tree[n].left] /\ g[tree[n].right] = u[tree[n].right]
        BY <2>1, <4>1
      <4> QED BY <1>6, <1>11, <2>1, <4>2
    <3>2. CASE tree[n].kind # "JOIN"
      <4>1. Body(n, g[tree[n].left], g[tree[n].right]) = Body(n, u[tree[n].left], u[tree[n].right])
        BY <1>7, <3>2
      <4> QED BY <1>6, <1>11, <2>1, <4>1
    <3> QED BY <3>1, <3>2
  <2>3. Inherited(t, T)
    BY <2>1, <2>2 DEF Inherited, Nodes
  <2> QED BY <1>1, <2>1, <2>3, TreeInduction DEF Nodes
<1>13. 1 \in Numbers
  BY DEF Numbers
<1>14. Read(doc) = ReadFrom(e[Root], v, doc, 1).ret
  BY <1>1, <1>3, <1>8, <1>12, <1>13
<1>15. ReadFrom(e[Root], v, doc, 1).ret = v[e[Root][doc]]
  <2>1. doc - 1 + 1 = doc
    BY <1>1
  <2>2. CASE v[e[Root][doc]] = NoValue
    <3>1. ReadFrom(e[Root], v, doc, 1) = [ret |-> NoValue, entry |-> 1 + Len(e[Root])]
      BY <2>1, <2>2 DEF ReadFrom
    <3> QED BY <2>2, <3>1
  <2>3. CASE v[e[Root][doc]] # NoValue
    <3>1. ReadFrom(e[Root], v, doc, 1) = [ret |-> v[e[Root][doc]], entry |-> doc + 1]
      BY <2>1, <2>3 DEF ReadFrom
    <3> QED BY <3>1
  <2> QED BY <2>2, <2>3
<1> QED BY <1>2, <1>14, <1>15

\* The least of some numbers.
LeastOf(S) == CHOOSE j \in S : \A i \in S : j <= i

LEMMA LeastIs ==
    ASSUME NEW S, S \subseteq Nat, S # {}
    PROVE  /\ LeastOf(S) \in S /\ \A i \in S : LeastOf(S) <= i
           /\ \A j \in S : (\A i \in S : j <= i) => j = LeastOf(S)
<1>1. LeastOf(S) \in S /\ \A i \in S : LeastOf(S) <= i
  BY LeastElement DEF LeastOf
<1>2. ASSUME NEW j \in S, \A i \in S : j <= i PROVE j = LeastOf(S)
  <2>1. j <= LeastOf(S) /\ LeastOf(S) <= j
    BY <1>1, <1>2
  <2>2. j \in Nat /\ LeastOf(S) \in Nat
    BY <1>1
  <2> QED BY <2>1, <2>2
<1> QED BY <1>1, <1>2

\* The places of x, a list of sources, that have a name.
Named(x, names, name) == { j \in 1..Len(x) : names[x[j]] = name }

\* The source with a number is found.
Found(number) == [ret |-> number, entry |-> number + 1]

\* What a name means in x, if the first source of x has the number k.
FindFrom(x, names, name, k) ==
    IF Named(x, names, name) = {}
    THEN [ret |-> 0, entry |-> k + Len(x)]
    ELSE Found(k + LeastOf(Named(x, names, name)) - 1)

\* A source that is no join.
LEMMA FindOne ==
    ASSUME NEW n, NEW names, NEW name, NEW k \in Numbers
    PROVE  FindFrom(<<n>>, names, name, k) =
                [ret |-> IF names[n] = name THEN k ELSE 0, entry |-> k + 1]
<1>1. k \in Nat /\ Len(<<n>>) = 1 /\ <<n>>[1] = n /\ \A j \in 1..1 : j = 1
  BY DEF Numbers
<1>2. PICK S : S = Named(<<n>>, names, name)
  OBVIOUS
<1>3. CASE names[n] = name
  <2>1. S = {1}
    BY <1>1, <1>2, <1>3 DEF Named
  <2>2. LeastOf(S) = 1
    BY <2>1, LeastIs
  <2>3. k + 1 - 1 = k
    BY <1>1
  <2>4. FindFrom(<<n>>, names, name, k) = Found(k)
    BY <1>2, <2>1, <2>2, <2>3 DEF FindFrom
  <2> QED BY <1>3, <2>4 DEF Found
<1>4. CASE names[n] # name
  <2>1. S = {}
    BY <1>1, <1>2, <1>4 DEF Named
  <2> QED BY <1>1, <1>2, <1>4, <2>1 DEF FindFrom
<1> QED BY <1>3, <1>4

\* The left operand of a join, and then the right one, if the name is not in it.
LEMMA FindBoth ==
    ASSUME NEW N, NEW x \in Seq(N), NEW y \in Seq(N), NEW names, NEW name, NEW k \in Numbers,
           NEW l, l = FindFrom(x, names, name, k)
    PROVE  /\ l.ret = 0 => l.entry \in Numbers
           /\ FindFrom(x \o y, names, name, k) =
                IF l.ret # 0 THEN l ELSE FindFrom(y, names, name, l.entry)
<1>1. /\ k \in Nat /\ k > 0 /\ Len(x) \in Nat /\ Len(y) \in Nat
      /\ Len(x \o y) = Len(x) + Len(y)
      /\ \A j \in 1..Len(x) : (x \o y)[j] = x[j]
      /\ \A j \in 1..Len(y) : (x \o y)[Len(x) + j] = y[j]
  BY DEF Numbers
<1>2. PICK z, a, b, S, T, Z :
        /\ z = x \o y /\ a = Len(x) /\ b = Len(y)
        /\ S = Named(x, names, name) /\ T = Named(y, names, name) /\ Z = Named(z, names, name)
  OBVIOUS
<1>3. a \in Nat /\ b \in Nat /\ Len(z) = a + b /\ S \subseteq 1..a /\ T \subseteq 1..b /\ Z \subseteq 1..(a + b)
  BY <1>1, <1>2 DEF Named
<1>4. \A j \in 1..a : j \in 1..(a + b) /\ (j \in S <=> j \in Z)
  BY <1>1, <1>2, <1>3 DEF Named
<1>5. \A j \in 1..b : a + j \in 1..(a + b) /\ (j \in T <=> a + j \in Z)
  BY <1>1, <1>2, <1>3 DEF Named
<1>6. \A j \in 1..(a + b) : j \in 1..a \/ (j - a \in 1..b /\ a + (j - a) = j)
  BY <1>3
<1>7. S \subseteq Nat /\ T \subseteq Nat /\ Z \subseteq Nat
  BY <1>3
<1>8. CASE S # {}
  <2>1. PICK f : f = LeastOf(S)
    OBVIOUS
  <2>2. f \in S /\ f \in 1..a /\ \A i \in S : f <= i
    BY <1>3, <1>7, <1>8, <2>1, LeastIs
  <2>3. f \in Z /\ \A i \in Z : f <= i
    <3>1. f \in Z
      BY <1>4, <2>2
    <3>2. ASSUME NEW i \in Z PROVE f <= i
      <4>1. CASE i \in 1..a
        BY <1>4, <2>2, <4>1
      <4>2. CASE i \notin 1..a
        BY <1>3, <2>2, <4>2
      <4> QED BY <4>1, <4>2
    <3> QED BY <3>1, <3>2
  <2>4. f = LeastOf(Z)
    BY <1>7, <2>3, LeastIs
  <2>5. l = Found(k + f - 1)
    BY <1>2, <1>8, <2>1 DEF FindFrom
  <2>6. FindFrom(z, names, name, k) = Found(k + f - 1)
    BY <1>2, <2>3, <2>4 DEF FindFrom
  <2>7. l.ret = k + f - 1
    BY <2>5 DEF Found
  <2>8. k + f - 1 # 0
    BY <1>1, <2>2
  <2> QED BY <1>2, <2>5, <2>6, <2>7, <2>8
<1>9. CASE S = {}
  <2>1. l = [ret |-> 0, entry |-> k + a]
    BY <1>2, <1>9 DEF FindFrom
  <2>2. l.ret = 0 /\ l.entry = k + a /\ k + a \in Numbers
    BY <1>1, <1>3, <2>1 DEF Numbers
  <2>3. FindFrom(z, names, name, k) = FindFrom(y, names, name, k + a)
    <3>1. CASE T = {}
      <4>1. Z = {}
        BY <1>3, <1>4, <1>5, <1>6, <1>9, <3>1
      <4>2. FindFrom(z, names, name, k) = [ret |-> 0, entry |-> k + (a + b)]
        BY <1>2, <1>3, <4>1 DEF FindFrom
      <4>3. FindFrom(y, names, name, k + a) = [ret |-> 0, entry |-> (k + a) + b]
        BY <1>2, <3>1 DEF FindFrom
      <4>4. (k + a) + b = k + (a + b)
        BY <1>1, <1>3
      <4> QED BY <4>2, <4>3, <4>4
    <3>2. CASE T # {}
      <4>1. PICK f : f = LeastOf(T)
        OBVIOUS
      <4>2. f \in T /\ f \in 1..b /\ \A i \in T : f <= i
        BY <1>3, <1>7, <3>2, <4>1, LeastIs
      <4>3. a + f \in Z
        BY <1>5, <4>2
      <4>4. ASSUME NEW i \in Z PROVE a + f <= i
        <5>1. i \in 1..(a + b) /\ i \notin 1..a
          BY <1>3, <1>4, <1>9
        <5>2. PICK d : d = i - a
          OBVIOUS
        <5>3. d \in 1..b /\ a + d = i
          BY <1>6, <5>1, <5>2
        <5>4. d \in T
          BY <1>5, <5>1, <5>3
        <5>5. f <= d
          BY <4>2, <5>4
        <5>6. a \in Nat /\ f \in Nat /\ d \in Nat
          BY <1>3, <4>2, <5>3
        <5> QED BY <5>3, <5>5, <5>6
      <4>5. a + f = LeastOf(Z)
        BY <1>7, <4>3, <4>4, LeastIs
      <4>6. FindFrom(z, names, name, k) = Found(k + (a + f) - 1)
        BY <1>2, <4>3, <4>5 DEF FindFrom
      <4>7. FindFrom(y, names, name, k + a) = Found((k + a) + f - 1)
        BY <1>2, <3>2, <4>1 DEF FindFrom
      <4>8. (k + a) + f - 1 = k + (a + f) - 1
        BY <1>1, <1>3, <4>2
      <4> QED BY <4>6, <4>7, <4>8
    <3> QED BY <3>1, <3>2
  <2> QED BY <1>2, <2>2, <2>3
<1> QED BY <1>8, <1>9

\* xjd1DataSrcResolve finds the first source of a name.
LEMMA ResolveIs ==
    ASSUME IsSource(tree), NEW e \in [Nodes -> Seq(Nodes)],
           \A n \in Nodes :
               e[n] = IF tree[n].kind = "JOIN" THEN e[tree[n].left] \o e[tree[n].right] ELSE <<n>>,
           NEW i \in 1..Len(e[Root]), NEW name, NameOf(e[Root][i]) = name,
           \A j \in 1..(i - 1) : NameOf(e[Root][j]) # name
    PROVE  Resolve(name) = i
<1> DEFINE Body(n, a, b) ==
                [entry \in Numbers |->
                    IF tree[n].kind = "JOIN"
                    THEN LET l == a[entry]
                         IN  IF l.ret # 0 THEN l ELSE b[l.entry]
                    ELSE IF tree[n].kind \in Flattens
                    THEN a[entry]
                    ELSE [ret |-> IF tree[n].name = name THEN entry ELSE 0, entry |-> entry + 1]]
           Of(s) == [n \in Nodes |-> Body(n, s[tree[n].left], s[tree[n].right])]
           g == CHOOSE s : s = Of(s)
<1>1. /\ \A n \in Nodes :
            /\ tree[n].kind = "JOIN" => tree[n].left \in Nodes /\ tree[n].right \in Nodes
            /\ tree[n].kind \in Flattens => /\ tree[n].left \in Nodes
                                            /\ tree[tree[n].left].kind # "JOIN"
                                            /\ tree[n].kind # "JOIN"
      /\ Root \in Nodes
  <2>1. \A n \in Nodes :
            /\ tree[n].kind = "JOIN" => tree[n].left \in Nodes /\ tree[n].right \in Nodes
            /\ tree[n].kind \in Flattens => tree[n].left \in Nodes
    BY OperandNodes
  <2>2. Root \in Nodes
    BY SourceNodes DEF Root, Nodes
  <2>3. \A n \in Nodes : tree[n].kind \in Flattens => tree[tree[n].left].kind # "JOIN"
    BY DEF IsSource, Nodes
  <2>4. "JOIN" \notin Flattens
    BY DEF Flattens
  <2> QED BY <2>1, <2>2, <2>3, <2>4
<1>2. PICK names : names = [n \in Nodes |-> NameOf(n)]
  OBVIOUS
<1>3. \A n \in Nodes :
        names[n] = IF tree[n].kind \in Flattens THEN names[tree[n].left] ELSE tree[n].name
  BY <1>1, <1>2, NameOfIs
<1> DEFINE u == [n \in Nodes |-> [k \in Numbers |-> FindFrom(e[n], names, name, k)]]
<1>4. \A n \in Nodes : \A k \in Numbers : u[n][k] = FindFrom(e[n], names, name, k)
  OBVIOUS
<1>5. \A n \in Nodes : u[n] = [k \in Numbers |-> FindFrom(e[n], names, name, k)]
  OBVIOUS
<1>6. u = [n \in Nodes |-> u[n]]
  OBVIOUS
<1> HIDE DEF u
<1>7. ASSUME NEW n \in Nodes PROVE u[n] = Body(n, u[tree[n].left], u[tree[n].right])
  <2>1. ASSUME NEW k \in Numbers, tree[n].kind = "JOIN"
        PROVE  u[n][k] = LET l == u[tree[n].left][k]
                         IN  IF l.ret # 0 THEN l ELSE u[tree[n].right][l.entry]
    <3>1. PICK x \in Seq(Nodes), y \in Seq(Nodes) : x = e[tree[n].left] /\ y = e[tree[n].right]
      BY <1>1, <2>1
    <3>2. e[n] = x \o y
      BY <2>1, <3>1, Zenon
    <3>3. PICK l : l = FindFrom(x, names, name, k)
      OBVIOUS
    <3>4. u[tree[n].left][k] = l
      BY <1>1, <1>4, <2>1, <3>1, <3>3
    <3>5. /\ l.ret = 0 => l.entry \in Numbers
          /\ FindFrom(x \o y, names, name, k) =
                IF l.ret # 0 THEN l ELSE FindFrom(y, names, name, l.entry)
      BY <1>1, <3>3, FindBoth
    <3>6. l.ret = 0 => u[tree[n].right][l.entry] = FindFrom(y, names, name, l.entry)
      BY <1>1, <1>4, <2>1, <3>1, <3>5
    <3>7. u[n][k] = IF l.ret # 0 THEN l ELSE u[tree[n].right][l.entry]
      BY <1>4, <3>2, <3>5, <3>6
    <3> QED BY <3>4, <3>7
  <2>2. ASSUME NEW k \in Numbers, NEW m \in Nodes, tree[m].kind # "JOIN"
        PROVE  u[m][k] = [ret |-> IF names[m] = name THEN k ELSE 0, entry |-> k + 1]
    <3>1. e[m] = <<m>>
      BY <2>2, Zenon
    <3>2. FindFrom(<<m>>, names, name, k) = [ret |-> IF names[m] = name THEN k ELSE 0, entry |-> k + 1]
      BY FindOne
    <3> QED BY <1>4, <3>1, <3>2
  <2>3. u[n] = [k \in Numbers |-> u[n][k]]
    BY <1>5
  <2>4. CASE tree[n].kind = "JOIN"
    BY <2>1, <2>3, <2>4
  <2>5. CASE tree[n].kind \in Flattens
    <3>1. tree[n].left \in Nodes /\ tree[tree[n].left].kind # "JOIN" /\ tree[n].kind # "JOIN"
          /\ names[n] = names[tree[n].left]
      BY <1>1, <1>3, <2>5
    <3>2. \A k \in Numbers : u[n][k] = u[tree[n].left][k]
      <4> SUFFICES ASSUME NEW k \in Numbers PROVE u[n][k] = u[tree[n].left][k]
        OBVIOUS
      <4>1. PICK m : m = tree[n].left
        OBVIOUS
      <4>2. m \in Nodes /\ tree[m].kind # "JOIN" /\ tree[n].kind # "JOIN" /\ names[n] = names[m]
        BY <3>1, <4>1, Zenon
      <4>3. /\ u[n][k] = [ret |-> IF names[n] = name THEN k ELSE 0, entry |-> k + 1]
            /\ u[m][k] = [ret |-> IF names[m] = name THEN k ELSE 0, entry |-> k + 1]
        BY <2>2, <4>2, Zenon
      <4> QED BY <4>1, <4>2, <4>3, Zenon
    <3> QED BY <2>3, <2>5, <3>1, <3>2
  <2>6. CASE tree[n].kind # "JOIN" /\ tree[n].kind \notin Flattens
    <3>1. names[n] = tree[n].name
      BY <1>3, <2>6
    <3>2. \A k \in Numbers :
            u[n][k] = [ret |-> IF tree[n].name = name THEN k ELSE 0, entry |-> k + 1]
      BY <2>2, <2>6, <3>1
    <3> QED BY <2>3, <2>6, <3>2
  <2> QED BY <2>4, <2>5, <2>6
<1>8. \A n \in Nodes :
        /\ tree[n].kind # "JOIN" /\ tree[n].kind \notin Flattens =>
                \A a, b, c, d : Body(n, a, b) = Body(n, c, d)
        /\ tree[n].kind \in Flattens => \A a, b, d : Body(n, a, b) = Body(n, a, d)
  BY <1>1
<1>9. Resolve(name) = g[Root][1].ret
  BY DEF Resolve
<1> HIDE DEF Body
<1>10. u = Of(u)
  BY <1>6, <1>7
<1>11. g = Of(g)
  <2> HIDE DEF Of
  <2> QED BY <1>10
<1> HIDE DEF g
<1>12. \A n \in Nodes : g[n] = Body(n, g[tree[n].left], g[tree[n].right])
  BY <1>11
<1>13. g[Root] = u[Root]
  <2>1. PICK t, T : t = tree /\ T = { n \in Nodes : g[n] = u[n] }
    OBVIOUS
  <2>2. ASSUME NEW n \in Nodes, \A m \in Operands(tree, n) \cap Nodes : m \in T PROVE n \in T
    <3>1. CASE tree[n].kind = "JOIN"
      <4>1. tree[n].left \in T /\ tree[n].right \in T
        BY <1>1, <2>2, <3>1 DEF Operands
      <4>2. g[tree[n].left] = u[tree[n].left] /\ g[tree[n].right] = u[tree[n].right]
        BY <2>1, <4>1
      <4> QED BY <1>7, <1>12, <2>1, <4>2
    <3>2. CASE tree[n].kind \in Flattens
      <4>1. tree[n].left \in T
        BY <1>1, <2>2, <3>2 DEF Operands
      <4>2. g[tree[n].left] = u[tree[n].left]
        BY <2>1, <4>1
      <4>3. Body(n, g[tree[n].left], g[tree[n].right]) = Body(n, u[tree[n].left], u[tree[n].right])
        BY <1>8, <3>2, <4>2
      <4> QED BY <1>7, <1>12, <2>1, <4>3
    <3>3. CASE tree[n].kind # "JOIN" /\ tree[n].kind \notin Flattens
      <4>1. Body(n, g[tree[n].left], g[tree[n].right]) = Body(n, u[tree[n].left], u[tree[n].right])
        BY <1>8, <3>3
      <4> QED BY <1>7, <1>12, <2>1, <4>1
    <3> QED BY <3>1, <3>2, <3>3
  <2>3. Inherited(t, T)
    BY <2>1, <2>2 DEF Inherited, Nodes
  <2> QED BY <1>1, <2>1, <2>3, TreeInduction DEF Nodes
<1>14. 1 \in Numbers
  BY DEF Numbers
<1>15. Resolve(name) = FindFrom(e[Root], names, name, 1).ret
  BY <1>1, <1>4, <1>9, <1>13, <1>14
<1>16. PICK x \in Seq(Nodes) : x = e[Root]
  BY <1>1
<1>17. /\ i \in Nat /\ Len(x) \in Nat /\ i \in 1..Len(x)
       /\ \A j \in 1..Len(x) : names[x[j]] = NameOf(x[j])
  <2>1. Len(x) \in Nat /\ i \in 1..Len(x)
    BY <1>16
  <2>2. \A j \in 1..Len(x) : x[j] \in Nodes
    OBVIOUS
  <2> QED BY <1>2, <2>1, <2>2
<1>18. PICK S : S = Named(x, names, name)
  OBVIOUS
<1>19. i \in S /\ S \subseteq Nat /\ \A j \in S : i <= j
  <2>1. i \in S /\ S \subseteq 1..Len(x)
    BY <1>16, <1>17, <1>18 DEF Named
  <2>2. ASSUME NEW j \in S PROVE i <= j
    <3>1. j \in 1..Len(x) /\ NameOf(x[j]) = name
      BY <1>17, <1>18 DEF Named
    <3>2. j \notin 1..(i - 1)
      BY <1>16, <3>1
    <3> QED BY <1>17, <3>1, <3>2
  <2> QED BY <1>17, <2>1, <2>2
<1>20. LeastOf(S) = i
  BY <1>19, LeastIs
<1>21. FindFrom(x, names, name, 1) = Found(1 + i - 1)
  BY <1>18, <1>19, <1>20 DEF FindFrom
<1>22. Found(1 + i - 1).ret = i
  BY <1>17 DEF Found
<1> QED BY <1>15, <1>16, <1>21, <1>22

\* A name is the value of the first source that has it.
LEMMA NamesAreRead == IsSource(tree) => NamesAgree
<1> SUFFICES ASSUME IsSource(tree) PROVE NamesAgree
  OBVIOUS
<1>1. PICK e \in [Nodes -> Seq(Nodes)] :
        /\ Entries = e[Root]
        /\ \A n \in Nodes :
            e[n] = IF tree[n].kind = "JOIN" THEN e[tree[n].left] \o e[tree[n].right] ELSE <<n>>
  BY EntriesAre
<1>2. Root \in Nodes
  BY SourceNodes DEF Root, Nodes
<1>3. Len(Entries) \in Nat /\ DOMAIN Entries = 1..Len(Entries) /\ Len(Entries) = Len(e[Root])
  BY <1>1, <1>2
<1>4. Count = Len(CacheSave) /\ \A i \in 1..Len(Entries) : CacheSave[i] = val[Entries[i]]
  <2>1. Count = Len(e[Root])
    BY <1>1, CountIs
  <2>2. CacheSave = [i \in 1..Len(Entries) |-> val[Entries[i]]]
    BY <1>3 DEF CacheSave
  <2>3. Len(CacheSave) = Len(Entries)
    BY <1>3, <2>2
  <2> QED BY <1>3, <2>1, <2>2, <2>3
<1>5. ASSUME NEW i \in DOMAIN Entries,
             \A j \in 1..(i - 1) : NameOf(Entries[j]) # NameOf(Entries[i])
      PROVE  /\ Read(Resolve(NameOf(Entries[i]))) = val[Entries[i]]
             /\ CacheSave[Resolve(NameOf(Entries[i]))] = val[Entries[i]]
  <2>1. PICK name : name = NameOf(Entries[i])
    OBVIOUS
  <2>2. i \in 1..Len(e[Root])
    BY <1>3
  <2>3. NameOf(e[Root][i]) = name /\ \A j \in 1..(i - 1) : NameOf(e[Root][j]) # name
    BY <1>1, <1>5, <2>1
  <2>4. Resolve(name) = i
    BY <1>1, <2>2, <2>3, ResolveIs
  <2>5. Read(i) = val[e[Root][i]]
    BY <1>1, <2>2, ReadIs
  <2> QED BY <1>1, <1>3, <1>4, <2>1, <2>4, <2>5
<1> QED BY <1>4, <1>5 DEF NamesAgree

-----------------------------------------------------------------------------
(* The stack and the iterators *)

\* Source n, which waits for call w, waits for its operand m.
Waits(t, n, w, m) ==
    \/ t[n].kind = "JOIN" /\ w \in {"first", "left"} /\ m = t[n].left
    \/ t[n].kind = "JOIN" /\ w \in {"right", "again"} /\ m = t[n].right
    \/ t[n].kind \in Flattens /\ w = "next" /\ m = t[n].left

\* The stack is a path down the tree.
IsPath(t, s) ==
    /\ s # <<>> => s[1].node = Len(t)
    /\ \A i, j \in DOMAIN s : i < j => s[j].node < s[i].node
    /\ \A i \in 1..(Len(s) - 1) : Waits(t, s[i].node, s[i].for, s[i + 1].node)

\* No source of the stack has ended, but the one that returns DONE.
EndedOn(s, e, c, code) ==
    \A i \in DOMAIN s : s[i].node \in e => i = Len(s) /\ c = "return" /\ code = "DONE"

\* Source n returns.
Returns(s, c, n) == c = "return" /\ s[Len(s)].node = n

\* Source n steps its left operand again; it will rewind the right one.
StepsLeft(s, n) == \E i \in 1..(Len(s) - 1) : s[i].node = n /\ s[i].for = "left"

\* The operands of the sources that have not ended.
Fresh(t, s, e, c) ==
    \A n \in DOMAIN t \ e :
        /\ t[n].left \in e => Returns(s, c, t[n].left)
        /\ t[n].right \in e => Returns(s, c, t[n].right) \/ StepsLeft(s, n)

\* Memory has not run out since the rewind.
Whole ==
    \/ pc \in {"call", "iterate"}
    \/ pc = "return" /\ rc # "NOMEM"
    \/ pc = "idle" /\ CanStep

\* Where the iterators are: in containers.
Places(V) == [of : V, at : Nat]
IterTyped(N, it) ==
    \E V : (\A v \in V : IsContainer(v)) /\ it \in [N -> Seq(Places(V))]

Typed == TypeOK /\ at \in [Nodes -> Nat] /\ IterTyped(Nodes, iter)

\* What is known of the control of a state.
Control ==
    /\ IsPath(tree, stack) /\ EndedOn(stack, ended, pc, rc)
    /\ pc = "iterate" => Kind \in Flattens
    /\ pc = "idle" /\ CanStep => Root \notin ended
    /\ Whole => Fresh(tree, stack, ended, pc)

Sound == Typed /\ Control

Fors == {"none", "first", "right", "left", "again", "next"}
FramesOf(N) == [node : N, for : Fors]

\* Within a call there is a source at work.
LEMMA AtWork ==
    ASSUME TypeOK, pc # "idle"
    PROVE  /\ stack \in Seq(FramesOf(Nodes)) /\ stack # <<>>
           /\ Len(stack) \in Nat /\ Len(stack) > 0 /\ Len(stack) \in DOMAIN stack
           /\ p = stack[Len(stack)].node /\ p \in Nodes
<1>1. stack \in Seq(FramesOf(Nodes)) /\ stack # <<>>
  BY DEF TypeOK, Frames, FramesOf, Fors
<1>2. Len(stack) \in Nat /\ Len(stack) > 0 /\ Len(stack) \in DOMAIN stack
  BY <1>1
<1>3. stack[Len(stack)] \in FramesOf(Nodes)
  BY <1>1, <1>2
<1>4. p = stack[Len(stack)].node /\ p \in Nodes
  BY <1>3 DEF p, Last, FramesOf
<1> QED BY <1>1, <1>2, <1>4

\* The stack when the source at work calls an operand and waits for it.
Pushed(s, w, m) == Append([s EXCEPT ![Len(s)].for = w], [node |-> m, for |-> "none"])

\* The source at work is left as it was, but for what it waits for.
LEMMA StackPushed ==
    ASSUME NEW N, NEW s \in Seq(FramesOf(N)), s # <<>>, NEW w \in Fors, NEW m \in N, NEW t,
           t = Pushed(s, w, m)
    PROVE  /\ t \in Seq(FramesOf(N)) /\ t # <<>> /\ Len(s) \in Nat /\ Len(s) > 0
           /\ Len(t) = Len(s) + 1 /\ DOMAIN t = 1..(Len(s) + 1)
           /\ \A i \in 1..(Len(s) - 1) : t[i] = s[i]
           /\ t[Len(s)].node = s[Len(s)].node /\ t[Len(s)].for = w
           /\ t[Len(s) + 1].node = m /\ Last(t).node = m
<1> DEFINE len == Len(s)
           f == [node |-> m, for |-> "none"]
           u == [s EXCEPT ![len].for = w]
<1>1. len \in Nat /\ len > 0 /\ len \in 1..len /\ DOMAIN s = 1..len
  OBVIOUS
<1>2. s[len] \in FramesOf(N)
  BY <1>1
<1>3. [s[len] EXCEPT !.for = w] = [node |-> s[len].node, for |-> w]
  BY <1>2 DEF FramesOf
<1>4. u = [s EXCEPT ![len] = [node |-> s[len].node, for |-> w]]
  BY <1>1, <1>3
<1>5. [node |-> s[len].node, for |-> w] \in FramesOf(N) /\ f \in FramesOf(N)
  BY <1>2 DEF FramesOf, Fors
<1>6. u \in Seq(FramesOf(N)) /\ Len(u) = len /\ DOMAIN u = 1..len
      /\ u[len] = [node |-> s[len].node, for |-> w]
      /\ \A i \in 1..(len - 1) : u[i] = s[i]
  <2> HIDE DEF u
  <2> QED BY <1>1, <1>4, <1>5
<1>7. t = Append(u, f)
  BY DEF Pushed
<1>8. f.node = m
  OBVIOUS
<1> HIDE DEF u, f, len
<1>9. /\ t \in Seq(FramesOf(N)) /\ t # <<>> /\ Len(t) = len + 1 /\ DOMAIN t = 1..(len + 1)
      /\ \A i \in 1..len : t[i] = u[i]
      /\ t[len + 1] = f
  BY <1>1, <1>5, <1>6, <1>7
<1>10. \A i \in 1..(len - 1) : t[i] = s[i]
  BY <1>1, <1>6, <1>9
<1>11. t[len] = [node |-> s[len].node, for |-> w]
  BY <1>1, <1>6, <1>9
<1>12. Last(t) = f
  BY <1>9 DEF Last
<1> QED BY <1>1, <1>8, <1>9, <1>10, <1>11, <1>12 DEF len

\* It is a stack.
LEMMA PushedTyped ==
    ASSUME NEW N, NEW s \in Seq(FramesOf(N)), s # <<>>, NEW w \in Fors, NEW m \in N
    PROVE  Pushed(s, w, m) \in Seq(FramesOf(N)) /\ Pushed(s, w, m) # <<>>
<1>1. PICK t : t = Pushed(s, w, m)
  OBVIOUS
<1>2. t \in Seq(FramesOf(N)) /\ t # <<>>
  BY <1>1, StackPushed
<1> QED BY <1>1, <1>2

\* The stack when the source at work has returned.
LEMMA StackPopped ==
    ASSUME NEW N, NEW s \in Seq(FramesOf(N)), NEW t, t = Front(s), Len(s) > 1
    PROVE  /\ t \in Seq(FramesOf(N)) /\ t # <<>> /\ Len(s) \in Nat
           /\ Len(t) = Len(s) - 1 /\ DOMAIN t = 1..(Len(s) - 1)
           /\ \A i \in 1..(Len(s) - 1) : t[i] = s[i]
           /\ Last(t) = s[Len(s) - 1]
<1>1. Len(s) \in Nat
  OBVIOUS
<1>2. /\ t \in Seq(FramesOf(N)) /\ Len(t) = Len(s) - 1
      /\ \A i \in 1..(Len(s) - 1) : t[i] = s[i]
  BY <1>1 DEF Front
<1>3. t # <<>> /\ DOMAIN t = 1..(Len(s) - 1)
  BY <1>1, <1>2
<1>4. Last(t) = s[Len(s) - 1]
  BY <1>1, <1>2 DEF Last
<1> QED BY <1>1, <1>2, <1>3, <1>4

\* The iterator that an entry is taken from.
LEMMA PlaceTyped ==
    ASSUME NEW V, NEW s \in Seq(Places(V)), s # <<>>
    PROVE  /\ Last(s) \in Places(V) /\ Last(s).at \in Nat
           /\ Front(s) \in Seq(Places(V))
           /\ [s EXCEPT ![Len(s)].at = Last(s).at + 1] \in Seq(Places(V))
<1> DEFINE len == Len(s)
           at1 == Last(s).at + 1
<1>1. len \in Nat /\ len > 0 /\ len \in 1..len /\ DOMAIN s = 1..len
  OBVIOUS
<1>2. Last(s) = s[len] /\ s[len] \in Places(V)
  BY <1>1 DEF Last
<1>3. s[len].of \in V /\ s[len].at \in Nat /\ at1 \in Nat
  BY <1>2 DEF Places
<1>4. Front(s) \in Seq(Places(V))
  BY <1>1 DEF Front
<1> HIDE DEF at1
<1>5. [s[len] EXCEPT !.at = at1] = [of |-> s[len].of, at |-> at1]
  BY <1>2 DEF Places
<1>6. [of |-> s[len].of, at |-> at1] \in Places(V)
  BY <1>3 DEF Places
<1>7. [s EXCEPT ![len].at = at1] = [s EXCEPT ![len] = [of |-> s[len].of, at |-> at1]]
  BY <1>1, <1>5
<1>8. [s EXCEPT ![len] = [of |-> s[len].of, at |-> at1]] \in Seq(Places(V))
  BY <1>1, <1>6
<1> QED BY <1>2, <1>3, <1>4, <1>7, <1>8 DEF at1

\* The source at work, when it is not the root, is an operand of the one before it.
LEMMA Callers ==
    ASSUME TypeOK, IsPath(tree, stack), pc # "idle", p # Root
    PROVE  /\ Len(stack) > 1 /\ Len(stack) - 1 \in 1..(Len(stack) - 1)
           /\ Caller = stack[Len(stack) - 1].node /\ Caller \in Nodes
           /\ CallerWaits = stack[Len(stack) - 1].for /\ Waits(tree, Caller, CallerWaits, p)
           /\ p < Caller /\ p \in Operands(tree, Caller)
           /\ \A n \in Nodes : p \in Operands(tree, n) => n = Caller
<1>1. /\ stack \in Seq(FramesOf(Nodes)) /\ Len(stack) \in Nat /\ Len(stack) > 0
      /\ p = stack[Len(stack)].node /\ p \in Nodes
  BY AtWork
<1>2. stack # <<>> /\ stack[1].node = Root
  BY <1>1 DEF IsPath, Root
<1>3. Len(stack) > 1
  BY <1>1, <1>2
<1>4. /\ Len(stack) - 1 \in 1..(Len(stack) - 1) /\ (Len(stack) - 1) + 1 = Len(stack)
      /\ Len(stack) - 1 \in DOMAIN stack /\ Len(stack) \in DOMAIN stack
      /\ Len(stack) - 1 < Len(stack)
  BY <1>1, <1>3
<1>5. stack[Len(stack) - 1] \in FramesOf(Nodes)
  BY <1>1, <1>4
<1>6. Caller = stack[Len(stack) - 1].node /\ Caller \in Nodes
  BY <1>5 DEF Caller, FramesOf
<1>7. CallerWaits = stack[Len(stack) - 1].for /\ Waits(tree, Caller, CallerWaits, p)
  BY <1>1, <1>4, <1>6 DEF IsPath, CallerWaits
<1>8. p < Caller
  BY <1>1, <1>4, <1>6 DEF IsPath
<1>9. p \in Operands(tree, Caller)
  BY <1>6, <1>7 DEF Waits, Operands
<1>10. \A n \in Nodes : p \in Operands(tree, n) => n = Caller
  BY <1>1, <1>6, <1>9, Parents DEF TypeOK, Nodes
<1> QED BY <1>3, <1>4, <1>6, <1>7, <1>8, <1>9, <1>10

-----------------------------------------------------------------------------
(* Types *)

\* The parts of Typed that steps change.
DataTyped == at \in [Nodes -> Nat] /\ IterTyped(Nodes, iter)

ControlTyped ==
    /\ stack \in Seq(FramesOf(Nodes)) /\ (stack = <<>> <=> pc = "idle")
    /\ pc \in {"idle", "call", "iterate", "return", "stopped"} /\ rc \in Codes
    /\ ended \subseteq Nodes
    /\ ret \in Codes \cup {"NONE", "FAULT", "CLOSED"}
    /\ failed \in BOOLEAN /\ faults \in Nat

\* Whatever iterator is looked at is in a container.
LEMMA IteratorsInContainers ==
    ASSUME NEW N, NEW it, IterTyped(N, it)
    PROVE  \A n \in N : \A i \in DOMAIN it[n] : IsContainer(it[n][i].of)
<1>1. PICK V : (\A v \in V : IsContainer(v)) /\ it \in [N -> Seq(Places(V))]
  BY DEF IterTyped
<1>2. ASSUME NEW n \in N, NEW i \in DOMAIN it[n] PROVE IsContainer(it[n][i].of)
  <2>1. it[n] \in Seq(Places(V))
    BY <1>1
  <2>2. it[n][i] \in Places(V)
    BY <2>1
  <2>3. it[n][i].of \in V
    BY <2>2 DEF Places
  <2> QED BY <1>1, <2>3
<1> QED BY <1>2

\* Together they are all of it.
LEMMA TypedIs ==
    Typed <=> /\ IsSource(tree) /\ outer \in Outers /\ prepared \subseteq Cursors
              /\ DataTyped /\ ControlTyped
<1>1. Frames = FramesOf(Nodes)
  BY DEF Frames, FramesOf, Fors
<1>2. IterTyped(Nodes, iter) =>
        \A n \in Nodes : \A i \in DOMAIN iter[n] : IsContainer(iter[n][i].of)
  BY IteratorsInContainers
<1> QED BY <1>1, <1>2 DEF Typed, TypeOK, DataTyped, ControlTyped

\* And so after a step.
LEMMA TypedNext ==
    ASSUME tree' = tree, IsSource(tree), Nodes' = Nodes, Cursors' = Cursors,
           outer' \in Outers, prepared' \subseteq Cursors, DataTyped', ControlTyped'
    PROVE  Typed'
<1>1. Frames' = FramesOf(Nodes')
  BY DEF Frames, FramesOf, Fors
<1>2. IterTyped(Nodes', iter') =>
        \A n \in Nodes' : \A i \in DOMAIN iter'[n] : IsContainer(iter'[n][i].of)
  <2>1. PICK N, it : N = Nodes' /\ it = iter'
    OBVIOUS
  <2> QED BY <2>1, IteratorsInContainers
<1>3. IterTyped(Nodes', iter') /\ at' \in [Nodes' -> Nat]
  BY DEF DataTyped
<1> QED BY <1>1, <1>2, <1>3 DEF Typed, TypeOK, ControlTyped

\* A source enters another container or goes on in the one that it is in.
LEMMA IterStep ==
    ASSUME NEW N, NEW it, IterTyped(N, it), NEW n \in N, NEW V, \A v \in V : IsContainer(v),
           NEW s \in Seq(Places(V)), NEW t, t = [it EXCEPT ![n] = s]
    PROVE  IterTyped(N, t)
<1>1. PICK W : (\A v \in W : IsContainer(v)) /\ it \in [N -> Seq(Places(W))]
  BY DEF IterTyped
<1> DEFINE U == V \cup W
<1>2. Places(V) \subseteq Places(U) /\ Places(W) \subseteq Places(U)
  BY DEF Places
<1> HIDE DEF U
<1>3. Seq(Places(V)) \subseteq Seq(Places(U)) /\ Seq(Places(W)) \subseteq Seq(Places(U))
  BY <1>2
<1>4. t \in [N -> Seq(Places(U))]
  BY <1>1, <1>3
<1>5. \A v \in U : IsContainer(v)
  BY <1>1 DEF U
<1> QED BY <1>4, <1>5 DEF IterTyped

\* A rewind sets the iterators and the positions back.
LEMMA RewindTyped ==
    ASSUME DataTyped, NEW S, RewindAll(S), Nodes' = Nodes
    PROVE  DataTyped' /\ ended' = ended \ S
<1>1. at' \in [Nodes -> Nat]
  BY DEF DataTyped, RewindAll, Set
<1>2. PICK V : (\A v \in V : IsContainer(v)) /\ iter \in [Nodes -> Seq(Places(V))]
  BY DEF DataTyped, IterTyped
<1>3. iter' = [n \in Nodes |-> IF n \in S THEN <<>> ELSE iter[n]]
  BY <1>2 DEF RewindAll, Set
<1>4. <<>> \in Seq(Places(V))
  OBVIOUS
<1>5. iter' \in [Nodes -> Seq(Places(V))]
  BY <1>2, <1>3, <1>4
<1>6. IterTyped(Nodes, iter)'
  BY <1>2, <1>5 DEF IterTyped
<1> QED BY <1>1, <1>6 DEF DataTyped, RewindAll

\* The first state has the types.
LEMMA InitTyped == Init => Typed
<1> SUFFICES ASSUME Init PROVE Typed
  OBVIOUS
<1>1. IsSource(tree) /\ outer \in Outers /\ faults \in Nat /\ prepared \subseteq Cursors
  BY CasesAssumption DEF Init
<1>2. iter \in [Nodes -> Seq(Places({}))]
  BY DEF Init
<1>3. IterTyped(Nodes, iter)
  BY <1>2 DEF IterTyped
<1>4. DataTyped
  BY <1>3 DEF DataTyped, Init
<1>5. ControlTyped
  <2>1. /\ stack = <<>> /\ pc = "idle" /\ rc = "ROW" /\ ended = {} /\ failed = FALSE /\ ret = "NONE"
    BY DEF Init
  <2>2. stack \in Seq(FramesOf(Nodes))
    BY <2>1
  <2>3. rc \in Codes
    BY <2>1 DEF Codes
  <2> QED BY <1>1, <2>1, <2>2, <2>3 DEF ControlTyped
<1> QED BY <1>1, <1>4, <1>5, TypedIs

\* The iterator that is moved, of the source at work.
LEMMA PlaceAtWork ==
    ASSUME Typed, pc # "idle", iter[p] # <<>>
    PROVE  \E V : /\ \A v \in V : IsContainer(v)
                  /\ Front(iter[p]) \in Seq(Places(V))
                  /\ AtTop(Top.at + 1) \in Seq(Places(V))
<1>1. p \in Nodes
  BY AtWork DEF Typed
<1>2. PICK V : (\A v \in V : IsContainer(v)) /\ iter \in [Nodes -> Seq(Places(V))]
  BY DEF Typed, IterTyped
<1>3. PICK q : q = iter[p]
  OBVIOUS
<1>4. q \in Seq(Places(V)) /\ q # <<>>
  BY <1>1, <1>2, <1>3
<1>5. /\ Front(q) \in Seq(Places(V))
      /\ [q EXCEPT ![Len(q)].at = Last(q).at + 1] \in Seq(Places(V))
  BY <1>4, PlaceTyped
<1>6. AtTop(Top.at + 1) = [q EXCEPT ![Len(q)].at = Last(q).at + 1]
  BY <1>3 DEF AtTop, Top
<1> QED BY <1>2, <1>3, <1>5, <1>6

\* A step from a typed state leaves one.
LEMMA TypeStep ==
    ASSUME Typed, Control, [Next]_vars
    PROVE  Typed' /\ tree' = tree
<1> USE DEF env, client
<1>1. CASE UNCHANGED vars
  <2>1. UNCHANGED <<tree, outer, at, iter, prepared, stack, pc, rc, ended, failed, ret, faults>>
    BY <1>1 DEF vars
  <2>2. Nodes' = Nodes
    BY <2>1 DEF Nodes
  <2>3. Cursors' = Cursors
    BY <2>1 DEF Cursors, Nodes
  <2>4. /\ IsSource(tree) /\ outer \in Outers /\ prepared \subseteq Cursors
        /\ DataTyped /\ ControlTyped
    BY TypedIs
  <2>5. DataTyped'
    BY <2>1, <2>2, <2>4 DEF DataTyped
  <2>6. ControlTyped'
    BY <2>1, <2>2, <2>4 DEF ControlTyped
  <2>7. outer' \in Outers /\ prepared' \subseteq Cursors
    BY <2>1, <2>4
  <2> QED BY <2>1, <2>2, <2>3, <2>4, <2>5, <2>6, <2>7, TypedNext
<1> SUFFICES ASSUME Next PROVE Typed' /\ tree' = tree
  BY <1>1
<1>2. /\ IsSource(tree) /\ outer \in Outers /\ prepared \subseteq Cursors
      /\ DataTyped /\ ControlTyped
  BY TypedIs
<1>3. tree' = tree /\ Nodes' = Nodes /\ Cursors' = Cursors
  <2>1. tree' = tree
    BY DEF Next, Internal, Step, Rewind, Close, StepReturns, LeafRow, TableRow, TableDone,
         SubqueryRow, SubqueryDone, SubqueryNoMem, PathRow, PathDone, NullRow, NullDone,
         JoinStart, JoinOn, JoinFirstRow, JoinRightDone, JoinLeftRow, JoinReturns,
         FlattenStart, IterPop, IterEnter, IterRow, FlattenCalls, FlattenNext, FlattenReturns
  <2>2. Nodes' = Nodes
    BY <2>1 DEF Nodes
  <2> QED BY <2>1, <2>2 DEF Cursors
<1>4. outer' \in Outers
  <2>1. outer' = outer \/ outer' \in Outers
    BY DEF Next, Internal, Step, Rewind, Close, StepReturns, LeafRow, TableRow, TableDone,
         SubqueryRow, SubqueryDone, SubqueryNoMem, PathRow, PathDone, NullRow, NullDone,
         JoinStart, JoinOn, JoinFirstRow, JoinRightDone, JoinLeftRow, JoinReturns,
         FlattenStart, IterPop, IterEnter, IterRow, FlattenCalls, FlattenNext, FlattenReturns
  <2> QED BY <1>2, <2>1
<1>5. prepared' \subseteq Cursors
  <2>1. prepared' = prepared \/ prepared' = prepared \ Finalized
    BY DEF Next, Internal, Step, Rewind, Close, StepReturns, LeafRow, TableRow, TableDone,
         SubqueryRow, SubqueryDone, SubqueryNoMem, PathRow, PathDone, NullRow, NullDone,
         JoinStart, JoinOn, JoinFirstRow, JoinRightDone, JoinLeftRow, JoinReturns,
         FlattenStart, IterPop, IterEnter, IterRow, FlattenCalls, FlattenNext, FlattenReturns
  <2> QED BY <1>2, <2>1
<1> SUFFICES DataTyped' /\ ControlTyped'
  BY <1>2, <1>3, <1>4, <1>5, TypedNext
<1>6. pc # "idle" => /\ stack \in Seq(FramesOf(Nodes)) /\ stack # <<>>
                     /\ Len(stack) \in Nat /\ p \in Nodes
  BY AtWork DEF Typed
<1>7. at \in [Nodes -> Nat] /\ IterTyped(Nodes, iter)
  BY <1>2 DEF DataTyped
<1>8. UNCHANGED <<at, iter>> => DataTyped'
  BY <1>2, <1>3 DEF DataTyped
<1>9. ASSUME UNCHANGED iter, NEW k \in Nat, at' = [at EXCEPT ![p] = k] PROVE DataTyped'
  <2>1. at' \in [Nodes -> Nat]
    BY <1>7, <1>9
  <2>2. IterTyped(Nodes, iter)'
    BY <1>3, <1>7, <1>9
  <2> QED BY <1>3, <2>1, <2>2 DEF DataTyped
<1>10. ASSUME UNCHANGED at, NEW n \in Nodes, NEW V, \A v \in V : IsContainer(v),
              NEW q \in Seq(Places(V)), iter' = [iter EXCEPT ![n] = q]
       PROVE  DataTyped'
  <2>1. PICK it, t : it = iter /\ t = iter'
    OBVIOUS
  <2>2. IterTyped(Nodes, t)
    BY <1>7, <1>10, <2>1, IterStep
  <2> QED BY <1>3, <1>7, <1>10, <2>1, <2>2 DEF DataTyped
<1>11. ASSUME pc # "idle", NEW code \in Codes, Return(code), UNCHANGED <<stack, ret>>,
              failed' \in BOOLEAN, faults' \in Nat
       PROVE  ControlTyped'
  <2>1. stack' \in Seq(FramesOf(Nodes)) /\ stack' # <<>>
    BY <1>6, <1>11
  <2> QED BY <1>2, <1>3, <1>6, <1>11, <2>1 DEF ControlTyped, Return
<1>12. ASSUME stack' \in Seq(FramesOf(Nodes)), stack' # <<>>,
              pc' \in {"call", "iterate", "return"}, rc' \in Codes, ended' \subseteq Nodes,
              UNCHANGED <<failed, ret, faults>>
       PROVE  ControlTyped'
  BY <1>2, <1>3, <1>12 DEF ControlTyped
<1>13. rc \in Codes /\ ended \subseteq Nodes
  BY <1>2 DEF ControlTyped
<1>14. ASSUME pc # "idle", NEW w \in Fors, NEW n \in Nodes, Call(n, w)
       PROVE  stack' \in Seq(FramesOf(Nodes)) /\ stack' # <<>> /\ pc' = "call"
  <2>1. PICK N, q, t : N = Nodes /\ q = stack /\ t = stack'
    OBVIOUS
  <2>2. t = Pushed(q, w, n)
    BY <1>14, <2>1 DEF Call, Frame, Pushed
  <2>3. q \in Seq(FramesOf(N)) /\ q # <<>> /\ n \in N
    BY <1>6, <1>14, <2>1
  <2>4. t \in Seq(FramesOf(N)) /\ t # <<>>
    BY <1>14, <2>2, <2>3, PushedTyped
  <2> QED BY <1>14, <2>1, <2>4 DEF Call
<1>15. ASSUME pc # "idle", p # Root
       PROVE  /\ Front(stack) \in Seq(FramesOf(Nodes)) /\ Front(stack) # <<>>
              /\ Len(Front(stack)) = Len(stack) - 1 /\ Caller \in Nodes
  <2>1. Len(stack) > 1 /\ Caller \in Nodes
    BY <1>15, Callers DEF Typed, Control
  <2> QED BY <1>6, <1>15, <2>1, StackPopped
<1>16. ASSUME pc # "idle", p # Root, NEW w \in Fors, NEW n \in Nodes, CallNext(n, w)
       PROVE  stack' \in Seq(FramesOf(Nodes)) /\ stack' # <<>> /\ pc' = "call"
  <2>1. PICK N, q, t : N = Nodes /\ q = Front(stack) /\ t = stack'
    OBVIOUS
  <2>2. t = Pushed(q, w, n)
    BY <1>15, <1>16, <2>1 DEF CallNext, Frame, Pushed
  <2>3. q \in Seq(FramesOf(N)) /\ q # <<>> /\ n \in N
    BY <1>15, <1>16, <2>1
  <2>4. t \in Seq(FramesOf(N)) /\ t # <<>>
    BY <1>16, <2>2, <2>3, PushedTyped
  <2> QED BY <1>16, <2>1, <2>4 DEF CallNext
<1>17. ASSUME pc # "idle", p # Root, NEW code \in Codes, ReturnFromCaller(code),
              UNCHANGED <<failed, ret, faults>>
       PROVE  ControlTyped'
  <2>1. stack' \in Seq(FramesOf(Nodes)) /\ stack' # <<>> /\ ended' \subseteq Nodes
    BY <1>13, <1>15, <1>17 DEF ReturnFromCaller
  <2> QED BY <1>12, <1>17, <2>1 DEF ReturnFromCaller
<1>18. "ROW" \in Codes /\ "DONE" \in Codes /\ "NOMEM" \in Codes
  BY DEF Codes
<1>19. {"first", "left", "right", "again", "next"} \subseteq Fors
  BY DEF Fors
<1>20. Fails => faults' \in Nat
  BY <1>2 DEF Fails, ControlTyped
<1>21. failed \in BOOLEAN /\ faults \in Nat
  BY <1>2 DEF ControlTyped
<1>22. ASSUME NEW v, LeafRow(v), pc # "idle" PROVE DataTyped' /\ ControlTyped'
  <2>1. at[p] + 1 \in Nat
    BY <1>6, <1>7, <1>22
  <2>2. at' = [at EXCEPT ![p] = at[p] + 1] /\ UNCHANGED iter
    BY <1>7, <1>22 DEF LeafRow
  <2>3. DataTyped'
    BY <1>9, <2>1, <2>2
  <2>4. ControlTyped'
    BY <1>11, <1>18, <1>21, <1>22 DEF LeafRow
  <2> QED BY <2>3, <2>4
<1>23. CASE Step
  <2>1. Root \in Nodes
    BY <1>2, SourceNodes DEF Root, Nodes
  <2>2. <<[node |-> Root, for |-> "none"]>> \in Seq(FramesOf(Nodes))
    BY <2>1 DEF FramesOf, Fors
  <2>3. stack' \in Seq(FramesOf(Nodes)) /\ stack' # <<>>
    BY <1>23, <2>2 DEF Step, Frame
  <2>4. ControlTyped'
    BY <1>12, <1>13, <1>23, <2>3 DEF Step
  <2> QED BY <1>8, <1>23, <2>4 DEF Step
<1>24. CASE StepReturns
  <2>1. stack' \in Seq(FramesOf(Nodes)) /\ stack' = <<>> /\ pc' = "idle"
    BY <1>24 DEF StepReturns
  <2>2. ControlTyped'
    BY <1>2, <1>3, <1>24, <2>1 DEF StepReturns, ControlTyped
  <2> QED BY <1>8, <1>24, <2>2 DEF StepReturns
<1>25. CASE Rewind
  <2>1. DataTyped' /\ ended' = ended \ Nodes
    BY <1>2, <1>3, <1>25, RewindTyped DEF Rewind
  <2>2. ControlTyped'
    BY <1>2, <1>3, <1>25, <2>1 DEF Rewind, ControlTyped
  <2> QED BY <2>1, <2>2
<1>26. CASE Close
  <2>1. ControlTyped'
    BY <1>2, <1>3, <1>26 DEF Close, ControlTyped
  <2> QED BY <1>8, <1>26, <2>1 DEF Close
<1>27. CASE TableRow \/ SubqueryRow \/ PathRow \/ NullRow
  BY <1>22, <1>27 DEF TableRow, SubqueryRow, PathRow, NullRow, AtLeaf
<1>28. CASE TableDone
  <2>1. DataTyped'
    BY <1>9, <1>28 DEF TableDone
  <2>2. failed' \in BOOLEAN /\ faults' \in Nat
    BY <1>20, <1>21, <1>28 DEF TableDone
  <2>3. ControlTyped'
    BY <1>11, <1>18, <1>28, <2>2 DEF TableDone, AtLeaf
  <2> QED BY <2>1, <2>3
<1>29. CASE SubqueryDone
  <2>1. pc # "idle" /\ UNCHANGED <<iter, stack, failed, faults>>
    BY <1>29 DEF SubqueryDone, AtLeaf
  <2>2. CASE tree[p].fromList
    <3>1. pc' = "stopped" /\ ret' = "FAULT" /\ UNCHANGED <<at, rc, ended>>
      BY <1>29, <2>2 DEF SubqueryDone
    <3>2. stack' \in Seq(FramesOf(Nodes)) /\ stack' # <<>>
      BY <1>6, <2>1
    <3>3. ControlTyped'
      BY <1>2, <1>3, <2>1, <3>1, <3>2 DEF ControlTyped
    <3> QED BY <1>8, <2>1, <3>1, <3>3
  <2>3. CASE ~tree[p].fromList
    <3>1. at' = [at EXCEPT ![p] = 0] /\ Return("DONE") /\ UNCHANGED ret
      BY <1>29, <2>3 DEF SubqueryDone
    <3>2. DataTyped'
      BY <1>9, <2>1, <3>1
    <3>3. ControlTyped'
      BY <1>11, <1>18, <1>21, <2>1, <3>1
    <3> QED BY <3>2, <3>3
  <2> QED BY <2>2, <2>3
<1>30. CASE SubqueryNoMem \/ PathDone \/ NullDone
  <2>1. pc # "idle" /\ UNCHANGED <<at, iter, stack, failed, ret>> /\ faults' \in Nat
    BY <1>20, <1>21, <1>30 DEF SubqueryNoMem, PathDone, NullDone, AtLeaf
  <2>2. Return("NOMEM") \/ Return("DONE")
    BY <1>30 DEF SubqueryNoMem, PathDone, NullDone
  <2>3. ControlTyped'
    BY <1>11, <1>18, <1>21, <2>1, <2>2
  <2> QED BY <1>8, <2>1, <2>3
<1>31. CASE JoinStart \/ JoinOn
  <2>1. pc # "idle" /\ tree[p].kind = "JOIN"
    BY <1>31 DEF JoinStart, JoinOn, Kind
  <2>2. tree[p].left \in Nodes /\ tree[p].right \in Nodes
    BY <1>2, <1>6, <2>1, OperandNodes
  <2>3. Call(tree[p].left, "first") \/ Call(tree[p].right, "right")
    BY <1>31 DEF JoinStart, JoinOn
  <2>4. stack' \in Seq(FramesOf(Nodes)) /\ stack' # <<>> /\ pc' = "call"
    BY <1>14, <1>19, <2>1, <2>2, <2>3
  <2>5. UNCHANGED <<iter, rc, ended, failed, ret, faults>>
    BY <1>31 DEF JoinStart, JoinOn
  <2>6. ControlTyped'
    BY <1>12, <1>13, <2>4, <2>5
  <2>7. at' = [at EXCEPT ![p] = 1] \/ at' = at
    BY <1>31 DEF JoinStart, JoinOn
  <2>8. DataTyped'
    BY <1>8, <1>9, <2>5, <2>7
  <2> QED BY <2>6, <2>8
<1>32. CASE JoinFirstRow \/ JoinRightDone \/ JoinLeftRow
  <2>1. pc # "idle" /\ p # Root /\ CallerWaits \in {"first", "right", "left"}
    BY <1>32 DEF JoinFirstRow, JoinRightDone, JoinLeftRow, Returned
  <2>2. Caller \in Nodes /\ Waits(tree, Caller, CallerWaits, p)
    BY <2>1, Callers DEF Typed, Control
  <2>3. tree[Caller].kind = "JOIN"
    BY <2>1, <2>2 DEF Waits
  <2>4. tree[Caller].left \in Nodes /\ tree[Caller].right \in Nodes
    BY <1>2, <2>2, <2>3, OperandNodes
  <2>5. \/ CallNext(tree[Caller].right, "right") \/ CallNext(tree[Caller].left, "left")
        \/ CallNext(tree[Caller].right, "again")
    BY <1>32 DEF JoinFirstRow, JoinRightDone, JoinLeftRow
  <2>6. stack' \in Seq(FramesOf(Nodes)) /\ stack' # <<>> /\ pc' = "call"
    BY <1>16, <1>19, <2>1, <2>4, <2>5
  <2>7. DataTyped' /\ ended' \subseteq Nodes
    <3>1. CASE JoinLeftRow
      <4>1. DataTyped' /\ ended' = ended \ Below(tree[Caller].right)
        BY <1>2, <1>3, <3>1, RewindTyped DEF JoinLeftRow
      <4> QED BY <1>13, <4>1
    <3>2. CASE JoinFirstRow \/ JoinRightDone
      BY <1>8, <1>13, <3>2 DEF JoinFirstRow, JoinRightDone
    <3> QED BY <1>32, <3>1, <3>2
  <2>8. UNCHANGED <<rc, failed, ret, faults>>
    BY <1>32 DEF JoinFirstRow, JoinRightDone, JoinLeftRow
  <2>9. ControlTyped'
    BY <1>12, <1>13, <2>6, <2>7, <2>8
  <2> QED BY <2>7, <2>9
<1>33. CASE JoinReturns \/ FlattenReturns
  <2>1. pc # "idle" /\ p # Root
    BY <1>33 DEF JoinReturns, FlattenReturns, Returned
  <2>2. ReturnFromCaller(rc) /\ UNCHANGED <<at, iter, failed, ret, faults>>
    BY <1>33 DEF JoinReturns, FlattenReturns
  <2>3. ControlTyped'
    BY <1>13, <1>17, <2>1, <2>2
  <2> QED BY <1>8, <2>2, <2>3
<1>34. CASE FlattenStart
  <2>1. stack' \in Seq(FramesOf(Nodes)) /\ stack' # <<>>
    BY <1>6, <1>34 DEF FlattenStart
  <2>2. ControlTyped'
    BY <1>12, <1>13, <1>34, <2>1 DEF FlattenStart
  <2> QED BY <1>8, <1>34, <2>2 DEF FlattenStart
<1>35. CASE IterPop \/ IterEnter
  <2>1. pc = "iterate" /\ iter[p] # <<>> /\ p \in Nodes
    BY <1>6, <1>35 DEF IterPop, IterEnter
  <2>2. PICK V : /\ \A v \in V : IsContainer(v)
                 /\ Front(iter[p]) \in Seq(Places(V))
                 /\ AtTop(Top.at + 1) \in Seq(Places(V))
    BY <2>1, PlaceAtWork
  <2>3. DataTyped'
    <3>1. CASE IterPop
      <4>1. iter' = [iter EXCEPT ![p] = Front(iter[p])] /\ UNCHANGED at
        BY <3>1 DEF IterPop
      <4> QED BY <1>10, <2>1, <2>2, <4>1
    <3>2. CASE IterEnter
      <4> DEFINE x == TopEntry.val
                 U == V \cup {x}
                 q == AtTop(Top.at + 1)
      <4>1. IsContainer(x) /\ iter' = [iter EXCEPT ![p] = Append(q, [of |-> x, at |-> 0])]
            /\ UNCHANGED at
        BY <3>2 DEF IterEnter
      <4>2. \A v \in U : IsContainer(v)
        BY <2>2, <4>1
      <4>3. Places(V) \subseteq Places(U) /\ [of |-> x, at |-> 0] \in Places(U)
        BY DEF Places
      <4> HIDE DEF U, q, x
      <4>4. q \in Seq(Places(U))
        BY <2>2, <4>3 DEF q
      <4>5. Append(q, [of |-> x, at |-> 0]) \in Seq(Places(U))
        BY <4>3, <4>4
      <4> QED BY <1>10, <2>1, <4>1, <4>2, <4>5
    <3> QED BY <1>35, <3>1, <3>2
  <2>4. stack' \in Seq(FramesOf(Nodes)) /\ stack' # <<>>
    BY <1>6, <1>35, <2>1 DEF IterPop, IterEnter
  <2>5. pc' = "iterate" /\ UNCHANGED <<rc, ended, failed, ret, faults>>
    BY <1>35, <2>1 DEF IterPop, IterEnter
  <2>6. ControlTyped'
    BY <1>12, <1>13, <2>4, <2>5
  <2> QED BY <2>3, <2>6
<1>36. CASE IterRow
  <2>1. pc # "idle" /\ iter[p] # <<>> /\ p \in Nodes
    BY <1>6, <1>36 DEF IterRow
  <2>2. PICK V : /\ \A v \in V : IsContainer(v)
                 /\ Front(iter[p]) \in Seq(Places(V))
                 /\ AtTop(Top.at + 1) \in Seq(Places(V))
    BY <2>1, PlaceAtWork
  <2>3. iter' = [iter EXCEPT ![p] = AtTop(Top.at + 1)] /\ UNCHANGED at
    BY <1>36 DEF IterRow
  <2>4. DataTyped'
    BY <1>10, <2>1, <2>2, <2>3
  <2>5. Return("ROW") /\ UNCHANGED <<stack, failed, ret, faults>>
    BY <1>36 DEF IterRow
  <2>6. ControlTyped'
    BY <1>11, <1>18, <1>21, <2>1, <2>5
  <2> QED BY <2>4, <2>6
<1>37. CASE FlattenCalls
  <2>1. pc = "iterate" /\ p \in Nodes
    BY <1>6, <1>37 DEF FlattenCalls
  <2>2. tree[p].left \in Nodes
    BY <1>2, <2>1, OperandNodes DEF Control, Kind
  <2>3. stack' \in Seq(FramesOf(Nodes)) /\ stack' # <<>> /\ pc' = "call"
    BY <1>14, <1>19, <1>37, <2>1, <2>2 DEF FlattenCalls
  <2>4. ControlTyped'
    BY <1>12, <1>13, <1>37, <2>3 DEF FlattenCalls
  <2> QED BY <1>8, <1>37, <2>4 DEF FlattenCalls
<1>38. CASE FlattenNext
  <2>1. pc # "idle" /\ p # Root
    BY <1>38 DEF FlattenNext, Returned
  <2>2. stack' \in Seq(FramesOf(Nodes)) /\ stack' # <<>> /\ Caller \in Nodes
    BY <1>15, <1>38, <2>1 DEF FlattenNext
  <2>3. ControlTyped'
    BY <1>12, <1>13, <1>38, <2>2 DEF FlattenNext
  <2> DEFINE c == At(val[p], tree[Caller].path)
  <2>4. /\ iter' = [iter EXCEPT ![Caller] = IF IsContainer(c) THEN <<[of |-> c, at |-> 0]>> ELSE <<>>]
        /\ UNCHANGED at
    BY <1>38 DEF FlattenNext
  <2> HIDE DEF c
  <2> DEFINE V == IF IsContainer(c) THEN {c} ELSE {}
             q == IF IsContainer(c) THEN <<[of |-> c, at |-> 0]>> ELSE <<>>
  <2>5. \A v \in V : IsContainer(v)
    OBVIOUS
  <2>6. q \in Seq(Places(V))
    <3>1. CASE IsContainer(c)
      <4>1. [of |-> c, at |-> 0] \in Places(V)
        BY <3>1 DEF Places
      <4> QED BY <3>1, <4>1
    <3>2. CASE ~IsContainer(c)
      BY <3>2
    <3> QED BY <3>1, <3>2
  <2>7. iter' = [iter EXCEPT ![Caller] = q]
    BY <2>4
  <2> HIDE DEF V, q
  <2>8. DataTyped'
    BY <1>10, <2>2, <2>4, <2>5, <2>6, <2>7
  <2> QED BY <2>3, <2>8
<1> QED
  BY <1>23, <1>24, <1>25, <1>26, <1>27, <1>28, <1>29, <1>30, <1>31, <1>32, <1>33, <1>34,
     <1>35, <1>36, <1>37, <1>38 DEF Next, Internal

-----------------------------------------------------------------------------
(* The path *)

\* A stack of the sources of a tree.
IsStack(t, s) == IsSource(t) /\ s \in Seq(FramesOf(DOMAIN t)) /\ IsPath(t, s)

\* What is on it.
LEMMA StackFacts ==
    ASSUME NEW t, NEW s, IsStack(t, s)
    PROVE  /\ Len(s) \in Nat /\ DOMAIN s = 1..Len(s) /\ (s # <<>> => Len(s) > 0)
           /\ DOMAIN t \subseteq Nat
           /\ \A i \in 1..Len(s) : s[i].node \in DOMAIN t /\ s[i].node \in Nat /\ s[i].for \in Fors
           /\ \A i, j \in 1..Len(s) : s[i].node = s[j].node => i = j
<1>1. s \in Seq(FramesOf(DOMAIN t)) /\ DOMAIN t \subseteq Nat
  BY SourceNodes DEF IsStack
<1>2. Len(s) \in Nat /\ DOMAIN s = 1..Len(s) /\ (s # <<>> => Len(s) > 0)
  BY <1>1
<1>3. ASSUME NEW i \in 1..Len(s)
      PROVE  s[i].node \in DOMAIN t /\ s[i].node \in Nat /\ s[i].for \in Fors
  <2>1. s[i] \in FramesOf(DOMAIN t)
    BY <1>1, <1>3
  <2> QED BY <1>1, <2>1 DEF FramesOf
<1>4. ASSUME NEW i \in 1..Len(s), NEW j \in 1..Len(s), s[i].node = s[j].node, i # j PROVE FALSE
  <2>1. i < j \/ j < i
    BY <1>2, <1>4
  <2>2. s[i].node < s[j].node \/ s[j].node < s[i].node
    BY <1>2, <2>1 DEF IsStack, IsPath
  <2>3. s[i].node \in Nat /\ s[j].node \in Nat
    BY <1>3
  <2> QED BY <1>4, <2>2, <2>3
<1> QED BY <1>1, <1>2, <1>3, <1>4

\* It leads from a source that waits to the operand that it waits for.
LEMMA PathPushed ==
    ASSUME NEW t, NEW s, IsStack(t, s), s # <<>>, NEW w \in Fors, NEW m \in DOMAIN t,
           Waits(t, s[Len(s)].node, w, m), NEW u, u = Pushed(s, w, m)
    PROVE  IsStack(t, u)
<1>1. /\ u \in Seq(FramesOf(DOMAIN t)) /\ u # <<>> /\ Len(s) \in Nat /\ Len(s) > 0
      /\ Len(u) = Len(s) + 1 /\ DOMAIN u = 1..(Len(s) + 1)
      /\ \A i \in 1..(Len(s) - 1) : u[i] = s[i]
      /\ u[Len(s)].node = s[Len(s)].node /\ u[Len(s)].for = w
      /\ u[Len(s) + 1].node = m
  BY StackPushed DEF IsStack
<1>2. /\ DOMAIN s = 1..Len(s) /\ Len(s) \in 1..Len(s)
      /\ \A i \in 1..Len(s) : s[i].node \in DOMAIN t /\ s[i].node \in Nat
  BY <1>1, StackFacts
<1>3. \A i \in 1..Len(s) : u[i].node = s[i].node
  <2> SUFFICES ASSUME NEW i \in 1..Len(s) PROVE u[i].node = s[i].node
    OBVIOUS
  <2>1. i = Len(s) \/ i \in 1..(Len(s) - 1)
    BY <1>1
  <2> QED BY <1>1, <2>1
<1>4. m < s[Len(s)].node /\ m \in Nat
  <2>1. /\ t[s[Len(s)].node].left < s[Len(s)].node
        /\ t[s[Len(s)].node].right < s[Len(s)].node
        /\ m \in Nat
    BY <1>2, SourceNodes DEF IsStack
  <2> QED BY <2>1 DEF Waits
<1>5. u[1].node = Len(t)
  <2>1. 1 \in 1..Len(s)
    BY <1>1
  <2> QED BY <1>3, <2>1 DEF IsStack, IsPath
<1>6. ASSUME NEW i \in DOMAIN u, NEW j \in DOMAIN u, i < j PROVE u[j].node < u[i].node
  <2>1. i \in 1..Len(s)
    BY <1>1, <1>6
  <2>2. CASE j \in 1..Len(s)
    BY <1>2, <1>3, <1>6, <2>1, <2>2 DEF IsStack, IsPath
  <2>3. CASE j \notin 1..Len(s)
    <3>1. j = Len(s) + 1
      BY <1>1, <1>6, <2>3
    <3>2. s[Len(s)].node < s[i].node \/ i = Len(s)
      <4>1. i < Len(s) \/ i = Len(s)
        BY <1>1, <2>1
      <4> QED BY <1>2, <2>1, <4>1 DEF IsStack, IsPath
    <3>3. s[i].node \in Nat /\ s[Len(s)].node \in Nat
      BY <1>2, <2>1
    <3>4. m < s[i].node
      BY <1>4, <3>2, <3>3
    <3> QED BY <1>1, <1>3, <2>1, <3>1, <3>4
  <2> QED BY <2>2, <2>3
<1>7. ASSUME NEW i \in 1..(Len(u) - 1) PROVE Waits(t, u[i].node, u[i].for, u[i + 1].node)
  <2>1. CASE i = Len(s)
    BY <1>1, <2>1
  <2>2. CASE i # Len(s)
    <3>1. i \in 1..(Len(s) - 1) /\ i + 1 \in 1..Len(s)
      BY <1>1, <1>7, <2>2
    <3>2. Waits(t, s[i].node, s[i].for, s[i + 1].node)
      BY <3>1 DEF IsStack, IsPath
    <3> QED BY <1>1, <1>3, <3>1, <3>2
  <2> QED BY <2>1, <2>2
<1>8. IsPath(t, u)
  BY <1>5, <1>6, <1>7 DEF IsPath
<1> QED BY <1>1, <1>8 DEF IsStack

\* And from the operand back.
LEMMA PathPopped ==
    ASSUME NEW t, NEW s, IsStack(t, s), Len(s) > 1, NEW u, u = Front(s)
    PROVE  IsStack(t, u) /\ u # <<>>
<1>1. /\ u \in Seq(FramesOf(DOMAIN t)) /\ u # <<>> /\ Len(s) \in Nat
      /\ Len(u) = Len(s) - 1 /\ DOMAIN u = 1..(Len(s) - 1)
      /\ \A i \in 1..(Len(s) - 1) : u[i] = s[i]
  BY StackPopped DEF IsStack
<1>2. \A i \in 1..(Len(s) - 1) : i \in DOMAIN s
  BY <1>1 DEF IsStack
<1>3. s # <<>> /\ 1 \in 1..(Len(s) - 1)
  BY <1>1
<1>4. u[1].node = Len(t)
  BY <1>1, <1>3 DEF IsStack, IsPath
<1>5. \A i, j \in DOMAIN u : i < j => u[j].node < u[i].node
  BY <1>1, <1>2 DEF IsStack, IsPath
<1>6. ASSUME NEW i \in 1..(Len(u) - 1) PROVE Waits(t, u[i].node, u[i].for, u[i + 1].node)
  <2>1. i \in 1..(Len(s) - 1) /\ i + 1 \in 1..(Len(s) - 1)
    BY <1>1, <1>6
  <2>2. Waits(t, s[i].node, s[i].for, s[i + 1].node)
    BY <2>1 DEF IsStack, IsPath
  <2> QED BY <1>1, <2>1, <2>2
<1>7. IsPath(t, u)
  BY <1>4, <1>5, <1>6 DEF IsPath
<1> QED BY <1>1, <1>7 DEF IsStack

-----------------------------------------------------------------------------
(* Who has ended *)

NoneEnded(s, e) == \A i \in 1..Len(s) : s[i].node \notin e

\* Unless a source returns DONE, none of the stack has ended.
LEMMA NoneEndedOn ==
    ASSUME NEW t, NEW s, IsStack(t, s), NEW e, NEW c, NEW code, EndedOn(s, e, c, code)
    PROVE  /\ c # "return" \/ code # "DONE" => NoneEnded(s, e)
           /\ Len(s) > 1 => NoneEnded(Front(s), e)
<1>1. Len(s) \in Nat /\ DOMAIN s = 1..Len(s)
  BY StackFacts
<1>2. c # "return" \/ code # "DONE" => NoneEnded(s, e)
  BY <1>1 DEF EndedOn, NoneEnded
<1>3. ASSUME Len(s) > 1 PROVE NoneEnded(Front(s), e)
  <2>1. /\ Len(Front(s)) = Len(s) - 1
        /\ \A i \in 1..(Len(s) - 1) : Front(s)[i] = s[i]
    BY <1>3, StackPopped DEF IsStack
  <2>2. \A i \in 1..(Len(s) - 1) : i \in 1..Len(s) /\ i # Len(s)
    <3>1. \A len \in Nat : \A i \in 1..(len - 1) : i \in 1..len /\ i # len
      OBVIOUS
    <3> QED BY <1>1, <3>1
  <2>3. \A i \in 1..(Len(s) - 1) : s[i].node \notin e
    BY <1>1, <2>2 DEF EndedOn
  <2> QED BY <2>1, <2>3 DEF NoneEnded
<1> QED BY <1>2, <1>3

\* A source that is called has not ended.
LEMMA EndedPushed ==
    ASSUME NEW t, NEW s, IsStack(t, s), s # <<>>, NEW w \in Fors, NEW m \in DOMAIN t, NEW e,
           NoneEnded(s, e), m \notin e, NEW u, u = Pushed(s, w, m)
    PROVE  NoneEnded(u, e)
<1>1. /\ Len(s) \in Nat /\ Len(s) > 0 /\ Len(u) = Len(s) + 1
      /\ \A i \in 1..(Len(s) - 1) : u[i] = s[i]
      /\ u[Len(s)].node = s[Len(s)].node
      /\ u[Len(s) + 1].node = m
  BY StackPushed DEF IsStack
<1> SUFFICES ASSUME NEW i \in 1..Len(u) PROVE u[i].node \notin e
  BY DEF NoneEnded
<1>2. i \in 1..(Len(s) - 1) \/ i = Len(s) \/ i = Len(s) + 1
  BY <1>1
<1>3. \A j \in 1..(Len(s) - 1) : j \in 1..Len(s)
  BY <1>1
<1>4. Len(s) \in 1..Len(s)
  BY <1>1
<1> QED BY <1>1, <1>2, <1>3, <1>4 DEF NoneEnded

\* A source that returns DONE is the only one of the stack.
LEMMA EndedReturns ==
    ASSUME NEW t, NEW s, IsStack(t, s), s # <<>>, NEW e, NoneEnded(s, e), NEW code,
           NEW f, f = IF code = "DONE" THEN e \cup {s[Len(s)].node} ELSE e
    PROVE  EndedOn(s, f, "return", code)
<1>1. /\ Len(s) \in Nat /\ Len(s) > 0 /\ DOMAIN s = 1..Len(s)
      /\ \A i, j \in 1..Len(s) : s[i].node = s[j].node => i = j
  BY StackFacts
<1> SUFFICES ASSUME NEW i \in 1..Len(s), s[i].node \in f PROVE i = Len(s) /\ code = "DONE"
  BY <1>1 DEF EndedOn
<1>2. s[i].node \notin e
  BY DEF NoneEnded
<1>3. code = "DONE" /\ s[i].node = s[Len(s)].node
  BY <1>2
<1>4. Len(s) \in 1..Len(s)
  BY <1>1
<1> QED BY <1>1, <1>3, <1>4

-----------------------------------------------------------------------------
(* The operands of the sources that have not ended *)

\* A join that steps its left operand still does when a source is called.
LEMMA StepsLeftPushed ==
    ASSUME NEW t, NEW s, IsStack(t, s), s # <<>>, NEW w \in Fors, NEW m \in DOMAIN t,
           NEW u, u = Pushed(s, w, m), NEW n, StepsLeft(s, n)
    PROVE  StepsLeft(u, n)
<1>1. /\ Len(s) \in Nat /\ Len(s) > 0 /\ Len(u) = Len(s) + 1
      /\ \A i \in 1..(Len(s) - 1) : u[i] = s[i]
  BY StackPushed DEF IsStack
<1>2. PICK i \in 1..(Len(s) - 1) : s[i].node = n /\ s[i].for = "left"
  BY DEF StepsLeft
<1>3. i \in 1..(Len(u) - 1) /\ u[i] = s[i]
  BY <1>1
<1> QED BY <1>2, <1>3 DEF StepsLeft

\* And when another source returns.
LEMMA StepsLeftPopped ==
    ASSUME NEW t, NEW s, IsStack(t, s), Len(s) > 1, NEW u, u = Front(s),
           NEW n, StepsLeft(s, n), n # s[Len(s) - 1].node \/ s[Len(s) - 1].for # "left"
    PROVE  StepsLeft(u, n)
<1>1. /\ Len(s) \in Nat /\ Len(u) = Len(s) - 1
      /\ \A i \in 1..(Len(s) - 1) : u[i] = s[i]
  BY StackPopped DEF IsStack
<1>2. PICK i \in 1..(Len(s) - 1) : s[i].node = n /\ s[i].for = "left"
  BY DEF StepsLeft
<1>3. i # Len(s) - 1
  BY <1>2
<1>4. i \in 1..(Len(u) - 1) /\ u[i] = s[i]
  BY <1>1, <1>2, <1>3
<1> QED BY <1>2, <1>4 DEF StepsLeft

\* No source is on the stack twice.
LEMMA StepsLeftIsWaiting ==
    ASSUME NEW t, NEW s, IsStack(t, s), NEW j \in 1..Len(s), StepsLeft(s, s[j].node)
    PROVE  j # Len(s) /\ s[j].for = "left"
<1>1. Len(s) \in Nat /\ \A i, k \in 1..Len(s) : s[i].node = s[k].node => i = k
  BY StackFacts
<1>2. PICK i \in 1..(Len(s) - 1) : s[i].node = s[j].node /\ s[i].for = "left"
  BY DEF StepsLeft
<1>3. i \in 1..Len(s) /\ i # Len(s)
  BY <1>1
<1> QED BY <1>1, <1>2, <1>3

\* The source at work returns.
LEMMA FreshReturn ==
    ASSUME NEW t, NEW s, NEW e, NEW c, Fresh(t, s, e, c), c # "return",
           NEW f, f = e \/ f = e \cup {s[Len(s)].node}
    PROVE  Fresh(t, s, f, "return")
<1> SUFFICES ASSUME NEW n \in DOMAIN t \ f
             PROVE  /\ t[n].left \in f => Returns(s, "return", t[n].left)
                    /\ t[n].right \in f => Returns(s, "return", t[n].right) \/ StepsLeft(s, n)
  BY DEF Fresh
<1>1. n \in DOMAIN t \ e
  OBVIOUS
<1>2. t[n].left \notin e /\ (t[n].right \in e => StepsLeft(s, n))
  BY <1>1 DEF Fresh, Returns
<1> QED BY <1>2 DEF Returns

\* The source at work calls an operand.
LEMMA FreshPushed ==
    ASSUME NEW t, NEW s, IsStack(t, s), s # <<>>, NEW w \in Fors, NEW m \in DOMAIN t,
           NEW e, NEW c, Fresh(t, s, e, c), c # "return", NEW u, u = Pushed(s, w, m), NEW d
    PROVE  Fresh(t, u, e, d)
<1> SUFFICES ASSUME NEW n \in DOMAIN t \ e
             PROVE  t[n].left \notin e /\ (t[n].right \in e => StepsLeft(u, n))
  BY DEF Fresh
<1>1. t[n].left \notin e /\ (t[n].right \in e => StepsLeft(s, n))
  BY DEF Fresh, Returns
<1> QED BY <1>1, StepsLeftPushed

\* A row is returned to a source, or to a join for a row of its right operand.
LEMMA FreshRow ==
    ASSUME NEW t, NEW s, IsStack(t, s), Len(s) > 1, NEW e, NEW c, Fresh(t, s, e, c),
           s[Len(s)].node \notin e, s[Len(s) - 1].for # "left",
           NEW u, u = Front(s), NEW d
    PROVE  Fresh(t, u, e, d)
<1> SUFFICES ASSUME NEW n \in DOMAIN t \ e
             PROVE  t[n].left \notin e /\ (t[n].right \in e => StepsLeft(u, n))
  BY DEF Fresh
<1>1. t[n].left \notin e /\ (t[n].right \in e => StepsLeft(s, n))
  BY DEF Fresh, Returns
<1> QED BY <1>1, StepsLeftPopped

\* Only the caller of the source at work has it as an operand.
OnlyCaller(t, s) ==
    \A n \in DOMAIN t : s[Len(s)].node \in Operands(t, n) => n = s[Len(s) - 1].node

\* DONE is returned to a source, which returns it.
LEMMA FreshDone ==
    ASSUME NEW t, NEW s, IsStack(t, s), Len(s) > 1, OnlyCaller(t, s),
           NEW e, Fresh(t, s, e, "return"), NEW u, u = Front(s),
           NEW f, f = e \cup {s[Len(s) - 1].node}
    PROVE  Fresh(t, u, f, "return")
<1>1. Len(u) = Len(s) - 1 /\ u[Len(u)] = s[Len(s) - 1]
  <2>1. /\ Len(s) \in Nat /\ Len(u) = Len(s) - 1
        /\ \A i \in 1..(Len(s) - 1) : u[i] = s[i]
    BY StackPopped DEF IsStack
  <2>2. Len(s) - 1 \in 1..(Len(s) - 1)
    BY <2>1
  <2> QED BY <2>1, <2>2
<1> SUFFICES ASSUME NEW n \in DOMAIN t \ f
             PROVE  /\ t[n].left \in f => Returns(u, "return", t[n].left)
                    /\ t[n].right \in f => Returns(u, "return", t[n].right) \/ StepsLeft(u, n)
  BY DEF Fresh
<1>2. n \in DOMAIN t \ e /\ n # s[Len(s) - 1].node
  OBVIOUS
<1>3. s[Len(s)].node # t[n].left /\ s[Len(s)].node # t[n].right
  BY <1>2 DEF OnlyCaller, Operands
<1>4. t[n].left \notin e /\ (t[n].right \in e => StepsLeft(s, n))
  BY <1>2, <1>3 DEF Fresh, Returns
<1>5. t[n].right \in e => StepsLeft(u, n)
  BY <1>2, <1>4, StepsLeftPopped
<1> QED BY <1>1, <1>4, <1>5 DEF Returns

\* The right operand of a join has returned DONE, and the left one is called.
LEMMA FreshLeft ==
    ASSUME NEW t, NEW s, IsStack(t, s), Len(s) > 1, OnlyCaller(t, s),
           NEW e, Fresh(t, s, e, "return"), s[Len(s) - 1].for # "left",
           s[Len(s)].node # t[s[Len(s) - 1].node].left,
           NEW m \in DOMAIN t, NEW u, u = Pushed(Front(s), "left", m), NEW d
    PROVE  Fresh(t, u, e, d)
<1>1. PICK v : v = Front(s)
  OBVIOUS
<1>2. /\ IsStack(t, v) /\ v # <<>>
      /\ Len(s) \in Nat /\ Len(v) = Len(s) - 1
      /\ \A i \in 1..(Len(s) - 1) : v[i] = s[i]
  BY <1>1, PathPopped, StackPopped DEF IsStack
<1>3. "left" \in Fors
  BY DEF Fors
<1>4. u = Pushed(v, "left", m)
  BY <1>1
<1>5. /\ Len(u) = Len(v) + 1 /\ Len(v) \in Nat /\ Len(v) > 0
      /\ u[Len(v)].node = v[Len(v)].node /\ u[Len(v)].for = "left"
  BY <1>2, <1>3, <1>4, StackPushed DEF IsStack
<1> SUFFICES ASSUME NEW n \in DOMAIN t \ e
             PROVE  t[n].left \notin e /\ (t[n].right \in e => StepsLeft(u, n))
  BY DEF Fresh
<1>6. CASE n = s[Len(s) - 1].node
  <2>1. t[n].left \notin e
    BY <1>6 DEF Fresh, Returns
  <2>2. Len(v) \in 1..(Len(u) - 1) /\ Len(s) - 1 \in 1..(Len(s) - 1)
    BY <1>2, <1>5
  <2>3. u[Len(v)].node = n
    BY <1>2, <1>5, <1>6, <2>2
  <2>4. StepsLeft(u, n)
    BY <1>5, <2>2, <2>3 DEF StepsLeft
  <2> QED BY <2>1, <2>4
<1>7. CASE n # s[Len(s) - 1].node
  <2>1. s[Len(s)].node # t[n].left /\ s[Len(s)].node # t[n].right
    BY <1>7 DEF OnlyCaller, Operands
  <2>2. t[n].left \notin e /\ (t[n].right \in e => StepsLeft(s, n))
    BY <2>1 DEF Fresh, Returns
  <2>3. t[n].right \in e => StepsLeft(v, n)
    BY <1>1, <1>7, <2>2, StepsLeftPopped
  <2>4. t[n].right \in e => StepsLeft(u, n)
    BY <1>2, <1>3, <1>4, <2>3, StepsLeftPushed
  <2> QED BY <2>2, <2>4
<1> QED BY <1>6, <1>7

\* The left operand of a join has returned a row, and the right one is rewound
\* and called: none of the sources of B, which are all that is below it, has
\* ended any more.
LEMMA FreshRewound ==
    ASSUME NEW t, NEW s, IsStack(t, s), Len(s) > 1,
           NEW e, Fresh(t, s, e, "return"), s[Len(s)].node \notin e,
           NEW B, \A n \in DOMAIN t \cap B : Operands(t, n) \subseteq B \cup {0}, 0 \notin e,
           t[s[Len(s) - 1].node].right \in B,
           NEW w \in Fors, NEW m \in DOMAIN t, NEW u, u = Pushed(Front(s), w, m), NEW d
    PROVE  Fresh(t, u, e \ B, d)
<1>1. PICK v : v = Front(s)
  OBVIOUS
<1>2. IsStack(t, v) /\ v # <<>>
  BY <1>1, PathPopped
<1>3. u = Pushed(v, w, m)
  BY <1>1
<1> SUFFICES ASSUME NEW n \in DOMAIN t, n \notin e \/ n \in B
             PROVE  t[n].left \notin e \ B /\ (t[n].right \in e \ B => StepsLeft(u, n))
  BY DEF Fresh
<1>4. CASE n \in B
  <2>1. t[n].left \in B \cup {0} /\ t[n].right \in B \cup {0}
    BY <1>4 DEF Operands
  <2> QED BY <2>1
<1>5. CASE n \notin e
  <2>1. t[n].left \notin e /\ (t[n].right \in e => StepsLeft(s, n))
    BY <1>5 DEF Fresh, Returns
  <2>2. CASE n = s[Len(s) - 1].node
    BY <2>1, <2>2
  <2>3. CASE n # s[Len(s) - 1].node
    <3>1. t[n].right \in e => StepsLeft(v, n)
      BY <1>1, <2>1, <2>3, StepsLeftPopped
    <3> QED BY <1>2, <1>3, <2>1, <3>1, StepsLeftPushed
  <2> QED BY <2>2, <2>3
<1> QED BY <1>4, <1>5

-----------------------------------------------------------------------------
(* The steps *)

\* What Control says after a step, of the stack u that it leaves.
LEMMA ControlIs ==
    ASSUME NEW t, t = tree', NEW u, u = stack', NEW f, f = ended',
           IsPath(t, u), EndedOn(u, f, pc', rc'),
           pc' = "iterate" => t[u[Len(u)].node].kind \in Flattens,
           pc' = "idle" /\ ret' \in {"NONE", "ROW"} => Len(t) \notin f,
           \/ pc' = "stopped" \/ (pc' = "return" /\ rc' = "NOMEM")
           \/ (pc' = "idle" /\ ret' \notin {"NONE", "ROW"})
           \/ Fresh(t, u, f, pc')
    PROVE  Control'
<1>1. p' = u[Len(u)].node /\ Root' = Len(t) /\ CanStep' = (ret' \in {"NONE", "ROW"})
  BY DEF p, Last, Root, CanStep
<1>2. Kind' = t[u[Len(u)].node].kind
  BY <1>1 DEF Kind
<1>3. Whole' => Fresh(t, u, f, pc')
  BY <1>1 DEF Whole
<1> QED BY <1>1, <1>2, <1>3 DEF Control

\* What is known while a source is at work.
LEMMA Working ==
    ASSUME Sound, pc # "idle", NEW t, t = tree, NEW s, s = stack, NEW e, e = ended
    PROVE  /\ IsStack(t, s) /\ s # <<>> /\ p = s[Len(s)].node /\ p \in DOMAIN t
           /\ Len(s) \in Nat /\ Len(s) > 0 /\ Len(s) \in 1..Len(s) /\ e \subseteq DOMAIN t
           /\ pc # "return" \/ rc # "DONE" => NoneEnded(s, e)
           /\ pc \in {"call", "iterate"} \/ (pc = "return" /\ rc # "NOMEM") => Fresh(t, s, e, pc)
<1>1. TypeOK /\ IsPath(t, s) /\ EndedOn(s, e, pc, rc)
  BY DEF Sound, Typed, Control
<1>2. /\ s \in Seq(FramesOf(DOMAIN t)) /\ s # <<>> /\ p = s[Len(s)].node /\ p \in DOMAIN t
      /\ Len(s) \in Nat /\ Len(s) > 0
  BY <1>1, AtWork DEF Nodes
<1>3. IsStack(t, s)
  BY <1>1, <1>2 DEF IsStack, TypeOK
<1>4. pc # "return" \/ rc # "DONE" => NoneEnded(s, e)
  BY <1>1, <1>3, NoneEndedOn
<1>5. pc \in {"call", "iterate"} \/ (pc = "return" /\ rc # "NOMEM") => Fresh(t, s, e, pc)
  BY DEF Sound, Control, Whole
<1>6. e \subseteq DOMAIN t
  BY <1>1 DEF TypeOK, Nodes
<1> QED BY <1>2, <1>3, <1>4, <1>5, <1>6

\* What is known of a source that is returned to.
LEMMA ReturnsTo ==
    ASSUME Sound, pc = "return", p # Root, NEW t, t = tree, NEW s, s = stack, NEW e, e = ended
    PROVE  /\ Len(s) > 1 /\ Len(s) - 1 \in 1..Len(s) /\ Caller \in DOMAIN t
           /\ Caller = s[Len(s) - 1].node /\ CallerWaits = s[Len(s) - 1].for
           /\ Waits(t, Caller, CallerWaits, p) /\ OnlyCaller(t, s)
           /\ NoneEnded(Front(s), e) /\ IsStack(t, Front(s)) /\ Front(s) # <<>>
           /\ Len(Front(s)) = Len(s) - 1 /\ Len(Front(s)) \in Nat
           /\ \A i \in 1..(Len(s) - 1) : Front(s)[i] = s[i]
           /\ Front(s)[Len(s) - 1].node = Caller
           /\ Caller \notin e
<1>1. TypeOK /\ IsPath(tree, stack) /\ EndedOn(s, e, pc, rc)
  BY DEF Sound, Typed, Control
<1>2. IsStack(t, s) /\ p = s[Len(s)].node /\ Len(s) \in Nat
  BY Working
<1>3. /\ Len(s) > 1 /\ Len(s) - 1 \in 1..(Len(s) - 1)
      /\ Caller = s[Len(s) - 1].node /\ Caller \in DOMAIN t
      /\ CallerWaits = s[Len(s) - 1].for /\ Waits(t, Caller, CallerWaits, p)
      /\ \A n \in DOMAIN t : p \in Operands(t, n) => n = Caller
  BY <1>1, Callers DEF Nodes
<1>4. OnlyCaller(t, s)
  BY <1>2, <1>3 DEF OnlyCaller
<1>5. NoneEnded(Front(s), e)
  BY <1>1, <1>2, <1>3, NoneEndedOn
<1>6. IsStack(t, Front(s)) /\ Front(s) # <<>>
  BY <1>2, <1>3, PathPopped
<1>7. Len(Front(s)) = Len(s) - 1 /\ \A i \in 1..(Len(s) - 1) : Front(s)[i] = s[i]
  BY <1>2, <1>3, StackPopped DEF IsStack
<1>8. Len(s) - 1 \in 1..Len(s) /\ Len(s) - 1 \in Nat
  BY <1>2, <1>3
<1>9. Caller \notin e
  BY <1>3, <1>5, <1>7 DEF NoneEnded
<1> QED BY <1>3, <1>4, <1>5, <1>6, <1>7, <1>8, <1>9

\* The source at work returns.
LEMMA ReturnStep ==
    ASSUME Sound, tree' = tree, pc \in {"call", "iterate"}, stack' = stack, NEW code, Return(code)
    PROVE  Control'
<1>1. PICK t, s, e, f : t = tree /\ s = stack /\ e = ended /\ f = ended'
  OBVIOUS
<1>2. /\ IsStack(t, s) /\ s # <<>> /\ p = s[Len(s)].node
      /\ NoneEnded(s, e) /\ Fresh(t, s, e, pc)
  BY <1>1, Working
<1>3. f = IF code = "DONE" THEN e \cup {s[Len(s)].node} ELSE e
  BY <1>1, <1>2 DEF Return
<1>4. EndedOn(s, f, "return", code)
  BY <1>2, <1>3, EndedReturns
<1>5. Fresh(t, s, f, "return")
  BY <1>2, <1>3, FreshReturn
<1>6. IsPath(t, s)
  BY <1>2 DEF IsStack
<1>7. pc' = "return" /\ rc' = code
  BY DEF Return
<1> QED BY <1>1, <1>4, <1>5, <1>6, <1>7, ControlIs

\* A source that has not ended may step its operands.
LEMMA CallStep ==
    ASSUME Sound, tree' = tree, pc \in {"call", "iterate"}, NEW w \in Fors, NEW m \in Nodes,
           Waits(tree, p, w, m), Call(m, w), ended' = ended
    PROVE  Control'
<1>1. PICK t, s, e, u : t = tree /\ s = stack /\ e = ended /\ u = stack'
  OBVIOUS
<1>2. /\ IsStack(t, s) /\ s # <<>> /\ p = s[Len(s)].node /\ p \in DOMAIN t
      /\ Len(s) \in 1..Len(s) /\ NoneEnded(s, e) /\ Fresh(t, s, e, pc)
  BY <1>1, Working
<1>3. p \notin e
  BY <1>2 DEF NoneEnded
<1>4. m \notin e
  <2>1. t[p].left \notin e /\ (t[p].right \in e => StepsLeft(s, p))
    BY <1>2, <1>3 DEF Fresh, Returns
  <2>2. ~StepsLeft(s, p)
    BY <1>2, StepsLeftIsWaiting
  <2>3. m = t[p].left \/ m = t[p].right
    BY <1>1 DEF Waits
  <2> QED BY <2>1, <2>2, <2>3
<1>5. u = Pushed(s, w, m) /\ m \in DOMAIN t /\ Waits(t, s[Len(s)].node, w, m)
  BY <1>1, <1>2 DEF Call, Frame, Pushed, Nodes
<1>6. IsStack(t, u)
  BY <1>2, <1>5, PathPushed
<1>7. NoneEnded(u, e)
  BY <1>2, <1>4, <1>5, EndedPushed
<1>8. Fresh(t, u, e, "call")
  BY <1>2, <1>5, FreshPushed
<1>9. EndedOn(u, e, "call", rc') /\ IsPath(t, u)
  BY <1>6, <1>7, StackFacts DEF EndedOn, NoneEnded, IsStack
<1>10. pc' = "call"
  BY DEF Call
<1> QED BY <1>1, <1>8, <1>9, <1>10, ControlIs

\* A source that is returned to may step an operand that has not ended.
LEMMA CallNextStep ==
    ASSUME Sound, tree' = tree, pc = "return", p # Root, NEW w \in Fors, NEW m \in Nodes,
           Waits(tree, Caller, w, m), CallNext(m, w),
           NEW f, f = ended', f \subseteq ended, m \notin f,
           Fresh(tree, stack', f, "call")
    PROVE  Control'
<1>1. PICK t, s, e, u : t = tree /\ s = stack /\ e = ended /\ u = stack'
  OBVIOUS
<1>2. PICK v : v = Front(s)
  OBVIOUS
<1>3. /\ NoneEnded(v, e) /\ IsStack(t, v) /\ v # <<>> /\ Len(v) = Len(s) - 1
      /\ v[Len(v)].node = Caller
  BY <1>1, <1>2, ReturnsTo
<1>4. u = Pushed(v, w, m) /\ m \in DOMAIN t /\ Waits(t, v[Len(v)].node, w, m)
  BY <1>1, <1>2, <1>3 DEF CallNext, Frame, Pushed, Nodes
<1>5. IsStack(t, u)
  BY <1>3, <1>4, PathPushed
<1>6. NoneEnded(v, f)
  BY <1>1, <1>3 DEF NoneEnded
<1>7. NoneEnded(u, f)
  BY <1>3, <1>4, <1>6, EndedPushed
<1>8. EndedOn(u, f, "call", rc') /\ IsPath(t, u)
  BY <1>5, <1>7, StackFacts DEF EndedOn, NoneEnded, IsStack
<1>9. pc' = "call" /\ Fresh(t, u, f, "call")
  BY <1>1 DEF CallNext
<1> QED BY <1>1, <1>8, <1>9, ControlIs

\* A source returns what its operand has returned.
LEMMA CallerStep ==
    ASSUME Sound, tree' = tree, pc = "return", p # Root, ReturnFromCaller(rc),
           rc = "DONE" \/ rc = "NOMEM" \/ (rc = "ROW" /\ CallerWaits # "left")
    PROVE  Control'
<1>1. PICK t, s, e, f, u : t = tree /\ s = stack /\ e = ended /\ f = ended' /\ u = stack'
  OBVIOUS
<1>2. /\ Len(s) > 1 /\ Caller = s[Len(s) - 1].node /\ CallerWaits = s[Len(s) - 1].for
      /\ OnlyCaller(t, s) /\ NoneEnded(Front(s), e) /\ IsStack(t, Front(s)) /\ Front(s) # <<>>
      /\ Len(Front(s)) = Len(s) - 1 /\ Front(s)[Len(s) - 1].node = Caller
  BY <1>1, ReturnsTo
<1>3. /\ IsStack(t, s) /\ p = s[Len(s)].node /\ Len(s) \in 1..Len(s)
      /\ rc # "DONE" => NoneEnded(s, e)
      /\ rc # "NOMEM" => Fresh(t, s, e, "return")
  BY <1>1, Working
<1>4. u = Front(s) /\ pc' = "return" /\ rc' = rc
      /\ f = IF rc = "DONE" THEN e \cup {u[Len(u)].node} ELSE e
  BY <1>1, <1>2 DEF ReturnFromCaller
<1>5. NoneEnded(u, e) /\ IsStack(t, u) /\ u # <<>>
  BY <1>2, <1>4
<1>6. EndedOn(u, f, "return", rc)
  BY <1>4, <1>5, EndedReturns
<1>7. rc = "DONE" => Fresh(t, u, f, "return")
  <2> SUFFICES ASSUME rc = "DONE" PROVE Fresh(t, u, f, "return")
    OBVIOUS
  <2>1. Fresh(t, s, e, "return") /\ f = e \cup {s[Len(s) - 1].node}
    BY <1>2, <1>3, <1>4
  <2> QED BY <1>2, <1>3, <1>4, <2>1, FreshDone
<1>8. rc = "ROW" => Fresh(t, u, f, "return")
  <2> SUFFICES ASSUME rc = "ROW" PROVE Fresh(t, u, f, "return")
    OBVIOUS
  <2>1. Fresh(t, s, e, "return") /\ f = e /\ s[Len(s) - 1].for # "left"
    BY <1>2, <1>3, <1>4
  <2>2. s[Len(s)].node \notin e
    BY <1>3 DEF NoneEnded
  <2> QED BY <1>2, <1>3, <1>4, <2>1, <2>2, FreshRow
<1>9. IsPath(t, u)
  BY <1>5 DEF IsStack
<1>10. rc' = "NOMEM" \/ Fresh(t, u, f, "return")
  BY <1>4, <1>7, <1>8
<1> QED BY <1>1, <1>4, <1>6, <1>9, <1>10, ControlIs

\* What is known of a join that is returned to.
LEMMA JoinReturnedTo ==
    ASSUME Sound, pc = "return", p # Root, CallerWaits # "next",
           NEW t, t = tree, NEW s, s = stack, NEW e, e = ended
    PROVE  /\ t[Caller].kind = "JOIN" /\ t[Caller].left # t[Caller].right
           /\ t[Caller].left \in Nodes /\ t[Caller].right \in Nodes
           /\ CallerWaits \in {"first", "left"} => p = t[Caller].left
           /\ CallerWaits \in {"right", "again"} => p = t[Caller].right
           /\ rc # "NOMEM" /\ p # t[Caller].left => t[Caller].left \notin e
           /\ rc # "NOMEM" /\ p # t[Caller].right /\ CallerWaits # "left" => t[Caller].right \notin e
<1>1. IsSource(t) /\ t = tree
  BY DEF Sound, Typed, TypeOK
<1>2. /\ Len(s) - 1 \in 1..Len(s) /\ Caller \in DOMAIN t /\ Caller \notin e
      /\ Caller = s[Len(s) - 1].node /\ CallerWaits = s[Len(s) - 1].for
      /\ Waits(t, Caller, CallerWaits, p)
  BY ReturnsTo
<1>3. /\ IsStack(t, s) /\ p = s[Len(s)].node
      /\ rc # "NOMEM" => Fresh(t, s, e, "return")
  BY Working
<1>4. t[Caller].kind = "JOIN"
  BY <1>2 DEF Waits
<1>5. /\ t[Caller].left # t[Caller].right
      /\ t[Caller].left \in Nodes /\ t[Caller].right \in Nodes
  BY <1>1, <1>2, <1>4, OperandNodes DEF Nodes
<1>6. /\ CallerWaits \in {"first", "left"} => p = t[Caller].left
      /\ CallerWaits \in {"right", "again"} => p = t[Caller].right
  <2>1. "JOIN" \notin Flattens
    BY DEF Flattens
  <2> QED BY <1>2, <1>4, <2>1 DEF Waits
<1>7. ASSUME rc # "NOMEM", p # t[Caller].left PROVE t[Caller].left \notin e
  BY <1>2, <1>3, <1>7 DEF Fresh, Returns
<1>8. ASSUME rc # "NOMEM", p # t[Caller].right, CallerWaits # "left" PROVE t[Caller].right \notin e
  <2>1. ~StepsLeft(s, Caller)
    BY <1>2, <1>3, <1>8, StepsLeftIsWaiting
  <2> QED BY <1>2, <1>3, <1>8, <2>1 DEF Fresh, Returns
<1> QED BY <1>4, <1>5, <1>6, <1>7, <1>8

\* The stack when the caller of the source at work calls an operand.
LEMMA CallNextIs ==
    ASSUME Sound, pc = "return", p # Root, NEW w, NEW m, CallNext(m, w)
    PROVE  stack' = Pushed(Front(stack), w, m)
<1>1. Len(Front(stack)) = Len(stack) - 1
  BY ReturnsTo
<1> QED BY <1>1 DEF CallNext, Frame, Pushed

\* The left operand of a join has returned its first row.
LEMMA JoinFirstRowStep ==
    ASSUME Sound, tree' = tree, JoinFirstRow
    PROVE  Control'
<1>1. PICK t, s, e, u : t = tree /\ s = stack /\ e = ended /\ u = stack'
  OBVIOUS
<1>2. /\ pc = "return" /\ p # Root /\ CallerWaits = "first" /\ rc = "ROW"
      /\ CallNext(tree[Caller].right, "right") /\ ended' = ended
  BY DEF JoinFirstRow, Returned
<1>3. /\ t[Caller].kind = "JOIN" /\ t[Caller].right \in Nodes
      /\ p = t[Caller].left /\ p # t[Caller].right /\ t[Caller].right \notin e
  BY <1>1, <1>2, JoinReturnedTo
<1>4. "right" \in Fors
  BY DEF Fors
<1>5. /\ Len(s) > 1 /\ CallerWaits = s[Len(s) - 1].for
      /\ IsStack(t, Front(s)) /\ Front(s) # <<>>
  BY <1>1, <1>2, ReturnsTo
<1>6. /\ IsStack(t, s) /\ Len(s) \in 1..Len(s) /\ NoneEnded(s, e) /\ Fresh(t, s, e, "return")
  BY <1>1, <1>2, Working
<1>7. s[Len(s)].node \notin e /\ s[Len(s) - 1].for # "left"
  BY <1>2, <1>5, <1>6 DEF NoneEnded
<1>8. PICK v : v = Front(s)
  OBVIOUS
<1>9. Fresh(t, v, e, "call")
  BY <1>5, <1>6, <1>7, <1>8, FreshRow
<1>10. PICK m : m = t[Caller].right
  OBVIOUS
<1>11. u = Pushed(v, "right", m) /\ m \in DOMAIN t
  BY <1>1, <1>2, <1>3, <1>8, <1>10, CallNextIs DEF Nodes
<1>12. Fresh(t, u, e, "call")
  BY <1>4, <1>5, <1>8, <1>9, <1>11, FreshPushed
<1>13. Waits(tree, Caller, "right", m)
  BY <1>1, <1>3, <1>10 DEF Waits
<1> QED BY <1>1, <1>2, <1>3, <1>4, <1>10, <1>12, <1>13, CallNextStep

\* The right operand of a join is at its end: the left one has not ended.
LEMMA JoinRightDoneStep ==
    ASSUME Sound, tree' = tree, JoinRightDone
    PROVE  Control'
<1>1. PICK t, s, e, u : t = tree /\ s = stack /\ e = ended /\ u = stack'
  OBVIOUS
<1>2. /\ pc = "return" /\ p # Root /\ CallerWaits = "right" /\ rc = "DONE"
      /\ CallNext(tree[Caller].left, "left") /\ ended' = ended
  BY DEF JoinRightDone, Returned
<1>3. /\ t[Caller].kind = "JOIN" /\ t[Caller].left \in Nodes
      /\ p = t[Caller].right /\ p # t[Caller].left /\ t[Caller].left \notin e
  BY <1>1, <1>2, JoinReturnedTo
<1>4. "left" \in Fors
  BY DEF Fors
<1>5. /\ Len(s) > 1 /\ Caller = s[Len(s) - 1].node /\ CallerWaits = s[Len(s) - 1].for
      /\ OnlyCaller(t, s)
  BY <1>1, <1>2, ReturnsTo
<1>6. IsStack(t, s) /\ p = s[Len(s)].node /\ Fresh(t, s, e, "return")
  BY <1>1, <1>2, Working
<1>7. PICK m : m = t[Caller].left
  OBVIOUS
<1>8. u = Pushed(Front(s), "left", m) /\ m \in DOMAIN t
  BY <1>1, <1>2, <1>3, <1>7, CallNextIs DEF Nodes
<1>9. s[Len(s)].node # t[s[Len(s) - 1].node].left /\ s[Len(s) - 1].for # "left"
  BY <1>2, <1>3, <1>5, <1>6
<1>10. Fresh(t, u, e, "call")
  BY <1>5, <1>6, <1>8, <1>9, FreshLeft
<1>11. Waits(tree, Caller, "left", m)
  BY <1>1, <1>3, <1>7 DEF Waits
<1> QED BY <1>1, <1>2, <1>3, <1>4, <1>7, <1>10, <1>11, CallNextStep

\* The left operand of a join has returned a row, and the right one is rewound
\* with all that is below it before it is stepped.
LEMMA JoinLeftRowStep ==
    ASSUME Sound, tree' = tree, JoinLeftRow
    PROVE  Control'
<1>1. PICK t, s, e, f, u : t = tree /\ s = stack /\ e = ended /\ f = ended' /\ u = stack'
  OBVIOUS
<1>2. /\ pc = "return" /\ p # Root /\ CallerWaits = "left" /\ rc = "ROW"
      /\ CallNext(tree[Caller].right, "again")
      /\ ended' = ended \ Below(tree[Caller].right)
  BY DEF JoinLeftRow, Returned, RewindAll
<1>3. /\ t[Caller].kind = "JOIN" /\ t[Caller].right \in Nodes
  BY <1>1, <1>2, JoinReturnedTo
<1>4. "again" \in Fors
  BY DEF Fors
<1>5. Len(s) > 1 /\ Caller = s[Len(s) - 1].node
  BY <1>1, <1>2, ReturnsTo
<1>6. /\ IsStack(t, s) /\ Len(s) \in 1..Len(s) /\ NoneEnded(s, e) /\ Fresh(t, s, e, "return")
      /\ e \subseteq DOMAIN t
  BY <1>1, <1>2, Working
<1>7. IsSource(tree)
  BY DEF Sound, Typed, TypeOK
<1>8. PICK m, B : m = t[Caller].right /\ B = Below(tree[Caller].right)
  OBVIOUS
<1>9. m \in DOMAIN t /\ m \in B
  BY <1>1, <1>3, <1>7, <1>8, BelowUp DEF Nodes
<1>10. \A n \in DOMAIN t \cap B : Operands(t, n) \subseteq B \cup {0}
  BY <1>1, <1>3, <1>7, <1>8, BelowDown DEF Nodes
<1>11. 0 \notin e
  BY <1>1, <1>6, <1>7, SourceNodes
<1>12. s[Len(s)].node \notin e
  BY <1>6 DEF NoneEnded
<1>13. u = Pushed(Front(s), "again", m)
  BY <1>1, <1>2, <1>8, CallNextIs
<1>14. t[s[Len(s) - 1].node].right \in B
  BY <1>5, <1>8, <1>9
<1>15. Fresh(t, u, e \ B, "call")
  BY <1>4, <1>5, <1>6, <1>9, <1>10, <1>11, <1>12, <1>13, <1>14, FreshRewound
<1>16. f = e \ B
  BY <1>1, <1>2, <1>8
<1>17. Waits(tree, Caller, "again", m)
  BY <1>1, <1>3, <1>8 DEF Waits
<1>18. Fresh(tree, stack', f, "call") /\ f \subseteq ended /\ m \notin f /\ f = ended'
  BY <1>1, <1>9, <1>15, <1>16
<1> QED BY <1>2, <1>3, <1>4, <1>1, <1>8, <1>17, <1>18, CallNextStep

\* EACH or FLATTEN has got the next row of its source.
LEMMA FlattenNextStep ==
    ASSUME Sound, tree' = tree, FlattenNext
    PROVE  Control'
<1>1. PICK t, s, e, u : t = tree /\ s = stack /\ e = ended /\ u = stack'
  OBVIOUS
<1>2. /\ pc = "return" /\ p # Root /\ CallerWaits = "next" /\ rc = "ROW"
      /\ stack' = Front(stack) /\ pc' = "iterate" /\ ended' = ended
  BY DEF FlattenNext, Returned
<1>3. /\ Len(s) > 1 /\ Caller = s[Len(s) - 1].node /\ CallerWaits = s[Len(s) - 1].for
      /\ Waits(t, Caller, CallerWaits, p)
      /\ NoneEnded(Front(s), e) /\ IsStack(t, Front(s)) /\ Front(s) # <<>>
      /\ Len(Front(s)) = Len(s) - 1 /\ Front(s)[Len(s) - 1].node = Caller
  BY <1>1, <1>2, ReturnsTo
<1>4. /\ IsStack(t, s) /\ Len(s) \in 1..Len(s) /\ NoneEnded(s, e) /\ Fresh(t, s, e, "return")
  BY <1>1, <1>2, Working
<1>5. s[Len(s)].node \notin e /\ s[Len(s) - 1].for # "left"
  BY <1>2, <1>3, <1>4 DEF NoneEnded
<1>6. u = Front(s)
  BY <1>1, <1>2
<1>7. Fresh(t, u, e, "iterate")
  BY <1>3, <1>4, <1>5, <1>6, FreshRow
<1>8. EndedOn(u, e, "iterate", rc') /\ IsPath(t, u)
  BY <1>3, <1>6, StackFacts DEF EndedOn, NoneEnded, IsStack
<1>9. t[u[Len(u)].node].kind \in Flattens
  BY <1>2, <1>3, <1>6 DEF Waits
<1> QED BY <1>1, <1>2, <1>7, <1>8, <1>9, ControlIs

\* The source at work goes on.
LEMMA SameStackStep ==
    ASSUME Sound, tree' = tree, pc \in {"call", "iterate"}, pc' = "iterate",
           stack' = stack, ended' = ended, Kind \in Flattens
    PROVE  Control'
<1>1. PICK t, s, e : t = tree /\ s = stack /\ e = ended
  OBVIOUS
<1>2. /\ IsStack(t, s) /\ p = s[Len(s)].node /\ NoneEnded(s, e) /\ Fresh(t, s, e, pc)
  BY <1>1, Working
<1>3. EndedOn(s, e, "iterate", rc') /\ IsPath(t, s)
  BY <1>2, StackFacts DEF EndedOn, NoneEnded, IsStack
<1>4. Fresh(t, s, e, "iterate")
  BY <1>2 DEF Fresh, Returns
<1>5. t[s[Len(s)].node].kind \in Flattens
  BY <1>1, <1>2 DEF Kind
<1> QED BY <1>1, <1>3, <1>4, <1>5, ControlIs

\* Outside of a call the stack is empty.
LEMMA IdleStep ==
    ASSUME tree' = tree, pc' = "idle", stack' = <<>>, NEW f, f = ended',
           \/ ret' \notin {"NONE", "ROW"}
           \/ Root \notin f /\ Fresh(tree, <<>>, f, "idle")
    PROVE  Control'
<1>1. IsPath(tree, <<>>) /\ EndedOn(<<>>, f, "idle", rc')
  BY DEF IsPath, EndedOn
<1>2. PICK t, u : t = tree /\ u = stack'
  OBVIOUS
<1>3. IsPath(t, u) /\ EndedOn(u, f, pc', rc') /\ (Root \notin f => Len(t) \notin f)
  BY <1>1, <1>2 DEF Root
<1> QED BY <1>2, <1>3, ControlIs

\* The root returns: if not with DONE, then none of its operands has ended.
LEMMA StepReturnsStep ==
    ASSUME Sound, tree' = tree, StepReturns
    PROVE  Control'
<1>1. PICK t, s, e : t = tree /\ s = stack /\ e = ended
  OBVIOUS
<1>2. /\ pc = "return" /\ p = Root /\ pc' = "idle" /\ stack' = <<>> /\ ret' = rc /\ ended' = e
  BY <1>1 DEF StepReturns
<1>3. /\ IsStack(t, s) /\ s # <<>> /\ p = s[Len(s)].node /\ Len(s) \in Nat /\ Len(s) > 0
      /\ Len(s) \in 1..Len(s)
      /\ rc # "DONE" => NoneEnded(s, e)
      /\ rc # "NOMEM" => Fresh(t, s, e, "return")
  BY <1>1, <1>2, Working
<1>4. ret' \in {"NONE", "ROW"} => rc = "ROW"
  BY <1>2 DEF Sound, Typed, TypeOK, Codes
<1>5. ASSUME rc = "ROW" PROVE Root \notin e /\ Fresh(t, <<>>, e, "idle")
  <2>1. Root \notin e
    BY <1>2, <1>3, <1>5 DEF NoneEnded
  <2>2. \A i \in 1..(Len(s) - 1) : FALSE
    <3>1. s[1].node = s[Len(s)].node
      BY <1>1, <1>2, <1>3 DEF IsStack, IsPath, Root
    <3>2. 1 \in 1..Len(s)
      BY <1>3
    <3>3. 1 = Len(s)
      BY <1>3, <3>1, <3>2, StackFacts
    <3>4. \A k \in Nat : \A i \in 1..(k - 1) : k # 1
      OBVIOUS
    <3> QED BY <1>3, <3>3, <3>4
  <2>3. \A n : ~StepsLeft(s, n)
    BY <2>2 DEF StepsLeft
  <2>4. \A n \in DOMAIN t : t[n].left # Root /\ t[n].right # Root
    <3>1. Root = Len(t) /\ IsSource(t)
      BY <1>1, <1>3 DEF Root, IsStack
    <3>2. Len(t) \in DOMAIN t /\ Len(t) \in Nat
      BY <3>1, SourceNodes
    <3>3. \A n \in DOMAIN t : Len(t) \in Operands(t, n) => Len(t) < n /\ n <= Len(t)
      BY <3>1, <3>2, Parents
    <3>4. \A n \in DOMAIN t : Len(t) \notin Operands(t, n)
      <4>1. \A n \in DOMAIN t : n \in Nat
        BY <3>1, SourceNodes
      <4> QED BY <3>2, <3>3, <4>1
    <3> QED BY <3>1, <3>4 DEF Operands
  <2>5. s[Len(s)].node = Root
    BY <1>2, <1>3
  <2>6. \A n \in DOMAIN t \ e : t[n].left \notin e /\ t[n].right \notin e
    BY <1>3, <1>5, <2>3, <2>4, <2>5 DEF Fresh, Returns
  <2>7. Fresh(t, <<>>, e, "idle")
    BY <2>6 DEF Fresh
  <2> QED BY <2>1, <2>7
<1>6. \/ ret' \notin {"NONE", "ROW"}
      \/ Root \notin e /\ Fresh(tree, <<>>, e, "idle")
  BY <1>1, <1>4, <1>5
<1> QED BY <1>2, <1>6, IdleStep

\* The root is stepped.
LEMMA StepStep ==
    ASSUME Sound, tree' = tree, Step
    PROVE  Control'
<1>1. PICK t, e, u : t = tree /\ e = ended /\ u = stack'
  OBVIOUS
<1>2. /\ pc = "idle" /\ CanStep /\ u = <<[node |-> Len(t), for |-> "none"]>>
      /\ pc' = "call" /\ ended' = e
  BY <1>1 DEF Step, Frame, Root
<1>3. Len(t) \notin e /\ Fresh(t, stack, e, "idle")
  BY <1>1, <1>2 DEF Sound, Control, Whole, Root
<1>4. stack = <<>>
  BY <1>2 DEF Sound, Typed, TypeOK
<1>5. Len(u) = 1 /\ DOMAIN u = 1..1 /\ u[1].node = Len(t)
  BY <1>2
<1>6. IsPath(t, u)
  BY <1>5 DEF IsPath
<1>7. EndedOn(u, e, "call", rc')
  BY <1>3, <1>5 DEF EndedOn
<1>8. \A n : ~StepsLeft(<<>>, n)
  BY DEF StepsLeft
<1>9. Fresh(t, u, e, "call")
  BY <1>3, <1>4, <1>8 DEF Fresh, Returns
<1> QED BY <1>1, <1>2, <1>6, <1>7, <1>9, ControlIs

\* A subquery in FROM whose list has no item left stops the program.
LEMMA StopStep ==
    ASSUME Sound, tree' = tree, SubqueryDone, tree[p].fromList
    PROVE  Control'
<1>1. PICK t, s, e : t = tree /\ s = stack /\ e = ended
  OBVIOUS
<1>2. pc = "call" /\ pc' = "stopped" /\ stack' = s /\ ended' = e
  BY <1>1 DEF SubqueryDone, AtLeaf
<1>3. IsStack(t, s) /\ NoneEnded(s, e)
  BY <1>1, <1>2, Working
<1>4. IsPath(t, s) /\ EndedOn(s, e, "stopped", rc')
  BY <1>3, StackFacts DEF EndedOn, NoneEnded, IsStack
<1> QED BY <1>1, <1>2, <1>4, ControlIs

\* A step keeps what is known of the control.
LEMMA ControlStep ==
    ASSUME Sound, [Next]_vars
    PROVE  Control'
<1>1. tree' = tree
  BY TypeStep DEF Sound
<1>2. CASE UNCHANGED vars
  <2>1. UNCHANGED <<tree, stack, pc, rc, ended, ret>>
    BY <1>2 DEF vars, env, client
  <2>2. PICK t, u, f : t = tree' /\ u = stack' /\ f = ended'
    OBVIOUS
  <2>3. IsPath(t, u) /\ EndedOn(u, f, pc', rc') /\ (Whole => Fresh(t, u, f, pc'))
    BY <2>1, <2>2 DEF Sound, Control
  <2>4. /\ pc' = "iterate" => t[u[Len(u)].node].kind \in Flattens
        /\ pc' = "idle" /\ ret' \in {"NONE", "ROW"} => Len(t) \notin f
    BY <2>1, <2>2 DEF Sound, Control, Kind, p, Last, CanStep, Root
  <2>5. \/ pc' = "stopped" \/ (pc' = "return" /\ rc' = "NOMEM")
        \/ (pc' = "idle" /\ ret' \notin {"NONE", "ROW"})
        \/ Whole
    BY <2>1 DEF Sound, Typed, TypeOK, Whole, CanStep
  <2> QED BY <2>2, <2>3, <2>4, <2>5, ControlIs
<1>3. CASE Step
  BY <1>1, <1>3, StepStep
<1>4. CASE StepReturns
  BY <1>1, <1>4, StepReturnsStep
<1>5. CASE Rewind
  <2>1. /\ pc' = "idle" /\ stack' = <<>> /\ ended' = {}
    BY <1>5 DEF Rewind, RewindAll, Sound, Typed, TypeOK
  <2>2. Fresh(tree, <<>>, {}, "idle")
    BY DEF Fresh
  <2> QED BY <1>1, <2>1, <2>2, IdleStep
<1>6. CASE Close
  <2>1. pc' = "idle" /\ stack' = <<>> /\ ret' = "CLOSED"
    BY <1>6 DEF Close, Sound, Typed, TypeOK
  <2> QED BY <1>1, <2>1, IdleStep
<1>7. CASE TableRow \/ SubqueryRow \/ PathRow \/ NullRow
  BY <1>1, <1>7, ReturnStep DEF TableRow, SubqueryRow, PathRow, NullRow, AtLeaf, LeafRow
<1>8. CASE TableDone \/ SubqueryNoMem \/ PathDone \/ NullDone
  BY <1>1, <1>8, ReturnStep DEF TableDone, SubqueryNoMem, PathDone, NullDone, AtLeaf
<1>9. CASE SubqueryDone
  <2>1. CASE tree[p].fromList
    BY <1>1, <1>9, <2>1, StopStep
  <2>2. CASE ~tree[p].fromList
    BY <1>1, <1>9, <2>2, ReturnStep DEF SubqueryDone, AtLeaf
  <2> QED BY <2>1, <2>2
<1>10. CASE JoinStart \/ JoinOn
  <2>1. pc = "call" /\ tree[p].kind = "JOIN" /\ ended' = ended
    BY <1>10 DEF JoinStart, JoinOn, Kind
  <2>2. p \in Nodes /\ IsSource(tree)
    BY <2>1, AtWork DEF Sound, Typed, TypeOK
  <2>3. tree[p].left \in Nodes /\ tree[p].right \in Nodes
    BY <2>1, <2>2, OperandNodes
  <2>4. Waits(tree, p, "first", tree[p].left) /\ Waits(tree, p, "right", tree[p].right)
    BY <2>1 DEF Waits
  <2>5. "first" \in Fors /\ "right" \in Fors
    BY DEF Fors
  <2>6. Call(tree[p].left, "first") \/ Call(tree[p].right, "right")
    BY <1>10 DEF JoinStart, JoinOn
  <2> QED BY <1>1, <2>1, <2>3, <2>4, <2>5, <2>6, CallStep
<1>11. CASE JoinFirstRow
  BY <1>1, <1>11, JoinFirstRowStep
<1>12. CASE JoinRightDone
  BY <1>1, <1>12, JoinRightDoneStep
<1>13. CASE JoinLeftRow
  BY <1>1, <1>13, JoinLeftRowStep
<1>14. CASE JoinReturns \/ FlattenReturns
  <2>1. pc = "return" /\ p # Root /\ ReturnFromCaller(rc)
    BY <1>14 DEF JoinReturns, FlattenReturns, Returned
  <2>2. rc = "DONE" \/ rc = "NOMEM" \/ (rc = "ROW" /\ CallerWaits # "left")
    BY <1>14 DEF JoinReturns, FlattenReturns, Returned, Others
  <2> QED BY <1>1, <2>1, <2>2, CallerStep
<1>15. CASE FlattenStart
  BY <1>1, <1>15, SameStackStep DEF FlattenStart
<1>16. CASE IterPop \/ IterEnter
  <2>1. /\ pc = "iterate" /\ pc' = "iterate" /\ stack' = stack /\ ended' = ended
    BY <1>16 DEF IterPop, IterEnter
  <2>2. Kind \in Flattens
    BY <2>1 DEF Sound, Control
  <2> QED BY <1>1, <2>1, <2>2, SameStackStep
<1>17. CASE IterRow
  BY <1>1, <1>17, ReturnStep DEF IterRow
<1>18. CASE FlattenCalls
  <2>1. pc = "iterate" /\ ended' = ended /\ Call(tree[p].left, "next")
    BY <1>18 DEF FlattenCalls
  <2>2. tree[p].kind \in Flattens
    BY <2>1 DEF Sound, Control, Kind
  <2>3. p \in Nodes /\ IsSource(tree)
    BY <2>1, AtWork DEF Sound, Typed, TypeOK
  <2>4. tree[p].left \in Nodes
    BY <2>2, <2>3, OperandNodes
  <2>5. Waits(tree, p, "next", tree[p].left) /\ "next" \in Fors
    BY <2>2 DEF Waits, Fors
  <2> QED BY <1>1, <2>1, <2>4, <2>5, CallStep
<1>19. CASE FlattenNext
  BY <1>1, <1>19, FlattenNextStep
<1> QED
  BY <1>2, <1>3, <1>4, <1>5, <1>6, <1>7, <1>8, <1>9, <1>10, <1>11, <1>12, <1>13, <1>14,
     <1>15, <1>16, <1>17, <1>18, <1>19 DEF Next, Internal

-----------------------------------------------------------------------------
(* The theorems *)

\* The first state is sound: nothing has been stepped.
LEMMA InitSound == Init => Sound
<1> SUFFICES ASSUME Init PROVE Sound
  OBVIOUS
<1>1. stack = <<>> /\ pc = "idle" /\ ended = {}
  BY DEF Init
<1>2. Control
  BY <1>1 DEF Control, IsPath, EndedOn, Fresh
<1> QED BY <1>2, InitTyped DEF Sound

\* A step keeps what is known.
LEMMA SoundStep == Sound /\ [Next]_vars => Sound'
BY TypeStep, ControlStep DEF Sound

\* At every moment of every run the stack is a path of sources that wait for
\* the next one, and no source that has not ended has lost an operand for good:
\* what xjd1DataSrcStep relies on as it calls itself (datasrc.c:343-447).
THEOREM AlwaysSound == Spec => []Sound
BY InitSound, SoundStep, PTL DEF Spec

\* The types of the model are right, for every FROM clause: the source that is
\* stepped is one of the tree, and an iterator is in a container
\* (datasrc.c:343-447).
THEOREM TypeCorrect == Spec => []TypeOK
<1>1. Sound => TypeOK
  BY DEF Sound, Typed
<1> QED BY <1>1, AlwaysSound, PTL

\* The source that is called has not ended.
CalledHasNotEnded == pc = "call" => Last(stack).node \notin ended

LEMMA NoneCalledAtItsEnd == Sound => CalledHasNotEnded
<1> SUFFICES ASSUME Sound, pc = "call" PROVE Last(stack).node \notin ended
  BY DEF CalledHasNotEnded
<1>1. PICK t, s, e : t = tree /\ s = stack /\ e = ended
  OBVIOUS
<1>2. NoneEnded(s, e) /\ Len(s) \in 1..Len(s) /\ p = s[Len(s)].node
  BY <1>1, Working
<1>3. p = Last(stack).node
  BY DEF p
<1> QED BY <1>1, <1>2, <1>3 DEF NoneEnded

\* However joins, EACH and FLATTEN nest, no source is stepped after it has
\* returned DONE and before it is rewound (datasrc.c:355-361): the cursor of a
\* collection, which would start over, never does.
THEOREM EndedIsNotCalled == Spec => NoCallAfterEnd
<1>1. CalledHasNotEnded' => [pc' = "call" => Last(stack').node \notin ended']_vars
  BY DEF CalledHasNotEnded
<1> QED BY <1>1, NoneCalledAtItsEnd, AlwaysSound, PTL DEF NoCallAfterEnd

\* In any FROM clause the number that xjd1DataSrcResolve gives a name leads
\* xjd1DataSrcRead and a list filled by xjd1DataSrcCacheSave to the value of the
\* first source of that name, whatever rows there are (datasrc.c:557-632): the
\* four walks over the tree count alike.
THEOREM NamesMeanOneDocument == Spec => []NamesAgree
<1>1. Sound => NamesAgree
  BY NamesAreRead DEF Sound, Typed, TypeOK
<1> QED BY <1>1, AlwaysSound, PTL

\* After xjd1DataSrcClose nothing happens any more.
ClosedIsLast == (ret = "CLOSED" => pc = "idle") /\ ClosesLoneCollections

\* The step of xjd1DataSrcClose closes the collections that are below no join.
LEMMA CloseStep ==
    ASSUME Sound, ClosedIsLast, Close
    PROVE  ClosesLoneCollections'
<1>1. IsSource(tree)
  BY DEF Sound, Typed, TypeOK
<1>2. tree' = tree /\ ret' = "CLOSED" /\ prepared' = Cursors \ Finalized
  BY DEF ClosedIsLast, ClosesLoneCollections, Close, env
<1>3. Cursors' = Cursors /\ Nodes' = Nodes
  BY <1>2 DEF Cursors, Nodes
<1>4. \A n : Below(n)' = Below(n)
  BY <1>2 DEF Below
<1>5. LeftOpen' = LeftOpen
  BY <1>2, <1>3, <1>4 DEF LeftOpen, IsBelowJoin
<1>6. \A c \in Cursors : c \in Finalized <=> c \notin LeftOpen
  <2> SUFFICES ASSUME NEW c \in Cursors PROVE c \in Finalized <=> c \notin LeftOpen
    OBVIOUS
  <2>1. c \in Finalized => c \in Tables /\ ~IsBelowJoin(c)
    BY <1>1, ClosedIsLone
  <2>2. c \in Tables /\ ~IsBelowJoin(c) => c \in Finalized
    BY <1>1, ClosedUnlessJoined DEF IsBelowJoin
  <2>3. c \in Tables <=> tree[c].kind # "SUBQUERY"
    BY DEF Cursors, Tables
  <2> QED BY <2>1, <2>2, <2>3 DEF LeftOpen
<1>7. LeftOpen \subseteq Cursors
  BY DEF LeftOpen
<1>8. prepared' = LeftOpen
  BY <1>2, <1>6, <1>7
<1> QED BY <1>2, <1>5, <1>8 DEF ClosesLoneCollections

\* In any FROM clause, deleting a statement finalizes the cursor of a
\* collection that is below no join, whatever EACH and FLATTEN are applied to
\* it, and no other cursor: xjd1DataSrcClose goes through those but has no case
\* for TK_COMMA and TK_SELECT (datasrc.c:536-556).
THEOREM OnlyLoneCollectionsAreClosed == Spec => []ClosesLoneCollections
<1>1. Init => ClosedIsLast
  BY DEF Init, ClosedIsLast, ClosesLoneCollections
<1>2. Sound /\ ClosedIsLast /\ [Next]_vars => ClosedIsLast'
  <2> SUFFICES ASSUME Sound, ClosedIsLast, [Next]_vars
               PROVE  ClosedIsLast'
    OBVIOUS
  <2>1. CASE UNCHANGED vars
    <3>1. UNCHANGED <<tree, prepared, pc, ret>>
      BY <2>1 DEF vars, env, client
    <3>2. Cursors' = Cursors /\ LeftOpen' = LeftOpen
      BY <3>1 DEF Cursors, LeftOpen, IsBelowJoin, Nodes, Below
    <3> QED BY <3>1, <3>2 DEF ClosedIsLast, ClosesLoneCollections
  <2>2. CASE Close
    <3>1. pc' = "idle"
      BY <2>2 DEF Close
    <3>2. ClosesLoneCollections'
      BY <2>2, CloseStep
    <3> QED BY <3>1, <3>2 DEF ClosedIsLast
  <2>3. CASE Next /\ ~Close
    <3>1. rc # "CLOSED" /\ IsSource(tree)
      BY DEF Sound, Typed, TypeOK, Codes
    <3>2. ret # "CLOSED"
      BY <2>3 DEF ClosedIsLast, CanStep, Next, Internal, Step, Rewind, StepReturns, TableRow,
         TableDone, SubqueryRow, SubqueryDone, SubqueryNoMem, PathRow, PathDone, NullRow,
         NullDone, AtLeaf, JoinStart, JoinOn, JoinFirstRow, JoinRightDone, JoinLeftRow,
         JoinReturns, Returned, FlattenStart, IterPop, IterEnter, IterRow, FlattenCalls,
         FlattenNext, FlattenReturns
    <3>3. ret' = ret \/ ret' = rc \/ ret' \in {"NONE", "FAULT"}
      BY <2>3 DEF client, Next, Internal, Step, Rewind, StepReturns, LeafRow, TableRow,
         TableDone, SubqueryRow, SubqueryDone, SubqueryNoMem, PathRow, PathDone, NullRow,
         NullDone, JoinStart, JoinOn, JoinFirstRow, JoinRightDone, JoinLeftRow,
         JoinReturns, FlattenStart, IterPop, IterEnter, IterRow, FlattenCalls,
         FlattenNext, FlattenReturns
    <3>4. tree' = tree /\ prepared' = prepared
      BY <2>3 DEF env, Next, Internal, Step, Rewind, StepReturns, LeafRow, TableRow,
         TableDone, SubqueryRow, SubqueryDone, SubqueryNoMem, PathRow, PathDone, NullRow,
         NullDone, JoinStart, JoinOn, JoinFirstRow, JoinRightDone, JoinLeftRow,
         JoinReturns, FlattenStart, IterPop, IterEnter, IterRow, FlattenCalls,
         FlattenNext, FlattenReturns
    <3>5. ret' # "CLOSED"
      BY <3>1, <3>2, <3>3
    <3>6. prepared = Cursors /\ Cursors' = Cursors
      BY <3>2, <3>4 DEF ClosedIsLast, ClosesLoneCollections, Cursors, Nodes
    <3> QED BY <3>4, <3>5, <3>6 DEF ClosedIsLast, ClosesLoneCollections
  <2> QED BY <2>1, <2>2, <2>3
<1>3. ClosedIsLast => ClosesLoneCollections
  BY DEF ClosedIsLast
<1> QED BY <1>1, <1>2, <1>3, AlwaysSound, PTL DEF Spec
=============================================================================
