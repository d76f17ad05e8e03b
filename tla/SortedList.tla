----------------------------- MODULE SortedList -----------------------------
(***************************************************************************)
(* What a sorted list of query results is: JSON values in the order of     *)
(* xjd1JsonCompare, keys compared term by term with a direction per term,  *)
(* and the result that sortResultList promises.  SelectQuery uses the      *)
(* promise where the code sorts; ResultList shows that the merge sort of   *)
(* query.c keeps it.                                                       *)
(*                                                                         *)
(* A JSON scalar is an integer (XJD1_REAL) or Null (XJD1_NULL); a document *)
(* is the sequence of its scalars in the order the comparison visits them. *)
(* Two documents that are compared here have the same shape.               *)
(***************************************************************************)
EXTENDS Integers, Sequences

CONSTANT Null               \* The JSON null value

ASSUME NullAssumption == Null \notin Int

Scalars == Int \cup {Null}

\* Scalars of different types compare by type, and XJD1_REAL is below XJD1_NULL.
ScalarLess(x, y) == x # Null /\ (y = Null \/ x < y)

\* xjd1JsonCompare(a, b) < 0: the first position that differs decides.
DocLess(a, b) ==
    \E i \in DOMAIN a :
        /\ \A j \in 1..(i - 1) : a[j] = b[j]
        /\ ScalarLess(a[i], b[i])

\* cmpResultItem(a, b) < 0 for the keys of two items, one document per term:
\* the first term that differs decides, in the direction of that term.
KeyLess(a, b, desc) ==
    \E i \in DOMAIN a :
        /\ \A j \in 1..(i - 1) : a[j] = b[j]
        /\ IF desc[i] THEN DocLess(b[i], a[i]) ELSE DocLess(a[i], b[i])

-----------------------------------------------------------------------------
\* p lists positions of s in the order a stable sort by Less visits them.
IsStableOrder(p, s, Less(_, _)) ==
    \A i, j \in DOMAIN p :
        i < j => \/ Less(s[p[i]], s[p[j]])
                 \/ ~Less(s[p[j]], s[p[i]]) /\ p[i] < p[j]

\* The lists that sortResultList(s, ., 0) may leave: all the items of s, in
\* order, and equal items in the order in which they were added.
StableSorts(s, Less(_, _)) ==
    { [i \in DOMAIN s |-> s[p[i]]] :
        p \in { f \in [DOMAIN s -> DOMAIN s] : IsStableOrder(f, s, Less) } }

\* p lists, in ascending order, the positions of s that are the first to hold
\* an item equal to them, one for every item of s.
IsDistinctOrder(p, s, Less(_, _)) ==
    /\ \A i, j \in DOMAIN p : i < j => Less(s[p[i]], s[p[j]])
    /\ \A k \in DOMAIN s : \E i \in DOMAIN p :
          p[i] <= k /\ ~Less(s[p[i]], s[k]) /\ ~Less(s[k], s[p[i]])

\* The lists that sortResultList(s, ., 1) may leave: strictly ascending, and
\* each item of s represented by the first one added that is equal to it.
DistinctSorts(s, Less(_, _)) ==
    UNION { { [i \in 1..n |-> s[p[i]]] :
                p \in { f \in [1..n -> DOMAIN s] : IsDistinctOrder(f, s, Less) } } :
            n \in 0..Len(s) }
=============================================================================
