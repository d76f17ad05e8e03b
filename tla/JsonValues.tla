------------------------------ MODULE JsonValues ------------------------------
(***************************************************************************)
(* JSON values as data: atoms (a number or a Boolean), strings, and structs *)
(* and arrays of entries, which have a key and a value and keep their      *)
(* order.  The keys of an array are "0", "1", ...; those of a struct are   *)
(* whatever the module that uses the values names fields by.  (All values  *)
(* are records of one shape, so that TLC can compare any two.)             *)
(***************************************************************************)
EXTENDS Integers, Sequences, SequencesExt, TLC

NoValue == [type |-> "none", is |-> <<>>, elems |-> <<>>]    \* a null pointer
Null == [type |-> "null", is |-> <<>>, elems |-> <<>>]       \* XJD1_NULL
Atom(x) == [type |-> "atom", is |-> <<x>>, elems |-> <<>>]
String(z) == [type |-> "string", is |-> z, elems |-> <<>>]   \* z: its characters

Entry(k, v) == [key |-> k, val |-> v]
Struct(entries) == [type |-> "struct", is |-> <<>>, elems |-> entries]
Array(vals) ==
    [type |-> "array", is |-> <<>>,
     elems |-> [i \in DOMAIN vals |-> Entry(ToString(i - 1), vals[i])]]

IsContainer(v) == v.type \in {"struct", "array"}
Values(c) == [i \in DOMAIN c.elems |-> c.elems[i].val]

KeyValue(k, v) == Struct(<<Entry("k", k), Entry("v", v)>>)

\* The entry of a container that has a key, or 0.
Index(c, k) == SelectInSeq(c.elems, LAMBDA e : e.key = k)

\* The value that struct v has at a key, or NoValue.
Field(v, k) ==
    IF v.type = "struct" /\ Index(v, k) # 0 THEN v.elems[Index(v, k)].val ELSE NoValue

\* The value at a path of keys, or NoValue.
At(v, path) ==
    LET to[i \in 0..Len(path)] == IF i = 0 THEN v ELSE Field(to[i - 1], path[i])
    IN  to[Len(path)]

\* Struct v with x at a path: the last entry is replaced, or added at the end.
Put(v, path, x) ==
    LET from[i \in 1..(Len(path) + 1)] ==
            IF i = Len(path) + 1 THEN x
            ELSE LET s == At(v, SubSeq(path, 1, i - 1))
                     e == Entry(path[i], from[i + 1])
                 IN  [s EXCEPT !.elems = IF Index(s, path[i]) = 0 THEN Append(@, e)
                                         ELSE [@ EXCEPT ![Index(s, path[i])] = e]]
    IN  from[1]

\* The entries of container c, with the path of keys that leads to each.
Under(path, c) ==
    [i \in DOMAIN c.elems |-> Entry(Append(path, c.elems[i].key), c.elems[i].val)]

\* An entry, or those of the container that it is.
Opened(e) == IF IsContainer(e.val) THEN Under(e.key, e.val) ELSE <<e>>

\* The entries of container c; on the next level those of the containers among
\* them are in their place, and so on, depth times.
Levels(c, depth) ==
    LET level[d \in 0..depth] ==
            IF d = 0 THEN Under(<<>>, c)
            ELSE LET es == level[d - 1] IN FlattenSeq([i \in DOMAIN es |-> Opened(es[i])])
    IN  level

\* Those that are no containers, if the values nest no deeper than that.
Scalars(c, depth) == Levels(c, depth)[depth]

IsSequence(s) == s \in Seq(ToSet(s))

\* Container c nests at most depth deep.
Nests(c, depth) ==
    /\ IsSequence(c.elems)
    /\ \A d \in 0..depth : \A e \in ToSet(Levels(c, depth)[d]) :
        IsContainer(e.val) => d < depth /\ IsSequence(e.val.elems)
=============================================================================
