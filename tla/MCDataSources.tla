---------------------------- MODULE MCDataSources ----------------------------
(***************************************************************************)
(* Instances of DataSources for TLC: every pair of leaves joined, three    *)
(* leaves joined, EACH and FLATTEN over a collection, a subquery and each  *)
(* other and as either operand of a join, with rows that have a container  *)
(* at the path, one without entries, a nested one, a scalar or nothing.    *)
(***************************************************************************)
EXTENDS DataSources

Node(kind, name) ==
    [kind |-> kind, name |-> name, rows |-> <<>>, fromList |-> FALSE,
     left |-> 0, right |-> 0, path |-> <<>>, as |-> <<>>]

Table(name, rows) == [Node("TABLE", name) EXCEPT !.rows = rows]
Subquery(name, rows, fromList) ==
    [Node("SUBQUERY", name) EXCEPT !.rows = rows, !.fromList = fromList]
Path(name) == Node("PATH", name)
Nothing == Node("NULL", "")
Join(l, r) == [Node("JOIN", "") EXCEPT !.left = l, !.right = r]
Flatten(kind, l, path, as) ==
    [Node(kind, "") EXCEPT !.left = l, !.path = path, !.as = as]

Ids(n) == [i \in 1..n |-> Atom(ToString(i))]

MCOuters == { Array(<<>>), Array(<<Atom("o"), Atom("u")>>), Atom("o") }

\* Rows with different values at the path x.
Nested == Struct(<<Entry("b", Array(<<Atom("2"), Array(<<>>), Atom("3")>>)),
                   Entry("c", Atom("4"))>>)
Doc(entries) == Struct(<<Entry("a", Atom("1"))>> \o entries)
Docs == <<Doc(<<Entry("x", Array(<<Atom("5"), Nested>>))>>),
          Doc(<<>>),
          Doc(<<Entry("x", Array(<<>>))>>),
          Doc(<<Entry("x", Nested), Entry("y", Atom("6"))>>),
          Doc(<<Entry("x", Atom("7"))>>)>>
DocLists == { <<>>, <<Docs[2], Docs[3]>>, <<Docs[1]>>, <<Docs[4], Docs[5], Docs[1]>> }

Pairs(S, T) == { <<l, r, Join(1, 2)>> : l \in S, r \in T }
LeftLeaves == { Table("c", Ids(n)) : n \in 0..3 } \cup { Subquery("s", Ids(2), FALSE), Path("o") }
RightLeaves == { Table("d", Ids(n)) : n \in 0..2 } \cup { Subquery("c", Ids(2), FALSE), Path("c") }

Triples == { <<Table("c", Ids(i)), Table("d", Ids(j)), Join(1, 2), Subquery("e", Ids(k), FALSE), Join(3, 4)>> :
                i \in 0..2, j \in 0..2, k \in 0..2 }

Paths == { <<"x">>, <<"y">> }
Singles == { <<Table("c", rows), Flatten(kind, 1, <<"x">>, as)>> :
                rows \in DocLists, kind \in Flattens, as \in Paths }
Doubles == { <<Table("c", rows), Flatten(k, 1, <<"x">>, <<"y">>), Flatten(l, 2, path, path)>> :
                rows \in DocLists, k \in Flattens, l \in Flattens,
                path \in { <<"y", "v">>, <<"x">> } }
FlattenRight == { <<Table("d", Ids(2)), Table("c", rows), Flatten(k, 2, <<"x">>, <<"x">>), Join(1, 3)>> :
                    rows \in DocLists, k \in Flattens }
FlattenLeft == { <<Table("c", rows), Flatten(k, 1, <<"x">>, <<"x">>), Table("d", Ids(2)), Join(2, 3)>> :
                    rows \in DocLists, k \in Flattens }

Alone == { <<Nothing>>, <<Path("o")>>, <<Table("c", Ids(2))>>,
           <<Subquery("s", Ids(2), TRUE)>>, <<Subquery("s", Ids(2), FALSE)>> }
FlattenSubquery == { <<Subquery("s", rows, FALSE), Flatten(k, 1, <<"x">>, <<"x">>)>> :
                        rows \in DocLists, k \in Flattens }

Trees == Alone \cup FlattenSubquery
         \cup Pairs(LeftLeaves, RightLeaves) \cup Triples
         \cup Singles \cup Doubles \cup FlattenRight \cup FlattenLeft

Fragile == Pairs({ Table("c", Ids(2)) }, { Table("d", Ids(2)), Subquery("s", Ids(2), FALSE) })
           \cup FlattenRight
           \cup { <<Table("c", Ids(2)), Table("d", Ids(2)), Join(1, 2), Subquery("e", Ids(2), FALSE), Join(3, 4)>> }

MCCases == [tree : Trees, faults : {0}] \cup [tree : Fragile, faults : {1, 2}]
=============================================================================
