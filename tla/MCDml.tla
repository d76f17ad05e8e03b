-------------------------------- MODULE MCDml --------------------------------
(* Instances of Dml for TLC: two documents, and an UPDATE that exchanges them, *)
(* so that a row that is revised twice, or not at all, is seen.                *)
EXTENDS Dml, TLC

Swap == [d \in Docs |-> CHOOSE e \in Docs : e # d]

Some(op, lenients, wheres, docs) ==
    [op : {op}, coll : Colls, lenient : lenients, where : wheres, set : {Swap}, doc : docs]

One == { {d} : d \in Docs }

\* UPDATE ... ELSE INSERT inserts a document that it would have revised, so that
\* giving it again changes what it inserted.
GivenStatements ==
    UNION { Some("create", BOOLEAN, {{}}, {NoDoc}),
            Some("drop", BOOLEAN, {{}}, {NoDoc}),
            Some("insert", {FALSE}, {{}}, Docs \cup {NoDoc}),
            Some("deleteAll", {FALSE}, {{}}, {NoDoc}),
            Some("delete", {FALSE}, One, {NoDoc}),
            Some("update", {FALSE}, One \cup {Docs}, {NoDoc}),
            { s \in Some("update", {FALSE}, One, Docs) : s.doc \in s.where } }

Symmetry == Permutations(Colls) \cup Permutations(Docs)

\* A client that may do both untidy things may also do only one of them.
AllClients == { [keepsCursors |-> b, deletesMissing |-> b] : b \in BOOLEAN }
=============================================================================
