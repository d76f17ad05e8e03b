----------------------------- MODULE Collections -----------------------------
(***************************************************************************)
(* Collections of documents and what the statements that change them mean. *)
(*                                                                         *)
(* A collection is a table of SQLite with one column: a function from the  *)
(* rowids in use to documents.  A statement is a record                    *)
(*                                                                         *)
(*   op       "create", "drop", "insert", "deleteAll" (no WHERE clause),   *)
(*            "delete" or "update"                                         *)
(*   coll     the collection it names                                      *)
(*   lenient  CREATE ... IF NOT EXISTS, DROP ... IF EXISTS                 *)
(*   where    the documents that its WHERE clause accepts                  *)
(*   set      what the SET list makes of a document                        *)
(*   doc      the document to insert, NoDoc for INSERT ... SELECT and for  *)
(*            a value that cannot be evaluated; for "update" the document  *)
(*            of ELSE INSERT                                               *)
(***************************************************************************)
EXTENDS Integers, FiniteSetsExt

CONSTANTS
    Colls,          \* names of collections
    Docs,           \* documents
    NoDoc,          \* no document: an UPDATE without ELSE INSERT, an INSERT
                    \* without a value
    Absent,         \* a name without a collection
    Given           \* the statements that clients give

Ops == {"create", "drop", "insert", "deleteAll", "delete", "update"}
Statements == [op : Ops, coll : Colls, lenient : BOOLEAN, where : SUBSET Docs,
               set : [Docs -> Docs], doc : Docs \cup {NoDoc}]

ASSUME GivenAssumption == Given \subseteq Statements
ASSUME NoDocAssumption == NoDoc \notin Docs

IsUpsert(s) == s.op = "update" /\ s.doc # NoDoc

EmptyTable == [r \in {} |-> NoDoc]

Matching(s, t) == { r \in DOMAIN t : t[r] \in s.where }
Without(t, rows) == [r \in DOMAIN t \ rows |-> t[r]]
Revised(s, t, rows) == [r \in DOMAIN t |-> IF r \in rows THEN s.set[t[r]] ELSE t[r]]

\* The rowid of a new row is one more than the largest in use.
NextRow(t) == IF DOMAIN t = {} THEN 1 ELSE Max(DOMAIN t) + 1
Inserted(t, doc) ==
    [r \in DOMAIN t \cup {NextRow(t)} |-> IF r \in DOMAIN t THEN t[r] ELSE doc]

\* Whether a statement inserts its document into the collection.
Inserts(s, t) ==
    /\ s.op = "insert" \/ (s.op = "update" /\ Matching(s, t) = {})
    /\ s.doc # NoDoc

-----------------------------------------------------------------------------
\* The collection named by a statement that changes all it changes at once.
Effect(s, t) ==
    IF s.op = "create" THEN IF t = Absent THEN EmptyTable ELSE t
    ELSE IF s.op = "drop" \/ t = Absent THEN Absent
    ELSE CASE Inserts(s, t)       -> Inserted(t, s.doc)
           [] s.op = "deleteAll"  -> EmptyTable
           [] s.op = "delete"     -> Without(t, Matching(s, t))
           [] s.op = "update" /\ ~Inserts(s, t) -> Revised(s, t, Matching(s, t))
           [] OTHER               -> t

\* An UPDATE without ELSE INSERT commits each row that it revises; every other
\* statement commits once.
IsRowByRow(s, t) == s.op = "update" /\ ~IsUpsert(s) /\ t # Absent

\* The committed states a statement takes database d through, from stage 0, d
\* itself, to the last: the rows below k are revised at stage k.
LastStage(s, d) == IF d[s.coll] = Absent THEN 1 ELSE NextRow(d[s.coll])
Stage(s, d, k) ==
    [d EXCEPT ![s.coll] =
        CASE IsRowByRow(s, @) -> Revised(s, @, { r \in Matching(s, @) : r < k })
          [] ~IsRowByRow(s, @) /\ k = 0 -> @
          [] OTHER -> Effect(s, @)]

\* What a statement returns: DELETE and UPDATE return XJD1_OK in any case, and
\* an INSERT without a value, which does not look for the collection, XJD1_DONE.
Reply(s, d) ==
    CASE s.op = "create" -> IF d[s.coll] = Absent \/ s.lenient THEN "DONE" ELSE "ERROR"
      [] s.op = "drop"   -> IF d[s.coll] # Absent \/ s.lenient THEN "DONE" ELSE "ERROR"
      [] s.op = "insert" -> IF d[s.coll] # Absent \/ s.doc = NoDoc THEN "DONE" ELSE "ERROR"
      [] OTHER           -> "OK"
=============================================================================
