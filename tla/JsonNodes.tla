------------------------------ MODULE JsonNodes ------------------------------
(***************************************************************************)
(* The JSON values of a running statement as they are in memory: nodes     *)
(* with reference counts, shared between the document of the row, the      *)
(* literals of the statement and what is made of them (src/src/update.c,   *)
(* and what func.c and datasrc.c do with nodes).                           *)
(*                                                                         *)
(* A behaviour is one statement over some rows: an UPDATE, a query over    *)
(* EACH, or a query with an aggregate over the groups of its rows.         *)
(***************************************************************************)
EXTENDS Expressions

CONSTANTS
    Cases     \* the statements: records of `stmt', `rows', `lits', and
              \*   UPDATE     changes: records [lvalue, expr]
              \*   EACH       key, as: the field iterated over and the one added
              \*   AGGREGATE  func, expr, and ends: after how many rows a
              \*              group ends

VARIABLES
    case,      \* the statement
    nodes,     \* the nodes, as many as were ever allocated
    fault,     \* has memory been used that was freed, or freed twice?
    row,       \* how many rows were read
    pc,        \* what comes next: "row", "change", "entry", "doc", "end" or "over"
    at,        \* how many changes or entries of this row, or groups, were done
    pDoc,      \* the document of the row
    pResult,   \* what is made of it: pNewDoc of an UPDATE, pValue of EACH, or
               \* the result of a group that the caller holds
    pIter,     \* the container that EACH iterates over
    pAgg,      \* the context of the aggregate, pAggCtx
    pValue,    \* the value of the aggregate for the last group
    stored     \* the texts that an UPDATE has stored

vars == <<case, nodes, fault, row, pc, at, pDoc, pResult, pIter, pAgg, pValue, stored>>

-----------------------------------------------------------------------------
(* The place an assignment writes to.  A step of an L-value has the text   *)
(* of its key and whether it is an index, with its number (-1: none).      *)

\* findStructElement: what is no structure becomes an empty one, and a
\* property that is missing is added.
FindStructElement(m, base, key) ==
    LET s == IF m.nodes[base].type = "struct" THEN m
             ELSE [ToNull(m, base) EXCEPT !.nodes[base].type = "struct"]
        more == New(s)
    IN  IF base = 0 THEN Returning(m, 0)
        ELSE IF KidAt(s, base, key) # 0 THEN Returning(s, s.nodes[base].kids[KidAt(s, base, key)].node)
        ELSE [more EXCEPT !.nodes[base].kids = Append(@, Kid(key, more.res))]

\* The element of an array, which grows as needed.
Element(m, base, i) ==
    LET kids == m.nodes[base].kids
        Grow(acc, k) == LET n == Make(acc, "null", <<>>, <<>>)
                        IN  [n EXCEPT !.nodes[base].kids = Append(@, Kid(ToString(k), n.res))]
    IN  IF i < 0 THEN Returning(m, 0)
        ELSE IF i < Len(kids) THEN Returning(m, kids[i + 1].node)
        ELSE FoldLeft(Grow, m, [k \in 1..(i + 1 - Len(kids)) |-> Len(kids) + k - 1])

\* findOrCreateJsonNode, from the root of the document on.  The index operator
\* does not look whether there is a base.
FindOrCreate(m, root, lvalue) ==
    LET Step(acc, s) ==
            CASE ~s.index -> FindStructElement(acc, acc.res, s.key)
              [] s.index /\ acc.res = 0 -> Faulty(acc)
              [] s.index /\ acc.res # 0 ->
                    CASE acc.nodes[acc.res].type = "struct" -> FindStructElement(acc, acc.res, s.key)
                      [] acc.nodes[acc.res].type = "array" -> Element(acc, acc.res, s.number)
                      [] OTHER -> Returning(acc, 0)
    IN  FoldLeft(Step, Returning(m, root), lvalue)

\* Mutant of Overwrite: what the node held is left as it is.
OverwriteKeeps(m, n, x) ==
    [m EXCEPT !.nodes[n] = [m.nodes[x] EXCEPT !.lost = m.nodes[n].lost, !.pool = m.nodes[n].pool],
              !.nodes[x].type = "freed", !.nodes[x].kids = <<>>]

\* What a node holds is released; it becomes the node x, whose shell is freed.
Overwrite(m, n, x) ==
    LET t == ToNull(m, n)
    IN  [t EXCEPT !.nodes[n] = [t.nodes[x] EXCEPT !.lost = t.nodes[n].lost, !.pool = t.nodes[n].pool],
                  !.nodes[x].type = "freed", !.nodes[x].kids = <<>>]

\* reviseOneField: the place is found first, then the value is computed.
ReviseOneField(m, root, doc, change) ==
    LET place == FindOrCreate(m, root, change.lvalue)
        value == Edit(Eval(place, change.expr, doc), Eval(place, change.expr, doc).res)
    IN  IF place.res = 0 THEN place ELSE Overwrite(value, place.res, value.res)

-----------------------------------------------------------------------------
(* EACH and the aggregates. *)

\* Mutant of Insert: a property that is there already is not looked for.
InsertAppends(m, n, key, val) == [m EXCEPT !.nodes[n].kids = Append(@, Kid(key, val))]

\* xjd1JsonInsert: the value becomes the property, in place of an older one.
Insert(m, n, key, val) ==
    LET i == KidAt(m, n, key)
    IN  IF i = 0 THEN [m EXCEPT !.nodes[n].kids = Append(@, Kid(key, val))]
        ELSE [Free(m, m.nodes[n].kids[i].node) EXCEPT !.nodes[n].kids[i].node = val]

\* The key of an entry: a string of a structure, a number of an array.
EntryKey(m, c, key) == IF m.nodes[c].type = "struct" THEN Make(m, "string", key, <<>>)
                                                     ELSE Make(m, "atom", <<key>>, <<>>)

\* The pair of the key and (a new reference to) the value of an entry of c.
KeyValueNode(m, c, i) ==
    LET kid == m.nodes[c].kids[i]
        key == EntryKey(Ref(m, kid.node), c, kid.key)
    IN  Make(key, "struct", <<>>, <<Kid(<<"k">>, key.res), Kid(<<"v">>, kid.node)>>)

\* Mutant of FlattenedObject: the entry is put into the row itself.
FlattenedObjectInPlace(m, base, as, c, i) ==
    LET kv == KeyValueNode(m, c, i)
    IN  Returning(Insert(Ref(kv, base), base, as, kv.res), base)

\* flattenedObject: a copy of the row with entry i of its container c added.
FlattenedObject(m, base, as, c, i) ==
    LET kv == KeyValueNode(m, c, i)
        copy == Edit(Ref(kv, base), base)
    IN  Returning(Insert(copy, copy.res, as, kv.res), copy.res)

\* The xStep function of an aggregate, for a context and an argument.
AggStep(m, func, agg, arg) ==
    LET v == ValueIn(m.nodes, arg)
        order == Compare(v, ValueIn(m.nodes, agg))
        new == IF agg # 0 THEN Returning(m, agg)
               ELSE IF func = "array" THEN Make(m, "array", <<>>, <<>>) ELSE Build(m, Number(0))
        ctx == new.res
        better == agg = 0 \/ (IF func = "min" THEN order < 0 ELSE order > 0)
        sum == Real(ValueIn(new.nodes, ctx)) + (IF Real(v) = NaN THEN 0 ELSE Real(v))
        Size == ToString(Len(new.nodes[ctx].kids))
    IN  CASE func \in {"min", "max"} -> IF better THEN Ref(Free(m, agg), arg) ELSE Returning(m, agg)
          [] func = "array" -> Returning([Ref(new, arg) EXCEPT !.nodes[ctx].kids = Append(@, Kid(Size, arg))], ctx)
          [] func = "sum" -> [new EXCEPT !.nodes[ctx].is = Number(sum).is]

\* The value of an aggregate without rows.
OfNone(func) == CASE func \in {"min", "max"} -> Null
                  [] func = "array" -> Array(<<>>)
                  [] func = "sum" -> Number(0)

\* The xFinal function: the context becomes the value.
AggFinal(m, func, agg) == IF agg = 0 THEN Build(m, OfNone(func)) ELSE Returning(m, agg)

-----------------------------------------------------------------------------
Memory == [nodes |-> nodes, fault |-> fault, res |-> 0]
Becomes(m) == nodes' = m.nodes /\ fault' = m.fault

\* The parser has made the nodes of the literals in the statement's pool.
Literals(lits) ==
    [i \in DOMAIN lits |->
        [Node(lits[i].type, lits[i].is, <<>>) EXCEPT
            !.nRef = PoolRefs, !.pool = TRUE, !.chars = lits[i].type = "string"]]

Init ==
    /\ case \in Cases
    /\ nodes = Literals(case.lits) /\ fault = FALSE
    /\ row = 0 /\ pc = "row" /\ at = 0
    /\ pDoc = 0 /\ pResult = 0 /\ pIter = 0 /\ pAgg = 0 /\ pValue = 0
    /\ stored = <<>>

Stmt == case.stmt
\* The row is read after what was there of the row before is freed.
ReadRow == Build(Free(Memory, pDoc), Read(Render(case.rows[row + 1])))

\* xjd1UpdateStep: the text of a row is read, and the document to be revised
\* is made of it.
UpdateRow ==
    LET doc == ReadRow
        new == Edit(Ref(doc, doc.res), doc.res)
    IN  /\ Stmt = "UPDATE" /\ pc = "row" /\ row < Len(case.rows)
        /\ Becomes(new)
        /\ pDoc' = doc.res /\ pResult' = new.res
        /\ row' = row + 1 /\ pc' = "change" /\ at' = 0
        /\ UNCHANGED <<case, pIter, pAgg, pValue, stored>>

Change ==
    /\ pc = "change" /\ at < Len(case.changes)
    /\ Becomes(ReviseOneField(Memory, pResult, pDoc, case.changes[at + 1]))
    /\ at' = at + 1
    /\ UNCHANGED <<case, row, pc, pDoc, pResult, pIter, pAgg, pValue, stored>>

\* The new document is stored, and both are freed.
StoreRow ==
    /\ pc = "change" /\ at = Len(case.changes)
    /\ stored' = Append(stored, Render(ValueIn(nodes, pResult)))
    /\ Becomes(Free(Free(Memory, pResult), pDoc))
    /\ pDoc' = 0 /\ pResult' = 0
    /\ pc' = "row"
    /\ UNCHANGED <<case, row, at, pIter, pAgg, pValue>>

\* EACH over a table: the next row of the table takes the place of the last one
\* (xjd1DataSrcStep), and the iterator holds the container of the row
\* (flattenIterNew).
EachRow ==
    LET doc == ReadRow
        i == KidAt(doc, doc.res, case.key)
        c == IF doc.nodes[doc.res].type = "struct" /\ i # 0 THEN doc.nodes[doc.res].kids[i].node ELSE 0
        found == c # 0 /\ doc.nodes[c].type \in {"struct", "array"}
    IN  /\ Stmt = "EACH" /\ pc = "row" /\ row < Len(case.rows)
        /\ Becomes(IF found THEN Ref(doc, c) ELSE doc)
        /\ pIter' = IF found THEN c ELSE 0
        /\ pDoc' = doc.res
        /\ row' = row + 1 /\ at' = 0
        /\ pc' = IF found THEN "entry" ELSE "row"
        /\ UNCHANGED <<case, pResult, pAgg, pValue, stored>>

\* The next entry: the row before it is freed, and the new one is made.
EachEntry ==
    LET made == FlattenedObject(Free(Memory, pResult), pDoc, case.as, pIter, at + 1)
    IN  /\ pc = "entry" /\ at < Len(nodes[pIter].kids)
        /\ Becomes(made)
        /\ pResult' = made.res
        /\ at' = at + 1
        /\ UNCHANGED <<case, row, pc, pDoc, pIter, pAgg, pValue, stored>>

\* Mutant of EachOver: the row that was freed is still the current one.
EachOverKeepsRow ==
    /\ pc = "entry" /\ at = Len(nodes[pIter].kids)
    /\ Becomes(Free(Free(Memory, pResult), pIter))
    /\ pIter' = 0
    /\ pc' = "row"
    /\ UNCHANGED <<case, row, at, pDoc, pResult, pAgg, pValue, stored>>

\* After the last entry the iterator is freed (flattenIterFree).
EachOver ==
    /\ pc = "entry" /\ at = Len(nodes[pIter].kids)
    /\ Becomes(Free(Free(Memory, pResult), pIter))
    /\ pIter' = 0 /\ pResult' = 0
    /\ pc' = "row"
    /\ UNCHANGED <<case, row, at, pDoc, pAgg, pValue, stored>>

\* The rows of the group that is being read are not at their end.
InGroup == at < Len(case.ends) /\ row < case.ends[at + 1]

\* aggExprStep for a row of the group, whose document takes the place of the one
\* before.  (A group comes from the sorted list of rows, here from the table.)
AggregateRow ==
    LET doc == ReadRow
        arg == Eval(doc, case.expr, doc.res)
        done == AggStep(arg, case.func, pAgg, arg.res)
    IN  /\ Stmt = "AGGREGATE" /\ pc = "row" /\ InGroup
        /\ Becomes(Free(done, arg.res))
        /\ pAgg' = done.res /\ pDoc' = doc.res
        /\ row' = row + 1
        /\ UNCHANGED <<case, pc, at, pResult, pIter, pValue, stored>>

\* The end of a group: the value of the group before is freed.
Finalize ==
    LET final == AggFinal(Free(Memory, pValue), case.func, pAgg)
    IN  /\ Stmt = "AGGREGATE" /\ pc = "row" /\ at < Len(case.ends) /\ ~InGroup
        /\ Becomes(final)
        /\ pValue' = final.res /\ pAgg' = 0
        /\ at' = at + 1 /\ pc' = "doc"
        /\ UNCHANGED <<case, row, pDoc, pResult, pIter, stored>>

\* The result of the group is a reference to its value (xjd1FunctionEval); the
\* caller gives back the one it has.
GroupDoc ==
    /\ pc = "doc"
    /\ Becomes(Ref(Free(Memory, pResult), pValue))
    /\ pResult' = pValue
    /\ pc' = "row"
    /\ UNCHANGED <<case, row, at, pDoc, pIter, pAgg, pValue, stored>>

\* A caller gives a result back when it has rendered it, or keeps it, as a list
\* of results does, until after the query has gone on.
Release ==
    /\ Stmt = "AGGREGATE" /\ pc # "doc" /\ pResult # 0
    /\ Becomes(Free(Memory, pResult))
    /\ pResult' = 0
    /\ UNCHANGED <<case, row, pc, at, pDoc, pIter, pAgg, pValue, stored>>

\* The end of the table: its last document is freed.
EndOfRows ==
    /\ pc = "row" /\ row = Len(case.rows) /\ (Stmt = "AGGREGATE" => at = Len(case.ends))
    /\ Becomes(Free(Memory, pDoc))
    /\ pDoc' = 0 /\ pc' = "end"
    /\ UNCHANGED <<case, row, at, pResult, pIter, pAgg, pValue, stored>>

\* The query is rewound or closed, at its end or before: the document is freed,
\* and the aggregate with its context (xjd1AggregateClear).
Clear ==
    LET final == AggFinal(Free(Memory, pDoc), case.func, pAgg)
    IN  /\ Stmt = "AGGREGATE" /\ pc \in {"row", "end"}
        /\ Becomes(Free(Free(final, final.res), pValue))
        /\ pDoc' = 0 /\ pAgg' = 0 /\ pValue' = 0
        /\ pc' = "over"
        /\ UNCHANGED <<case, row, at, pResult, pIter, stored>>

Next == UpdateRow \/ Change \/ StoreRow \/ EachRow \/ EachEntry \/ EachOver
        \/ AggregateRow \/ Finalize \/ GroupDoc \/ Release \/ EndOfRows \/ Clear

Spec == Init /\ [][Next]_vars

-----------------------------------------------------------------------------
(* What the statements mean, on values.                                    *)

\* v with x at the place an L-value names: what is in the way of a key becomes
\* a structure, an array grows, and an index into anything else is ignored.
RECURSIVE Assigned(_, _, _)
Assigned(v, lvalue, x) ==
    LET s == lvalue[1]
        base == IF v.type = "struct" THEN v ELSE Struct(<<>>)
        old == IF Field(base, s.key) = NoValue THEN Atom("false") ELSE Field(base, s.key)
        size == IF s.number < Len(v.elems) THEN Len(v.elems) ELSE s.number + 1
        grown == Array([i \in 1..size |-> IF i <= Len(v.elems) THEN v.elems[i].val ELSE Null])
    IN  IF lvalue = <<>> THEN x
        ELSE IF ~s.index \/ v.type = "struct"
        THEN Put(base, <<s.key>>, Assigned(old, Tail(lvalue), x))
        ELSE IF v.type = "array" /\ s.number >= 0
        THEN [grown EXCEPT !.elems[s.number + 1].val = Assigned(@, Tail(lvalue), x)]
        ELSE v

\* A document with the first n changes, each computed on the document as it was.
Updated(doc, n) ==
    FoldLeft(LAMBDA v, c : Assigned(v, c.lvalue, Meaning(c.expr, doc, case.lits)), doc,
             SubSeq(case.changes, 1, n))

\* Is v the aggregate of some values?
IsAggregate(v, func, vals) ==
    LET numbers == SelectSeq([i \in DOMAIN vals |-> Real(vals[i])], LAMBDA x : x # NaN)
    IN  CASE func = "array" -> v = Array(vals)
          [] func = "sum" -> v = Number(FoldSeq(+, 0, numbers))
          [] func \in {"min", "max"} /\ vals = <<>> -> v = Null
          [] func \in {"min", "max"} /\ vals # <<>> ->
                /\ v \in ToSet(vals)
                /\ \A w \in ToSet(vals) : IF func = "min" THEN Compare(v, w) <= 0 ELSE Compare(v, w) >= 0

\* The arguments of the aggregate for the rows of group g up to row n.
Arguments(g, n) ==
    LET before == IF g = 1 THEN 0 ELSE case.ends[g - 1]
    IN  [i \in 1..(n - before) |-> Meaning(case.expr, case.rows[before + i], case.lits)]

-----------------------------------------------------------------------------
(* Properties.                                                             *)

Live == { n \in DOMAIN nodes : nodes[n].type # "freed" }
Pointers(n) ==
    LET Count(acc, k) == acc + Cardinality({ i \in DOMAIN nodes[k].kids : nodes[k].kids[i].node = n })
    IN  FoldSet(LAMBDA k, acc : Count(acc, k), 0, Live)
Handles(n) == Cardinality({ h \in 1..5 : <<pDoc, pResult, pIter, pAgg, pValue>>[h] = n })

TypeOK ==
    /\ row \in 0..Len(case.rows)
    /\ pc \in {"row", "change", "entry", "doc", "end", "over"}
    /\ { pDoc, pResult, pIter, pAgg, pValue } \subseteq Live \cup {0}
    /\ \A n \in Live : nodes[n].nRef > 0

\* The count of a node is the number of references to it, those that are lost
\* included, so that nothing is freed that is in use and only what is lost stays
\* behind; and no memory is used after it was freed
\* (json.c:58, 88, 148; update.c:157; datasrc.c:329; func.c:113).
CountsAgree ==
    /\ ~fault
    /\ \A n \in Live : /\ nodes[n].nRef = Pointers(n) + Handles(n) + nodes[n].lost
                                          + (IF nodes[n].pool THEN PoolRefs ELSE 0)
                       /\ \A i \in DOMAIN nodes[n].kids : nodes[n].kids[i].node \in Live \cup {0}

\* The document of the row is what was stored, and the literals are what the
\* statement says, whatever was assigned from them: each change reads the
\* document as it was (update.c:197, 156; json.c:148).
ReadsStayAsTheyWere ==
    /\ pDoc # 0 => ValueIn(nodes, pDoc) = Read(Render(case.rows[row]))
    /\ \A i \in DOMAIN case.lits : ValueIn(nodes, i) = case.lits[i]

\* What a statement makes is what it means: the document an UPDATE revises has
\* the changes so far and is stored with all of them, a row of EACH is the row
\* of the table with the entry, an aggregate is that of the rows of its group,
\* also after the query has gone on, and an expression has the value of its
\* operators (update.c:60, 146; datasrc.c:314; func.c:106, 426; expr.c:455).
MakesWhatItMeans ==
    LET c == Field(case.rows[row], case.key)
        key == c.elems[at].key
        Aggregates(n, g, end) == n # 0 => IsAggregate(ValueIn(nodes, n), case.func, Arguments(g, end))
        held == IF pc = "doc" THEN at - 1 ELSE at     \* the group of the result held
    IN  /\ pc = "change" => ValueIn(nodes, pResult) = Updated(case.rows[row], at)
        /\ \A i \in DOMAIN stored :
              stored[i] = Render(Updated(case.rows[i], Len(case.changes)))
        /\ Stmt = "EACH" /\ pResult # 0 =>
              ValueIn(nodes, pResult) =
                  Put(case.rows[row], <<case.as>>,
                      Struct(<<Entry(<<"k">>, IF c.type = "struct" THEN String(key) ELSE Atom(key)),
                               Entry(<<"v">>, c.elems[at].val)>>))
        /\ Stmt = "AGGREGATE" =>
              /\ Aggregates(pAgg, at + 1, row)
              /\ Aggregates(pValue, at, case.ends[at])
              /\ Aggregates(pResult, held, case.ends[held])

\* Is there a structure without members in a value?
RECURSIVE HasEmptyStruct(_)
HasEmptyStruct(v) ==
    \/ v.type = "struct" /\ v.elems = <<>>
    \/ \E i \in DOMAIN v.elems : HasEmptyStruct(v.elems[i].val)

\* A value that is stored is read back as it was, and reading it takes its text
\* and no more, if no structure in it is without members (json.c:157, 424, 560,
\* 614).
TextReadsBack ==
    \A i \in DOMAIN case.rows :
        LET v == case.rows[i]
        IN  ~HasEmptyStruct(v) => Parse(Render(v), 1) = [v |-> v, at |-> Len(Render(v)) + 1]

\* Values are compared by an order that tells any two apart: min, max, ORDER BY,
\* GROUP BY, DISTINCT and the compound queries rest on it (json.c:320).
ComparesInOrder ==
    LET vs == ToSet(case.rows)
    IN  row = 0 =>
        \A u, v \in vs :
            /\ Compare(u, v) = 0 <=> u = v
            /\ Compare(u, v) < 0 <=> Compare(v, u) > 0
            /\ \A w \in vs : Compare(u, v) <= 0 /\ Compare(v, w) <= 0 => Compare(u, w) <= 0

\* What the comment on parseJson says of every value: it exits "pointing to the
\* first token past end end of the JSON object" (json.c:611-612).
ExitsPastTheValue ==
    \A i \in DOMAIN case.rows :
        LET t == Render(case.rows[i]) IN Parse(t, 1).at = Len(t) + 1
=============================================================================
