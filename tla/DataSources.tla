----------------------------- MODULE DataSources -----------------------------
(***************************************************************************)
(* The FROM clause of a query: the functions xjd1DataSrc... of datasrc.c,  *)
(* between the calls of the query that owns it (selectStepWhered).         *)
(*                                                                         *)
(* A data source is a tree.  Its leaves are a collection (TK_ID), a        *)
(* subquery (TK_SELECT), an array of the query around this one (TK_DOT)    *)
(* and the empty FROM clause (TK_NULL).  A join (TK_COMMA) steps its right *)
(* operand through all rows for each row of the left one.  EACH and        *)
(* FLATTEN (TK_FLATTENOP) step the source before them, and then an         *)
(* iterator over a struct or array that its value contains.                *)
(*                                                                         *)
(* The functions call each other along the tree, so the call stack is a    *)
(* path from the root to the source at work, as in Compound; a frame says  *)
(* which call of a join it waits for.  The cursor of a collection is       *)
(* SQLite's: it starts over when it is stepped after its end.              *)
(***************************************************************************)
EXTENDS Integers, Sequences, FiniteSetsExt, SequencesExt, JsonValues

CONSTANTS
    Cases,          \* FROM clauses, each with a number of faults
    Outers,         \* values that a path of the outer query may lead to
    Depth           \* how deep the values of the collections nest

Leaves == {"TABLE", "SUBQUERY", "PATH", "NULL"}
Flattens == {"EACH", "FLATTEN"}
Kinds == Leaves \cup Flattens \cup {"JOIN"}

\* A data source is a sequence of nodes, operands before the node they belong
\* to, each but the last the operand of one other.  As the grammar has it
\* (parse.y:514-529), the right operand of a join and the source of EACH and
\* FLATTEN are no joins.
IsSource(t) ==
    /\ IsSequence(t) /\ t # <<>>
    /\ \A n \in 1..(Len(t) - 1) : \E m \in DOMAIN t :
        { k \in DOMAIN t : n \in {t[k].left, t[k].right} } = {m}
    /\ \A n \in DOMAIN t :
        /\ t[n].kind \in Kinds
        /\ t[n].left # t[n].right \/ t[n].kind \in Leaves
        /\ t[n].left \in (IF t[n].kind \in Leaves THEN {0} ELSE 1..(n - 1))
        /\ t[n].right \in (IF t[n].kind = "JOIN" THEN 1..(n - 1) ELSE {0})
        /\ t[n].right # 0 => t[t[n].right].kind # "JOIN"
        /\ t[n].kind \in Flattens => t[t[n].left].kind # "JOIN"
        /\ t[n].kind \in {"TABLE", "SUBQUERY"} => IsSequence(t[n].rows)

ASSUME CasesAssumption == \A c \in Cases : IsSource(c.tree) /\ c.faults \in Nat
ASSUME OutersAssumption ==
    Outers # {} /\ \A arr \in Outers : arr.type = "array" => IsSequence(arr.elems)

VARIABLES
    tree,           \* the FROM clause; never changes
    outer,          \* the value of the path in the outer query
    meaning,        \* the rows of each node, for this value
    val,            \* pValue
    at,             \* rows read of a leaf; bStart of a join; isDone of TK_NULL
    array,          \* TK_DOT: pArray
    iter,           \* EACH, FLATTEN: pIter, outermost container first
    prepared,       \* sources with cursors of SQLite that are not finalized
    stack,          \* the sources that are being stepped, with their frames
    pc, rc,         \* where the innermost one is, and what it returned
    ended,          \* sources that have returned DONE since they were rewound
    failed,         \* a cursor of SQLite has failed since the rewind
    out, ret,       \* the query: rows since the rewind, last return code
    faults          \* how many steps of leaves may still fail

env == <<tree, outer, meaning>>
client == <<out, ret>>
vars == <<env, val, at, array, iter, prepared, stack, pc, rc, ended, failed, client, faults>>

-----------------------------------------------------------------------------
(* What a FROM clause means: the rows of each node, in order.  A row has    *)
(* one value for each node that is neither a join nor flattened.            *)

Rows(leaf, arr) ==
    CASE leaf.kind = "PATH" -> IF arr.type = "array" THEN Values(arr) ELSE <<>>
      [] leaf.kind = "NULL" -> <<NoValue>>
      [] OTHER              -> leaf.rows

\* The entries that EACH or FLATTEN visits in the value of a row, each with
\* the path of keys that leads to it.
Visited(node, v) ==
    LET c == At(v, node.path)
    IN  IF ~IsContainer(c) THEN <<>>
        ELSE IF node.kind = "FLATTEN" THEN Scalars(c, Depth)
        ELSE [i \in DOMAIN c.elems |-> Entry(<<c.elems[i].key>>, c.elems[i].val)]

\* The key of an entry: of EACH the last one, of FLATTEN all of them.
Key(kind, path) ==
    IF kind = "EACH" THEN String(<<Last(path)>>)
                     ELSE Array([i \in DOMAIN path |-> String(<<path[i]>>)])

\* Mutant of Flattened: the entry is stored at the path that is iterated over.
FlattenedIgnoresAs(node, v, path, x) == Put(v, node.path, KeyValue(Key(node.kind, path), x))

\* flattenedObject: the value of a row with an entry added to it.
Flattened(node, v, path, x) == Put(v, node.as, KeyValue(Key(node.kind, path), x))

Product(l, r) ==
    FlattenSeq([i \in DOMAIN l |-> [j \in DOMAIN r |-> l[i] \o r[j]]])

WithEntries(node, v) ==
    LET es == Visited(node, v)
    IN  [j \in DOMAIN es |->
            <<Put(v, node.as, KeyValue(Key(node.kind, es[j].key), es[j].val))>>]

\* The rows of a node, from those of its operands.
RowsOf(node, arr, l, r) ==
    LET leaf == Rows(node, arr)
    IN  CASE node.kind \in Leaves -> [i \in DOMAIN leaf |-> <<leaf[i]>>]
          [] node.kind = "JOIN"   -> Product(l, r)
          [] OTHER -> FlattenSeq([i \in DOMAIN l |-> WithEntries(node, l[i][1])])

Meaning(t, arr) ==
    LET of[n \in DOMAIN t] == RowsOf(t[n], arr, of[t[n].left], of[t[n].right])
    IN  [n \in DOMAIN t |-> of[n]]

\* Depth is enough for what EACH and FLATTEN iterate over.
ASSUME DepthAssumption ==
    /\ Depth \in Nat
    /\ \A c \in Cases, arr \in Outers :
        LET rows == Meaning(c.tree, arr)
        IN  \A n \in { n \in DOMAIN c.tree : c.tree[n].kind \in Flattens } :
                \A row \in ToSet(rows[c.tree[n].left]) :
                    LET v == At(row[1], c.tree[n].path)
                    IN  IsContainer(v) => Nests(v, Depth)

-----------------------------------------------------------------------------
(* The tree, the stack, and which value has which number *)

Nodes == DOMAIN tree
Root == Len(tree)
p == Last(stack).node                   \* the source at work
Kind == tree[p].kind
Caller == stack[Len(stack) - 1].node    \* and the one that called it
CallerWaits == stack[Len(stack) - 1].for
Tables == { n \in Nodes : tree[n].kind = "TABLE" }

\* The sources with cursors of SQLite: a collection has one, and a subquery
\* those of the collections that its query reads.
Cursors == { n \in Nodes : tree[n].kind \in {"TABLE", "SUBQUERY"} }

Below(n) ==
    LET sub[m \in 0..n] == IF m = 0 THEN {} ELSE {m} \cup sub[tree[m].left] \cup sub[tree[m].right]
    IN  sub[n]

\* The sources of the FROM clause from left to right (cacheSaveRecursive).
Entries ==
    LET of[n \in Nodes] == IF tree[n].kind = "JOIN" THEN of[tree[n].left] \o of[tree[n].right]
                                                    ELSE <<n>>
    IN  of[Root]

\* xjd1DataSrcCacheSave: the values of a row.
CacheSave == [i \in DOMAIN Entries |-> val[Entries[i]]]

\* xjd1DataSrcCount.
Count ==
    LET of[n \in Nodes] == IF tree[n].kind = "JOIN" THEN of[tree[n].left] + of[tree[n].right] ELSE 1
    IN  of[Root]

Numbers == Nat \ {0}

\* Mutant of Resolve: EACH and FLATTEN, and not only joins, count twice.
ResolveCountsFlatten(name) ==
    LET of[n \in Nodes] ==
            [entry \in Numbers |->
                IF tree[n].kind = "JOIN"
                THEN LET l == of[tree[n].left][entry]
                     IN  IF l.ret # 0 THEN l ELSE of[tree[n].right][l.entry]
                ELSE IF tree[n].kind \in Flattens
                THEN LET l == of[tree[n].left][entry] IN [l EXCEPT !.entry = @ + 1]
                ELSE [ret |-> IF tree[n].name = name THEN entry ELSE 0, entry |-> entry + 1]]
    IN  of[Root][1].ret

\* xjd1DataSrcResolve: the number of the first source with a name, or 0.
Resolve(name) ==
    LET of[n \in Nodes] ==
            [entry \in Numbers |->
                IF tree[n].kind = "JOIN"
                THEN LET l == of[tree[n].left][entry]
                     IN  IF l.ret # 0 THEN l ELSE of[tree[n].right][l.entry]
                ELSE IF tree[n].kind \in Flattens
                THEN of[tree[n].left][entry]
                ELSE [ret |-> IF tree[n].name = name THEN entry ELSE 0, entry |-> entry + 1]]
    IN  of[Root][1].ret

\* xjd1DataSrcRead: the value of the source with a number.
Read(doc) ==
    LET of[n \in Nodes] ==
            [entry \in Numbers |->
                IF tree[n].kind = "JOIN"
                THEN LET l == of[tree[n].left][entry]
                     IN  IF l.ret # NoValue THEN l ELSE of[tree[n].right][l.entry]
                ELSE [ret |-> IF entry = doc THEN val[n] ELSE NoValue, entry |-> entry + 1]]
    IN  of[Root][1].ret

-----------------------------------------------------------------------------
(* Call and return *)

Frame(n) == [node |-> n, for |-> "none"]

\* The source at work calls the operand n, and waits for it.
Call(n, for) ==
    /\ stack' = Append([stack EXCEPT ![Len(stack)].for = for], Frame(n))
    /\ pc' = "call"

\* The caller of the source at work goes on to call the operand n.
CallNext(n, for) ==
    /\ stack' = Append([Front(stack) EXCEPT ![Len(stack) - 1].for = for], Frame(n))
    /\ pc' = "call"

Return(code) ==
    /\ pc' = "return"
    /\ rc' = code
    /\ ended' = IF code = "DONE" THEN ended \cup {p} ELSE ended

ReturnFromCaller(code) ==
    /\ stack' = Front(stack)
    /\ pc' = "return"
    /\ rc' = code
    /\ ended' = IF code = "DONE" THEN ended \cup {Caller} ELSE ended

Set(f, S, v) == [n \in DOMAIN f |-> IF n \in S THEN v ELSE f[n]]

\* Mutant of RewindAll: an array of the outer query is kept.
RewindAllKeepsArray(S) ==
    /\ val' = Set(val, S, NoValue)
    /\ at' = Set(at, S, 0)
    /\ iter' = Set(iter, S, <<>>)
    /\ ended' = ended \ S
    /\ UNCHANGED array

\* xjd1DataSrcRewind, of a source and all below it.
RewindAll(S) ==
    /\ val' = Set(val, S, NoValue)
    /\ at' = Set(at, S, 0)
    /\ array' = Set(array, S, NoValue)
    /\ iter' = Set(iter, S, <<>>)
    /\ ended' = ended \ S

Fails == faults > 0 /\ faults' = faults - 1

\* xjd1DataSrcInit prepares the cursor of a collection, and xjd1QueryInit
\* those of a subquery.
Init ==
    /\ \E c \in Cases, arr \in Outers :
        /\ tree = c.tree
        /\ outer = arr
        /\ meaning = Meaning(c.tree, arr)
        /\ faults = c.faults
    /\ val = [n \in Nodes |-> NoValue]
    /\ at = [n \in Nodes |-> 0]
    /\ array = [n \in Nodes |-> NoValue]
    /\ iter = [n \in Nodes |-> <<>>]
    /\ prepared = Cursors
    /\ stack = <<>> /\ pc = "idle" /\ rc = "ROW"
    /\ ended = {} /\ failed = FALSE
    /\ out = <<>> /\ ret = "NONE"

-----------------------------------------------------------------------------
(* The query that owns the FROM clause *)

\* selectStepWhered steps until it gets something but a row.
CanStep == ret \in {"NONE", "ROW"}

Step ==
    /\ pc = "idle" /\ CanStep
    /\ stack' = <<Frame(Root)>>
    /\ pc' = "call"
    /\ UNCHANGED <<env, val, at, array, iter, prepared, rc, ended, failed, client, faults>>

StepReturns ==
    /\ pc = "return" /\ p = Root
    /\ pc' = "idle"
    /\ stack' = <<>>
    /\ ret' = rc
    /\ out' = IF rc = "ROW" THEN Append(out, CacheSave) ELSE out
    /\ UNCHANGED <<env, val, at, array, iter, prepared, rc, ended, failed, faults>>

\* A rewind between two steps.  The query around this one may have moved on.
Rewind ==
    /\ pc = "idle" /\ ret # "CLOSED"
    /\ RewindAll(Nodes)
    /\ \E arr \in Outers :
        /\ outer' = arr
        /\ meaning' = Meaning(tree, arr)
    /\ failed' = FALSE
    /\ out' = <<>> /\ ret' = "NONE"
    /\ UNCHANGED <<tree, prepared, stack, pc, rc, faults>>

\* Mutant of Finalized: EACH and FLATTEN have no case either.
FinalizedNotBelowFlatten == IF tree[Root].kind = "TABLE" THEN {Root} ELSE {}

\* The sources whose cursors xjd1DataSrcClose finalizes: it has a case for a
\* collection, and for EACH and FLATTEN, which pass the call on, but none for a
\* join or a subquery, below which nothing is closed.
Finalized ==
    LET of[n \in Nodes] == IF tree[n].kind \in Flattens THEN of[tree[n].left] ELSE {n} \cap Tables
    IN  of[Root]

Close ==
    /\ pc = "idle" /\ ret # "CLOSED"
    /\ prepared' = prepared \ Finalized
    /\ val' = [val EXCEPT ![Root] = NoValue]
    /\ ret' = "CLOSED"
    /\ UNCHANGED <<env, at, array, iter, stack, pc, rc, ended, failed, out, faults>>

-----------------------------------------------------------------------------
(* The leaves *)

AtLeaf(kind) == pc = "call" /\ Kind = kind

LeafRow(v) ==
    /\ val' = [val EXCEPT ![p] = v]
    /\ at' = [at EXCEPT ![p] = @ + 1]
    /\ Return("ROW")
    /\ UNCHANGED <<env, iter, prepared, stack, failed, client, faults>>

TableRow ==
    /\ AtLeaf("TABLE") /\ at[p] < Len(tree[p].rows)
    /\ LeafRow(tree[p].rows[at[p] + 1])
    /\ UNCHANGED array

\* At its end, and when it fails, the cursor is reset: a further step would
\* start over.  The code does not tell the two apart.
TableDone ==
    /\ AtLeaf("TABLE")
    /\ \/ at[p] = Len(tree[p].rows) /\ UNCHANGED <<failed, faults>>
       \/ Fails /\ failed' = TRUE
    /\ val' = [val EXCEPT ![p] = NoValue]
    /\ at' = [at EXCEPT ![p] = 0]
    /\ Return("DONE")
    /\ UNCHANGED <<env, array, iter, prepared, stack, client>>

SubqueryRow ==
    /\ AtLeaf("SUBQUERY") /\ at[p] < Len(tree[p].rows)
    /\ LeafRow(tree[p].rows[at[p] + 1])
    /\ UNCHANGED array

\* The document of the subquery is read whatever its step returned.  After the
\* last row that is no row's, and a query that reads its documents from a list
\* has none left: the program stops.
SubqueryDone ==
    /\ AtLeaf("SUBQUERY") /\ at[p] = Len(tree[p].rows)
    /\ IF tree[p].fromList
       THEN /\ pc' = "stopped"
            /\ ret' = "FAULT"
            /\ UNCHANGED <<val, at, rc, ended>>
       ELSE /\ val' = [val EXCEPT ![p] = Null]
            /\ at' = [at EXCEPT ![p] = 0]
            /\ Return("DONE")
            /\ UNCHANGED ret
    /\ UNCHANGED <<env, array, iter, prepared, stack, failed, out, faults>>

SubqueryNoMem ==
    /\ AtLeaf("SUBQUERY") /\ Fails
    /\ val' = [val EXCEPT ![p] = Null]
    /\ Return("NOMEM")
    /\ UNCHANGED <<env, at, array, iter, prepared, stack, failed, client>>

\* The array is evaluated at the first step after a rewind.
Loaded == IF array[p] = NoValue THEN outer ELSE array[p]

PathRow ==
    /\ AtLeaf("PATH") /\ Loaded.type = "array" /\ at[p] < Len(Loaded.elems)
    /\ array' = [array EXCEPT ![p] = Loaded]
    /\ LeafRow(Loaded.elems[at[p] + 1].val)

PathDone ==
    /\ AtLeaf("PATH") /\ ~(Loaded.type = "array" /\ at[p] < Len(Loaded.elems))
    /\ array' = [array EXCEPT ![p] = Loaded]
    /\ val' = [val EXCEPT ![p] = NoValue]
    /\ Return("DONE")
    /\ UNCHANGED <<env, at, iter, prepared, stack, failed, client, faults>>

NullRow ==
    /\ AtLeaf("NULL") /\ at[p] = 0
    /\ LeafRow(NoValue)
    /\ UNCHANGED array

NullDone ==
    /\ AtLeaf("NULL") /\ at[p] # 0
    /\ Return("DONE")
    /\ UNCHANGED <<env, val, at, array, iter, prepared, stack, failed, client, faults>>

-----------------------------------------------------------------------------
(* A join *)

JoinStart ==
    /\ pc = "call" /\ Kind = "JOIN" /\ at[p] = 0
    /\ at' = [at EXCEPT ![p] = 1]
    /\ Call(tree[p].left, "first")
    /\ UNCHANGED <<env, val, array, iter, prepared, rc, ended, failed, client, faults>>

JoinOn ==
    /\ pc = "call" /\ Kind = "JOIN" /\ at[p] # 0
    /\ Call(tree[p].right, "right")
    /\ UNCHANGED <<env, val, at, array, iter, prepared, rc, ended, failed, client, faults>>

Returned(for, code) ==
    pc = "return" /\ p # Root /\ CallerWaits = for /\ rc \in code

Others(code) == {"ROW", "DONE", "NOMEM"} \ {code}

JoinFirstRow ==
    /\ Returned("first", {"ROW"})
    /\ CallNext(tree[Caller].right, "right")
    /\ UNCHANGED <<env, val, at, array, iter, prepared, rc, ended, failed, client, faults>>

JoinRightDone ==
    /\ Returned("right", {"DONE"})
    /\ CallNext(tree[Caller].left, "left")
    /\ UNCHANGED <<env, val, at, array, iter, prepared, rc, ended, failed, client, faults>>

\* Mutant of JoinLeftRow: the right operand is not rewound.
JoinLeftRowNoRewind ==
    /\ Returned("left", {"ROW"})
    /\ CallNext(tree[Caller].right, "again")
    /\ UNCHANGED <<env, val, at, array, iter, prepared, rc, ended, failed, client, faults>>

JoinLeftRow ==
    /\ Returned("left", {"ROW"})
    /\ RewindAll(Below(tree[Caller].right))
    /\ CallNext(tree[Caller].right, "again")
    /\ UNCHANGED <<env, prepared, rc, failed, client, faults>>

JoinReturns ==
    /\ \/ Returned("first", Others("ROW"))
       \/ Returned("right", Others("DONE"))
       \/ Returned("left", Others("ROW"))
       \/ Returned("again", Others(""))
    /\ ReturnFromCaller(rc)
    /\ UNCHANGED <<env, val, at, array, iter, prepared, failed, client, faults>>

-----------------------------------------------------------------------------
(* EACH and FLATTEN *)

FlattenStart ==
    /\ pc = "call" /\ Kind \in Flattens
    /\ val' = [val EXCEPT ![p] = NoValue]
    /\ pc' = "iterate"
    /\ UNCHANGED <<env, at, array, iter, prepared, stack, rc, ended, failed, client, faults>>

Top == Last(iter[p])
AtTop(n) == [iter[p] EXCEPT ![Len(iter[p])].at = n]
TopEntry == Top.of.elems[Top.at + 1]
Exhausted == Top.at = Len(Top.of.elems)

\* Mutant of IterPop: the container stays.
IterPopStays ==
    /\ pc = "iterate" /\ iter[p] # <<>> /\ Exhausted
    /\ UNCHANGED vars

\* flattenIterNext: a container that has no further entry is left.
IterPop ==
    /\ pc = "iterate" /\ iter[p] # <<>> /\ Exhausted
    /\ iter' = [iter EXCEPT ![p] = Front(@)]
    /\ UNCHANGED <<env, val, at, array, prepared, stack, pc, rc, ended, failed, client, faults>>

\* FLATTEN enters a container that is an entry.
IterEnter ==
    /\ pc = "iterate" /\ iter[p] # <<>> /\ ~Exhausted
    /\ Kind = "FLATTEN" /\ IsContainer(TopEntry.val)
    /\ iter' = [iter EXCEPT ![p] = Append(AtTop(Top.at + 1), [of |-> TopEntry.val, at |-> 0])]
    /\ UNCHANGED <<env, val, at, array, prepared, stack, pc, rc, ended, failed, client, faults>>

IterRow ==
    /\ pc = "iterate" /\ iter[p] # <<>> /\ ~Exhausted
    /\ ~(Kind = "FLATTEN" /\ IsContainer(TopEntry.val))
    /\ iter' = [iter EXCEPT ![p] = AtTop(Top.at + 1)]
    /\ LET path == [i \in DOMAIN iter'[p] |-> iter'[p][i].of.elems[iter'[p][i].at].key]
       IN  val' = [val EXCEPT ![p] = Flattened(tree[p], val[tree[p].left], path, TopEntry.val)]
    /\ Return("ROW")
    /\ UNCHANGED <<env, at, array, prepared, stack, failed, client, faults>>

\* The iterator is at its end, or there is none: the next row is asked for.
FlattenCalls ==
    /\ pc = "iterate" /\ iter[p] = <<>>
    /\ Call(tree[p].left, "next")
    /\ UNCHANGED <<env, val, at, array, iter, prepared, rc, ended, failed, client, faults>>

\* Mutant of FlattenNext: the value at the path may be a scalar.
FlattenNextAnything ==
    /\ Returned("next", {"ROW"})
    /\ LET c == At(val[p], tree[Caller].path)
       IN  iter' = [iter EXCEPT ![Caller] = IF c # NoValue THEN <<[of |-> c, at |-> 0]>> ELSE <<>>]
    /\ stack' = Front(stack)
    /\ pc' = "iterate"
    /\ UNCHANGED <<env, val, at, array, prepared, rc, ended, failed, client, faults>>

\* flattenIterNew: an iterator, if the row has a container at the path.
FlattenNext ==
    /\ Returned("next", {"ROW"})
    /\ LET c == At(val[p], tree[Caller].path)
       IN  iter' = [iter EXCEPT ![Caller] = IF IsContainer(c) THEN <<[of |-> c, at |-> 0]>> ELSE <<>>]
    /\ stack' = Front(stack)
    /\ pc' = "iterate"
    /\ UNCHANGED <<env, val, at, array, prepared, rc, ended, failed, client, faults>>

FlattenReturns ==
    /\ Returned("next", Others("ROW"))
    /\ ReturnFromCaller(rc)
    /\ UNCHANGED <<env, val, at, array, iter, prepared, failed, client, faults>>

-----------------------------------------------------------------------------
Internal ==
    \/ StepReturns
    \/ TableRow \/ TableDone \/ SubqueryRow \/ SubqueryDone \/ SubqueryNoMem
    \/ PathRow \/ PathDone \/ NullRow \/ NullDone
    \/ JoinStart \/ JoinOn \/ JoinFirstRow \/ JoinRightDone \/ JoinLeftRow \/ JoinReturns
    \/ FlattenStart \/ IterPop \/ IterEnter \/ IterRow
    \/ FlattenCalls \/ FlattenNext \/ FlattenReturns

Next == Step \/ Rewind \/ Close \/ Internal

\* A call that has begun runs on: the program is one thread.
Fairness == WF_vars(Internal)

Spec == Init /\ [][Next]_vars /\ Fairness

-----------------------------------------------------------------------------
(* Properties *)

Frames == [node : Nodes, for : {"none", "first", "right", "left", "again", "next"}]
Codes == {"ROW", "DONE", "NOMEM"}

TypeOK ==
    /\ IsSource(tree) /\ outer \in Outers
    /\ \A n \in Nodes : at[n] \in Nat /\ \A i \in DOMAIN iter[n] : IsContainer(iter[n][i].of)
    /\ prepared \subseteq Cursors /\ ended \subseteq Nodes
    /\ stack \in Seq(Frames) /\ (stack = <<>> <=> pc = "idle")
    /\ pc \in {"idle", "call", "iterate", "return", "stopped"} /\ rc \in Codes
    /\ ret \in Codes \cup {"NONE", "FAULT", "CLOSED"}
    /\ failed \in BOOLEAN /\ faults \in Nat

\* Sequence s is what is left of t when some of its items are taken out: each
\* item has a place in t, the first one behind that of the item before it.
IsSelection(s, t) ==
    LET place[i \in 0..Len(s)] ==
            IF i = 0 THEN 0
            ELSE LET before == place[i - 1]
                 IN  Min({ j \in DOMAIN t : j > before /\ t[j] = s[i] } \cup {Len(t) + 1})
    IN  place[Len(s)] <= Len(t)

\* The FROM clause enumerates its meaning (datasrc.c:343-447): however joins,
\* EACH and FLATTEN nest, each combination of rows comes once, in the order of
\* the nested loops, and DONE comes after the last.  A cursor that fails cuts
\* rows off without a word, but even then no row is made up, repeated or out
\* of order.
Enumerates ==
    IF failed THEN IsSelection(out, meaning[Root])
    ELSE /\ IsPrefix(out, meaning[Root])
         /\ ret = "DONE" => out = meaning[Root]

\* A source that has returned DONE is not stepped before it is rewound: the
\* right operand of a join is rewound for each row of the left one
\* (datasrc.c:355-361), and the source of an EACH that is at its end ends the
\* EACH.  A collection would start over, for eofSeen is not read.
NoCallAfterEnd == [][pc' = "call" => Last(stack').node \notin ended']_vars

NameOf(n) ==
    LET of[m \in Nodes] == IF tree[m].kind \in Flattens THEN of[tree[m].left] ELSE tree[m].name
    IN  of[n]

\* A name means one document, whichever way it is looked up (datasrc.c:581-632):
\* the number that xjd1DataSrcResolve gives it at preparation leads
\* xjd1DataSrcRead, and a list that xjd1DataSrcCacheSave has filled, to the
\* value of the first source of that name, with EACH and FLATTEN applied.
NamesAgree ==
    pc = "idle" /\ ret = "ROW" =>
        /\ Count = Len(CacheSave)
        /\ \A i \in DOMAIN Entries :
            LET name == NameOf(Entries[i])
            IN  (\A j \in 1..(i - 1) : NameOf(Entries[j]) # name) =>
                    /\ Read(Resolve(name)) = val[Entries[i]]
                    /\ CacheSave[Resolve(name)] = val[Entries[i]]

\* What a deleted statement leaves open.
IsBelowJoin(c) == \E n \in Nodes : tree[n].kind = "JOIN" /\ c \in Below(n)
LeftOpen == { c \in Cursors : tree[c].kind = "SUBQUERY" \/ IsBelowJoin(c) }

\* A statement that is deleted closes the cursor of its FROM clause if that is
\* one collection, however often EACH and FLATTEN are applied to it, and
\* no other (xjd1DataSrcClose, datasrc.c:536-556): the cursors of every
\* subquery, and all those below a join, stay open.  No cursor is closed before.
ClosesLoneCollections == prepared = IF ret = "CLOSED" THEN LeftOpen ELSE Cursors

\* "The destructor for a Query object." (datasrc.c:534): what xjd1DataSrcInit has
\* prepared is finalized with the statement.
DestructorFinalizes == ret = "CLOSED" => prepared = {}

\* Every call returns or stops: EACH and FLATTEN go on over rows without an
\* entry, and over containers without one, until a row or an end comes.
CallsReturn == (pc = "call") ~> (pc \in {"idle", "stopped"})

\* The assertion of query.c:707, and the reads of query.c:713-725 through the
\* first item of a list, when the document of a subquery in FROM is read
\* (datasrc.c:366): there is an item.
ListHasItem == pc # "stopped"
=============================================================================
