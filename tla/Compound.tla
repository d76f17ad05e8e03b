------------------------------ MODULE Compound ------------------------------
(***************************************************************************)
(* A statement that combines SELECTs with UNION, UNION ALL, INTERSECT and  *)
(* EXCEPT, nested in any way: selectStepCompounded and cacheQuery of       *)
(* query.c, between the calls of a client.                                 *)
(*                                                                         *)
(* A Query is a tree.  An inner node has an operator and two operands; a   *)
(* leaf is a simple SELECT, which SelectQuery models in detail and which   *)
(* is here the sequence of its results.  UNION ALL passes on one operand   *)
(* and then the other.  The other operators read both operands to the end  *)
(* into sorted lists without duplicates at the first call, and merge the   *)
(* two lists one result per call.  The statement has no ORDER BY and no    *)
(* LIMIT, whose layers call this one and are in SelectQuery.               *)
(*                                                                         *)
(* The functions call each other along the tree, so the call stack is a    *)
(* path from the root to the query at work.  A result is the rank of its   *)
(* document in the order of xjd1JsonCompare, under which equal documents   *)
(* are the same document.  Any checked allocation may fail.                *)
(***************************************************************************)
EXTENDS Integers, Sequences, FiniteSets, SequencesExt

CONSTANTS
    Cases,          \* queries, each with a number of faults
    NoDoc           \* pOut = 0

SetOps == {"UNION", "INTERSECT", "EXCEPT"}
Ops == SetOps \cup {"SELECT", "ALL"}
Sides == {"left", "right"}
Docs == Int

ASSUME NoDocAssumption == NoDoc \notin Docs

Node == [op : Ops, rows : Seq(Docs), left : Nat, right : Nat]

\* A query is a sequence of nodes, operands before the query they belong to;
\* the last one is the query of the statement.
IsTree(t) ==
    /\ t \in Seq(Node) /\ t # <<>>
    /\ \A n \in DOMAIN t, s \in Sides :
        IF t[n].op = "SELECT" THEN t[n][s] = 0 ELSE t[n][s] \in 1..(n - 1)
    /\ \A m, n \in DOMAIN t, r, s \in Sides :
        t[m][r] = t[n][s] /\ t[m][r] # 0 => m = n /\ r = s

ASSUME CasesAssumption == \A c \in Cases : IsTree(c.tree) /\ c.faults \in Nat

VARIABLES
    tree,           \* the query; never changes
    meaning,        \* the results of each node of it; never changes
    pos,            \* SELECT: the result it is at, 0 before the first
    cache,          \* u.compound.left, right: the lists of the operands
    doneLeft,       \* u.compound.doneLeft
    pOut,           \* u.compound.pOut
    stack,          \* the queries that are being stepped, outermost first
    pc, rc,         \* where the innermost one is, and what it returned
    ended,          \* queries that have returned DONE since the rewind
    out, ret,       \* the client: results since the rewind, last return code
    faults          \* how many allocations may still fail

query == <<tree, meaning>>
client == <<out, ret>>
vars == <<query, pos, cache, doneLeft, pOut, stack, pc, rc, ended, client, faults>>

-----------------------------------------------------------------------------
(* What a compound query means *)

\* The members of S in order.
Ascending(S) ==
    CHOOSE s \in [1..Cardinality(S) -> S] : \A i, j \in DOMAIN s : i < j => s[i] < s[j]

Combine(op, l, r) ==
    CASE op = "ALL"       -> l \o r
      [] op = "UNION"     -> Ascending(ToSet(l) \cup ToSet(r))
      [] op = "INTERSECT" -> Ascending(ToSet(l) \cap ToSet(r))
      [] op = "EXCEPT"    -> Ascending(ToSet(l) \ ToSet(r))

Meaning(t) ==
    LET of[n \in DOMAIN t] ==
            IF t[n].op = "SELECT" THEN t[n].rows
            ELSE Combine(t[n].op, of[t[n].left], of[t[n].right])
    IN  of

-----------------------------------------------------------------------------
(* Helpers *)

Nodes == DOMAIN tree
Root == Len(tree)
p == Last(stack)                        \* the query at work
Caller == stack[Len(stack) - 1]         \* and the one it is an operand of
Side == IF tree[Caller].left = p THEN "left" ELSE "right"

ClosedList == [open |-> FALSE, items |-> <<>>]  \* pPool = 0
OpenList == [open |-> TRUE, items |-> <<>>]
NoLists == [s \in Sides |-> ClosedList]

\* xjd1QueryDoc(n, 0): the result that query n is at.
Doc(n) == IF tree[n].op = "SELECT" THEN tree[n].rows[pos[n]] ELSE pOut[n]

\* A query of a call steps an operand; an operand, or the query of the
\* statement, returns.
Call(s) ==
    /\ stack' = Append(stack, tree[p][s])
    /\ pc' = "call"

Return(code) ==
    /\ pc' = "return"
    /\ rc' = code
    /\ ended' = IF code = "DONE" THEN ended \cup {p} ELSE ended

\* The caller of the operand that returned code returns code too.
ReturnFromCaller(code) ==
    /\ stack' = Front(stack)
    /\ rc' = code
    /\ ended' = IF code = "DONE" THEN ended \cup {Caller} ELSE ended

Fails == faults > 0 /\ faults' = faults - 1

Init ==
    /\ \E c \in Cases :
        /\ tree = c.tree
        /\ meaning = Meaning(c.tree)
        /\ faults = c.faults
    /\ pos = [n \in Nodes |-> 0]
    /\ cache = [n \in Nodes |-> NoLists]
    /\ doneLeft = [n \in Nodes |-> FALSE]
    /\ pOut = [n \in Nodes |-> NoDoc]
    /\ stack = <<>> /\ pc = "idle" /\ rc = "ROW"
    /\ ended = {}
    /\ out = <<>> /\ ret = "NONE"

-----------------------------------------------------------------------------
(* The client *)

\* The caller of a statement steps it until it returns something but ROW.
CanStep == ret \in {"NONE", "ROW"}

Step ==
    /\ pc = "idle" /\ CanStep
    /\ stack' = <<Root>>
    /\ pc' = "call"
    /\ UNCHANGED <<query, pos, cache, doneLeft, pOut, rc, ended, client, faults>>

\* The statement returns; when there is a row its document is the value.
StepReturns ==
    /\ pc = "return" /\ p = Root
    /\ pc' = "idle"
    /\ stack' = <<>>
    /\ ret' = rc
    /\ out' = IF rc = "ROW" THEN Append(out, Doc(Root)) ELSE out
    /\ UNCHANGED <<query, pos, cache, doneLeft, pOut, rc, ended, faults>>

\* Mutant of Rewind: the lists of the operands are kept.
RewindKeepsLists ==
    /\ pc = "idle"
    /\ pos' = [n \in Nodes |-> 0]
    /\ doneLeft' = [n \in Nodes |-> FALSE]
    /\ pOut' = [n \in Nodes |-> NoDoc]
    /\ ended' = {}
    /\ out' = <<>> /\ ret' = "NONE"
    /\ UNCHANGED <<query, cache, stack, pc, rc, faults>>

\* xjd1QueryRewind visits the whole tree.
Rewind ==
    /\ pc = "idle"
    /\ pos' = [n \in Nodes |-> 0]
    /\ cache' = [n \in Nodes |-> NoLists]
    /\ doneLeft' = [n \in Nodes |-> FALSE]
    /\ pOut' = [n \in Nodes |-> NoDoc]
    /\ ended' = {}
    /\ out' = <<>> /\ ret' = "NONE"
    /\ UNCHANGED <<query, stack, pc, rc, faults>>

-----------------------------------------------------------------------------
(* A simple SELECT *)

AtSelect == pc = "call" /\ tree[p].op = "SELECT"

\* Mutant of SelectRow: the scan does not stop behind the last row.
SelectRowBehindLast ==
    /\ AtSelect
    /\ pos' = [pos EXCEPT ![p] = @ + 1]
    /\ Return("ROW")
    /\ UNCHANGED <<query, cache, doneLeft, pOut, stack, client, faults>>

SelectRow ==
    /\ AtSelect /\ pos[p] < Len(tree[p].rows)
    /\ pos' = [pos EXCEPT ![p] = @ + 1]
    /\ Return("ROW")
    /\ UNCHANGED <<query, cache, doneLeft, pOut, stack, client, faults>>

\* A SELECT that is stepped again after its end starts over.
SelectDone ==
    /\ AtSelect /\ pos[p] = Len(tree[p].rows)
    /\ pos' = [pos EXCEPT ![p] = 0]
    /\ Return("DONE")
    /\ UNCHANGED <<query, cache, doneLeft, pOut, stack, client, faults>>

SelectNoMem ==
    /\ AtSelect /\ Fails
    /\ Return("NOMEM")
    /\ UNCHANGED <<query, pos, cache, doneLeft, pOut, stack, client>>

-----------------------------------------------------------------------------
(* UNION ALL *)

AllCalls ==
    /\ pc = "call" /\ tree[p].op = "ALL"
    /\ Call(IF doneLeft[p] THEN "right" ELSE "left")
    /\ UNCHANGED <<query, pos, cache, doneLeft, pOut, rc, ended, client, faults>>

OperandOfAll == pc = "return" /\ p # Root /\ tree[Caller].op = "ALL"

\* Mutant of AllLeftDone: the end of the left operand is forgotten.
AllLeftDoneForgotten ==
    /\ OperandOfAll /\ Side = "left" /\ rc = "DONE"
    /\ stack' = Append(Front(stack), tree[Caller].right)
    /\ pc' = "call"
    /\ UNCHANGED <<query, pos, cache, doneLeft, pOut, rc, ended, client, faults>>

\* The left operand has no more results: the call goes on to the right one.
AllLeftDone ==
    /\ OperandOfAll /\ Side = "left" /\ rc = "DONE"
    /\ doneLeft' = [doneLeft EXCEPT ![Caller] = TRUE]
    /\ stack' = Append(Front(stack), tree[Caller].right)
    /\ pc' = "call"
    /\ UNCHANGED <<query, pos, cache, pOut, rc, ended, client, faults>>

\* Otherwise what the operand returned is returned, with its result.
AllReturns ==
    /\ OperandOfAll /\ ~(Side = "left" /\ rc = "DONE")
    /\ pOut' = [pOut EXCEPT ![Caller] = IF rc = "ROW" THEN Doc(p) ELSE NoDoc]
    /\ ReturnFromCaller(rc)
    /\ UNCHANGED <<query, pos, cache, doneLeft, pc, client, faults>>

-----------------------------------------------------------------------------
(* cacheQuery: both operands are read to the end *)

\* The list to open next: the left one at the first call, then the right one.
Opening(s) ==
    \/ s = "left" /\ pc = "call" /\ tree[p].op \in SetOps /\ ~cache[p].left.open
    \/ s = "right" /\ pc = "openRight"

CacheOpen == \E s \in Sides :
    /\ Opening(s)
    /\ cache' = [cache EXCEPT ![p][s] = OpenList]
    /\ Call(s)
    /\ UNCHANGED <<query, pos, doneLeft, pOut, rc, ended, client, faults>>

CacheNoPool == \E s \in Sides :
    /\ Opening(s) /\ Fails
    /\ Return("NOMEM")
    /\ UNCHANGED <<query, pos, cache, doneLeft, pOut, stack, client>>

OperandOfSetOp == pc = "return" /\ p # Root /\ tree[Caller].op \in SetOps

\* A result of the operand is added to its list, and the operand stepped again.
CacheAdd ==
    /\ OperandOfSetOp /\ rc = "ROW"
    /\ cache' = [cache EXCEPT ![Caller][Side].items = Append(@, Doc(p))]
    /\ pc' = "call"
    /\ UNCHANGED <<query, pos, doneLeft, pOut, stack, rc, ended, client, faults>>

CacheNoItem ==
    /\ OperandOfSetOp /\ rc = "ROW" /\ Fails
    /\ ReturnFromCaller("NOMEM")
    /\ UNCHANGED <<query, pos, cache, doneLeft, pOut, pc, client>>

\* Mutant of CacheSort: the list is not sorted.
CacheUnsorted ==
    /\ OperandOfSetOp /\ rc = "DONE"
    /\ stack' = Front(stack)
    /\ pc' = IF Side = "left" THEN "openRight" ELSE "merge"
    /\ UNCHANGED <<query, pos, cache, doneLeft, pOut, rc, ended, client, faults>>

\* The list is complete: sortResultList leaves each document once, ascending.
CacheSort ==
    /\ OperandOfSetOp /\ rc = "DONE"
    /\ cache' = [cache EXCEPT ![Caller][Side].items = Ascending(ToSet(@))]
    /\ stack' = Front(stack)
    /\ pc' = IF Side = "left" THEN "openRight" ELSE "merge"
    /\ UNCHANGED <<query, pos, doneLeft, pOut, rc, ended, client, faults>>

CacheError ==
    /\ OperandOfSetOp /\ rc = "NOMEM"
    /\ ReturnFromCaller("NOMEM")
    /\ UNCHANGED <<query, pos, cache, doneLeft, pOut, pc, client, faults>>

-----------------------------------------------------------------------------
(* The merge of the two lists *)

\* The lists of an earlier call are merged on.
Merging ==
    /\ pc \in {"call", "merge"} /\ tree[p].op \in SetOps
    /\ pc = "call" => cache[p].left.open

Items(s) == cache[p][s].items
Has(s) == Items(s) # <<>>

\* How the heads of the lists compare; one that has no head comes last.
LeftFirst == Has("left") /\ (Has("right") => Head(Items("left")) < Head(Items("right")))
RightFirst == Has("right") /\ (Has("left") => Head(Items("right")) < Head(Items("left")))
Equal == Has("left") /\ Has("right") /\ Head(Items("left")) = Head(Items("right"))

Popped(list) == [list EXCEPT !.items = Tail(@)]

PopLists(S) ==
    cache' = [cache EXCEPT ![p] = [s \in Sides |-> IF s \in S THEN Popped(@[s]) ELSE @[s]]]

\* The head of list s is the result of this call, and the lists in S lose theirs.
MergeRow(s, S) ==
    /\ pOut' = [pOut EXCEPT ![p] = Head(Items(s))]
    /\ PopLists(S)
    /\ Return("ROW")
    /\ UNCHANGED <<query, pos, doneLeft, stack, client, faults>>

\* The lists in S lose their heads and the merge goes on.
MergeSkip(S) ==
    /\ PopLists(S)
    /\ pc' = "merge"
    /\ UNCHANGED <<query, pos, doneLeft, pOut, stack, rc, ended, client, faults>>

MergeDone ==
    /\ Merging
    /\ CASE tree[p].op = "UNION"     -> ~Has("left") /\ ~Has("right")
         [] tree[p].op = "INTERSECT" -> ~Has("left") \/ ~Has("right")
         [] tree[p].op = "EXCEPT"    -> ~Has("left")
    /\ pOut' = [pOut EXCEPT ![p] = NoDoc]
    /\ Return("DONE")
    /\ UNCHANGED <<query, pos, cache, doneLeft, stack, client, faults>>

\* Mutant of UnionRow: an equal head of the left list stays.
UnionRowKeepsEqual ==
    /\ Merging /\ tree[p].op = "UNION"
    /\ \/ LeftFirst /\ MergeRow("left", {"left"})
       \/ (RightFirst \/ Equal) /\ MergeRow("right", {"right"})

UnionRow ==
    /\ Merging /\ tree[p].op = "UNION"
    /\ \/ LeftFirst /\ MergeRow("left", {"left"})
       \/ RightFirst /\ MergeRow("right", {"right"})
       \/ Equal /\ MergeRow("right", Sides)

IntersectItem ==
    /\ Merging /\ tree[p].op = "INTERSECT"
    /\ Has("left") /\ Has("right")
    /\ \/ LeftFirst /\ MergeSkip({"left"})
       \/ RightFirst /\ MergeSkip({"right"})
       \/ Equal /\ MergeRow("left", Sides)

\* Mutant of ExceptItem: a head of the left list to leave out is not popped.
ExceptItemStays ==
    /\ Merging /\ tree[p].op = "EXCEPT"
    /\ Has("left")
    /\ \/ LeftFirst /\ MergeRow("left", {"left"})
       \/ RightFirst /\ MergeSkip({"right"})
       \/ Equal /\ MergeSkip({})

ExceptItem ==
    /\ Merging /\ tree[p].op = "EXCEPT"
    /\ Has("left")
    /\ \/ LeftFirst /\ MergeRow("left", {"left"})
       \/ RightFirst /\ MergeSkip({"right"})
       \/ Equal /\ MergeSkip({"left"})

-----------------------------------------------------------------------------
Internal ==
    \/ StepReturns
    \/ SelectRow \/ SelectDone \/ SelectNoMem
    \/ AllCalls \/ AllLeftDone \/ AllReturns
    \/ CacheOpen \/ CacheNoPool \/ CacheAdd \/ CacheNoItem \/ CacheSort \/ CacheError
    \/ MergeDone \/ UnionRow \/ IntersectItem \/ ExceptItem

Next == Step \/ Rewind \/ Internal

\* A call that has begun runs on: the program is one thread.
Fairness == WF_vars(Internal)

Spec == Init /\ [][Next]_vars /\ Fairness

-----------------------------------------------------------------------------
(* Properties *)

Codes == {"ROW", "DONE", "NOMEM"}
Lists == [open : BOOLEAN, items : Seq(Docs)]

TypeOK ==
    /\ IsTree(tree)
    /\ meaning \in [Nodes -> Seq(Docs)]
    /\ pos \in [Nodes -> Nat] /\ \A n \in Nodes : pos[n] <= Len(tree[n].rows)
    /\ cache \in [Nodes -> [Sides -> Lists]]
    /\ doneLeft \in [Nodes -> BOOLEAN]
    /\ pOut \in [Nodes -> Docs \cup {NoDoc}]
    /\ stack \in Seq(Nodes) /\ (stack = <<>> <=> pc = "idle")
    /\ pc \in {"idle", "call", "openRight", "merge", "return"} /\ rc \in Codes
    /\ ended \subseteq Nodes
    /\ out \in Seq(Docs) /\ ret \in Codes \cup {"NONE"}
    /\ faults \in Nat

\* The statement is a cursor over the combination of its operands
\* (query.c:492-570): however the operators nest, and also when it is rewound
\* after memory ran out with the list of one operand complete and the other
\* half-way, it returns the results in order, each as often as the operators
\* say, and then DONE.
Abstract == INSTANCE Cursor WITH answer <- meaning[Root]
ImplementsCursor == Abstract!Spec

\* An operand that has returned DONE is not stepped again before a rewind
\* (doneLeft, query.c:490-497, and the pool of the left list, query.c:511): a
\* SELECT would start over, and its results come twice.
NoCallAfterEnd == [][pc' = "call" => Last(stack') \notin ended]_vars

\* Both lists of query n are complete.
Merged(n) ==
    /\ tree[n].op \in SetOps
    /\ \A s \in Sides : tree[n][s] \in ended
    /\ pc = "return" => p # tree[n].right       \* its list is not sorted yet

\* Once both operands of a query are read to the end, what the merge has left
\* in the two lists combines to results that the query means and that come
\* last in it: a result is never popped with one that only stands next to it
\* (query.c:523-570), in a query nested at any depth.
MergeLosesNothing ==
    \A n \in Nodes : Merged(n) =>
        IsSuffix(Combine(tree[n].op, cache[n].left.items, cache[n].right.items), meaning[n])

\* Every call returns: the operands are read to an end, and each turn of a
\* merge that skips items takes one away.
CallsReturn == (pc # "idle") ~> (pc = "idle")
=============================================================================
