----------------------------- MODULE SelectQuery -----------------------------
(***************************************************************************)
(* One simple SELECT statement over one collection: the pipeline of        *)
(* query.c from xjd1QueryStep down to the data source, between the calls   *)
(* of a client (xjd1_stmt_step, xjd1_stmt_value, xjd1_stmt_rewind).        *)
(*                                                                         *)
(* Each layer of the pipeline is a C function called by the one above it,  *)
(* and a layer that a query has no clause for passes the call on:          *)
(*                                                                         *)
(*   xjd1QueryStep           OFFSET loop, then LIMIT                       *)
(*     selectStepOrdered     ORDER BY: fill, sort, then pop                *)
(*       selectStepDistinct  DISTINCT: fill, sort, then pop                *)
(*         selectStepGrouped aggregates: fill, then one group per call     *)
(*           selectStepWhered  scan to the next row that WHERE accepts     *)
(*                                                                         *)
(* pc is the place where the call is.  A layer is entered at the label     *)
(* named for it; a layer that fills a list waits at its "fill" label for   *)
(* the value rc that the layer below returns.  The layers above a layer    *)
(* are determined by the clauses of the query, so the return address is an *)
(* operator (CallerOf...) and no stack is needed.                          *)
(*                                                                         *)
(* The checked allocations of the pipeline may fail, as many times in a    *)
(* behaviour as its case says.  A read through a NULL list head, or a      *)
(* failed assert, stops the program: ret = "FAULT".                        *)
(***************************************************************************)
EXTENDS SelectSemantics

CONSTANTS
    Cases,          \* queries, each with a collection and a number of faults
    StepAfterEnd    \* TRUE: a client may step again after DONE

ASSUME CasesAssumption ==
    \A c \in Cases : c.q \in Queries /\ c.table \in Seq(Rows) /\ c.faults \in Nat
ASSUME StepAfterEndAssumption == StepAfterEnd \in BOOLEAN

VARIABLES
    q,              \* the clauses of the query; never changes
    table,          \* the documents of the collection; never changes
    answer,         \* what the query means (SelectSemantics); never changes
    pos,            \* DataSrc: row the scan is at, 0 when it is not at a row
    grouped,        \* ResultList of selectStepGrouped: rows, with group key
    saved,          \* grouped.pSaved: at most one row
    rep,            \* apSrc of an aggregate without GROUP BY: at most one row
    aggCtx,         \* Aggregate: context of the accumulating function
    aggValue,       \* Aggregate: pValue, the result of the last xFinal
    distincted,     \* ResultList of selectStepDistinct: result and document
    ordered,        \* ResultList of selectStepOrdered: keys and result
    docFrom,        \* eDocFrom: where xjd1QueryDoc reads
    limitValid,     \* bLimitValid
    nLimit,         \* rows still to return, negative for no limit
    nOffset,        \* rows still to skip, while the OFFSET loop runs
    pc, rc,         \* where the call is, and what a layer returned
    out, ret,       \* the client: results since the rewind, last return code
    faults          \* how many allocations may still fail

case == <<q, table, answer>>
lists == <<grouped, saved, rep, distincted, ordered>>
aggs == <<aggCtx, aggValue>>
limits == <<limitValid, nLimit, nOffset>>
client == <<out, ret>>
vars == <<case, pos, lists, aggs, docFrom, limits, pc, rc, client, faults>>

NoCtx == Null                                   \* pAggCtx = 0
ClosedList == [open |-> FALSE, items |-> <<>>]  \* pPool = 0
OpenList == [open |-> TRUE, items |-> <<>>]

-----------------------------------------------------------------------------
(* Helpers *)

\* The row a step of selectStepWhered stops at: the first one after pos that
\* the WHERE clause accepts, if there is one.
IsNextMatch(i) ==
    /\ i \in (pos + 1)..Len(table)
    /\ table[i].v >= q.where
    /\ \A j \in (pos + 1)..(i - 1) : table[j].v < q.where
NoMatch == \A i \in (pos + 1)..Len(table) : table[i].v < q.where

CurrentRow == IF pos = 0 THEN NoDoc ELSE table[pos]     \* DataSrc.pValue

Pop(list) == IF list.items = <<>> THEN list ELSE [list EXCEPT !.items = Tail(@)]
Add(list, item) == [list EXCEPT !.items = Append(@, item)]

\* Whether the list that xjd1QueryDoc reads through has a first item.
Readable ==
    CASE docFrom = "DATASRC"    -> TRUE
      [] docFrom = "GROUPED"    -> grouped.items # <<>>
      [] docFrom = "DISTINCTED" -> distincted.items # <<>>
      [] docFrom = "ORDERED"    -> ordered.items # <<>>

\* xjd1QueryDoc(p, 1): the document of the collection that the query is at.
SourceDoc ==
    CASE docFrom = "DATASRC"    -> CurrentRow
      [] docFrom = "GROUPED"    -> Head(grouped.items).doc
      [] docFrom = "DISTINCTED" -> Head(distincted.items).doc

\* xjd1QueryDoc(p, 0): the result that the query is at.
ResultDoc ==
    CASE docFrom = "ORDERED"    -> Head(ordered.items).res
      [] docFrom = "DISTINCTED" -> Head(distincted.items).res
      [] OTHER                  -> Result(q.res, SourceDoc, aggValue)

\* One row accumulated by xCountStep, xMinStep or xMaxStep, and whether the
\* function asks for the row to be saved.
Improves(row) ==
    \/ q.agg = "min" /\ (aggCtx = NoCtx \/ row.v < aggCtx)
    \/ q.agg = "max" /\ (aggCtx = NoCtx \/ row.v > aggCtx)
Accumulate(row) ==
    CASE q.agg = "none"  -> NoCtx
      [] q.agg = "count" -> IF aggCtx = NoCtx THEN 1 ELSE aggCtx + 1
      [] OTHER           -> IF Improves(row) THEN row.v ELSE aggCtx

\* Mutant of Final: a count of no rows is null as well.
FinalNull(ctx) == ctx
\* The xFinal functions: no row counted is 0, no row compared is null.
Final(ctx) == IF q.agg = "count" /\ ctx = NoCtx THEN 0 ELSE ctx

\* How the items of each list are ordered (cmpResultItem).
GroupBefore(x, y) == DocLess(x.key, y.key)
DistinctBefore(x, y) == DocLess(x.res, y.res)
OrderedBefore(x, y) == KeyLess(x.key, y.key, Directions(q.order))

-----------------------------------------------------------------------------
(* Call and return between the layers *)

ScanLayer == IF IsAggregate(q) THEN "grouped" ELSE "scan"
DistinctLayer == IF q.distinct THEN "distinct" ELSE ScanLayer
TopLayer == IF q.order # <<>> THEN "ordered" ELSE DistinctLayer

\* bLimitValid is set between the OFFSET loop and the call for a row.
CallerOfOrdered == IF limitValid THEN "return" ELSE "offset"
CallerOfDistinct == IF q.order # <<>> THEN "fillOrdered" ELSE CallerOfOrdered
CallerOfGrouped == IF q.distinct THEN "fillDistinct" ELSE CallerOfDistinct

ReturnTo(caller, code) ==
    /\ pc' = caller
    /\ rc' = code

\* A read through a null pointer, or a failed assert: the program stops.
Fault ==
    /\ pc' = "stopped"
    /\ ret' = "FAULT"
    /\ UNCHANGED <<case, pos, lists, aggs, docFrom, limits, rc, out, faults>>

Init ==
    /\ \E c \in Cases :
        /\ q = c.q
        /\ table = c.table
        /\ answer = Answer(c.q, c.table)
        /\ faults = c.faults
    /\ pos = 0
    /\ grouped = ClosedList /\ distincted = ClosedList /\ ordered = ClosedList
    /\ saved = <<>> /\ rep = <<>>
    /\ aggCtx = NoCtx /\ aggValue = Null
    /\ docFrom = "DATASRC"
    /\ limitValid = FALSE /\ nLimit = 0 /\ nOffset = 0
    /\ pc = "idle" /\ rc = "ROW"
    /\ out = <<>> /\ ret = "NONE"

-----------------------------------------------------------------------------
(* xjd1QueryStep and the client *)

CanStep == ret \in {"NONE", "ROW"} \/ (StepAfterEnd /\ ret = "DONE")

\* xjd1_stmt_step calls xjd1QueryStep, which evaluates OFFSET and LIMIT in the
\* first call after a rewind.
Step ==
    /\ pc = "idle" /\ CanStep
    /\ ReturnTo(IF limitValid THEN "limit" ELSE "offset", "ROW")
    /\ nOffset' = IF limitValid THEN nOffset ELSE q.offset
    /\ UNCHANGED <<case, pos, lists, aggs, docFrom, limitValid, nLimit, client, faults>>

\* The OFFSET loop skips a row per iteration until a call returns no row.
SkipRow ==
    /\ pc = "offset" /\ rc = "ROW" /\ nOffset > 0
    /\ pc' = TopLayer
    /\ nOffset' = nOffset - 1
    /\ UNCHANGED <<case, pos, lists, aggs, docFrom, limitValid, nLimit, rc, client, faults>>

\* LIMIT is evaluated once, when the OFFSET loop is over.
EvalLimit ==
    /\ pc = "offset" /\ (rc # "ROW" \/ nOffset <= 0)
    /\ pc' = "limit"
    /\ limitValid' = TRUE
    /\ nLimit' = q.limit
    /\ UNCHANGED <<case, pos, lists, aggs, docFrom, nOffset, rc, client, faults>>

\* Mutant of StepWithinLimit: the row is not counted.
StepWithinLimitUncounted ==
    /\ pc = "limit" /\ rc = "ROW" /\ nLimit # 0
    /\ pc' = TopLayer
    /\ UNCHANGED <<case, pos, lists, aggs, docFrom, limits, rc, client, faults>>

\* nLimit is counted down after the call; nothing reads it in between.
StepWithinLimit ==
    /\ pc = "limit" /\ rc = "ROW" /\ nLimit # 0
    /\ pc' = TopLayer
    /\ nLimit' = IF nLimit > 0 THEN nLimit - 1 ELSE nLimit
    /\ UNCHANGED <<case, pos, lists, aggs, docFrom, limitValid, nOffset, rc, client, faults>>

StopAtLimit ==
    /\ pc = "limit" /\ (rc # "ROW" \/ nLimit = 0)
    /\ ReturnTo("return", IF rc = "ROW" THEN "DONE" ELSE rc)
    /\ UNCHANGED <<case, pos, lists, aggs, docFrom, limits, client, faults>>

\* xjd1_stmt_step renders the result document when there is a row.
ReturnRow ==
    /\ pc = "return" /\ rc = "ROW"
    /\ IF Readable
       THEN /\ pc' = "idle"
            /\ ret' = "ROW"
            /\ out' = Append(out, ResultDoc)
            /\ UNCHANGED <<case, pos, lists, aggs, docFrom, limits, rc, faults>>
       ELSE Fault

ReturnNoRow ==
    /\ pc = "return" /\ rc # "ROW"
    /\ pc' = "idle"
    /\ ret' = rc
    /\ UNCHANGED <<case, pos, lists, aggs, docFrom, limits, rc, out, faults>>

\* Mutant of Rewind: eDocFrom is not reset.
RewindKeepsDocFrom ==
    /\ pc = "idle"
    /\ pos' = 0
    /\ grouped' = ClosedList /\ distincted' = ClosedList /\ ordered' = ClosedList
    /\ saved' = <<>> /\ rep' = <<>>
    /\ aggCtx' = NoCtx /\ aggValue' = Null
    /\ limitValid' = FALSE
    /\ out' = <<>> /\ ret' = "NONE"
    /\ UNCHANGED <<case, docFrom, nLimit, nOffset, pc, rc, faults>>

\* xjd1_stmt_rewind: at any time between two calls.
Rewind ==
    /\ pc = "idle"
    /\ pos' = 0
    /\ grouped' = ClosedList /\ distincted' = ClosedList /\ ordered' = ClosedList
    /\ saved' = <<>> /\ rep' = <<>>
    /\ aggCtx' = NoCtx /\ aggValue' = Null
    /\ docFrom' = "DATASRC"
    /\ limitValid' = FALSE
    /\ out' = <<>> /\ ret' = "NONE"
    /\ UNCHANGED <<case, nLimit, nOffset, pc, rc, faults>>

-----------------------------------------------------------------------------
(* selectStepOrdered *)

OrderedFill ==
    /\ pc = "ordered" /\ ~ordered.open
    /\ ordered' = OpenList
    /\ pc' = DistinctLayer
    /\ UNCHANGED <<case, pos, grouped, saved, rep, distincted, aggs, docFrom, limits, rc, client, faults>>

OrderedAdd ==
    /\ pc = "fillOrdered" /\ rc = "ROW"
    /\ IF Readable
       THEN /\ ordered' = Add(ordered, [key |-> OrderKey(q.order, SourceDoc, ResultDoc),
                                        res |-> ResultDoc])
            /\ pc' = DistinctLayer
            /\ UNCHANGED <<case, pos, grouped, saved, rep, distincted, aggs, docFrom, limits, rc, client, faults>>
       ELSE Fault

OrderedSort ==
    /\ pc = "fillOrdered" /\ rc = "DONE"
    /\ \E items \in StableSorts(ordered.items, OrderedBefore) :
        /\ ordered' = [ordered EXCEPT !.items = items]
        /\ ReturnTo(CallerOfOrdered, IF items # <<>> THEN "ROW" ELSE "DONE")
    /\ docFrom' = "ORDERED"
    /\ UNCHANGED <<case, pos, grouped, saved, rep, distincted, aggs, limits, client, faults>>

OrderedError ==
    /\ pc = "fillOrdered" /\ rc = "NOMEM"
    /\ pc' = CallerOfOrdered
    /\ UNCHANGED <<case, pos, lists, aggs, docFrom, limits, rc, client, faults>>

OrderedPop ==
    /\ pc = "ordered" /\ ordered.open
    /\ IF docFrom = "ORDERED"
       THEN /\ ordered' = Pop(ordered)
            /\ ReturnTo(CallerOfOrdered, IF ordered'.items # <<>> THEN "ROW" ELSE "DONE")
            /\ UNCHANGED <<case, pos, grouped, saved, rep, distincted, aggs, docFrom, limits, client, faults>>
       ELSE Fault

-----------------------------------------------------------------------------
(* selectStepDistinct *)

DistinctFill ==
    /\ pc = "distinct" /\ ~distincted.open
    /\ distincted' = OpenList
    /\ pc' = ScanLayer
    /\ UNCHANGED <<case, pos, grouped, saved, rep, ordered, aggs, docFrom, limits, rc, client, faults>>

\* The document kept with the result is the one the data source is at.
DistinctAdd ==
    /\ pc = "fillDistinct" /\ rc = "ROW"
    /\ IF Readable
       THEN /\ distincted' = Add(distincted, [res |-> ResultDoc, doc |-> CurrentRow])
            /\ pc' = ScanLayer
            /\ UNCHANGED <<case, pos, grouped, saved, rep, ordered, aggs, docFrom, limits, rc, client, faults>>
       ELSE Fault

\* The first call returns ROW whatever the list holds.
DistinctSort ==
    /\ pc = "fillDistinct" /\ rc = "DONE"
    /\ \E items \in DistinctSorts(distincted.items, DistinctBefore) :
        distincted' = [distincted EXCEPT !.items = items]
    /\ docFrom' = "DISTINCTED"
    /\ ReturnTo(CallerOfDistinct, "ROW")
    /\ UNCHANGED <<case, pos, grouped, saved, rep, ordered, aggs, limits, client, faults>>

DistinctError ==
    /\ pc = "fillDistinct" /\ rc = "NOMEM"
    /\ pc' = CallerOfDistinct
    /\ UNCHANGED <<case, pos, lists, aggs, docFrom, limits, rc, client, faults>>

DistinctPop ==
    /\ pc = "distinct" /\ distincted.open
    /\ distincted' = Pop(distincted)
    /\ ReturnTo(CallerOfDistinct, IF distincted'.items # <<>> THEN "ROW" ELSE "DONE")
    /\ UNCHANGED <<case, pos, grouped, saved, rep, ordered, aggs, docFrom, limits, client, faults>>

-----------------------------------------------------------------------------
(* selectStepGrouped of a query without aggregates: selectStepWhered *)

\* A table scan that is stepped after its end starts again (sqlite3_step resets
\* the statement), so the position after the last row is 0 as well.
ScanRow ==
    /\ pc = "scan"
    /\ \E i \in 1..Len(table) : IsNextMatch(i) /\ pos' = i
    /\ ReturnTo(CallerOfGrouped, "ROW")
    /\ UNCHANGED <<case, lists, aggs, docFrom, limits, client, faults>>

\* Mutant of ScanDone: the scan is left past the last row.
ScanDonePastEnd ==
    /\ pc = "scan" /\ NoMatch
    /\ pos' = Len(table) + 1
    /\ ReturnTo(CallerOfGrouped, "DONE")
    /\ UNCHANGED <<case, lists, aggs, docFrom, limits, client, faults>>

ScanDone ==
    /\ pc = "scan" /\ NoMatch
    /\ pos' = 0
    /\ ReturnTo(CallerOfGrouped, "DONE")
    /\ UNCHANGED <<case, lists, aggs, docFrom, limits, client, faults>>

-----------------------------------------------------------------------------
(* selectStepGrouped of an aggregate query without GROUP BY *)

AggregateFill ==
    /\ pc = "grouped" /\ ~q.grouped /\ ~grouped.open
    /\ grouped' = OpenList
    /\ rep' = <<>>
    /\ pc' = "fillAggregate"
    /\ UNCHANGED <<case, pos, saved, distincted, ordered, aggs, docFrom, limits, rc, client, faults>>

AggregateRow ==
    /\ pc = "fillAggregate"
    /\ \E i \in 1..Len(table) :
        /\ IsNextMatch(i)
        /\ pos' = i
        /\ aggCtx' = Accumulate(table[i])
        /\ rep' = IF rep = <<>> \/ Improves(table[i]) THEN <<table[i]>> ELSE rep
    /\ UNCHANGED <<case, grouped, saved, distincted, ordered, aggValue, docFrom, limits, pc, rc, client, faults>>

AggregateDone ==
    /\ pc = "fillAggregate" /\ NoMatch
    /\ pos' = 0
    /\ grouped' = Add(grouped, [key |-> <<>>, doc |-> IF rep = <<>> THEN NoDoc ELSE rep[1]])
    /\ aggValue' = Final(aggCtx)
    /\ aggCtx' = NoCtx
    /\ docFrom' = "GROUPED"
    /\ ReturnTo(CallerOfGrouped, "ROW")
    /\ UNCHANGED <<case, saved, rep, distincted, ordered, limits, client, faults>>

AggregateAgain ==
    /\ pc = "grouped" /\ ~q.grouped /\ grouped.open
    /\ ReturnTo(CallerOfGrouped, "DONE")
    /\ UNCHANGED <<case, pos, lists, aggs, docFrom, limits, client, faults>>

-----------------------------------------------------------------------------
(* selectStepGrouped of a query with GROUP BY *)

GroupFill ==
    /\ pc = "grouped" /\ q.grouped /\ ~grouped.open
    /\ grouped' = OpenList
    /\ pc' = "fillGrouped"
    /\ UNCHANGED <<case, pos, saved, rep, distincted, ordered, aggs, docFrom, limits, rc, client, faults>>

GroupAdd ==
    /\ pc = "fillGrouped"
    /\ \E i \in 1..Len(table) :
        /\ IsNextMatch(i)
        /\ pos' = i
        /\ grouped' = Add(grouped, [key |-> <<table[i].g>>, doc |-> table[i]])
    /\ UNCHANGED <<case, saved, rep, distincted, ordered, aggs, docFrom, limits, pc, rc, client, faults>>

GroupSort ==
    /\ pc = "fillGrouped" /\ NoMatch
    /\ pos' = 0
    /\ \E items \in StableSorts(grouped.items, GroupBefore) :
        grouped' = [grouped EXCEPT !.items = items]
    /\ docFrom' = "GROUPED"
    /\ pc' = "group"
    /\ UNCHANGED <<case, saved, rep, distincted, ordered, aggs, limits, rc, client, faults>>

\* Mutant of GroupPop: the group that was returned stays in the list.
GroupPopNothing ==
    /\ pc = "grouped" /\ q.grouped /\ grouped.open
    /\ docFrom' = "GROUPED"
    /\ pc' = "group"
    /\ UNCHANGED <<case, pos, lists, aggs, limits, rc, client, faults>>

GroupPop ==
    /\ pc = "grouped" /\ q.grouped /\ grouped.open
    /\ grouped' = Pop(grouped)
    /\ docFrom' = "GROUPED"
    /\ pc' = "group"
    /\ UNCHANGED <<case, pos, saved, rep, distincted, ordered, aggs, limits, rc, client, faults>>

GroupsDone ==
    /\ pc = "group" /\ grouped.items = <<>>
    /\ ReturnTo(CallerOfGrouped, "DONE")
    /\ UNCHANGED <<case, pos, lists, aggs, docFrom, limits, client, faults>>

\* saveResultList: the head of the list is set aside (and replaces the row set
\* aside before it).  restoreResultList: a row set aside replaces the head.
AfterSave(items, save) == IF save THEN Tail(items) ELSE items
\* Mutant of AfterRestore: the head of the list is not replaced.
AfterRestoreInFront(items, aside) == aside \o items
AfterRestore(items, aside) ==
    CASE aside = <<>>                 -> items
      [] aside # <<>> /\ items = <<>> -> aside
      [] OTHER                        -> aside \o Tail(items)

\* The group goes on with the next row, if there is one and its key is equal.
GroupGoesOn(items) == Len(items) > 1 /\ items[1].key = items[2].key

GroupRow ==
    /\ pc = "group" /\ grouped.items # <<>> /\ GroupGoesOn(grouped.items)
    /\ LET row == Head(grouped.items) IN
        /\ aggCtx' = Accumulate(row.doc)
        /\ saved' = IF Improves(row.doc) THEN <<row>> ELSE saved
        /\ grouped' = [grouped EXCEPT !.items = Tail(@)]
    /\ UNCHANGED <<case, pos, rep, distincted, ordered, aggValue, docFrom, limits, pc, rc, client, faults>>

GroupEnd ==
    /\ pc = "group" /\ grouped.items # <<>> /\ ~GroupGoesOn(grouped.items)
    /\ LET row == Head(grouped.items)
           aside == IF Improves(row.doc) THEN <<row>> ELSE saved IN
        /\ aggValue' = Final(Accumulate(row.doc))
        /\ grouped' = [grouped EXCEPT !.items =
                         AfterRestore(AfterSave(@, Improves(row.doc)), aside)]
    /\ saved' = <<>>
    /\ aggCtx' = NoCtx
    /\ pc' = "having"
    /\ UNCHANGED <<case, pos, rep, distincted, ordered, docFrom, limits, rc, client, faults>>

HavingHolds == q.having > 0 => aggValue >= q.having

HavingTrue ==
    /\ pc = "having" /\ HavingHolds
    /\ ReturnTo(CallerOfGrouped, "ROW")
    /\ UNCHANGED <<case, pos, lists, aggs, docFrom, limits, client, faults>>

HavingFalse ==
    /\ pc = "having" /\ ~HavingHolds
    /\ pc' = "grouped"
    /\ UNCHANGED <<case, pos, lists, aggs, docFrom, limits, rc, client, faults>>

-----------------------------------------------------------------------------
(* Allocation failures.  Every one is reported as XJD1_NOMEM by the layer   *)
(* that met it; the layers above hand it on.                                *)

OutOfMemory(caller) ==
    /\ faults > 0
    /\ faults' = faults - 1
    /\ ReturnTo(caller, "NOMEM")
    /\ UNCHANGED <<case, saved, rep, aggs, docFrom, limits, client>>

\* xjd1PoolNew fails (the list stays closed), or the array of keys is not
\* allocated (the list is left open and empty).
NoList == {ClosedList, OpenList}

OrderedNoMem ==
    /\ \/ pc = "ordered" /\ ~ordered.open /\ ordered' \in NoList
       \/ pc = "fillOrdered" /\ rc = "ROW" /\ Readable /\ ordered' = ordered
    /\ OutOfMemory(CallerOfOrdered)
    /\ UNCHANGED <<pos, grouped, distincted>>

DistinctNoMem ==
    /\ \/ pc = "distinct" /\ ~distincted.open /\ distincted' \in NoList
       \/ pc = "fillDistinct" /\ rc = "ROW" /\ Readable /\ distincted' = distincted
    /\ OutOfMemory(CallerOfDistinct)
    /\ UNCHANGED <<pos, grouped, ordered>>

\* The row that could not be added is lost: the scan has passed it.
GroupedNoMem ==
    /\ \/ pc = "grouped" /\ ~grouped.open /\ grouped' \in NoList /\ pos' = pos
       \/ /\ pc = "fillGrouped" /\ grouped' = grouped
          /\ \E i \in 1..Len(table) : IsNextMatch(i) /\ pos' = i
       \/ pc = "fillAggregate" /\ NoMatch /\ grouped' = grouped /\ pos' = 0
    /\ OutOfMemory(CallerOfGrouped)
    /\ UNCHANGED <<distincted, ordered>>

-----------------------------------------------------------------------------
Query ==
    \/ SkipRow \/ EvalLimit \/ StepWithinLimit \/ StopAtLimit
    \/ ReturnRow \/ ReturnNoRow
    \/ OrderedFill \/ OrderedAdd \/ OrderedSort \/ OrderedError \/ OrderedPop
    \/ DistinctFill \/ DistinctAdd \/ DistinctSort \/ DistinctError \/ DistinctPop
    \/ ScanRow \/ ScanDone
    \/ AggregateFill \/ AggregateRow \/ AggregateDone \/ AggregateAgain
    \/ GroupFill \/ GroupAdd \/ GroupSort \/ GroupPop \/ GroupsDone
    \/ GroupRow \/ GroupEnd \/ HavingTrue \/ HavingFalse

NoMem == OrderedNoMem \/ DistinctNoMem \/ GroupedNoMem

Next == Step \/ Rewind \/ Query \/ NoMem

\* A call that has begun runs to its end; the client owes nothing.
Fairness == WF_vars(Query)

Spec == Init /\ [][Next]_vars /\ Fairness

-----------------------------------------------------------------------------
(* Properties *)

Codes == {"ROW", "DONE", "NOMEM"}
PCs == {"idle", "offset", "limit", "return", "ordered", "fillOrdered", "distinct",
        "fillDistinct", "scan", "grouped", "fillAggregate", "fillGrouped",
        "group", "having", "stopped"}
MaybeRows == Rows \cup {NoDoc}
Docs == Seq(Scalars)
ListsOf(Item) == [open : BOOLEAN, items : Seq(Item)]
GroupItems == [key : Docs, doc : MaybeRows]
DistinctItems == [res : Docs, doc : MaybeRows]
OrderItems == [key : Seq(Docs), res : Docs]

\* The types of the variables (struct Query, struct ResultList).
TypeOK ==
    /\ q \in Queries
    /\ table \in Seq(Rows)
    /\ pos \in 0..Len(table)
    /\ grouped \in ListsOf(GroupItems)
    /\ saved \in Seq(GroupItems)
    /\ rep \in Seq(MaybeRows)
    /\ aggCtx \in Scalars /\ aggValue \in Scalars
    /\ distincted \in ListsOf(DistinctItems)
    /\ ordered \in ListsOf(OrderItems)
    /\ docFrom \in {"DATASRC", "GROUPED", "DISTINCTED", "ORDERED"}
    /\ limitValid \in BOOLEAN
    /\ nLimit \in Int /\ nOffset \in Int
    /\ pc \in PCs /\ rc \in Codes
    /\ out \in Seq(Docs)
    /\ ret \in Codes \cup {"NONE", "FAULT"}
    /\ faults \in Nat

\* The statement is a cursor over the meaning of its query (query.c:635-636,
\* 267-268): stepped until it returns something but ROW, and rewound at any
\* time, also after memory ran out half-way through filling a list, it returns
\* exactly the results of Answer, in order, once each, and then DONE.
Abstract == INSTANCE Cursor
ImplementsCursor == Abstract!Spec

\* The program never reads a result through a list that has no first item and
\* never fails the assertion of selectStepOrdered, whichever layer eDocFrom
\* points at and whatever failed before (query.c:621, 707-738).
NeverFaults == ret # "FAULT"

\* Between two rewinds no more results are returned than LIMIT allows, with
\* rows skipped by OFFSET not counted (query.c:671-690).
LimitRespected == q.limit >= 0 => Len(out) <= q.limit

\* Every call returns: the loops of the OFFSET clause, of the filling of the
\* lists, of a group, and of HAVING, which runs on to the next group, all end.
CallsReturn == (pc # "idle") ~> (pc = "idle")

\* "Return XDJ1_DONE if there is no next row" (query.c:635-636): a call that
\* finds every result delivered already does not return ROW.
DoneWhenNoNextRow == pc = "return" /\ rc = "ROW" => Len(out) < Len(answer)

\* "... or XJD1_ROW if the step was successful" (query.c:635-636): a call that
\* returns DONE has no result left to deliver.
RowWhileRowsRemain == pc = "return" /\ rc = "DONE" => Len(out) >= Len(answer)

-----------------------------------------------------------------------------
(* The inductive invariant: how the place of the call, eDocFrom, the lists   *)
(* and the counters agree between any two steps of the pipeline.             *)

\* The labels below selectStepOrdered, and its fill loop.
Below == {"fillOrdered", "distinct", "fillDistinct", "scan", "grouped",
          "fillAggregate", "fillGrouped", "group", "having"}

\* A call is only in a layer that the query has a clause for.
LayersInv ==
    /\ pc \in {"ordered", "fillOrdered"} => q.order # <<>>
    /\ pc \in {"distinct", "fillDistinct"} => q.distinct
    /\ pc = "scan" => ~IsAggregate(q)
    /\ pc \in {"grouped", "fillAggregate", "fillGrouped", "group", "having"} => IsAggregate(q)

\* eDocFrom names a layer of the query; it names the list of selectStepOrdered
\* only when no layer below is at work, and an open list that it does not name
\* is one that is being filled or that an allocation failure has left behind.
DocFromInv ==
    /\ docFrom = "GROUPED" => IsAggregate(q)
    /\ docFrom = "DISTINCTED" => q.distinct
    /\ docFrom = "ORDERED" => ordered.open /\ pc \notin Below
    /\ ordered.open => q.order # <<>>
    /\ q.order # <<>> /\ pc \in Below => ordered.open
    /\ ordered.open /\ docFrom # "ORDERED" =>
          \/ pc \in Below \cup {"stopped"}
          \/ pc \in {"offset", "limit", "return"} /\ rc = "NOMEM"
          \/ pc = "idle" /\ ret = "NOMEM"
    /\ pc \in {"group", "having"} => docFrom = "GROUPED"
    /\ pc = "having" => grouped.items # <<>>

\* Where a result is about to be read there is one, except after DISTINCT.
ReadableInv ==
    ~q.distinct =>
       /\ pc \in {"return", "fillOrdered"} /\ rc = "ROW" => Readable
       /\ pc # "stopped" /\ ret # "FAULT"

\* A call that may still return a row counts as a row against LIMIT.
InFlight ==
    IF pc \in {"idle", "offset", "limit", "stopped"} \/ (pc = "return" /\ rc # "ROW")
    THEN 0 ELSE 1

LimitInv ==
    /\ pc \in {"limit", "return"} => limitValid
    /\ pc = "offset" => ~limitValid
    /\ ~limitValid => out = <<>>
    /\ limitValid /\ q.limit >= 0 => nLimit >= 0 /\ Len(out) + nLimit + InFlight <= q.limit

PipelineInv == LayersInv /\ DocFromInv /\ ReadableInv /\ LimitInv
=============================================================================
