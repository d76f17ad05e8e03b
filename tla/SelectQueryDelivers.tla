------------------------- MODULE SelectQueryDelivers -------------------------
(***************************************************************************)
(* Why SelectQuery implements Cursor, for queries without GROUP BY: what   *)
(* each layer of the pipeline has delivered, and what it still has to      *)
(* deliver, between any two steps.  The meaning of the query is cut into   *)
(* the lists that its clauses make of one another (Found, Cands, Kept,     *)
(* InOrder), and a layer stands at the k-th member of its list.            *)
(***************************************************************************)
EXTENDS SelectQuery

(* The answer of a query without GROUP BY, clause by clause *)

Taken == Accepted(q.where, table)       \* after each row, what WHERE has accepted
Found == Taken[Len(table)]
Cands == Candidates(q, Found)
Kept == Distinct(q, Cands)
InOrder == Ordered(q, Kept)
Off == IF q.offset > 0 THEN q.offset ELSE 0
KeyOf(x) == OrderKey(q.order, x.doc, x.res)

-----------------------------------------------------------------------------
(* What each layer has delivered and what it still has to deliver, in a       *)
(* statement that is never stepped after its end                              *)

\* Queries whose every read has a result under it: DISTINCT reads through an
\* empty list when there is nothing to sort, and keeps no document for an
\* aggregate.
Answerable == ~q.grouped /\ (q.distinct => ~IsAggregate(q) /\ Cands # <<>>)

\* How many results the layers below xjd1QueryStep were asked for before.
Asked == IF limitValid THEN Off + Len(out) ELSE Off - nOffset - 1

LimitLeft(n) == IF q.limit < 0 THEN nLimit < 0 ELSE nLimit = q.limit - n

\* A call is on its way down or up between xjd1QueryStep and the data source.
Calling == IF limitValid THEN LimitLeft(Len(out) + 1) /\ (q.limit >= 0 => Len(out) < q.limit)
           ELSE out = <<>> /\ nOffset \in 0..(Off - 1)

\* The scan, and the aggregate above it, stand at candidate k (0: none yet).
ScanAt(k) ==
    /\ k \in 0..Len(Cands)
    /\ ~IsAggregate(q) => /\ docFrom = "DATASRC" /\ Len(Taken[pos]) = k
                          /\ pos = 0 \/ table[pos].v >= q.where
    /\ IsAggregate(q) =>
         IF k = 0 THEN ~grouped.open /\ aggCtx = NoCtx /\ pos = 0
         ELSE /\ grouped.open /\ docFrom = "GROUPED"
              /\ grouped.items = <<[key |-> <<>>, doc |-> Representative(q, Found)]>>
              /\ aggValue = AggregateOf(q.agg, Found)

\* A list that was sorted holds the results s from the k-th on.
HoldsFrom(list, k, s) ==
    /\ list.open /\ Len(list.items) = Len(s) - k + 1
    /\ \A i \in 1..Len(list.items) : list.items[i].res = s[k + i - 1].res

\* selectStepDistinct, or what is below it, stands at result k of Kept.
DistinctAt(k) ==
    /\ k \in 0..Len(Kept)
    /\ ~q.distinct => ScanAt(k)
    /\ q.distinct =>
         IF k = 0 THEN ~distincted.open /\ ScanAt(0)
         ELSE /\ docFrom = "DISTINCTED" /\ HoldsFrom(distincted, k, Kept)
              /\ \A i \in 1..Len(distincted.items) : distincted.items[i].doc = Kept[k + i - 1].doc

\* selectStepOrdered, or what is below it, stands at result k of InOrder.
TopAt(k) ==
    /\ k \in 0..Len(InOrder)
    /\ q.order = <<>> => DistinctAt(k)
    /\ q.order # <<>> =>
         IF k = 0 THEN ~ordered.open /\ DistinctAt(0)
         ELSE docFrom = "ORDERED" /\ HoldsFrom(ordered, k, InOrder)

\* selectStepOrdered is filling its list, and has the first of Kept in it.
FillsOrdered ==
    /\ q.order # <<>> /\ Asked = 0 /\ ordered.open /\ Len(ordered.items) <= Len(Kept)
    /\ \A i \in 1..Len(ordered.items) : ordered.items[i] = [key |-> KeyOf(Kept[i]), res |-> Kept[i].res]
Upper == IF q.order = <<>> THEN Asked ELSE Len(ordered.items)
UpperWaits == q.order # <<>> => FillsOrdered

\* selectStepDistinct is filling its list, and has the first of Cands in it.
FillsDistinct ==
    /\ q.distinct /\ Upper = 0 /\ distincted.open /\ Len(distincted.items) <= Len(Cands)
    /\ \A i \in 1..Len(distincted.items) : distincted.items[i] = [res |-> Cands[i].res, doc |-> Cands[i].doc]
Middle == IF q.distinct THEN Len(distincted.items) ELSE Upper
MiddleWaits == UpperWaits /\ (q.distinct => FillsDistinct)

\* The aggregate functions have been called for the rows accepted up to pos.
Accumulated ==
    /\ grouped.open /\ grouped.items = <<>> /\ (pos = 0 \/ table[pos].v >= q.where)
    /\ IF Taken[pos] = <<>> THEN aggCtx = NoCtx /\ rep = <<>>
       ELSE aggCtx = AggregateOf(q.agg, Taken[pos]) /\ rep = <<Representative(q, Taken[pos])>>

IdleInv ==
    pc = "idle" =>
      /\ ret = "NONE" => ~limitValid /\ out = <<>> /\ TopAt(0)
      /\ ret = "ROW" => limitValid /\ LimitLeft(Len(out)) /\ TopAt(Off + Len(out))
OffsetInv ==
    pc = "offset" =>
      /\ ~limitValid /\ out = <<>>
      /\ rc = "ROW" => nOffset <= Off /\ TopAt(IF nOffset > 0 THEN Off - nOffset ELSE Off)
      /\ rc = "DONE" => answer = <<>>
LimitStepInv ==
    pc = "limit" =>
      /\ limitValid
      /\ rc = "ROW" => LimitLeft(Len(out)) /\ TopAt(Off + Len(out))
      /\ rc = "DONE" => out = answer
ReturnInv ==
    pc = "return" =>
      /\ limitValid
      /\ rc = "ROW" => Calling /\ TopAt(Off + Len(out) + 1)
      /\ rc = "DONE" => out = answer
CallInv ==
    /\ pc \notin {"fillGrouped", "group", "having"}
    /\ pc \in Below \cup {"ordered"} => Calling
    /\ pc = "ordered" => TopAt(Asked)
    /\ pc = "fillOrdered" => /\ FillsOrdered
                             /\ rc = "ROW" => DistinctAt(Len(ordered.items) + 1)
                             /\ rc = "DONE" => Len(ordered.items) = Len(Kept)
    /\ pc = "distinct" => UpperWaits /\ DistinctAt(Upper)
    /\ pc = "fillDistinct" => /\ MiddleWaits
                              /\ rc = "ROW" => ScanAt(Len(distincted.items) + 1)
                              /\ rc = "DONE" => Len(distincted.items) = Len(Cands)
    /\ pc \in {"scan", "grouped"} => MiddleWaits /\ ScanAt(Middle)
    /\ pc = "fillAggregate" => MiddleWaits /\ Middle = 0 /\ Accumulated

Returned ==
    /\ answer = Answer(q, table)
    /\ pc # "idle" => ret \in {"NONE", "ROW"}
    /\ ~IsAggregate(q) => aggValue = Null
    /\ \A i \in 1..Len(out) : out[i] = InOrder[Off + i].res

Delivers == Returned /\ IdleInv /\ OffsetInv /\ LimitStepInv /\ ReturnInv /\ CallInv

\* The place of the call, eDocFrom, the lists and the counters agree.  A layer that
\* fills its list holds a first part of what the layer below delivers, one that
\* empties it holds the rest of its own results, OFFSET and LIMIT have counted
\* what the client has, and DONE comes up only after the last result
\* (query.c:267-751).
LayersAgree == PipelineInv /\ (Answerable => Delivers)
=============================================================================
