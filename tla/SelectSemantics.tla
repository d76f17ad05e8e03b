--------------------------- MODULE SelectSemantics ---------------------------
(***************************************************************************)
(* What a SELECT over one collection means, said without the pipeline that *)
(* computes it: the reference that SelectQuery is checked against.  The    *)
(* expressions of a query are drawn from small families, one per clause:   *)
(*                                                                         *)
(*   where    WHERE c.v >= where  (0: no clause, every v is at least 0)    *)
(*   grouped  GROUP BY c.g                                                 *)
(*   agg      the aggregate function of the query over c.v, or "none"      *)
(*   having   HAVING agg >= having  (0: no clause)                         *)
(*   distinct DISTINCT                                                     *)
(*   res      the result expression: one property, several, the aggregate  *)
(*            or ("doc") none at all, which returns the document           *)
(*   order    ORDER BY terms: the property c.v or the alias of the result  *)
(*   limit, offset   -1 and 0 stand for no clause                          *)
(***************************************************************************)
EXTENDS SortedList, SequencesExt

Rows == [g : Int, v : Int]                       \* Documents of a collection
NoDoc == [g |-> Null, v |-> Null]                \* Properties of no document

Aggs == {"none", "count", "min", "max"}
Results == {"doc", "v", "g", "agg", "gagg", "vagg"}
OrderTerms == [by : {"v", "res"}, desc : BOOLEAN]

Queries == [where : Nat, grouped : BOOLEAN, agg : Aggs, having : Nat,
            distinct : BOOLEAN, res : Results, order : Seq(OrderTerms),
            limit : Int, offset : Int]

IsAggregate(q) == q.grouped \/ q.agg # "none"    \* Query.u.simple.pAgg # 0

\* The result expression over a document and the value of the aggregate.
Result(res, doc, aggValue) ==
    CASE res = "doc"  -> <<doc.g, doc.v>>
      [] res = "v"    -> <<doc.v>>
      [] res = "g"    -> <<doc.g>>
      [] res = "agg"  -> <<aggValue>>
      [] res = "gagg" -> <<doc.g, aggValue>>
      [] res = "vagg" -> <<doc.v, aggValue>>

\* The keys of an ORDER BY clause for a document and its result.
OrderKey(order, doc, res) ==
    [i \in DOMAIN order |-> IF order[i].by = "v" THEN <<doc.v>> ELSE res]

Directions(order) == [i \in DOMAIN order |-> order[i].desc]

-----------------------------------------------------------------------------
Only(S) == CHOOSE x \in S : TRUE

\* Values in the order of a list, sorted: the only stable sort there is.
SortedBy(s, Less(_, _)) == Only(StableSorts(s, Less))

\* The rows that WHERE accepts among the first n of a collection, for each n.
Accepted(where, rows) ==
    LET kept[n \in 0..Len(rows)] ==
          IF n = 0 THEN <<>>
          ELSE IF rows[n].v >= where THEN Append(kept[n - 1], rows[n]) ELSE kept[n - 1]
    IN  kept

AggregateOf(agg, rows) ==
    LET vs == { rows[i].v : i \in DOMAIN rows } IN
    CASE agg = "none"  -> Null
      [] agg = "count" -> Len(rows)
      [] agg \in {"min", "max"} /\ vs = {} -> Null
      [] agg = "min" /\ vs # {} -> CHOOSE x \in vs : \A y \in vs : x <= y
      [] agg = "max" /\ vs # {} -> CHOOSE x \in vs : \A y \in vs : x >= y

\* The document that stands for a set of rows in the result of an aggregate:
\* the one that attains the minimum or maximum; else the last row of a group,
\* or the first row when there is no GROUP BY.
Representative(q, rows) ==
    CASE rows = <<>> -> NoDoc
      [] rows # <<>> /\ q.agg \in {"min", "max"} ->
           rows[CHOOSE i \in DOMAIN rows :
                  /\ rows[i].v = AggregateOf(q.agg, rows)
                  /\ \A j \in 1..(i - 1) : rows[j].v # rows[i].v]
      [] OTHER -> IF q.grouped THEN Last(rows) ELSE Head(rows)

\* One result for each set of rows that is aggregated together.
Aggregated(q, rows) ==
    LET rep == Representative(q, rows)
        val == AggregateOf(q.agg, rows) IN
    [doc |-> rep, res |-> Result(q.res, rep, val), agg |-> val]

Groups(rows) ==
    LET keys == SortedBy(SetToSeq({ rows[i].g : i \in DOMAIN rows }),
                         LAMBDA x, y : x < y) IN
    [k \in DOMAIN keys |-> SelectSeq(rows, LAMBDA r : r.g = keys[k])]

\* The results before DISTINCT, ORDER BY, OFFSET and LIMIT.
Candidates(q, rows) ==
    IF ~IsAggregate(q)
    THEN [i \in DOMAIN rows |->
            [doc |-> rows[i], res |-> Result(q.res, rows[i], Null), agg |-> Null]]
    ELSE IF ~q.grouped
    THEN <<Aggregated(q, rows)>>
    ELSE LET gs == Groups(rows)
             all == [k \in DOMAIN gs |-> Aggregated(q, gs[k])] IN
         SelectSeq(all, LAMBDA x : q.having = 0 \/ x.agg >= q.having)

\* The results that DISTINCT leaves, and results in the order of ORDER BY.
Distinct(q, cands) ==
    IF q.distinct
    THEN Only(DistinctSorts(cands, LAMBDA x, y : DocLess(x.res, y.res)))
    ELSE cands

Ordered(q, results) ==
    LET Key(x) == OrderKey(q.order, x.doc, x.res) IN
    SortedBy(results, LAMBDA x, y : KeyLess(Key(x), Key(y), Directions(q.order)))

\* What OFFSET and LIMIT leave of a list of results.
Slice(q, results) ==
    LET from == 1 + (IF q.offset > 0 THEN q.offset ELSE 0)
        upto == IF q.limit < 0 THEN Len(results) ELSE from + q.limit - 1
    IN  SubSeq(results, from, IF upto < Len(results) THEN upto ELSE Len(results))

\* The results of query q over a collection, in the order they are returned.
Answer(q, table) ==
    LET rows    == Accepted(q.where, table)[Len(table)]
        results == Ordered(q, Distinct(q, Candidates(q, rows)))
        slice   == Slice(q, results)
    IN  [i \in DOMAIN slice |-> slice[i].res]
=============================================================================
