---------------------------- MODULE MCSelectQuery ----------------------------
(***************************************************************************)
(* Instances of SelectQuery for TLC.  A set of cases pairs every query of  *)
(* a family with every small collection on which the code can run it to    *)
(* the end; the cases it cannot are the findings at the end of the module. *)
(***************************************************************************)
EXTENDS SelectQueryDelivers

Tables(gs, vs, n) == UNION { [1..k -> [g : gs, v : vs]] : k \in 0..n }

Unordered == <<>>
Asc == <<[by |-> "v", desc |-> FALSE]>>
Desc == <<[by |-> "v", desc |-> TRUE]>>
ByResult == <<[by |-> "res", desc |-> FALSE]>>
DescThenResult == <<[by |-> "v", desc |-> TRUE], [by |-> "res", desc |-> FALSE]>>

Family(wheres, groupings, aggNames, havings, distincts, results, orders, lims, offs) ==
    [where : wheres, grouped : groupings, agg : aggNames, having : havings,
     distinct : distincts, res : results, order : orders, limit : lims, offset : offs]

\* A HAVING clause needs GROUP BY and is here over the aggregate; a result that
\* names the aggregate needs one; DISTINCT of an aggregate query is ordered by
\* the result, since the document to order it by is lost (README).
WellFormed(x) ==
    /\ x.having > 0 => x.grouped /\ x.agg # "none"
    /\ x.res \in {"agg", "gagg", "vagg"} <=> x.agg # "none"
    /\ x.distinct /\ IsAggregate(x) => x.order \in {Unordered, ByResult}

\* DISTINCT over no result at all is a finding.
DistinctOfSome(x, t) ==
    x.distinct => Answer([x EXCEPT !.limit = -1, !.offset = 0], t) # <<>>

\* So is GROUP BY with min() or max() when the last row of a group is the one
\* that is set aside.
LastImproves(x, t) ==
    /\ x.grouped /\ x.agg \in {"min", "max"}
    /\ LET gs == Groups(SelectSeq(t, LAMBDA r : r.v >= x.where)) IN
       \E k \in DOMAIN gs : \A i \in 1..(Len(gs[k]) - 1) :
          IF x.agg = "min" THEN Last(gs[k]).v < gs[k][i].v ELSE Last(gs[k]).v > gs[k][i].v

Pairs(family, tables, nFaults) ==
    { c \in [q : { x \in family : WellFormed(x) }, table : tables, faults : {nFaults}] :
        DistinctOfSome(c.q, c.table) /\ ~LastImproves(c.q, c.table) }

-----------------------------------------------------------------------------
PlainCases ==
    Pairs(Family({0, 1}, {FALSE}, {"none"}, {0}, BOOLEAN, {"doc", "v"},
                 {Unordered, Asc, DescThenResult}, {-1, 0, 1}, {0, 1}),
          Tables({1, 2}, {0, 1}, 3), 0)

AggregateCases ==
    Pairs(Family({0, 1}, {FALSE}, {"count", "min", "max"}, {0}, BOOLEAN, {"vagg"},
                 {Unordered, Desc, ByResult}, {-1, 1}, {0, 1}),
          Tables({1}, 0..2, 3), 0)

\* Two groups of two rows that arrive interleaved, besides the shorter tables.
TwoByTwo ==
    { [i \in 1..4 |-> [g |-> 1 + (i % 2), v |-> f[i]]] : f \in [1..4 -> {0, 1}] }

GroupCases ==
    Pairs(Family({0}, {TRUE}, {"none", "count", "min", "max"}, {0, 2}, BOOLEAN,
                 {"g", "agg", "gagg", "vagg"}, {Unordered, Desc, ByResult}, {-1, 1}, {0, 1}),
          Tables({1, 2}, {0, 1}, 2) \cup Tables({1, 2}, {0}, 3) \cup TwoByTwo, 0)

\* One query for each combination of layers, over three rows that are not in
\* order: every allocation of every layer can fail.
FaultCases ==
    Pairs(Family({0}, BOOLEAN, {"none", "count", "min"}, {0, 1}, BOOLEAN,
                 {"doc", "g", "gagg", "vagg"}, {Unordered, ByResult, Desc}, {-1, 2}, {0, 1}),
          { <<[g |-> 2, v |-> 1], [g |-> 1, v |-> 1], [g |-> 2, v |-> 2]>> }, 2)

SelectCases == PlainCases \cup AggregateCases \cup GroupCases \cup FaultCases

-----------------------------------------------------------------------------
(* Findings *)

Simple == [where |-> 0, grouped |-> FALSE, agg |-> "none", having |-> 0,
           distinct |-> FALSE, res |-> "v", order |-> Unordered,
           limit |-> -1, offset |-> 0]

DistinctOfNoneCases ==
    { [q |-> [Simple EXCEPT !.distinct = TRUE, !.where = w], table |-> t, faults |-> 0] :
        w \in {0, 2}, t \in Tables({1}, {0, 1}, 3) }

GroupMinCases ==
    { [q |-> [Simple EXCEPT !.grouped = TRUE, !.agg = "min", !.res = "gagg"],
        table |-> t, faults |-> 0] :
        t \in Tables({1, 2}, {0, 1}, 3) }

ScanCases == { [q |-> Simple, table |-> t, faults |-> 0] : t \in Tables({1}, {0, 1}, 2) }
=============================================================================
