-------------------------- MODULE SelectQueryProofs --------------------------
(***************************************************************************)
(* Theorems about SelectQuery, for every set of cases and every number of  *)
(* allocation failures.                                                    *)
(***************************************************************************)
EXTENDS SelectQueryDelivers, SequenceTheorems, TLAPS, FiniteSetTheorems, WellFoundedInduction

-----------------------------------------------------------------------------
(* Lemmas on sequences and on the operators of the model *)

LEMMA TailType ==
    ASSUME NEW S, NEW s \in Seq(S), s # <<>>
    PROVE  Tail(s) \in Seq(S) /\ Head(s) \in S
OBVIOUS

LEMMA FieldTypes ==
    ASSUME NEW doc \in MaybeRows
    PROVE  doc.g \in Scalars /\ doc.v \in Scalars
BY DEF MaybeRows, Rows, NoDoc, Scalars

LEMMA TupleTypes ==
    ASSUME NEW a \in Scalars, NEW b \in Scalars
    PROVE  <<a>> \in Docs /\ <<a, b>> \in Docs
BY DEF Docs

LEMMA ResultType ==
    ASSUME NEW res \in Results, NEW doc \in MaybeRows, NEW val \in Scalars
    PROVE  Result(res, doc, val) \in Docs
<1>1. doc.g \in Scalars /\ doc.v \in Scalars
  BY FieldTypes
<1>2. /\ <<doc.g, doc.v>> \in Docs /\ <<doc.v>> \in Docs /\ <<doc.g>> \in Docs
      /\ <<val>> \in Docs /\ <<doc.g, val>> \in Docs /\ <<doc.v, val>> \in Docs
  BY <1>1, TupleTypes
<1> QED
  BY <1>2 DEF Result, Results

LEMMA OrderKeyType ==
    ASSUME NEW order \in Seq(OrderTerms), NEW doc \in MaybeRows, NEW res \in Docs
    PROVE  OrderKey(order, doc, res) \in Seq(Docs)
<1>1. <<doc.v>> \in Docs
  BY FieldTypes, TupleTypes
<1> QED
  BY <1>1 DEF OrderKey

\* A sorted list has the items of the list it was made from.
LEMMA SortType ==
    ASSUME NEW S, NEW s \in Seq(S), NEW p \in [DOMAIN s -> DOMAIN s]
    PROVE  [i \in DOMAIN s |-> s[p[i]]] \in Seq(S)
<1>1. DOMAIN s = 1..Len(s) /\ Len(s) \in Nat
  OBVIOUS
<1> QED
  BY <1>1, IsASeq

LEMMA DistinctType ==
    ASSUME NEW S, NEW s \in Seq(S), NEW n \in Nat, NEW p \in [1..n -> DOMAIN s]
    PROVE  [i \in 1..n |-> s[p[i]]] \in Seq(S)
<1>1. DOMAIN s = 1..Len(s) /\ Len(s) \in Nat /\ DOMAIN p = 1..n
  OBVIOUS
<1> QED
  BY <1>1, IsASeq

-----------------------------------------------------------------------------
(* Types of what the actions compute *)

LEMMA CurrentRowType ==
    ASSUME TypeOK
    PROVE  CurrentRow \in MaybeRows
<1>1. pos # 0 => table[pos] \in Rows
  BY DEF TypeOK
<1> QED
  BY <1>1 DEF CurrentRow, MaybeRows

LEMMA SourceDocType ==
    ASSUME TypeOK, Readable, docFrom # "ORDERED"
    PROVE  SourceDoc \in MaybeRows
<1>1. CASE docFrom = "DATASRC"
  BY <1>1, CurrentRowType DEF SourceDoc
<1>2. CASE docFrom = "GROUPED"
  <2>1. grouped.items \in Seq(GroupItems) /\ grouped.items # <<>>
    BY <1>2 DEF TypeOK, ListsOf, Readable
  <2>2. Head(grouped.items) \in GroupItems
    BY <2>1, TailType
  <2> QED
    BY <1>2, <2>2 DEF SourceDoc, GroupItems
<1>3. CASE docFrom = "DISTINCTED"
  <2>1. distincted.items \in Seq(DistinctItems) /\ distincted.items # <<>>
    BY <1>3 DEF TypeOK, ListsOf, Readable
  <2>2. Head(distincted.items) \in DistinctItems
    BY <2>1, TailType
  <2> QED
    BY <1>3, <2>2 DEF SourceDoc, DistinctItems
<1> QED
  BY <1>1, <1>2, <1>3 DEF TypeOK

LEMMA ResultDocType ==
    ASSUME TypeOK, Readable
    PROVE  ResultDoc \in Docs
<1>1. CASE docFrom = "ORDERED"
  <2>1. ordered.items \in Seq(OrderItems) /\ ordered.items # <<>>
    BY <1>1 DEF TypeOK, ListsOf, Readable
  <2>2. Head(ordered.items) \in OrderItems
    BY <2>1, TailType
  <2> QED
    BY <1>1, <2>2 DEF ResultDoc, OrderItems
<1>2. CASE docFrom = "DISTINCTED"
  <2>1. distincted.items \in Seq(DistinctItems) /\ distincted.items # <<>>
    BY <1>2 DEF TypeOK, ListsOf, Readable
  <2>2. Head(distincted.items) \in DistinctItems
    BY <2>1, TailType
  <2> QED
    BY <1>2, <2>2 DEF ResultDoc, DistinctItems
<1>3. CASE docFrom \notin {"ORDERED", "DISTINCTED"}
  <2>1. q.res \in Results /\ aggValue \in Scalars
    BY DEF TypeOK, Queries
  <2>2. SourceDoc \in MaybeRows
    BY <1>3, SourceDocType
  <2> QED
    BY <1>3, <2>1, <2>2, ResultType DEF ResultDoc
<1> QED
  BY <1>1, <1>2, <1>3

LEMMA AccumulateType ==
    ASSUME TypeOK, NEW row \in MaybeRows
    PROVE  Accumulate(row) \in Scalars /\ Final(Accumulate(row)) \in Scalars
<1>1. aggCtx \in Scalars /\ row.v \in Scalars /\ NoCtx \in Scalars
  BY FieldTypes DEF TypeOK, NoCtx, Scalars
<1>2. (aggCtx # NoCtx) => aggCtx + 1 \in Scalars
  BY <1>1 DEF NoCtx, Scalars
<1>3. 1 \in Scalars /\ 0 \in Scalars
  BY DEF Scalars
<1>4. q.agg \in {"none", "count", "min", "max"}
  BY DEF TypeOK, Queries, Aggs
<1>5. Accumulate(row) \in Scalars
  BY <1>1, <1>2, <1>3, <1>4 DEF Accumulate
<1> QED
  BY <1>3, <1>5 DEF Final

LEMMA MatchIsRow ==
    ASSUME TypeOK, NEW i \in 1..Len(table)
    PROVE  /\ i \in 0..Len(table)
           /\ table[i] \in MaybeRows
           /\ [key |-> <<table[i].g>>, doc |-> table[i]] \in GroupItems
<1>1. table[i] \in Rows /\ i \in 0..Len(table)
  BY DEF TypeOK
<1>2. table[i] \in MaybeRows
  BY <1>1 DEF MaybeRows
<1>3. <<table[i].g>> \in Docs
  BY <1>2, FieldTypes, TupleTypes
<1> QED
  BY <1>1, <1>2, <1>3 DEF GroupItems

LEMMA ListTypes ==
    ASSUME NEW S, NEW list \in ListsOf(S), NEW item \in S
    PROVE  Add(list, item) \in ListsOf(S)
BY DEF Add, ListsOf

LEMMA PopType ==
    ASSUME NEW S, NEW list \in ListsOf(S)
    PROVE  Pop(list) \in ListsOf(S)
<1>1. list.items # <<>> => Tail(list.items) \in Seq(S)
  BY TailType DEF ListsOf
<1> QED
  BY <1>1 DEF Pop, ListsOf

LEMMA EmptyTypes ==
    ASSUME NEW S
    PROVE  ClosedList \in ListsOf(S) /\ OpenList \in ListsOf(S)
BY DEF ClosedList, OpenList, ListsOf

LEMMA CallTypes ==
    ASSUME TypeOK
    PROVE  /\ {ScanLayer, DistinctLayer, TopLayer} \subseteq PCs
           /\ {CallerOfOrdered, CallerOfDistinct, CallerOfGrouped} \subseteq PCs
BY DEF ScanLayer, DistinctLayer, TopLayer, CallerOfOrdered, CallerOfDistinct,
       CallerOfGrouped, PCs

LEMMA RestoreType ==
    ASSUME NEW S, NEW items \in Seq(S), items # <<>>, NEW save \in BOOLEAN,
           NEW aside \in Seq(S), save => aside # <<>>
    PROVE  /\ AfterRestore(AfterSave(items, save), aside) \in Seq(S)
           /\ AfterRestore(AfterSave(items, save), aside) # <<>>
<1> DEFINE left == AfterSave(items, save)
<1>1. left \in Seq(S) /\ (aside = <<>> => left # <<>>)
  BY TailType DEF AfterSave
<1>2. CASE aside = <<>>
  BY <1>1, <1>2 DEF AfterRestore
<1>3. CASE aside # <<>> /\ left = <<>>
  BY <1>3 DEF AfterRestore
<1>4. CASE aside # <<>> /\ left # <<>>
  <2>1. Tail(left) \in Seq(S)
    BY <1>1, <1>4, TailType
  <2>2. aside \o Tail(left) \in Seq(S) /\ aside \o Tail(left) # <<>>
    BY <2>1, <1>4
  <2> QED
    BY <1>4, <2>2 DEF AfterRestore
<1> QED
  BY <1>2, <1>3, <1>4

-----------------------------------------------------------------------------
(* Type correctness.  The pipeline may read the documents of a list only in  *)
(* the states DocFromInv describes, so the step uses it.                     *)

LEMMA InitTypeOK == Init => TypeOK
<1> SUFFICES ASSUME Init PROVE TypeOK
  OBVIOUS
<1>1. PICK c \in Cases : q = c.q /\ table = c.table /\ faults = c.faults
  BY DEF Init
<1>2. q \in Queries /\ table \in Seq(Rows)
  BY <1>1, CasesAssumption
<1>3. 0 \in 0..Len(table) /\ faults \in Nat
  BY <1>1, <1>2, CasesAssumption
<1>4. /\ ClosedList \in ListsOf(GroupItems)
      /\ ClosedList \in ListsOf(DistinctItems)
      /\ ClosedList \in ListsOf(OrderItems)
  BY EmptyTypes
<1>5. /\ grouped \in ListsOf(GroupItems) /\ distincted \in ListsOf(DistinctItems)
      /\ ordered \in ListsOf(OrderItems)
      /\ saved \in Seq(GroupItems) /\ rep \in Seq(MaybeRows) /\ out \in Seq(Docs)
  BY <1>4 DEF Init
<1>6. aggCtx \in Scalars /\ aggValue \in Scalars
  BY DEF Init, NoCtx, Scalars
<1>7. limitValid \in BOOLEAN
  BY DEF Init
<1>8. nLimit \in Int /\ nOffset \in Int
  BY DEF Init
<1>9. pc \in PCs /\ rc \in Codes /\ ret \in Codes \cup {"NONE", "FAULT"}
  BY DEF Init, PCs, Codes
<1>10. pos \in 0..Len(table) /\ faults \in Nat
  BY <1>3 DEF Init
<1>11. docFrom \in {"DATASRC", "GROUPED", "DISTINCTED", "ORDERED"}
  BY DEF Init
<1> QED
  BY <1>2, <1>5, <1>6, <1>7, <1>8, <1>9, <1>10, <1>11 DEF TypeOK

LEMMA StepTypeOK == TypeOK /\ DocFromInv /\ [Next]_vars => TypeOK'
<1> SUFFICES ASSUME TypeOK, DocFromInv, [Next]_vars
             PROVE  TypeOK'
  OBVIOUS
<1> USE DEF TypeOK, case, lists, aggs, limits, client
<1>calls. /\ {ScanLayer, DistinctLayer, TopLayer} \subseteq PCs
          /\ {CallerOfOrdered, CallerOfDistinct, CallerOfGrouped} \subseteq PCs
  BY CallTypes
<1>codes. {"ROW", "DONE", "NOMEM"} \subseteq Codes
  BY DEF Codes
<1>q. /\ q.offset \in Int /\ q.limit \in Int /\ q.order \in Seq(OrderTerms)
      /\ q.grouped \in BOOLEAN
  BY DEF Queries
<1>null. Null \in Scalars /\ NoCtx \in Scalars
  BY DEF Scalars, NoCtx
<1>closed. /\ ClosedList \in ListsOf(GroupItems)
           /\ ClosedList \in ListsOf(DistinctItems)
           /\ ClosedList \in ListsOf(OrderItems)
  BY EmptyTypes
<1>fault. Fault => TypeOK'
  BY DEF Fault, PCs
<1>nomem. ASSUME NEW caller \in PCs, OutOfMemory(caller)
          PROVE  /\ rc' \in Codes /\ pc' \in PCs /\ faults' \in Nat
                 /\ UNCHANGED <<case, saved, rep, aggs, docFrom, limits, client>>
  BY <1>nomem, <1>codes DEF OutOfMemory, ReturnTo
<1>1. CASE Step
  BY <1>1, <1>calls, <1>codes, <1>q DEF Step, ReturnTo, PCs
<1>2. CASE SkipRow
  BY <1>2, <1>calls, <1>codes, <1>q DEF SkipRow, ReturnTo, PCs
<1>3. CASE EvalLimit
  BY <1>3, <1>calls, <1>codes, <1>q DEF EvalLimit, ReturnTo, PCs
<1>4. CASE StepWithinLimit
  BY <1>4, <1>calls, <1>codes, <1>q DEF StepWithinLimit, ReturnTo, PCs
<1>5. CASE StopAtLimit
  BY <1>5, <1>calls, <1>codes, <1>q DEF StopAtLimit, ReturnTo, PCs
<1>6. CASE ReturnNoRow
  BY <1>6, <1>calls, <1>codes, <1>q DEF ReturnNoRow, ReturnTo, PCs
<1>7. CASE ReturnRow
  <2>1. CASE ~Readable
    BY <1>7, <2>1, <1>fault DEF ReturnRow
  <2>2. CASE Readable
    <3>1. ResultDoc \in Docs
      BY <2>2, ResultDocType
    <3>2. Append(out, ResultDoc) \in Seq(Docs)
      BY <3>1
    <3> QED
      BY <1>7, <2>2, <3>2, <1>codes DEF ReturnRow, PCs
  <2> QED
    BY <2>1, <2>2
<1>8. CASE Rewind
  <2>1. limitValid' \in BOOLEAN
    BY <1>8 DEF Rewind
  <2> QED
    BY <1>8, <2>1, <1>null, <1>closed DEF Rewind
<1>9. CASE OrderedFill
  BY <1>9, <1>calls, EmptyTypes DEF OrderedFill, PCs
<1>10. CASE DistinctFill
  BY <1>10, <1>calls, EmptyTypes DEF DistinctFill, PCs
<1>11. CASE AggregateFill
  BY <1>11, <1>calls, EmptyTypes DEF AggregateFill, PCs
<1>12. CASE GroupFill
  BY <1>12, <1>calls, EmptyTypes DEF GroupFill, PCs
<1>13. CASE OrderedAdd
  <2>1. CASE ~Readable
    BY <1>13, <2>1, <1>fault DEF OrderedAdd
  <2>2. CASE Readable
    <3>1. [key |-> OrderKey(q.order, SourceDoc, ResultDoc), res |-> ResultDoc] \in OrderItems
      <4>1. docFrom # "ORDERED"
        BY <1>13 DEF OrderedAdd, DocFromInv, Below
      <4>2. SourceDoc \in MaybeRows /\ ResultDoc \in Docs
        BY <2>2, <4>1, SourceDocType, ResultDocType
      <4>3. OrderKey(q.order, SourceDoc, ResultDoc) \in Seq(Docs)
        BY <4>2, <1>q, OrderKeyType
      <4> QED
        BY <4>2, <4>3 DEF OrderItems
    <3>2. Add(ordered, [key |-> OrderKey(q.order, SourceDoc, ResultDoc), res |-> ResultDoc]) \in ListsOf(OrderItems)
      BY <3>1, ListTypes
    <3> QED
      BY <1>13, <2>2, <3>2, <1>calls DEF OrderedAdd
  <2> QED
    BY <2>1, <2>2
<1>14. CASE DistinctAdd
  <2>1. CASE ~Readable
    BY <1>14, <2>1, <1>fault DEF DistinctAdd
  <2>2. CASE Readable
    <3>1. [res |-> ResultDoc, doc |-> CurrentRow] \in DistinctItems
      BY <2>2, ResultDocType, CurrentRowType DEF DistinctItems
    <3>2. Add(distincted, [res |-> ResultDoc, doc |-> CurrentRow]) \in ListsOf(DistinctItems)
      BY <3>1, ListTypes
    <3> QED
      BY <1>14, <2>2, <3>2, <1>calls DEF DistinctAdd
  <2> QED
    BY <2>1, <2>2
<1>15. CASE OrderedSort
  <2>1. PICK items \in StableSorts(ordered.items, OrderedBefore) :
           ordered' = [ordered EXCEPT !.items = items]
    BY <1>15 DEF OrderedSort
  <2>2. PICK p \in [DOMAIN ordered.items -> DOMAIN ordered.items] :
           items = [i \in DOMAIN ordered.items |-> ordered.items[p[i]]]
    BY <2>1 DEF StableSorts
  <2>3. ordered.items \in Seq(OrderItems)
    BY DEF ListsOf
  <2>4. items \in Seq(OrderItems)
    BY <2>2, <2>3, SortType
  <2>5. ordered' \in ListsOf(OrderItems)
    BY <2>1, <2>4 DEF ListsOf
  <2> QED
    BY <1>15, <2>5, <1>calls, <1>codes DEF OrderedSort, ReturnTo, PCs
<1>16. CASE GroupSort
  <2>1. PICK items \in StableSorts(grouped.items, GroupBefore) :
           grouped' = [grouped EXCEPT !.items = items]
    BY <1>16 DEF GroupSort
  <2>2. PICK p \in [DOMAIN grouped.items -> DOMAIN grouped.items] :
           items = [i \in DOMAIN grouped.items |-> grouped.items[p[i]]]
    BY <2>1 DEF StableSorts
  <2>3. grouped.items \in Seq(GroupItems)
    BY DEF ListsOf
  <2>4. items \in Seq(GroupItems)
    BY <2>2, <2>3, SortType
  <2>5. grouped' \in ListsOf(GroupItems)
    BY <2>1, <2>4 DEF ListsOf
  <2> QED
    BY <1>16, <2>5, <1>calls, <1>codes DEF GroupSort, ReturnTo, PCs
<1>17. CASE DistinctSort
  <2>1. PICK items \in DistinctSorts(distincted.items, DistinctBefore) :
           distincted' = [distincted EXCEPT !.items = items]
    BY <1>17 DEF DistinctSort
  <2>2. distincted.items \in Seq(DistinctItems) /\ Len(distincted.items) \in Nat
    BY DEF ListsOf
  <2>3. PICK n \in 0..Len(distincted.items) :
           items \in { [i \in 1..n |-> distincted.items[p[i]]] :
                        p \in { f \in [1..n -> DOMAIN distincted.items] :
                                IsDistinctOrder(f, distincted.items, DistinctBefore) } }
    BY <2>1 DEF DistinctSorts
  <2>5. PICK p \in [1..n -> DOMAIN distincted.items] :
           items = [i \in 1..n |-> distincted.items[p[i]]]
    BY <2>3
  <2>4. items \in Seq(DistinctItems)
    BY <2>2, <2>3, <2>5, DistinctType
  <2>6. distincted' \in ListsOf(DistinctItems)
    BY <2>1, <2>4 DEF ListsOf
  <2> QED
    BY <1>17, <2>6, <1>calls, <1>codes DEF DistinctSort, ReturnTo, PCs
<1>18. CASE OrderedError
  BY <1>18, <1>calls, <1>codes DEF OrderedError, ReturnTo
<1>19. CASE DistinctError
  BY <1>19, <1>calls, <1>codes DEF DistinctError, ReturnTo
<1>20. CASE AggregateAgain
  BY <1>20, <1>calls, <1>codes DEF AggregateAgain, ReturnTo
<1>21. CASE GroupsDone
  BY <1>21, <1>calls, <1>codes DEF GroupsDone, ReturnTo
<1>22. CASE HavingTrue
  BY <1>22, <1>calls, <1>codes DEF HavingTrue, ReturnTo
<1>23. CASE HavingFalse
  BY <1>23 DEF HavingFalse, PCs
<1>24. CASE OrderedPop
  BY <1>24, <1>calls, <1>codes, <1>fault, PopType DEF OrderedPop, ReturnTo
<1>25. CASE DistinctPop
  BY <1>25, <1>calls, <1>codes, PopType DEF DistinctPop, ReturnTo
<1>26. CASE GroupPop
  BY <1>26, PopType DEF GroupPop, PCs
<1>27. CASE ScanRow
  BY <1>27, MatchIsRow, <1>calls, <1>codes DEF ScanRow, ReturnTo
<1>28. CASE ScanDone
  BY <1>28, <1>calls, <1>codes DEF ScanDone, ReturnTo
<1>29. CASE AggregateRow
  <2>1. PICK i \in 1..Len(table) :
           /\ pos' = i
           /\ aggCtx' = Accumulate(table[i])
           /\ rep' = IF rep = <<>> \/ Improves(table[i]) THEN <<table[i]>> ELSE rep
    BY <1>29 DEF AggregateRow
  <2>2. table[i] \in MaybeRows /\ i \in 0..Len(table)
    BY MatchIsRow
  <2>3. aggCtx' \in Scalars
    BY <2>1, <2>2, AccumulateType
  <2>4. rep' \in Seq(MaybeRows)
    BY <2>1, <2>2
  <2> QED
    BY <1>29, <2>1, <2>2, <2>3, <2>4 DEF AggregateRow
<1>30. CASE AggregateDone
  <2> DEFINE item == [key |-> <<>>, doc |-> IF rep = <<>> THEN NoDoc ELSE rep[1]]
  <2>1. rep # <<>> => rep[1] \in MaybeRows
    OBVIOUS
  <2>2. item \in GroupItems
    BY <2>1 DEF GroupItems, Docs, MaybeRows
  <2>3. Add(grouped, item) \in ListsOf(GroupItems)
    BY <2>2, ListTypes
  <2>4. Final(aggCtx) \in Scalars
    BY DEF Final, Scalars
  <2> QED
    BY <1>30, <2>3, <2>4, <1>null, <1>calls, <1>codes DEF AggregateDone, ReturnTo
<1>31. CASE GroupAdd
  <2>1. PICK i \in 1..Len(table) :
           /\ pos' = i
           /\ grouped' = Add(grouped, [key |-> <<table[i].g>>, doc |-> table[i]])
    BY <1>31 DEF GroupAdd
  <2>2. i \in 0..Len(table) /\ grouped' \in ListsOf(GroupItems)
    BY <2>1, MatchIsRow, ListTypes
  <2> QED
    BY <1>31, <2>1, <2>2 DEF GroupAdd
<1>32. CASE GroupRow
  <2>1. grouped.items \in Seq(GroupItems) /\ grouped.items # <<>>
    BY <1>32 DEF GroupRow, ListsOf
  <2>2. Head(grouped.items) \in GroupItems /\ Tail(grouped.items) \in Seq(GroupItems)
    BY <2>1, TailType
  <2>3. Head(grouped.items).doc \in MaybeRows
    BY <2>2 DEF GroupItems
  <2>4. aggCtx' \in Scalars
    BY <1>32, <2>3, AccumulateType DEF GroupRow
  <2>5. saved' \in Seq(GroupItems)
    BY <1>32, <2>2 DEF GroupRow
  <2>6. grouped' \in ListsOf(GroupItems)
    BY <1>32, <2>2 DEF GroupRow, ListsOf
  <2> QED
    BY <1>32, <2>4, <2>5, <2>6 DEF GroupRow
<1>33. CASE GroupEnd
  <2>1. grouped.items \in Seq(GroupItems) /\ grouped.items # <<>>
    BY <1>33 DEF GroupEnd, ListsOf
  <2>2. Head(grouped.items) \in GroupItems /\ Tail(grouped.items) \in Seq(GroupItems)
    BY <2>1, TailType
  <2>3. Head(grouped.items).doc \in MaybeRows
    BY <2>2 DEF GroupItems
  <2> DEFINE row == Head(grouped.items)
             aside == IF Improves(row.doc) THEN <<row>> ELSE saved
             items == AfterRestore(AfterSave(grouped.items, Improves(row.doc)), aside)
  <2>4. aggValue' \in Scalars
    BY <1>33, <2>3, AccumulateType DEF GroupEnd
  <2>5. aside \in Seq(GroupItems) /\ (Improves(row.doc) => aside # <<>>)
    BY <2>2
  <2>6. Improves(row.doc) \in BOOLEAN
    BY DEF Improves
  <2>7. items \in Seq(GroupItems)
    BY <2>1, <2>5, <2>6, RestoreType
  <2>8. grouped' = [grouped EXCEPT !.items = items]
    BY <1>33 DEF GroupEnd
  <2>9. grouped' \in ListsOf(GroupItems)
    BY <2>7, <2>8 DEF ListsOf
  <2> QED
    BY <1>33, <2>4, <2>9, <1>null DEF GroupEnd, PCs
<1>34. CASE OrderedNoMem
  BY <1>34, <1>calls, <1>nomem, EmptyTypes DEF OrderedNoMem, NoList
<1>35. CASE DistinctNoMem
  BY <1>35, <1>calls, <1>nomem, EmptyTypes DEF DistinctNoMem, NoList
<1>36. CASE GroupedNoMem
  <2>1. grouped' \in ListsOf(GroupItems)
    BY <1>36, EmptyTypes DEF GroupedNoMem, NoList
  <2>2. pos' \in 0..Len(table)
    BY <1>36, MatchIsRow DEF GroupedNoMem
  <2> QED
    BY <1>36, <2>1, <2>2, <1>calls, <1>nomem DEF GroupedNoMem
<1>37. CASE UNCHANGED vars
  BY <1>37 DEF vars
<1> QED
  BY <1>1, <1>2, <1>3, <1>4, <1>5, <1>6, <1>7, <1>8, <1>9, <1>10, <1>11, <1>12,
     <1>13, <1>14, <1>15, <1>16, <1>17, <1>18, <1>19, <1>20, <1>21, <1>22, <1>23,
     <1>24, <1>25, <1>26, <1>27, <1>28, <1>29, <1>30, <1>31, <1>32, <1>33, <1>34,
     <1>35, <1>36, <1>37
     DEF Next, Query, NoMem

-----------------------------------------------------------------------------
(* What a step below xjd1QueryStep may change *)

LayerStep ==
    \/ OrderedFill \/ OrderedAdd \/ OrderedSort \/ OrderedError \/ OrderedPop
    \/ DistinctFill \/ DistinctAdd \/ DistinctSort \/ DistinctError \/ DistinctPop
    \/ ScanRow \/ ScanDone
    \/ AggregateFill \/ AggregateRow \/ AggregateDone \/ AggregateAgain
    \/ GroupFill \/ GroupAdd \/ GroupSort \/ GroupPop \/ GroupsDone
    \/ GroupRow \/ GroupEnd \/ HavingTrue \/ HavingFalse
    \/ NoMem

LEMMA NextCases ==
    [Next]_vars <=> \/ Step \/ Rewind \/ SkipRow \/ EvalLimit \/ StepWithinLimit
                    \/ StopAtLimit \/ ReturnRow \/ ReturnNoRow
                    \/ LayerStep \/ UNCHANGED vars
BY DEF Next, Query, LayerStep

LEMMA CallLabels ==
    /\ ScanLayer \in {"grouped", "scan"} /\ (ScanLayer = "grouped" <=> IsAggregate(q))
    /\ DistinctLayer \in {"distinct", ScanLayer} /\ (DistinctLayer = "distinct" <=> q.distinct)
    /\ TopLayer \in {"ordered", DistinctLayer} /\ (TopLayer = "ordered" <=> q.order # <<>>)
    /\ CallerOfOrdered = IF limitValid THEN "return" ELSE "offset"
    /\ CallerOfDistinct = IF q.order # <<>> THEN "fillOrdered" ELSE CallerOfOrdered
    /\ CallerOfGrouped = IF q.distinct THEN "fillDistinct" ELSE CallerOfDistinct
BY DEF ScanLayer, DistinctLayer, TopLayer, CallerOfOrdered, CallerOfDistinct, CallerOfGrouped

\* A layer hands control to a layer, to its caller, or faults; it leaves the
\* query, the counters of LIMIT and what the client has seen alone.
LEMMA LayerStepFrame ==
    LayerStep => /\ pc \in Below \cup {"ordered"}
                 /\ pc' \in Below \cup {"ordered", "stopped", CallerOfOrdered}
                 /\ UNCHANGED <<q, table, answer, limitValid, nLimit, out>>
<1> SUFFICES ASSUME LayerStep
             PROVE  /\ pc \in Below \cup {"ordered"}
                    /\ pc' \in Below \cup {"ordered", "stopped", CallerOfOrdered}
                    /\ UNCHANGED <<q, table, answer, limitValid, nLimit, out>>
  OBVIOUS
<1> USE CallLabels DEF Below, ReturnTo, case, limits, client
<1>1. CASE OrderedFill
  BY <1>1 DEF OrderedFill
<1>2. CASE OrderedAdd
  BY <1>2 DEF OrderedAdd, Fault
<1>3. CASE OrderedSort
  BY <1>3 DEF OrderedSort
<1>4. CASE OrderedError
  BY <1>4 DEF OrderedError
<1>5. CASE OrderedPop
  BY <1>5 DEF OrderedPop, Fault
<1>6. CASE DistinctFill
  BY <1>6 DEF DistinctFill
<1>7. CASE DistinctAdd
  BY <1>7 DEF DistinctAdd, Fault
<1>8. CASE DistinctSort
  BY <1>8 DEF DistinctSort
<1>9. CASE DistinctError
  BY <1>9 DEF DistinctError
<1>10. CASE DistinctPop
  BY <1>10 DEF DistinctPop
<1>11. CASE ScanRow
  BY <1>11 DEF ScanRow
<1>12. CASE ScanDone
  BY <1>12 DEF ScanDone
<1>13. CASE AggregateFill
  BY <1>13 DEF AggregateFill
<1>14. CASE AggregateRow
  BY <1>14 DEF AggregateRow
<1>15. CASE AggregateDone
  BY <1>15 DEF AggregateDone
<1>16. CASE AggregateAgain
  BY <1>16 DEF AggregateAgain
<1>17. CASE GroupFill
  BY <1>17 DEF GroupFill
<1>18. CASE GroupAdd
  BY <1>18 DEF GroupAdd
<1>19. CASE GroupSort
  BY <1>19 DEF GroupSort
<1>20. CASE GroupPop
  BY <1>20 DEF GroupPop
<1>21. CASE GroupsDone
  BY <1>21 DEF GroupsDone
<1>22. CASE GroupRow
  BY <1>22 DEF GroupRow
<1>23. CASE GroupEnd
  BY <1>23 DEF GroupEnd
<1>24. CASE HavingTrue
  BY <1>24 DEF HavingTrue
<1>25. CASE HavingFalse
  BY <1>25 DEF HavingFalse
<1>26. CASE OrderedNoMem
  BY <1>26 DEF OrderedNoMem, OutOfMemory
<1>27. CASE DistinctNoMem
  BY <1>27 DEF DistinctNoMem, OutOfMemory
<1>28. CASE GroupedNoMem
  BY <1>28 DEF GroupedNoMem, OutOfMemory
<1> QED
  BY <1>1, <1>2, <1>3, <1>4, <1>5, <1>6, <1>7, <1>8, <1>9, <1>10, <1>11,
     <1>12, <1>13, <1>14, <1>15, <1>16, <1>17, <1>18, <1>19, <1>20, <1>21,
     <1>22, <1>23, <1>24, <1>25, <1>26, <1>27, <1>28
     DEF LayerStep, NoMem

-----------------------------------------------------------------------------
(* LIMIT *)

LEMMA StepLimitInv == TypeOK /\ LimitInv /\ [Next]_vars => LimitInv'
<1> SUFFICES ASSUME TypeOK, LimitInv, [Next]_vars
             PROVE  LimitInv'
  OBVIOUS
<1>types. /\ nLimit \in Int /\ q.limit \in Int /\ Len(out) \in Nat /\ out \in Seq(Docs)
  BY DEF TypeOK, Queries
<1>top. TopLayer \in Below \cup {"ordered"}
  BY CallLabels DEF Below
<1>1. CASE Step
  BY <1>1, <1>types, <1>top DEF Step, LimitInv, InFlight, Below, ReturnTo, case, limits, client
<1>2. CASE Rewind
  BY <1>2, <1>types DEF Rewind, LimitInv, InFlight, case
<1>3. CASE SkipRow
  BY <1>3, <1>types, <1>top DEF SkipRow, LimitInv, InFlight, Below, ReturnTo, case, limits, client
<1>4. CASE EvalLimit
  BY <1>4, <1>types, <1>top DEF EvalLimit, LimitInv, InFlight, Below, ReturnTo, case, limits, client
<1>5. CASE StepWithinLimit
  <2>1. /\ nLimit' = (IF nLimit > 0 THEN nLimit - 1 ELSE nLimit)
        /\ InFlight = 0 /\ pc' \in Below \cup {"ordered"} /\ nLimit # 0
        /\ UNCHANGED <<q, limitValid, out>> /\ limitValid
    BY <1>5, <1>top DEF StepWithinLimit, LimitInv, InFlight, case, client
  <2>2. InFlight' \in {0, 1} /\ pc' \notin {"offset"}
    BY <2>1 DEF InFlight, Below
  <2> QED
    BY <2>1, <2>2, <1>types DEF LimitInv
<1>6. CASE StopAtLimit
  BY <1>6, <1>types, <1>top DEF StopAtLimit, LimitInv, InFlight, Below, ReturnTo, case, limits,
         client
<1>7. CASE ReturnRow
  <2>1. ~Readable => LimitInv'
    BY <1>7, <1>types DEF ReturnRow, Fault, LimitInv, InFlight, case, limits, client
  <2>2. Readable => Len(out') = Len(out) + 1
    BY <1>7, <1>types DEF ReturnRow
  <2>3. Readable => LimitInv'
    BY <1>7, <2>2, <1>types DEF ReturnRow, LimitInv, InFlight, case, limits
  <2> QED
    BY <2>1, <2>3
<1>8. CASE ReturnNoRow
  BY <1>8, <1>types, <1>top DEF ReturnNoRow, LimitInv, InFlight, Below, ReturnTo, case, limits,
         client
<1>9. CASE LayerStep
  <2>1. /\ pc \in Below \cup {"ordered"}
        /\ pc' \in Below \cup {"ordered", "stopped", CallerOfOrdered}
        /\ UNCHANGED <<q, table, answer, limitValid, nLimit, out>>
    BY <1>9, LayerStepFrame
  <2>2. InFlight = 1 /\ InFlight' \in {0, 1}
    BY <2>1 DEF InFlight, Below
  <2>3. pc' \in {"limit", "return"} => limitValid
    BY <2>1, CallLabels DEF Below
  <2>4. pc' = "offset" => ~limitValid
    BY <2>1, CallLabels DEF Below
  <2> QED
    BY <2>1, <2>2, <2>3, <2>4, <1>types DEF LimitInv
<1>10. CASE UNCHANGED vars
  BY <1>10 DEF vars, LimitInv, InFlight, case, limits, client
<1> QED
  BY <1>1, <1>2, <1>3, <1>4, <1>5, <1>6, <1>7, <1>8, <1>9, <1>10, NextCases

-----------------------------------------------------------------------------
(* The layers and where documents are read *)

LEMMA StepLayersInv == LayersInv /\ [Next]_vars => LayersInv'
<1> SUFFICES ASSUME LayersInv, [Next]_vars
             PROVE  LayersInv'
  OBVIOUS
<1> USE CallLabels DEF LayersInv, ReturnTo, case
<1>1. CASE Step
  BY <1>1 DEF Step
<1>2. CASE Rewind
  BY <1>2 DEF Rewind
<1>3. CASE SkipRow
  BY <1>3 DEF SkipRow
<1>4. CASE EvalLimit
  BY <1>4 DEF EvalLimit
<1>5. CASE StepWithinLimit
  BY <1>5 DEF StepWithinLimit
<1>6. CASE StopAtLimit
  BY <1>6 DEF StopAtLimit
<1>7. CASE ReturnRow
  BY <1>7 DEF ReturnRow, Fault
<1>8. CASE ReturnNoRow
  BY <1>8 DEF ReturnNoRow
<1>9. CASE OrderedFill
  BY <1>9 DEF OrderedFill
<1>10. CASE OrderedAdd
  BY <1>10 DEF OrderedAdd, Fault
<1>11. CASE OrderedSort
  BY <1>11 DEF OrderedSort
<1>12. CASE OrderedError
  BY <1>12 DEF OrderedError
<1>13. CASE OrderedPop
  BY <1>13 DEF OrderedPop, Fault
<1>14. CASE DistinctFill
  BY <1>14 DEF DistinctFill
<1>15. CASE DistinctAdd
  BY <1>15 DEF DistinctAdd, Fault
<1>16. CASE DistinctSort
  BY <1>16 DEF DistinctSort
<1>17. CASE DistinctError
  BY <1>17 DEF DistinctError
<1>18. CASE DistinctPop
  BY <1>18 DEF DistinctPop
<1>19. CASE ScanRow
  BY <1>19 DEF ScanRow
<1>20. CASE ScanDone
  BY <1>20 DEF ScanDone
<1>21. CASE AggregateFill
  BY <1>21 DEF AggregateFill
<1>22. CASE AggregateRow
  BY <1>22 DEF AggregateRow
<1>23. CASE AggregateDone
  BY <1>23 DEF AggregateDone
<1>24. CASE AggregateAgain
  BY <1>24 DEF AggregateAgain
<1>25. CASE GroupFill
  BY <1>25 DEF GroupFill
<1>26. CASE GroupAdd
  BY <1>26 DEF GroupAdd
<1>27. CASE GroupSort
  BY <1>27 DEF GroupSort
<1>28. CASE GroupPop
  BY <1>28 DEF GroupPop
<1>29. CASE GroupsDone
  BY <1>29 DEF GroupsDone
<1>30. CASE GroupRow
  BY <1>30 DEF GroupRow
<1>31. CASE GroupEnd
  BY <1>31 DEF GroupEnd
<1>32. CASE HavingTrue
  BY <1>32 DEF HavingTrue
<1>33. CASE HavingFalse
  BY <1>33 DEF HavingFalse
<1>34. CASE OrderedNoMem
  BY <1>34 DEF OrderedNoMem, OutOfMemory
<1>35. CASE DistinctNoMem
  BY <1>35 DEF DistinctNoMem, OutOfMemory
<1>36. CASE GroupedNoMem
  BY <1>36 DEF GroupedNoMem, OutOfMemory
<1>37. CASE UNCHANGED vars
  BY <1>37 DEF vars
<1> QED
  BY <1>1, <1>2, <1>3, <1>4, <1>5, <1>6, <1>7, <1>8, <1>9, <1>10, <1>11,
     <1>12, <1>13, <1>14, <1>15, <1>16, <1>17, <1>18, <1>19, <1>20, <1>21,
     <1>22, <1>23, <1>24, <1>25, <1>26, <1>27, <1>28, <1>29, <1>30, <1>31,
     <1>32, <1>33, <1>34, <1>35, <1>36, <1>37 DEF Next, Query, NoMem

LEMMA StepDocFromInv == TypeOK /\ PipelineInv /\ [Next]_vars => DocFromInv'
<1> SUFFICES ASSUME TypeOK, LayersInv, DocFromInv, LimitInv, [Next]_vars
             PROVE  DocFromInv'
  BY DEF PipelineInv
<1>types. /\ ordered \in [open : BOOLEAN, items : Seq(OrderItems)]
          /\ grouped \in [open : BOOLEAN, items : Seq(GroupItems)]
          /\ rc \in Codes
  BY DEF TypeOK, ListsOf
<1> USE CallLabels DEF DocFromInv, LayersInv, LimitInv, Below, Codes, ReturnTo, case, lists, limits, client
<1>1. CASE Step
  BY <1>1, <1>types DEF Step, CanStep
<1>2. CASE Rewind
  BY <1>2 DEF Rewind, ClosedList
<1>3. CASE SkipRow
  BY <1>3, <1>types DEF SkipRow
<1>4. CASE EvalLimit
  BY <1>4, <1>types DEF EvalLimit
<1>5. CASE StepWithinLimit
  BY <1>5, <1>types DEF StepWithinLimit
<1>6. CASE StopAtLimit
  BY <1>6, <1>types DEF StopAtLimit
<1>7. CASE ReturnRow
  BY <1>7, <1>types DEF ReturnRow, Fault
<1>8. CASE ReturnNoRow
  BY <1>8, <1>types DEF ReturnNoRow
<1>9. CASE OrderedFill
  BY <1>9, <1>types DEF OrderedFill, OpenList
<1>10. CASE OrderedAdd
  BY <1>10, <1>types DEF Add, OrderedAdd, Fault
<1>11. CASE OrderedSort
  BY <1>11, <1>types DEF OrderedSort
<1>12. CASE OrderedError
  BY <1>12, <1>types DEF OrderedError
<1>13. CASE OrderedPop
  BY <1>13, <1>types DEF Pop, OrderedPop, Fault
<1>14. CASE DistinctFill
  BY <1>14, <1>types DEF DistinctFill
<1>15. CASE DistinctAdd
  BY <1>15, <1>types DEF DistinctAdd, Fault
<1>16. CASE DistinctSort
  BY <1>16, <1>types DEF DistinctSort
<1>17. CASE DistinctError
  BY <1>17, <1>types DEF DistinctError
<1>18. CASE DistinctPop
  BY <1>18, <1>types DEF DistinctPop
<1>19. CASE ScanRow
  BY <1>19, <1>types DEF ScanRow
<1>20. CASE ScanDone
  BY <1>20, <1>types DEF ScanDone
<1>21. CASE AggregateFill
  BY <1>21, <1>types DEF AggregateFill
<1>22. CASE AggregateRow
  BY <1>22, <1>types DEF AggregateRow
<1>23. CASE AggregateDone
  BY <1>23, <1>types DEF AggregateDone
<1>24. CASE AggregateAgain
  BY <1>24, <1>types DEF AggregateAgain
<1>25. CASE GroupFill
  BY <1>25, <1>types DEF GroupFill
<1>26. CASE GroupAdd
  BY <1>26, <1>types DEF GroupAdd
<1>27. CASE GroupSort
  BY <1>27, <1>types DEF GroupSort
<1>28. CASE GroupPop
  BY <1>28, <1>types DEF GroupPop
<1>29. CASE GroupsDone
  BY <1>29, <1>types DEF GroupsDone
<1>30. CASE GroupRow
  BY <1>30, <1>types DEF GroupRow
<1>31. CASE GroupEnd
  <2>1. grouped.items # <<>> => grouped'.items # <<>>
    <3> DEFINE row == Head(grouped.items)
               aside == IF Improves(row.doc) THEN <<row>> ELSE saved
    <3>1. Improves(row.doc) \in BOOLEAN
      BY DEF Improves
    <3>2. grouped.items # <<>> => row \in GroupItems /\ <<row>> \in Seq(GroupItems)
      BY <1>types, TailType
    <3>3. saved \in Seq(GroupItems)
      BY DEF TypeOK
    <3>4. grouped.items # <<>> =>
            AfterRestore(AfterSave(grouped.items, Improves(row.doc)), aside) # <<>>
      BY <1>types, <3>1, <3>2, <3>3, RestoreType
    <3> QED
      BY <1>31, <1>types, <3>4 DEF GroupEnd
  <2> QED
    BY <1>31, <2>1, <1>types DEF GroupEnd
<1>32. CASE HavingTrue
  BY <1>32, <1>types DEF HavingTrue
<1>33. CASE HavingFalse
  BY <1>33, <1>types DEF HavingFalse
<1>34. CASE OrderedNoMem
  BY <1>34, <1>types DEF NoList, ClosedList, OpenList, OrderedNoMem, OutOfMemory
<1>35. CASE DistinctNoMem
  BY <1>35, <1>types DEF DistinctNoMem, OutOfMemory
<1>36. CASE GroupedNoMem
  BY <1>36, <1>types DEF GroupedNoMem, OutOfMemory
<1>37. CASE UNCHANGED vars
  BY <1>37 DEF vars
<1> QED
  BY <1>1, <1>2, <1>3, <1>4, <1>5, <1>6, <1>7, <1>8, <1>9, <1>10, <1>11,
     <1>12, <1>13, <1>14, <1>15, <1>16, <1>17, <1>18, <1>19, <1>20, <1>21,
     <1>22, <1>23, <1>24, <1>25, <1>26, <1>27, <1>28, <1>29, <1>30, <1>31,
     <1>32, <1>33, <1>34, <1>35, <1>36, <1>37 DEF Next, Query, NoMem

-----------------------------------------------------------------------------
(* Where a result is read there is one *)

LEMMA StepReadableInv == TypeOK /\ PipelineInv /\ [Next]_vars => ReadableInv'
<1> SUFFICES ASSUME TypeOK, LayersInv, DocFromInv, ReadableInv, ~q.distinct, q' = q, [Next]_vars
             PROVE  /\ pc' \in {"return", "fillOrdered"} /\ rc' = "ROW" => Readable'
                    /\ pc' # "stopped" /\ ret' # "FAULT"
  <2>1. [Next]_vars => q' = q
    BY LayerStepFrame, NextCases
       DEF Step, Rewind, SkipRow, EvalLimit, StepWithinLimit, StopAtLimit, ReturnRow,
           ReturnNoRow, Fault, vars, case
  <2> QED
    BY <2>1 DEF PipelineInv, ReadableInv
<1>types. /\ ordered \in [open : BOOLEAN, items : Seq(OrderItems)]
          /\ grouped \in [open : BOOLEAN, items : Seq(GroupItems)]
          /\ rc \in {"ROW", "DONE", "NOMEM"}
          /\ docFrom \in {"DATASRC", "GROUPED", "DISTINCTED", "ORDERED"}
  BY DEF TypeOK, ListsOf, Codes
<1>now. /\ pc # "stopped" /\ ret # "FAULT"
        /\ pc \in {"return", "fillOrdered"} /\ rc = "ROW" => Readable
  BY DEF ReadableInv
<1>docFrom. /\ docFrom # "DISTINCTED"
            /\ docFrom = "GROUPED" => IsAggregate(q)
            /\ docFrom = "ORDERED" => ordered.open /\ pc \notin Below
  BY DEF DocFromInv
<1>ordered. pc = "ordered" /\ ordered.open => docFrom = "ORDERED"
  BY DEF DocFromInv, Below
<1>layers. /\ pc \notin {"distinct", "fillDistinct"}
           /\ pc = "scan" => ~IsAggregate(q)
  BY DEF LayersInv
<1> USE CallLabels, <1>types, <1>now DEF ReturnTo
<1>1. CASE Step
  BY <1>1 DEF Step, client
<1>2. CASE Rewind
  BY <1>2 DEF Rewind
<1>3. CASE SkipRow
  BY <1>3 DEF SkipRow, client
<1>4. CASE EvalLimit
  BY <1>4 DEF EvalLimit, client
<1>5. CASE StepWithinLimit
  BY <1>5 DEF StepWithinLimit, client
<1>6. CASE StopAtLimit
  BY <1>6 DEF StopAtLimit, client
<1>7. CASE ReturnRow
  BY <1>7 DEF ReturnRow, Fault, client
<1>8. CASE ReturnNoRow
  BY <1>8 DEF ReturnNoRow, client
<1>9. CASE OrderedFill
  BY <1>9 DEF OrderedFill, client
<1>10. CASE OrderedAdd
  BY <1>10 DEF OrderedAdd, Fault, client
<1>11. CASE OrderedSort
  <2>1. PICK items \in StableSorts(ordered.items, OrderedBefore) :
           /\ ordered' = [ordered EXCEPT !.items = items]
           /\ rc' = IF items # <<>> THEN "ROW" ELSE "DONE"
    BY <1>11 DEF OrderedSort
  <2>2. rc' = "ROW" => ordered'.items # <<>>
    BY <2>1
  <2> QED
    BY <1>11, <2>2 DEF OrderedSort, Readable, client
<1>12. CASE OrderedError
  BY <1>12 DEF OrderedError, client
<1>13. CASE OrderedPop
  BY <1>13, <1>ordered DEF OrderedPop, Readable, client
<1>14. CASE DistinctFill
  BY <1>14, <1>layers DEF DistinctFill
<1>15. CASE DistinctAdd
  BY <1>15, <1>layers DEF DistinctAdd
<1>16. CASE DistinctSort
  BY <1>16, <1>layers DEF DistinctSort
<1>17. CASE DistinctError
  BY <1>17, <1>layers DEF DistinctError
<1>18. CASE DistinctPop
  BY <1>18, <1>layers DEF DistinctPop
<1>19. CASE ScanRow
  <2>1. docFrom = "DATASRC"
    BY <1>19, <1>docFrom, <1>layers DEF ScanRow, Below
  <2> QED
    BY <1>19, <2>1 DEF ScanRow, Readable, client
<1>20. CASE ScanDone
  BY <1>20 DEF ScanDone, client
<1>21. CASE AggregateFill
  BY <1>21 DEF AggregateFill, client
<1>22. CASE AggregateRow
  BY <1>22 DEF AggregateRow, client
<1>23. CASE AggregateDone
  <2>1. grouped'.items # <<>>
    BY <1>23 DEF AggregateDone, Add
  <2> QED
    BY <1>23, <2>1 DEF AggregateDone, Readable, client
<1>24. CASE AggregateAgain
  BY <1>24 DEF AggregateAgain, client
<1>25. CASE GroupFill
  BY <1>25 DEF GroupFill, client
<1>26. CASE GroupAdd
  BY <1>26 DEF GroupAdd, client
<1>27. CASE GroupSort
  BY <1>27 DEF GroupSort, client
<1>28. CASE GroupPop
  BY <1>28 DEF GroupPop, client
<1>29. CASE GroupsDone
  BY <1>29 DEF GroupsDone, client
<1>30. CASE GroupRow
  BY <1>30 DEF GroupRow, client
<1>31. CASE GroupEnd
  BY <1>31 DEF GroupEnd, client
<1>32. CASE HavingTrue
  <2>1. docFrom = "GROUPED" /\ grouped.items # <<>>
    BY <1>32 DEF HavingTrue, DocFromInv
  <2> QED
    BY <1>32, <2>1 DEF HavingTrue, Readable, lists, client
<1>33. CASE HavingFalse
  BY <1>33 DEF HavingFalse, client
<1>34. CASE OrderedNoMem
  BY <1>34 DEF OrderedNoMem, OutOfMemory, client
<1>35. CASE DistinctNoMem
  BY <1>35, <1>layers DEF DistinctNoMem
<1>36. CASE GroupedNoMem
  BY <1>36 DEF GroupedNoMem, OutOfMemory, client
<1>37. CASE UNCHANGED vars
  BY <1>37 DEF vars, lists, client, Readable
<1> QED
  BY <1>1, <1>2, <1>3, <1>4, <1>5, <1>6, <1>7, <1>8, <1>9, <1>10, <1>11,
     <1>12, <1>13, <1>14, <1>15, <1>16, <1>17, <1>18, <1>19, <1>20, <1>21,
     <1>22, <1>23, <1>24, <1>25, <1>26, <1>27, <1>28, <1>29, <1>30, <1>31,
     <1>32, <1>33, <1>34, <1>35, <1>36, <1>37 DEF Next, Query, NoMem

-----------------------------------------------------------------------------
(* The theorems *)

LEMMA InitPipelineInv == Init => PipelineInv
BY DEF Init, PipelineInv, LayersInv, DocFromInv, ReadableInv, LimitInv, Below, ClosedList

\* The inductive invariant: every variable has its type and the layers of the
\* pipeline agree on where the call is, where documents are read and how many
\* rows are left, for every query, every collection and any number of failed
\* allocations.
THEOREM PipelineAgrees == Spec => [](TypeOK /\ PipelineInv)
<1>1. Init => TypeOK /\ PipelineInv
  BY InitTypeOK, InitPipelineInv
<1>2. TypeOK /\ PipelineInv /\ [Next]_vars => (TypeOK /\ PipelineInv)'
  BY StepTypeOK, StepLayersInv, StepDocFromInv, StepReadableInv, StepLimitInv
     DEF PipelineInv
<1> QED
  BY <1>1, <1>2, PTL DEF Spec

\* Every variable of the pipeline keeps the type struct Query declares for it.
THEOREM TypeCorrect == Spec => []TypeOK
BY PipelineAgrees, PTL

\* No client ever receives more rows than LIMIT allows between two rewinds.
THEOREM LimitIsRespected == Spec => []LimitRespected
<1>1. TypeOK /\ PipelineInv => LimitRespected
  <2> SUFFICES ASSUME TypeOK, LimitInv, q.limit >= 0
               PROVE  Len(out) <= q.limit
    BY DEF PipelineInv, LimitRespected
  <2>1. /\ nLimit \in Int /\ q.limit \in Int /\ Len(out) \in Nat
        /\ limitValid \in BOOLEAN /\ InFlight \in {0, 1}
    BY DEF TypeOK, Queries, InFlight
  <2>2. CASE limitValid
    BY <2>1, <2>2 DEF LimitInv
  <2>3. CASE ~limitValid
    BY <2>1, <2>3 DEF LimitInv
  <2> QED
    BY <2>2, <2>3
<1> QED
  BY <1>1, PipelineAgrees, PTL

\* A query without DISTINCT never reads through an empty list and never fails
\* the assertion of selectStepOrdered.
THEOREM OnlyDistinctFaults == Spec => [](NeverFaults \/ q.distinct)
<1>1. PipelineInv => NeverFaults \/ q.distinct
  BY DEF PipelineInv, ReadableInv, NeverFaults
<1> QED
  BY <1>1, PipelineAgrees, PTL

-----------------------------------------------------------------------------
(* What WHERE accepts, one row at a time *)

\* A set of numbers that is not empty has a least element.
LEMMA LeastElement ==
    ASSUME NEW T, T \subseteq Nat, T # {}
    PROVE  \E x \in T : \A y \in T : x <= y
<1> DEFINE R == { pair \in Nat \X Nat : pair[1] < pair[2] }
<1>1. IsWellFoundedOn(R, Nat)
  BY NatLessThanWellFounded DEF OpToRel
<1> HIDE DEF R
<1>2. PICK x \in T : \A y \in T : <<y, x>> \notin R
  BY <1>1, WFMin, Zenon
<1>3. \A y \in T : ~(y < x)
  BY <1>2 DEF R
<1> QED BY <1>3

\* f lists what WHERE accepts among the first rows, up to n.
Lists(f, where, rows, n) ==
    /\ f \in [0..n -> Seq(Rows)]
    /\ f[0] = <<>>
    /\ \A k \in 1..n :
         f[k] = IF rows[k].v >= where THEN Append(f[k - 1], rows[k]) ELSE f[k - 1]

\* There is such a list for every n, so Accepted is what its definition says.
LEMMA ListsExist ==
    ASSUME NEW where \in Nat, NEW rows \in Seq(Rows), NEW n \in 0..Len(rows)
    PROVE  \E f : Lists(f, where, rows, n)
<1> DEFINE Bad == { k \in 0..n : ~\E f : Lists(f, where, rows, k) }
<1> SUFFICES ASSUME Bad # {} PROVE FALSE
  OBVIOUS
<1>1. PICK k \in Bad : \A m \in Bad : k <= m
  <2>1. Bad \subseteq Nat
    OBVIOUS
  <2> QED BY <2>1, LeastElement
<1>2. CASE k = 0
  <2>1. Lists([m \in 0..0 |-> <<>>], where, rows, 0)
    BY DEF Lists
  <2> QED BY <1>2, <2>1
<1>3. CASE k # 0
  <2>1. k \in 1..n /\ k - 1 \in 0..n /\ k \in 1..Len(rows)
    BY <1>3
  <2>2. PICK f : Lists(f, where, rows, k - 1)
    BY <1>1, <2>1
  <2>3. rows[k] \in Rows /\ f[k - 1] \in Seq(Rows)
    BY <2>1, <2>2 DEF Lists
  <2> DEFINE last == IF rows[k].v >= where THEN Append(f[k - 1], rows[k]) ELSE f[k - 1]
             g == [m \in 0..k |-> IF m = k THEN last ELSE f[m]]
  <2>4. last \in Seq(Rows)
    BY <2>3
  <2> HIDE DEF last
  <2>5. /\ g \in [0..k -> Seq(Rows)] /\ g[0] = <<>> /\ g[k] = last
        /\ \A m \in 0..(k - 1) : g[m] = f[m]
    BY <2>1, <2>2, <2>4 DEF Lists
  <2> HIDE DEF g
  <2>6. \A m \in 1..k : g[m] = IF rows[m].v >= where THEN Append(g[m - 1], rows[m]) ELSE g[m - 1]
    <3> SUFFICES ASSUME NEW m \in 1..k
                 PROVE  g[m] = IF rows[m].v >= where THEN Append(g[m - 1], rows[m]) ELSE g[m - 1]
      OBVIOUS
    <3>1. m - 1 \in 0..(k - 1) /\ g[m - 1] = f[m - 1]
      BY <2>1, <2>5
    <3>2. CASE m = k
      BY <2>5, <3>1, <3>2 DEF last
    <3>3. CASE m # k
      <4>1. m \in 1..(k - 1) /\ m \in 0..(k - 1)
        BY <2>1, <3>3
      <4> QED BY <2>2, <2>5, <3>1, <4>1 DEF Lists
    <3> QED BY <3>2, <3>3
  <2>7. Lists(g, where, rows, k)
    BY <2>5, <2>6 DEF Lists
  <2> QED BY <2>7
<1> QED BY <1>2, <1>3

\* The recursive function of SelectSemantics is such a list.
LEMMA AcceptedIs ==
    ASSUME NEW where \in Nat, NEW rows \in Seq(Rows)
    PROVE  Lists(Accepted(where, rows), where, rows, Len(rows))
<1> DEFINE Of(s) == [n \in 0..Len(rows) |->
                       IF n = 0 THEN <<>>
                       ELSE IF rows[n].v >= where THEN Append(s[n - 1], rows[n]) ELSE s[n - 1]]
           g == CHOOSE s : s = Of(s)
<1>1. Len(rows) \in Nat
  OBVIOUS
<1>2. PICK f : Lists(f, where, rows, Len(rows))
  BY <1>1, ListsExist
<1>3. f = Of(f)
  <2>1. f = [n \in 0..Len(rows) |-> f[n]]
    BY <1>2 DEF Lists
  <2>2. ASSUME NEW n \in 0..Len(rows)
        PROVE  f[n] = IF n = 0 THEN <<>>
                      ELSE IF rows[n].v >= where THEN Append(f[n - 1], rows[n]) ELSE f[n - 1]
    <3>1. n = 0 \/ n \in 1..Len(rows)
      BY <1>1
    <3> QED BY <1>2, <3>1, Zenon DEF Lists
  <2> QED BY <2>1, <2>2
<1>4. g = Of(g)
  <2> HIDE DEF Of
  <2> QED BY <1>3
<1>5. Accepted(where, rows) = g
  BY DEF Accepted
<1> HIDE DEF g
<1>6. /\ DOMAIN g = 0..Len(rows) /\ g[0] = <<>>
      /\ \A n \in 1..Len(rows) :
           g[n] = IF rows[n].v >= where THEN Append(g[n - 1], rows[n]) ELSE g[n - 1]
  <2>1. DOMAIN g = 0..Len(rows)
    BY <1>4, Zenon
  <2>2. \A n \in 0..Len(rows) :
          g[n] = IF n = 0 THEN <<>>
                 ELSE IF rows[n].v >= where THEN Append(g[n - 1], rows[n]) ELSE g[n - 1]
    BY <1>4, Zenon
  <2> HIDE DEF Of
  <2>3. 0 \in 0..Len(rows) /\ \A n \in 1..Len(rows) : n \in 0..Len(rows) /\ n # 0
    BY <1>1
  <2> QED BY <2>1, <2>2, <2>3, Zenon
<1>7. \A n \in 0..Len(rows) : g[n] = f[n]
  <2> DEFINE Bad == { n \in 0..Len(rows) : g[n] # f[n] }
  <2> SUFFICES ASSUME Bad # {} PROVE FALSE
    OBVIOUS
  <2>1. PICK n \in Bad : \A m \in Bad : n <= m
    <3>1. Bad \subseteq Nat
      OBVIOUS
    <3> QED BY <3>1, LeastElement
  <2>2. n # 0
    BY <1>2, <1>6 DEF Lists
  <2>3. n \in 1..Len(rows) /\ n - 1 \in 0..Len(rows) /\ g[n - 1] = f[n - 1]
    BY <2>1, <2>2
  <2> QED BY <1>2, <1>6, <2>1, <2>3 DEF Lists
<1>8. g = f
  BY <1>2, <1>4, <1>7 DEF Lists
<1> QED BY <1>2, <1>5, <1>8

-----------------------------------------------------------------------------
(* The members of a set in the order of a relation: there is one such list *)

\* R orders the members of S: of two, one is before the other.
IsOrder(R, S) ==
    /\ \A a \in S : <<a, a>> \notin R
    /\ \A a, b \in S : a # b => <<a, b>> \in R \/ <<b, a>> \in R
    /\ \A a, b, c \in S : <<a, b>> \in R /\ <<b, c>> \in R => <<a, c>> \in R

Ascends(p, n, S, R) ==
    /\ p \in [1..n -> S]
    /\ \A i, j \in 1..n : i < j => <<p[i], p[j]>> \in R

\* p lists every member of S, n of them, in the order of R.
ListsAll(p, n, S, R) ==
    /\ n \in Nat
    /\ Ascends(p, n, S, R)
    /\ \A x \in S : \E i \in 1..n : p[i] = x

\* A list of n ascending numbers out of 1..n has them all.
LEMMA AscendingHasAll ==
    ASSUME NEW n \in Nat, NEW R, IsOrder(R, 1..n), NEW p, Ascends(p, n, 1..n, R)
    PROVE  ListsAll(p, n, 1..n, R)
<1> DEFINE S == 1..n
<1>0. p \in [S -> S]
  BY DEF Ascends
<1>1. \A k, l \in S : p[k] = p[l] => k = l
  <2> SUFFICES ASSUME NEW k \in S, NEW l \in S, p[k] = p[l], k < l PROVE FALSE
    OBVIOUS
  <2>1. <<p[k], p[k]>> \in R /\ p[k] \in 1..n
    BY <1>0 DEF Ascends
  <2> QED BY <2>1 DEF IsOrder
<1>2. p \in Injection(S, S)
  BY <1>0, <1>1 DEF Injection, IsInjective
<1>3. IsFiniteSet(S)
  BY FS_Interval
<1>4. p \in Surjection(S, S)
  <2> HIDE DEF S
  <2> QED BY <1>2, <1>3, FS_Injection
<1>5. \A x \in S : \E i \in S : p[i] = x
  BY <1>4 DEF Surjection
<1> QED BY <1>5 DEF ListsAll

\* Two lists agree as far as the shorter one goes.
LEMMA ListsAgree ==
    ASSUME NEW S, NEW R, IsOrder(R, S),
           NEW p, NEW n, ListsAll(p, n, S, R), NEW r, NEW m, ListsAll(r, m, S, R), n <= m
    PROVE  \A i \in 1..n : p[i] = r[i]
<1> DEFINE Bad == { i \in 1..n : p[i] # r[i] }
<1> SUFFICES ASSUME Bad # {} PROVE FALSE
  OBVIOUS
<1>0. /\ n \in Nat /\ m \in Nat /\ p \in [1..n -> S] /\ r \in [1..m -> S]
      /\ \A k, l \in 1..n : k < l => <<p[k], p[l]>> \in R
      /\ \A k, l \in 1..m : k < l => <<r[k], r[l]>> \in R
  BY DEF ListsAll, Ascends
<1>1. PICK i \in Bad : \A j \in Bad : i <= j
  <2>1. Bad \subseteq Nat
    OBVIOUS
  <2> HIDE DEF Bad
  <2> QED BY <2>1, LeastElement
<1>2. i \in 1..n /\ i \in 1..m /\ p[i] # r[i] /\ p[i] \in S /\ r[i] \in S
  BY <1>0, <1>1
<1>3. \A j \in 1..n : j < i => p[j] = r[j]
  BY <1>1, <1>2
<1>4. PICK j \in 1..m : r[j] = p[i]
  BY <1>2 DEF ListsAll
<1>5. PICK k \in 1..n : p[k] = r[i]
  BY <1>2 DEF ListsAll
<1> HIDE DEF Bad
<1>6. j > i
  <2> SUFFICES ASSUME j < i PROVE FALSE
    BY <1>2, <1>4
  <2>0. j \in 1..n
    BY <1>0, <1>2, <1>4
  <2>1. j \in 1..n /\ p[j] = p[i]
    BY <1>3, <1>4, <2>0, Zenon
  <2>2. <<p[j], p[i]>> \in R
    BY <1>0, <1>2, <2>1
  <2> QED BY <1>2, <2>1, <2>2 DEF IsOrder
<1>7. k > i
  <2> SUFFICES ASSUME k < i PROVE FALSE
    BY <1>2, <1>5
  <2>0. k \in 1..m
    BY <1>0, <1>2, <1>5
  <2>1. k \in 1..m /\ r[k] = r[i]
    BY <1>3, <1>5, <2>0, Zenon
  <2>2. <<r[k], r[i]>> \in R
    BY <1>0, <1>2, <2>1
  <2> QED BY <1>2, <2>1, <2>2 DEF IsOrder
<1>8. <<r[i], p[i]>> \in R
  BY <1>0, <1>2, <1>4, <1>6
<1>9. <<p[i], r[i]>> \in R
  BY <1>0, <1>2, <1>5, <1>7
<1> QED BY <1>2, <1>8, <1>9 DEF IsOrder

\* So there is at most one list.
LEMMA OneList ==
    ASSUME NEW S, NEW R, IsOrder(R, S),
           NEW p, NEW n, ListsAll(p, n, S, R), NEW r, NEW m, ListsAll(r, m, S, R)
    PROVE  n = m /\ p = r
<1>1. ASSUME NEW s, NEW k, ListsAll(s, k, S, R), NEW t, NEW l, ListsAll(t, l, S, R), k <= l
      PROVE  k = l /\ s = t
  <2>1. \A i \in 1..k : s[i] = t[i]
    BY <1>1, ListsAgree
  <2>2. /\ k \in Nat /\ l \in Nat /\ s \in [1..k -> S] /\ t \in [1..l -> S]
        /\ \A i, j \in 1..l : i < j => <<t[i], t[j]>> \in R
    BY <1>1 DEF ListsAll, Ascends
  <2>3. k = l
    <3> SUFFICES ASSUME k # l PROVE FALSE
      OBVIOUS
    <3>1. k + 1 \in 1..l /\ t[k + 1] \in S
      BY <1>1, <2>2
    <3>2. PICK i \in 1..k : s[i] = t[k + 1]
      BY <1>1, <3>1 DEF ListsAll
    <3>3. i \in 1..l /\ i < k + 1 /\ t[i] = t[k + 1]
      BY <1>1, <2>1, <2>2, <3>2
    <3>4. <<t[i], t[k + 1]>> \in R
      BY <2>2, <3>1, <3>3
    <3> QED BY <3>1, <3>3, <3>4 DEF IsOrder
  <2>4. s = [i \in 1..k |-> s[i]] /\ t = [i \in 1..k |-> t[i]]
    BY <2>2, <2>3
  <2> QED BY <2>1, <2>3, <2>4
<1>2. n \in Nat /\ m \in Nat
  BY DEF ListsAll
<1>3. CASE n <= m
  BY <1>1, <1>3
<1>4. CASE m <= n
  BY <1>1, <1>4
<1> QED BY <1>2, <1>3, <1>4

\* A new member has its place in the list.
LEMMA ListInserts ==
    ASSUME NEW S, NEW R, NEW x, x \notin S, IsOrder(R, S \cup {x}), NEW p, NEW n, ListsAll(p, n, S, R)
    PROVE  \E g : ListsAll(g, n + 1, S \cup {x}, R)
<1> DEFINE T == S \cup {x}
<1>0. /\ n \in Nat /\ p \in [1..n -> S]
      /\ \A i, j \in 1..n : i < j => <<p[i], p[j]>> \in R
      /\ \A y \in S : \E i \in 1..n : p[i] = y
  BY DEF ListsAll, Ascends
<1> DEFINE After == { i \in 1..(n + 1) : i = n + 1 \/ <<x, p[i]>> \in R }
<1>1. PICK h \in After : \A j \in After : h <= j
  <2>1. After \subseteq Nat /\ n + 1 \in After
    BY <1>0
  <2> HIDE DEF After
  <2> QED BY <2>1, LeastElement
<1>2. h \in 1..(n + 1) /\ (h = n + 1 \/ <<x, p[h]>> \in R)
  BY <1>1
<1>3. ASSUME NEW i \in 1..n, i < h PROVE <<p[i], x>> \in R
  <2>1. i \in 1..(n + 1) /\ i # n + 1
    BY <1>0
  <2>2. <<x, p[i]>> \notin R
    BY <1>1, <1>2, <1>3, <2>1
  <2>3. p[i] \in S /\ p[i] # x /\ p[i] \in T /\ x \in T
    BY <1>0
  <2> QED BY <2>2, <2>3 DEF IsOrder
<1>4. ASSUME NEW i \in 1..n, i >= h PROVE <<x, p[i]>> \in R
  <2>1. h \in 1..n /\ <<x, p[h]>> \in R
    BY <1>0, <1>2, <1>4
  <2>2. CASE i = h
    BY <2>1, <2>2
  <2>3. CASE i # h
    <3>1. <<p[h], p[i]>> \in R
      BY <1>0, <1>4, <2>1, <2>3
    <3>2. p[h] \in T /\ p[i] \in T /\ x \in T
      BY <1>0, <2>1
    <3> QED BY <2>1, <3>1, <3>2 DEF IsOrder
  <2> QED BY <2>2, <2>3
<1> HIDE DEF After
<1> DEFINE g == [i \in 1..(n + 1) |-> IF i < h THEN p[i] ELSE IF i = h THEN x ELSE p[i - 1]]
<1>5. /\ \A i \in 1..(n + 1) : i < h => i \in 1..n /\ g[i] = p[i]
      /\ g[h] = x
      /\ \A i \in 1..(n + 1) : i > h => i - 1 \in 1..n /\ i - 1 >= h /\ g[i] = p[i - 1]
  BY <1>0, <1>2
<1>6. g \in [1..(n + 1) -> T]
  <2>1. \A i \in 1..(n + 1) : (IF i < h THEN p[i] ELSE IF i = h THEN x ELSE p[i - 1]) \in T
    BY <1>0, <1>2
  <2> QED BY <2>1
<1> HIDE DEF g
<1>7. ASSUME NEW i \in 1..(n + 1), NEW j \in 1..(n + 1), i < j PROVE <<g[i], g[j]>> \in R
  <2>1. CASE j < h
    BY <1>0, <1>2, <1>5, <1>7, <2>1
  <2>2. CASE j = h
    BY <1>2, <1>3, <1>5, <1>7, <2>2
  <2>3. CASE j > h /\ i < h
    <3>1. i \in 1..n /\ g[i] = p[i] /\ j - 1 \in 1..n /\ g[j] = p[j - 1] /\ i < j - 1
      BY <1>2, <1>5, <2>3
    <3> QED BY <1>0, <3>1
  <2>4. CASE j > h /\ i = h
    BY <1>2, <1>4, <1>5, <2>4
  <2>5. CASE j > h /\ i > h
    <3>1. i - 1 \in 1..n /\ g[i] = p[i - 1] /\ j - 1 \in 1..n /\ g[j] = p[j - 1] /\ i - 1 < j - 1
      BY <1>2, <1>5, <1>7, <2>5
    <3> QED BY <1>0, <3>1
  <2> QED BY <1>2, <2>1, <2>2, <2>3, <2>4, <2>5
<1>8. ASSUME NEW y \in T PROVE \E i \in 1..(n + 1) : g[i] = y
  <2>1. CASE y = x
    BY <1>2, <1>5, <2>1
  <2>2. CASE y \in S
    <3>1. PICK i \in 1..n : p[i] = y
      BY <1>0, <2>2
    <3>2. CASE i < h
      <4>1. i \in 1..(n + 1)
        BY <1>0
      <4> QED BY <1>5, <3>1, <3>2, <4>1
    <3>3. CASE i >= h
      <4>1. i + 1 \in 1..(n + 1) /\ i + 1 > h /\ (i + 1) - 1 = i
        BY <1>0, <1>2, <3>3
      <4> QED BY <1>5, <3>1, <4>1
    <3> QED BY <1>2, <3>2, <3>3
  <2> QED BY <2>1, <2>2
<1>9. ListsAll(g, n + 1, T, R)
  BY <1>0, <1>6, <1>7, <1>8 DEF ListsAll, Ascends
<1> QED BY <1>9

\* Every set of numbers up to m has a list.
LEMMA ListExists ==
    ASSUME NEW m \in Nat, NEW S, S \subseteq 1..m, NEW R, IsOrder(R, S)
    PROVE  \E n \in 0..m : \E p : ListsAll(p, n, S, R)
<1> DEFINE Part(k) == S \cap (1..k)
           Lst(k) == \E n \in 0..k : \E p : ListsAll(p, n, Part(k), R)
           Bad == { k \in 0..m : ~Lst(k) }
<1>0. Part(m) = S
  OBVIOUS
<1> SUFFICES ASSUME Bad # {} PROVE FALSE
  <2>1. m \in 0..m
    OBVIOUS
  <2>2. m \notin Bad => Lst(m)
    <3> HIDE DEF Lst
    <3> QED BY <2>1
  <2> HIDE DEF Bad
  <2> QED BY <1>0, <2>2
<1>1. PICK k \in Bad : \A l \in Bad : k <= l
  <2>1. Bad \subseteq Nat
    OBVIOUS
  <2> HIDE DEF Bad
  <2> QED BY <2>1, LeastElement
<1>2. k \in 0..m /\ ~Lst(k) /\ \A l \in 0..m : l < k => Lst(l)
  <2> HIDE DEF Lst
  <2> QED BY <1>1
<1> HIDE DEF Bad
<1>3. CASE k = 0
  <2>1. Part(0) = {}
    OBVIOUS
  <2>2. ListsAll(<<>>, 0, {}, R)
    BY DEF ListsAll, Ascends
  <2>3. 0 \in 0..0
    OBVIOUS
  <2>4. Lst(0)
    BY <2>1, <2>2, <2>3
  <2> QED BY <1>2, <1>3, <2>4
<1>4. CASE k # 0
  <2>1. k - 1 \in 0..m /\ k - 1 < k /\ k \in Nat
    BY <1>2, <1>4
  <2>2. Lst(k - 1)
    <3> HIDE DEF Lst
    <3> QED BY <1>2, <2>1
  <2>3. PICK n \in 0..(k - 1) : \E p : ListsAll(p, n, Part(k - 1), R)
    BY <2>2
  <2>4. PICK p : ListsAll(p, n, Part(k - 1), R)
    BY <2>3
  <2>5. CASE k \notin S
    <3>1. Part(k) = Part(k - 1) /\ n \in 0..k
      BY <2>1, <2>5
    <3>2. Lst(k)
      BY <2>4, <3>1
    <3> QED BY <1>2, <3>2
  <2>6. CASE k \in S
    <3>1. Part(k) = Part(k - 1) \cup {k} /\ n + 1 \in 0..k /\ k \notin Part(k - 1) /\ Part(k) \subseteq S
      BY <2>1, <2>6
    <3>2. IsOrder(R, Part(k))
      <4> HIDE DEF Part
      <4> QED BY <3>1 DEF IsOrder
    <3>3. \E g : ListsAll(g, n + 1, Part(k - 1) \cup {k}, R)
      <4> HIDE DEF Part
      <4> QED BY <2>4, <3>1, <3>2, ListInserts
    <3>4. Lst(k)
      <4> HIDE DEF Part
      <4> QED BY <3>1, <3>3
    <3> QED BY <1>2, <3>4
  <2> QED BY <2>5, <2>6
<1> QED BY <1>3, <1>4

-----------------------------------------------------------------------------
(* Documents of one length, and keys of one shape, are totally ordered *)

DocsOf(n) == { d \in Docs : Len(d) = n }
KeysOf(lens) ==
    { k \in Seq(Docs) : Len(k) = Len(lens) /\ \A i \in 1..Len(lens) : k[i] \in DocsOf(lens[i]) }

LEMMA ScalarOrder ==
    ASSUME NEW x \in Scalars, NEW y \in Scalars
    PROVE  /\ ScalarLess(x, y) => ~ScalarLess(y, x) /\ x # y
           /\ x # y => ScalarLess(x, y) \/ ScalarLess(y, x)
           /\ \A z \in Scalars : ScalarLess(x, y) /\ ScalarLess(y, z) => ScalarLess(x, z)
BY NullAssumption DEF ScalarLess, Scalars

DifferFirst(a, b, i) == (\A j \in 1..(i - 1) : a[j] = b[j]) /\ a[i] # b[i]

\* Two documents that differ do so first at one position.
LEMMA FirstDifference ==
    ASSUME NEW n \in Nat, NEW X
    PROVE  \A a, b \in [1..n -> X] :
             a # b => \E i \in 1..n : DifferFirst(a, b, i)
<1> SUFFICES ASSUME NEW a \in [1..n -> X], NEW b \in [1..n -> X], a # b
             PROVE  \E i \in 1..n : DifferFirst(a, b, i)
  OBVIOUS
<1> DEFINE Diff == { i \in 1..n : a[i] # b[i] }
<1>1. PICK i \in Diff : \A j \in Diff : i <= j
  <2>1. Diff \subseteq Nat
    OBVIOUS
  <2>2. Diff # {}
    <3> SUFFICES ASSUME \A i \in 1..n : a[i] = b[i] PROVE FALSE
      OBVIOUS
    <3>1. a = [i \in 1..n |-> a[i]] /\ b = [i \in 1..n |-> b[i]]
      OBVIOUS
    <3> QED BY <3>1
  <2> HIDE DEF Diff
  <2> QED BY <2>1, <2>2, LeastElement
<1>2. i \in 1..n /\ a[i] # b[i]
  BY <1>1
<1>3. ASSUME NEW j \in 1..(i - 1) PROVE a[j] = b[j]
  <2>1. j \in 1..n /\ j < i
    BY <1>2
  <2> QED BY <1>1, <2>1
<1> QED BY <1>2, <1>3 DEF DifferFirst

LEMMA DocIsFunction ==
    ASSUME NEW n \in Nat, NEW a \in DocsOf(n)
    PROVE  a \in [1..n -> Scalars] /\ DOMAIN a = 1..n
BY DEF DocsOf, Docs

LEMMA DocOrder ==
    ASSUME NEW n \in Nat, NEW a \in DocsOf(n), NEW b \in DocsOf(n)
    PROVE  /\ DocLess(a, b) => ~DocLess(b, a) /\ a # b
           /\ a # b => DocLess(a, b) \/ DocLess(b, a)
           /\ \A c \in DocsOf(n) : DocLess(a, b) /\ DocLess(b, c) => DocLess(a, c)
<1> DEFINE At(x, y, i) == (\A j \in 1..(i - 1) : x[j] = y[j]) /\ ScalarLess(x[i], y[i])
<1>0. \A x, y : x \in DocsOf(n) => (DocLess(x, y) <=> \E i \in 1..n : At(x, y, i))
  BY DocIsFunction DEF DocLess
<1>1. \A x \in DocsOf(n) : \A i \in 1..n : x[i] \in Scalars
  BY DocIsFunction
<1>2. ASSUME DocLess(a, b) PROVE ~DocLess(b, a) /\ a # b
  <2>1. PICK i \in 1..n : At(a, b, i)
    BY <1>0, <1>2
  <2>2. a[i] # b[i] /\ ~ScalarLess(b[i], a[i])
    BY <1>1, <2>1, ScalarOrder
  <2>3. ASSUME NEW j \in 1..n, At(b, a, j) PROVE FALSE
    <3>1. a[j] # b[j]
      BY <1>1, <2>3, ScalarOrder
    <3>2. i = j
      BY <2>1, <2>2, <2>3, <3>1
    <3> QED BY <2>2, <2>3, <3>2
  <2> QED BY <1>0, <2>2, <2>3
<1>3. ASSUME a # b PROVE DocLess(a, b) \/ DocLess(b, a)
  <2>1. a \in [1..n -> Scalars] /\ b \in [1..n -> Scalars]
    BY DocIsFunction
  <2>2. PICK i \in 1..n : DifferFirst(a, b, i)
    BY <1>3, <2>1, FirstDifference
  <2>3. ScalarLess(a[i], b[i]) \/ ScalarLess(b[i], a[i])
    BY <1>1, <2>2, ScalarOrder DEF DifferFirst
  <2>4. At(a, b, i) \/ At(b, a, i)
    BY <2>2, <2>3 DEF DifferFirst
  <2> QED BY <1>0, <2>4
<1>4. ASSUME NEW c \in DocsOf(n), DocLess(a, b), DocLess(b, c) PROVE DocLess(a, c)
  <2>1. PICK i \in 1..n : At(a, b, i)
    BY <1>0, <1>4
  <2>2. PICK j \in 1..n : At(b, c, j)
    BY <1>0, <1>4
  <2>3. CASE i < j
    <3>1. b[i] = c[i] /\ \A l \in 1..(i - 1) : l \in 1..(j - 1)
      BY <2>2, <2>3
    <3>2. At(a, c, i)
      BY <2>1, <2>2, <3>1
    <3> QED BY <1>0, <3>2
  <2>4. CASE j < i
    <3>1. a[j] = b[j] /\ \A l \in 1..(j - 1) : l \in 1..(i - 1)
      BY <2>1, <2>4
    <3>2. At(a, c, j)
      BY <2>1, <2>2, <3>1
    <3> QED BY <1>0, <3>2
  <2>5. CASE i = j
    <3>1. ScalarLess(a[i], c[i])
      BY <1>1, <2>1, <2>2, <2>5, ScalarOrder
    <3>2. At(a, c, i)
      BY <2>1, <2>2, <2>5, <3>1
    <3> QED BY <1>0, <3>2
  <2> QED BY <2>3, <2>4, <2>5
<1> QED BY <1>2, <1>3, <1>4

LEMMA KeyOrder ==
    ASSUME NEW lens \in Seq(Nat), NEW desc, NEW a \in KeysOf(lens), NEW b \in KeysOf(lens)
    PROVE  /\ KeyLess(a, b, desc) => ~KeyLess(b, a, desc) /\ a # b
           /\ a # b => KeyLess(a, b, desc) \/ KeyLess(b, a, desc)
           /\ \A c \in KeysOf(lens) :
                KeyLess(a, b, desc) /\ KeyLess(b, c, desc) => KeyLess(a, c, desc)
<1> DEFINE n == Len(lens)
           Term(i, x, y) == IF desc[i] THEN DocLess(y, x) ELSE DocLess(x, y)
           At(x, y, i) == (\A j \in 1..(i - 1) : x[j] = y[j]) /\ Term(i, x[i], y[i])
<1>0. /\ n \in Nat
      /\ \A x, y : x \in KeysOf(lens) => (KeyLess(x, y, desc) <=> \E i \in 1..n : At(x, y, i))
  BY DEF KeyLess, KeysOf
<1>1. \A x \in KeysOf(lens) : \A i \in 1..n : x[i] \in DocsOf(lens[i])
  BY DEF KeysOf
<1>a. \A x \in KeysOf(lens) : x \in [1..n -> Docs]
  BY DEF KeysOf
<1>b. \A i \in 1..n : lens[i] \in Nat
  OBVIOUS
<1>c. ASSUME NEW i \in 1..n, NEW x \in DocsOf(lens[i]), NEW y \in DocsOf(lens[i])
      PROVE  /\ Term(i, x, y) => ~Term(i, y, x) /\ x # y
             /\ x # y => Term(i, x, y) \/ Term(i, y, x)
             /\ \A z \in DocsOf(lens[i]) : Term(i, x, y) /\ Term(i, y, z) => Term(i, x, z)
  <2>1. lens[i] \in Nat
    BY <1>b
  <2> QED BY <2>1, DocOrder
<1> HIDE DEF n, Term
<1>2. ASSUME KeyLess(a, b, desc) PROVE ~KeyLess(b, a, desc) /\ a # b
  <2>1. PICK i \in 1..n : At(a, b, i)
    BY <1>0, <1>2
  <2>2. a[i] # b[i] /\ ~Term(i, b[i], a[i])
    BY <1>1, <1>c, <2>1
  <2>3. ASSUME NEW j \in 1..n, At(b, a, j) PROVE FALSE
    <3>1. a[j] # b[j]
      BY <1>1, <1>c, <2>3
    <3>2. i = j
      BY <1>0, <2>1, <2>2, <2>3, <3>1
    <3> QED BY <2>2, <2>3, <3>2
  <2> QED BY <1>0, <2>2, <2>3
<1>3. ASSUME a # b PROVE KeyLess(a, b, desc) \/ KeyLess(b, a, desc)
  <2>1. a \in [1..n -> Docs] /\ b \in [1..n -> Docs]
    BY <1>a
  <2>2. PICK i \in 1..n : DifferFirst(a, b, i)
    BY <1>0, <1>3, <2>1, FirstDifference
  <2>3. Term(i, a[i], b[i]) \/ Term(i, b[i], a[i])
    BY <1>1, <1>c, <2>2 DEF DifferFirst
  <2>4. At(a, b, i) \/ At(b, a, i)
    BY <2>2, <2>3 DEF DifferFirst
  <2> QED BY <1>0, <2>4
<1>4. ASSUME NEW c \in KeysOf(lens), KeyLess(a, b, desc), KeyLess(b, c, desc) PROVE KeyLess(a, c, desc)
  <2>1. PICK i \in 1..n : At(a, b, i)
    BY <1>0, <1>4
  <2>2. PICK j \in 1..n : At(b, c, j)
    BY <1>0, <1>4
  <2>3. CASE i < j
    <3>1. b[i] = c[i] /\ \A l \in 1..(i - 1) : l \in 1..(j - 1)
      BY <1>0, <2>2, <2>3
    <3>2. At(a, c, i)
      BY <2>1, <2>2, <3>1
    <3> QED BY <1>0, <3>2
  <2>4. CASE j < i
    <3>1. a[j] = b[j] /\ \A l \in 1..(j - 1) : l \in 1..(i - 1)
      BY <1>0, <2>1, <2>4
    <3>2. At(a, c, j)
      BY <2>1, <2>2, <3>1
    <3> QED BY <1>0, <3>2
  <2>5. CASE i = j
    <3>1. Term(i, a[i], c[i])
      BY <1>1, <1>c, <2>1, <2>2, <2>5
    <3>2. At(a, c, i)
      BY <2>1, <2>2, <2>5, <3>1
    <3> QED BY <1>0, <3>2
  <2> QED BY <1>0, <2>3, <2>4, <2>5
<1> QED BY <1>2, <1>3, <1>4

-----------------------------------------------------------------------------
(* The order of a stable sort, and that of a sort without duplicates *)

\* Position a is before position b in a stable sort by keys.
Precedes(n, keys, desc) ==
    { pair \in (1..n) \X (1..n) :
        \/ KeyLess(keys[pair[1]], keys[pair[2]], desc)
        \/ ~KeyLess(keys[pair[2]], keys[pair[1]], desc) /\ pair[1] < pair[2] }

\* The positions of the first of equal documents, and their order.
Firsts(n, docs) == { k \in 1..n : \A j \in 1..(k - 1) : docs[j] # docs[k] }
Ascending(n, docs) ==
    { pair \in (1..n) \X (1..n) : DocLess(docs[pair[1]], docs[pair[2]]) }

LEMMA PrecedesIsOrder ==
    ASSUME NEW lens \in Seq(Nat), NEW desc, NEW n \in Nat, NEW keys \in [1..n -> KeysOf(lens)]
    PROVE  IsOrder(Precedes(n, keys, desc), 1..n)
<1> DEFINE R == Precedes(n, keys, desc)
           Less(a, b) == KeyLess(keys[a], keys[b], desc)
<1>1. \A a, b \in 1..n : <<a, b>> \in R <=> Less(a, b) \/ (~Less(b, a) /\ a < b)
  BY DEF Precedes
<1>2. \A a, b \in 1..n : /\ Less(a, b) => ~Less(b, a)
                         /\ ~Less(a, b) /\ ~Less(b, a) => keys[a] = keys[b]
  BY KeyOrder
<1>3. \A a, b, c \in 1..n : Less(a, b) /\ Less(b, c) => Less(a, c)
  BY KeyOrder
<1>4. \A a, b, c \in 1..n : /\ keys[a] = keys[b] => (Less(a, c) <=> Less(b, c))
                            /\ keys[a] = keys[b] => (Less(c, a) <=> Less(c, b))
  OBVIOUS
<1> HIDE DEF R, Less
<1>5. \A a \in 1..n : <<a, a>> \notin R
  BY <1>1, <1>2
<1>6. \A a, b \in 1..n : a # b => <<a, b>> \in R \/ <<b, a>> \in R
  BY <1>1, <1>2
<1>7. ASSUME NEW a \in 1..n, NEW b \in 1..n, NEW c \in 1..n, <<a, b>> \in R, <<b, c>> \in R
      PROVE  <<a, c>> \in R
  <2>1. Less(a, b) \/ (~Less(b, a) /\ ~Less(a, b) /\ a < b)
    BY <1>1, <1>7
  <2>2. Less(b, c) \/ (~Less(c, b) /\ ~Less(b, c) /\ b < c)
    BY <1>1, <1>7
  <2>3. CASE Less(a, b) /\ Less(b, c)
    BY <1>1, <1>3, <2>3
  <2>4. CASE Less(a, b) /\ ~Less(b, c)
    BY <1>1, <1>2, <1>4, <2>2, <2>4
  <2>5. CASE ~Less(a, b) /\ Less(b, c)
    BY <1>1, <1>2, <1>4, <2>1, <2>5
  <2>6. CASE ~Less(a, b) /\ ~Less(b, c)
    <3>1. keys[a] = keys[b] /\ keys[b] = keys[c] /\ a < c
      BY <1>2, <2>1, <2>2, <2>6
    <3>2. ~Less(c, a)
      BY <1>4, <2>2, <2>6, <3>1
    <3> QED BY <1>1, <3>1, <3>2
  <2> QED BY <2>3, <2>4, <2>5, <2>6
<1> QED BY <1>5, <1>6, <1>7 DEF IsOrder, R

LEMMA AscendingIsOrder ==
    ASSUME NEW l \in Nat, NEW n \in Nat, NEW docs \in [1..n -> DocsOf(l)]
    PROVE  IsOrder(Ascending(n, docs), Firsts(n, docs))
<1> DEFINE S == Firsts(n, docs)
<1>1. \A a, b \in S : a # b => docs[a] # docs[b]
  BY DEF Firsts
<1>2. S \subseteq 1..n
  BY DEF Firsts
<1>3. \A a, b \in 1..n : /\ DocLess(docs[a], docs[b]) => ~DocLess(docs[b], docs[a])
                         /\ docs[a] # docs[b] => DocLess(docs[a], docs[b]) \/ DocLess(docs[b], docs[a])
  BY DocOrder
<1>4. \A a, b, c \in 1..n : DocLess(docs[a], docs[b]) /\ DocLess(docs[b], docs[c]) => DocLess(docs[a], docs[c])
  BY DocOrder
<1>5. \A a, b \in 1..n : <<a, b>> \in Ascending(n, docs) <=> DocLess(docs[a], docs[b])
  BY DEF Ascending
<1> HIDE DEF S
<1> QED BY <1>1, <1>2, <1>3, <1>4, <1>5 DEF IsOrder, S

\* A list of all of 1..n has n members.
LEMMA AllAreCounted ==
    ASSUME NEW n \in Nat, NEW R, IsOrder(R, 1..n), NEW p, NEW m, ListsAll(p, m, 1..n, R)
    PROVE  m = n
<1> DEFINE S == 1..n
           T == 1..m
<1>1. m \in Nat /\ p \in [T -> S] /\ \A i, j \in T : i < j => <<p[i], p[j]>> \in R
  BY DEF ListsAll, Ascends
<1>2. \A k, l \in T : p[k] = p[l] => k = l
  <2> SUFFICES ASSUME NEW k \in T, NEW l \in T, p[k] = p[l], k < l PROVE FALSE
    BY <1>1
  <2>1. <<p[k], p[k]>> \in R /\ p[k] \in 1..n
    BY <1>1
  <2> QED BY <2>1 DEF IsOrder
<1>3. p \in Injection(T, S) /\ p \in Surjection(T, S)
  BY <1>1, <1>2 DEF Injection, IsInjective, Surjection, ListsAll
<1>4. IsFiniteSet(S) /\ IsFiniteSet(T) /\ Cardinality(S) = n /\ Cardinality(T) = m
  <2>1. IsFiniteSet(S) /\ Cardinality(S) = IF 1 > n THEN 0 ELSE n - 1 + 1
    BY FS_Interval
  <2>2. IsFiniteSet(T) /\ Cardinality(T) = IF 1 > m THEN 0 ELSE m - 1 + 1
    BY <1>1, FS_Interval
  <2> QED BY <1>1, <2>1, <2>2
<1> HIDE DEF S, T
<1>5. Cardinality(T) = Cardinality(S)
  BY <1>3, <1>4, FS_Injection
<1> QED BY <1>4, <1>5

\* There is exactly one stable order.
LEMMA OneStableOrder ==
    ASSUME NEW lens \in Seq(Nat), NEW desc, NEW n \in Nat, NEW keys \in [1..n -> KeysOf(lens)]
    PROVE  \E p : /\ Ascends(p, n, 1..n, Precedes(n, keys, desc))
                  /\ \A r : Ascends(r, n, 1..n, Precedes(n, keys, desc)) => r = p
<1> DEFINE R == Precedes(n, keys, desc)
           S == 1..n
<1>1. IsOrder(R, S)
  BY PrecedesIsOrder
<1> HIDE DEF R
<1>2. PICK m \in 0..n : \E p : ListsAll(p, m, S, R)
  BY <1>1, ListExists
<1>3. PICK p : ListsAll(p, m, S, R)
  BY <1>2
<1>4. m = n
  BY <1>1, <1>3, AllAreCounted
<1>5. Ascends(p, n, S, R)
  BY <1>3, <1>4 DEF ListsAll
<1>6. ASSUME NEW r, Ascends(r, n, S, R) PROVE r = p
  <2>1. ListsAll(r, n, S, R)
    BY <1>1, <1>6, AscendingHasAll
  <2> QED BY <1>1, <1>3, <1>4, <2>1, OneList
<1> QED BY <1>5, <1>6 DEF R

\* Position a holds the first of the documents equal to the one at k, or one
\* of those before k.
Meets(docs, a, k) == a <= k /\ ~DocLess(docs[a], docs[k]) /\ ~DocLess(docs[k], docs[a])
Covering(p, m, n, docs) == \A k \in 1..n : \E i \in 1..m : Meets(docs, p[i], k)

\* An ascending list covers every document at its first occurrence exactly
\* when it lists the first occurrences.
LEMMA DistinctOrderIs ==
    ASSUME NEW l \in Nat, NEW n \in Nat, NEW docs \in [1..n -> DocsOf(l)],
           NEW m \in Nat, NEW p \in [1..m -> 1..n],
           \A i, j \in 1..m : i < j => DocLess(docs[p[i]], docs[p[j]])
    PROVE  ListsAll(p, m, Firsts(n, docs), Ascending(n, docs))
           <=> Covering(p, m, n, docs)
<1> DEFINE S == Firsts(n, docs)
           R == Ascending(n, docs)
           Covered == Covering(p, m, n, docs)
<1>1. \A i \in 1..m : p[i] \in 1..n
  OBVIOUS
<1>2. \A a, b \in 1..n : ~DocLess(docs[a], docs[b]) /\ ~DocLess(docs[b], docs[a]) <=> docs[a] = docs[b]
  BY DocOrder
<1>3. \A a \in S : a \in 1..n /\ \A j \in 1..(a - 1) : docs[j] # docs[a]
  BY DEF Firsts
<1>m. \A i \in 1..m : \A k \in 1..n : Meets(docs, p[i], k) <=> p[i] <= k /\ docs[p[i]] = docs[k]
  <2> SUFFICES ASSUME NEW i \in 1..m, NEW k \in 1..n
               PROVE  Meets(docs, p[i], k) <=> p[i] <= k /\ docs[p[i]] = docs[k]
    OBVIOUS
  <2>1. p[i] \in 1..n
    BY <1>1
  <2> QED BY <1>2, <2>1 DEF Meets
<1>4. ASSUME ListsAll(p, m, S, R) PROVE Covered
  <2> SUFFICES ASSUME NEW k \in 1..n
               PROVE  \E i \in 1..m : p[i] <= k /\ docs[p[i]] = docs[k]
    <3> QED BY <1>m DEF Covering
  <2> DEFINE Same == { j \in 1..n : docs[j] = docs[k] }
  <2>1. PICK j \in Same : \A h \in Same : j <= h
    <3>1. Same \subseteq Nat /\ k \in Same
      OBVIOUS
    <3> HIDE DEF Same
    <3> QED BY <3>1, LeastElement
  <2>2. j \in 1..n /\ docs[j] = docs[k] /\ j <= k
    BY <2>1
  <2>3. j \in S
    <3>1. ASSUME NEW h \in 1..(j - 1) PROVE docs[h] # docs[j]
      <4>1. h \in 1..n /\ h < j
        BY <2>2
      <4> QED BY <2>1, <2>2, <4>1
    <3> QED BY <2>2, <3>1 DEF Firsts
  <2>4. PICK i \in 1..m : p[i] = j
    BY <1>4, <2>3 DEF ListsAll
  <2> QED BY <2>2, <2>4
<1>5. ASSUME Covered PROVE ListsAll(p, m, S, R)
  <2>0. \A k \in 1..n : \E i \in 1..m : p[i] <= k /\ docs[p[i]] = docs[k]
    <3> QED BY <1>m, <1>5 DEF Covering
  <2>a. \A a, b \in 1..n : DocLess(docs[a], docs[b]) => docs[a] # docs[b]
    BY DocOrder
  <2>b. \A i, j \in 1..m : docs[p[i]] = docs[p[j]] => i = j
    <3> SUFFICES ASSUME NEW i \in 1..m, NEW j \in 1..m, i < j, docs[p[i]] = docs[p[j]]
                 PROVE  FALSE
      OBVIOUS
    <3>1. DocLess(docs[p[i]], docs[p[j]])
      OBVIOUS
    <3> QED BY <1>1, <2>a, <3>1
  <2>1. ASSUME NEW i \in 1..m PROVE p[i] \in S
    <3>1. ASSUME NEW h \in 1..(p[i] - 1), docs[h] = docs[p[i]] PROVE FALSE
      <4>1. h \in 1..n /\ h < p[i]
        BY <1>1
      <4>2. PICK j \in 1..m : p[j] <= h /\ docs[p[j]] = docs[h]
        BY <2>0, <4>1
      <4>3. j = i
        BY <2>b, <3>1, <4>2
      <4> QED BY <1>1, <4>1, <4>2, <4>3
    <3> QED BY <1>1, <3>1 DEF Firsts
  <2>2. ASSUME NEW k \in S PROVE \E i \in 1..m : p[i] = k
    <3>1. k \in 1..n /\ \A j \in 1..(k - 1) : docs[j] # docs[k]
      BY <1>3
    <3>2. PICK i \in 1..m : p[i] <= k /\ docs[p[i]] = docs[k]
      BY <2>0, <3>1
    <3>3. p[i] = k
      <4>1. p[i] \in 1..n
        BY <1>1
      <4> QED BY <3>1, <3>2, <4>1
    <3> QED BY <3>3
  <2>3. p \in [1..m -> S]
    BY <2>1
  <2>4. \A i, j \in 1..m : i < j => <<p[i], p[j]>> \in R
    BY <1>1 DEF Ascending
  <2> HIDE DEF S, R
  <2> QED BY <2>2, <2>3, <2>4 DEF ListsAll, Ascends
<1> QED BY <1>4, <1>5

\* There is exactly one list of the first occurrences.
LEMMA OneDistinctOrder ==
    ASSUME NEW l \in Nat, NEW n \in Nat, NEW docs \in [1..n -> DocsOf(l)]
    PROVE  \E m \in 0..n : \E p :
             /\ ListsAll(p, m, Firsts(n, docs), Ascending(n, docs))
             /\ \A r, k : ListsAll(r, k, Firsts(n, docs), Ascending(n, docs)) => r = p /\ k = m
<1> DEFINE S == Firsts(n, docs)
           R == Ascending(n, docs)
<1>1. IsOrder(R, S) /\ S \subseteq 1..n
  BY AscendingIsOrder DEF Firsts
<1> HIDE DEF R, S
<1>2. PICK m \in 0..n : \E p : ListsAll(p, m, S, R)
  BY <1>1, ListExists
<1>3. PICK p : ListsAll(p, m, S, R)
  BY <1>2
<1>4. \A r, k : ListsAll(r, k, S, R) => r = p /\ k = m
  BY <1>1, <1>3, OneList
<1> QED BY <1>3, <1>4 DEF R, S

-----------------------------------------------------------------------------
(* What the sorts of a query make of its results *)

Arity(res) == IF res \in {"doc", "gagg", "vagg"} THEN 2 ELSE 1
Candidate == [doc : MaybeRows, res : Docs, agg : Scalars]
KeyLens == [j \in DOMAIN q.order |-> IF q.order[j].by = "v" THEN 1 ELSE Arity(q.res)]

\* Results of the query, all of the same shape.
IsResults(s) == s \in Seq(Candidate) /\ \A i \in 1..Len(s) : s[i].res \in DocsOf(Arity(q.res))

LEMMA ResultLen ==
    ASSUME NEW res \in Results, NEW doc \in MaybeRows, NEW val \in Scalars
    PROVE  Result(res, doc, val) \in DocsOf(Arity(res))
<1>1. Result(res, doc, val) \in Docs
  BY ResultType
<1>2. \A x, y : Len(<<x>>) = 1 /\ Len(<<x, y>>) = 2
  OBVIOUS
<1>3. Len(Result(res, doc, val)) = Arity(res)
  BY <1>2 DEF Result, Arity, Results
<1> QED BY <1>1, <1>3 DEF DocsOf

LEMMA KeyShape ==
    ASSUME TypeOK, NEW doc \in MaybeRows, NEW res \in DocsOf(Arity(q.res))
    PROVE  OrderKey(q.order, doc, res) \in KeysOf(KeyLens) /\ KeyLens \in Seq(Nat)
<1>1. q.order \in Seq(OrderTerms) /\ res \in Docs /\ Len(res) = Arity(q.res)
  BY DEF TypeOK, Queries, DocsOf
<1>2. DOMAIN q.order = 1..Len(q.order) /\ Len(q.order) \in Nat
  BY <1>1
<1>3. OrderKey(q.order, doc, res) \in Seq(Docs)
  BY <1>1, OrderKeyType
<1>4. KeyLens \in Seq(Nat)
  <2>1. \A j \in 1..Len(q.order) : (IF q.order[j].by = "v" THEN 1 ELSE Arity(q.res)) \in Nat
    BY DEF Arity
  <2> QED BY <1>2, <2>1 DEF KeyLens
<1>5. Len(KeyLens) = Len(q.order) /\ Len(OrderKey(q.order, doc, res)) = Len(q.order)
  <2>1. DOMAIN KeyLens = 1..Len(q.order) /\ DOMAIN OrderKey(q.order, doc, res) = 1..Len(q.order)
    BY <1>2 DEF KeyLens, OrderKey
  <2> QED BY <1>2, <1>3, <1>4, <2>1
<1>6. Len(<<doc.v>>) = 1
  OBVIOUS
<1>7. <<doc.v>> \in Docs
  BY FieldTypes, TupleTypes
<1>8. ASSUME NEW i \in 1..Len(q.order)
      PROVE  OrderKey(q.order, doc, res)[i] \in DocsOf(KeyLens[i])
  BY <1>1, <1>2, <1>6, <1>7, <1>8 DEF OrderKey, KeyLens, DocsOf
<1> QED BY <1>3, <1>4, <1>5, <1>8 DEF KeysOf

LEMMA KeysAre ==
    ASSUME TypeOK, NEW s, IsResults(s)
    PROVE  /\ Len(s) \in Nat /\ DOMAIN s = 1..Len(s) /\ KeyLens \in Seq(Nat)
           /\ [i \in 1..Len(s) |-> KeyOf(s[i])] \in [1..Len(s) -> KeysOf(KeyLens)]
           /\ [i \in 1..Len(s) |-> s[i].res] \in [1..Len(s) -> DocsOf(Arity(q.res))]
<1>1. Len(s) \in Nat /\ DOMAIN s = 1..Len(s)
  BY DEF IsResults
<1>2. ASSUME NEW i \in 1..Len(s) PROVE KeyOf(s[i]) \in KeysOf(KeyLens)
  <2>1. s[i].doc \in MaybeRows /\ s[i].res \in DocsOf(Arity(q.res))
    <3>1. s[i] \in Candidate
      BY DEF IsResults
    <3> QED BY <3>1 DEF IsResults, Candidate
  <2> QED BY <2>1, KeyShape DEF KeyOf
<1>3. KeyLens \in Seq(Nat)
  <2>1. DOMAIN q.order = 1..Len(q.order) /\ Len(q.order) \in Nat
    BY DEF TypeOK, Queries
  <2>2. \A j \in 1..Len(q.order) : (IF q.order[j].by = "v" THEN 1 ELSE Arity(q.res)) \in Nat
    BY DEF Arity
  <2> QED BY <2>1, <2>2 DEF KeyLens
<1>4. \A i \in 1..Len(s) : s[i].res \in DocsOf(Arity(q.res))
  BY DEF IsResults
<1> QED BY <1>1, <1>2, <1>3, <1>4

LEMMA PickedAre ==
    ASSUME NEW s, IsResults(s), NEW m \in Nat, NEW p \in [1..m -> 1..Len(s)]
    PROVE  /\ IsResults([i \in 1..m |-> s[p[i]]])
           /\ Len([i \in 1..m |-> s[p[i]]]) = m
<1> DEFINE t == [i \in 1..m |-> s[p[i]]]
<1>1. DOMAIN s = 1..Len(s)
  BY DEF IsResults
<1>2. \A i \in 1..m : s[p[i]] \in Candidate /\ s[p[i]].res \in DocsOf(Arity(q.res))
  BY <1>1 DEF IsResults
<1>3. t \in Seq(Candidate)
  BY <1>2
<1>4. DOMAIN t = 1..m /\ \A i \in 1..m : t[i] = s[p[i]]
  OBVIOUS
<1>5. Len(t) = m
  BY <1>3, <1>4
<1> HIDE DEF t
<1>6. IsResults(t)
  BY <1>2, <1>3, <1>4, <1>5 DEF IsResults
<1> QED BY <1>5, <1>6 DEF t

\* ORDER BY puts the results in one order; whatever list of items with these
\* keys selectStepOrdered sorts, it puts them in that order.
LEMMA OrderedSorts ==
    ASSUME TypeOK, NEW s, IsResults(s)
    PROVE  \E p \in [1..Len(s) -> 1..Len(s)] :
             /\ Ordered(q, s) = [i \in 1..Len(s) |-> s[p[i]]]
             /\ \A items : /\ DOMAIN items = 1..Len(s)
                           /\ \A i \in 1..Len(s) : items[i].key = KeyOf(s[i])
                           => \A t \in StableSorts(items, OrderedBefore) :
                                t = [i \in 1..Len(s) |-> items[p[i]]]
             /\ q.order = <<>> => \A i \in 1..Len(s) : p[i] = i
<1> DEFINE n == Len(s)
           S == 1..n
           desc == Directions(q.order)
           keys == [i \in S |-> KeyOf(s[i])]
           R == Precedes(n, keys, desc)
           Before(a, b) == KeyLess(KeyOf(s[a]), KeyOf(s[b]), desc)
           Stable(f) == \A i, j \in DOMAIN f :
                          i < j => \/ Before(f[i], f[j])
                                   \/ ~Before(f[j], f[i]) /\ f[i] < f[j]
<1>1. n \in Nat /\ DOMAIN s = S /\ KeyLens \in Seq(Nat) /\ keys \in [S -> KeysOf(KeyLens)]
  BY KeysAre
<1>2. PICK p : /\ Ascends(p, n, S, R)
               /\ \A r : Ascends(r, n, S, R) => r = p
  <2> HIDE DEF keys, desc, n
  <2> QED BY <1>1, OneStableOrder
<1>3. ASSUME NEW f \in [S -> S]
      PROVE  Ascends(f, n, S, R) <=> Stable(f)
  <2>1. \A i \in S : f[i] \in S
    OBVIOUS
  <2>2. \A a, b \in S : <<a, b>> \in R <=> Before(a, b) \/ (~Before(b, a) /\ a < b)
    <3>1. \A a \in S : keys[a] = KeyOf(s[a])
      OBVIOUS
    <3> HIDE DEF keys, desc
    <3> QED BY <3>1 DEF Precedes
  <2> HIDE DEF R, Before
  <2> QED BY <2>1, <2>2 DEF Ascends
<1>4. p \in [S -> S] /\ Stable(p)
  <2>1. p \in [S -> S]
    BY <1>2 DEF Ascends
  <2> HIDE DEF R, Stable
  <2> QED BY <1>2, <1>3, <2>1
<1>5. \A f \in [S -> S] : Stable(f) => f = p
  <2> HIDE DEF R, Stable
  <2> QED BY <1>2, <1>3
<1>6. ASSUME NEW items, DOMAIN items = S, \A i \in S : items[i].key = KeyOf(s[i]),
             NEW t \in StableSorts(items, OrderedBefore)
      PROVE  t = [i \in S |-> items[p[i]]]
  <2>1. PICK f \in [S -> S] :
          /\ t = [i \in S |-> items[f[i]]]
          /\ \A i, j \in DOMAIN f :
               i < j => \/ OrderedBefore(items[f[i]], items[f[j]])
                        \/ ~OrderedBefore(items[f[j]], items[f[i]]) /\ f[i] < f[j]
    <3> HIDE DEF S
    <3> QED BY <1>6 DEF StableSorts, IsStableOrder
  <2>2. \A a, b \in S : OrderedBefore(items[a], items[b]) <=> Before(a, b)
    <3> HIDE DEF S
    <3> QED BY <1>6 DEF OrderedBefore
  <2>3. \A i \in S : f[i] \in S
    OBVIOUS
  <2>4. Stable(f)
    <3> HIDE DEF Before, S
    <3> QED BY <2>1, <2>2, <2>3
  <2>5. f = p
    <3> HIDE DEF Stable, S
    <3> QED BY <1>5, <2>4
  <2> QED BY <2>1, <2>5
<1>7. Ordered(q, s) = [i \in S |-> s[p[i]]]
  <2> DEFINE T == { [i \in S |-> s[f[i]]] : f \in { f \in [S -> S] : Stable(f) } }
             v == [i \in S |-> s[p[i]]]
  <2>1. Ordered(q, s) = CHOOSE x \in T : TRUE
    <3> HIDE DEF S
    <3> QED BY <1>1 DEF Ordered, SortedBy, Only, StableSorts, IsStableOrder, KeyOf
  <2>2. v \in T
    <3> HIDE DEF Stable, S
    <3> QED BY <1>4
  <2>3. \A x \in T : x = v
    <3> HIDE DEF Stable, S
    <3> QED BY <1>5
  <2> HIDE DEF T, v
  <2>4. (CHOOSE x \in T : TRUE) \in T
    BY <2>2
  <2>5. Ordered(q, s) = v
    BY <2>1, <2>3, <2>4
  <2> QED BY <2>5 DEF v
<1>8. ASSUME q.order = <<>> PROVE \A i \in S : p[i] = i
  <2> DEFINE id == [i \in S |-> i]
  <2>1. \A a, b \in S : ~Before(a, b)
    <3>1. \A a \in S : DOMAIN KeyOf(s[a]) = {}
      BY <1>8 DEF KeyOf, OrderKey
    <3> QED BY <3>1 DEF KeyLess
  <2>2. Stable(id)
    <3> HIDE DEF Before
    <3> QED BY <2>1
  <2>3. id = p
    <3>1. id \in [S -> S]
      OBVIOUS
    <3> HIDE DEF Stable, id, S
    <3> QED BY <1>5, <2>2, <3>1
  <2> QED BY <2>3
<1> HIDE DEF desc, keys, R, Before, Stable
<1> QED BY <1>4, <1>6, <1>7, <1>8

\* p lists the m positions of s that DISTINCT leaves; whatever list of items
\* with these results selectStepDistinct sorts, it leaves those.
LeavesDistinct(p, m, s) ==
    /\ p \in [1..m -> 1..Len(s)]
    /\ Distinct(q, s) = [i \in 1..m |-> s[p[i]]]
    /\ \A items : /\ DOMAIN items = 1..Len(s) /\ Len(items) = Len(s)
                  /\ \A i \in 1..Len(s) : items[i].res = s[i].res
                  => \A t \in DistinctSorts(items, DistinctBefore) :
                       t = [i \in 1..m |-> items[p[i]]]
    /\ s # <<>> => m > 0

\* DISTINCT leaves the first of equal results in one order.
LEMMA DistinctSortsAre ==
    ASSUME TypeOK, NEW s, IsResults(s), q.distinct
    PROVE  \E m \in 0..Len(s) : \E p : LeavesDistinct(p, m, s)
<1> DEFINE n == Len(s)
           S == 1..n
           docs == [i \in S |-> s[i].res]
           F == Firsts(n, docs)
           R == Ascending(n, docs)
           Before(a, b) == DocLess(s[a].res, s[b].res)
           Rises(f) == \A i, j \in DOMAIN f : i < j => Before(f[i], f[j])
           Covers(f) == \A a \in S : \E i \in DOMAIN f :
                          f[i] <= a /\ ~Before(f[i], a) /\ ~Before(a, f[i])
<1>1. n \in Nat /\ DOMAIN s = S /\ docs \in [S -> DocsOf(Arity(q.res))] /\ Arity(q.res) \in Nat
  BY KeysAre DEF Arity
<1>2. PICK m \in 0..n : \E p : /\ ListsAll(p, m, F, R)
                               /\ \A r, k : ListsAll(r, k, F, R) => r = p /\ k = m
  <2> HIDE DEF docs, n
  <2> QED BY <1>1, OneDistinctOrder
<1>3. PICK p : /\ ListsAll(p, m, F, R)
               /\ \A r, k : ListsAll(r, k, F, R) => r = p /\ k = m
  <2> HIDE DEF F, R
  <2> QED BY <1>2
<1>4. ASSUME NEW k \in Nat, NEW f \in [1..k -> S], Rises(f)
      PROVE  ListsAll(f, k, F, R) <=> Covers(f)
  <2>0. \A a \in S : docs[a] = s[a].res
    OBVIOUS
  <2>1. \A i \in 1..k : f[i] \in S /\ docs[f[i]] = s[f[i]].res
    OBVIOUS
  <2>d. DOMAIN f = 1..k
    OBVIOUS
  <2>l. Arity(q.res) \in Nat /\ n \in Nat /\ docs \in [1..n -> DocsOf(Arity(q.res))] /\ f \in [1..k -> 1..n]
    BY <1>1
  <2> HIDE DEF docs, n
  <2>2. \A i, j \in 1..k : i < j => DocLess(docs[f[i]], docs[f[j]])
    BY <1>4, <2>1, <2>d
  <2>3. ListsAll(f, k, F, R) <=> Covering(f, k, n, docs)
    BY <1>4, <2>2, <2>l, DistinctOrderIs
  <2>4. \A i \in 1..k : \A a \in S :
          Meets(docs, f[i], a) <=> f[i] <= a /\ ~Before(f[i], a) /\ ~Before(a, f[i])
    BY <2>0, <2>1, Zenon DEF Meets
  <2> HIDE DEF Before
  <2>5. Covering(f, k, n, docs) <=> Covers(f)
    BY <2>4, <2>d DEF Covering
  <2> HIDE DEF Covers
  <2> QED BY <2>3, <2>5
<1>5. m \in Nat /\ p \in [1..m -> S] /\ Rises(p) /\ Covers(p)
  <2>1. p \in [1..m -> F] /\ m \in Nat /\ \A i, j \in 1..m : i < j => <<p[i], p[j]>> \in R
    BY <1>3 DEF ListsAll, Ascends
  <2>2. p \in [1..m -> S]
    BY <2>1 DEF Firsts
  <2>3. Rises(p)
    <3>1. \A a \in S : docs[a] = s[a].res
      OBVIOUS
    <3>2. \A i \in 1..m : p[i] \in S
      BY <2>2
    <3> HIDE DEF docs
    <3>3. \A a, b \in S : <<a, b>> \in R <=> Before(a, b)
      BY <3>1 DEF Ascending
    <3>4. DOMAIN p = 1..m
      BY <2>2
    <3> HIDE DEF R, Before, F
    <3> QED BY <2>1, <3>2, <3>3, <3>4
  <2> HIDE DEF Rises, Covers, F, R
  <2> QED BY <1>3, <1>4, <2>1, <2>2, <2>3
<1>6. ASSUME NEW k \in Nat, NEW f \in [1..k -> S], Rises(f), Covers(f)
      PROVE  k = m /\ f = p
  <2>1. ListsAll(f, k, F, R)
    <3> HIDE DEF Rises, Covers, F, R
    <3> QED BY <1>4, <1>6
  <2> HIDE DEF F, R
  <2> QED BY <1>3, <2>1
<1>7. ASSUME NEW items, DOMAIN items = S, Len(items) = n, \A i \in S : items[i].res = s[i].res,
             NEW t \in DistinctSorts(items, DistinctBefore)
      PROVE  t = [i \in 1..m |-> items[p[i]]]
  <2> DEFINE SortsOf(k) == { [i \in 1..k |-> items[f[i]]] :
                               f \in { f \in [1..k -> DOMAIN items] : IsDistinctOrder(f, items, DistinctBefore) } }
  <2>1. PICK k \in 0..n : t \in SortsOf(k)
    <3>1. DistinctSorts(items, DistinctBefore) = UNION { SortsOf(k) : k \in 0..Len(items) }
      BY DEF DistinctSorts
    <3> HIDE DEF SortsOf
    <3> QED BY <1>7, <3>1
  <2>2. PICK f \in [1..k -> S] :
          /\ t = [i \in 1..k |-> items[f[i]]]
          /\ \A i, j \in DOMAIN f : i < j => DistinctBefore(items[f[i]], items[f[j]])
          /\ \A a \in DOMAIN items : \E i \in DOMAIN f :
               f[i] <= a /\ ~DistinctBefore(items[f[i]], items[a]) /\ ~DistinctBefore(items[a], items[f[i]])
    <3> HIDE DEF S
    <3> QED BY <1>7, <2>1 DEF IsDistinctOrder
  <2>3. \A a, b \in S : DistinctBefore(items[a], items[b]) <=> Before(a, b)
    <3> HIDE DEF S
    <3> QED BY <1>7 DEF DistinctBefore
  <2>4. DOMAIN f = 1..k /\ \A i \in 1..k : f[i] \in S
    OBVIOUS
  <2>5. Rises(f) /\ Covers(f)
    <3> HIDE DEF Before, S
    <3> QED BY <1>7, <2>2, <2>3, <2>4
  <2>6. k = m /\ f = p
    <3> HIDE DEF Rises, Covers
    <3> QED BY <1>1, <1>6, <2>1, <2>5
  <2> QED BY <2>2, <2>6
<1>8. Distinct(q, s) = [i \in 1..m |-> s[p[i]]]
  <2> DEFINE SortsOf(k) == { [i \in 1..k |-> s[g[i]]] :
                               g \in { f \in [1..k -> S] : Rises(f) /\ Covers(f) } }
             T == UNION { SortsOf(k) : k \in 0..n }
             v == [i \in 1..m |-> s[p[i]]]
  <2>1. Distinct(q, s) = CHOOSE x \in T : TRUE
    <3> DEFINE Less(x, y) == DocLess(x.res, y.res)
    <3>1. Distinct(q, s) = Only(DistinctSorts(s, Less))
      BY DEF Distinct
    <3>2. ASSUME NEW f PROVE IsDistinctOrder(f, s, Less) <=> Rises(f) /\ Covers(f)
      <4> HIDE DEF S
      <4> QED BY <1>1 DEF IsDistinctOrder
    <3>3. DistinctSorts(s, Less) = T
      <4>1. \A k : { f \in [1..k -> DOMAIN s] : IsDistinctOrder(f, s, Less) }
                  = { f \in [1..k -> S] : Rises(f) /\ Covers(f) }
        <5> HIDE DEF Less, Rises, Covers, S
        <5> QED BY <1>1, <3>2
      <4> HIDE DEF Less, Rises, Covers, S
      <4> QED BY <4>1 DEF DistinctSorts
    <3> HIDE DEF Less, T
    <3> QED BY <3>1, <3>3 DEF Only
  <2>2. v \in SortsOf(m)
    <3> HIDE DEF Rises, Covers, S
    <3> QED BY <1>5
  <2>3. v \in T
    <3> HIDE DEF SortsOf, v
    <3> QED BY <1>2, <2>2
  <2>4. ASSUME NEW x \in T PROVE x = v
    <3>1. PICK k \in 0..n : x \in SortsOf(k)
      <4> HIDE DEF SortsOf
      <4> QED OBVIOUS
    <3>2. PICK f \in [1..k -> S] : x = [i \in 1..k |-> s[f[i]]] /\ Rises(f) /\ Covers(f)
      <4> HIDE DEF Rises, Covers, S, T, v
      <4>1. PICK g \in { f \in [1..k -> S] : Rises(f) /\ Covers(f) } : x = [i \in 1..k |-> s[g[i]]]
        BY <3>1, Zenon
      <4>2. g \in [1..k -> S] /\ Rises(g) /\ Covers(g)
        BY <4>1
      <4> QED BY <4>1, <4>2, Zenon
    <3>3. k = m /\ f = p
      <4> HIDE DEF Rises, Covers, S, T, v, SortsOf
      <4>1. k \in Nat
        BY <1>1, <3>1
      <4> QED BY <1>6, <3>2, <4>1
    <3> QED BY <3>2, <3>3
  <2> HIDE DEF T, v
  <2>5. (CHOOSE x \in T : TRUE) \in T
    BY <2>3
  <2>6. Distinct(q, s) = v
    BY <2>1, <2>4, <2>5
  <2> QED BY <2>6 DEF v
<1>9. ASSUME s # <<>> PROVE m > 0
  <2>1. n # 0 /\ 1 \in S
    BY <1>1, <1>9 DEF IsResults
  <2>2. PICK i \in DOMAIN p : p[i] <= 1
    <3> HIDE DEF Before
    <3> QED BY <1>5, <2>1
  <2>3. i \in 1..m
    BY <1>5, <2>2
  <2> QED BY <1>5, <2>3
<1> HIDE DEF docs, F, R, Before, Rises, Covers
<1> QED BY <1>2, <1>5, <1>7, <1>8, <1>9 DEF LeavesDistinct

-----------------------------------------------------------------------------
(* What WHERE accepts while the scan goes on *)

\* Rows that WHERE refuses change nothing.
LEMMA ListsSkip ==
    ASSUME NEW where \in Nat, NEW rows \in Seq(Rows), NEW f, Lists(f, where, rows, Len(rows)),
           NEW i \in 0..Len(rows), NEW k \in i..Len(rows),
           \A j \in (i + 1)..k : rows[j].v < where
    PROVE  f[k] = f[i]
<1> DEFINE Bad == { m \in i..k : f[m] # f[i] }
<1>1. Len(rows) \in Nat /\ i \in Nat /\ k \in Nat /\ i <= k /\ k <= Len(rows)
  OBVIOUS
<1> SUFFICES ASSUME Bad # {} PROVE FALSE
  BY <1>1
<1>2. PICK m \in Bad : \A l \in Bad : m <= l
  <2>1. Bad \subseteq Nat
    BY <1>1
  <2> HIDE DEF Bad
  <2> QED BY <2>1, LeastElement
<1>3. m \in (i + 1)..k /\ m - 1 \in i..k /\ m \in 1..Len(rows) /\ f[m] # f[i]
  BY <1>1, <1>2
<1>4. f[m - 1] = f[i]
  BY <1>1, <1>2, <1>3
<1>5. rows[m] \in Rows /\ rows[m].v < where
  BY <1>3
<1>6. ~(rows[m].v >= where)
  <2>1. rows[m].v \in Int
    BY <1>5 DEF Rows
  <2> QED BY <1>5, <2>1
<1> HIDE DEF Bad
<1> QED BY <1>3, <1>4, <1>6 DEF Lists

IsPrefixOf(s, t) == Len(s) <= Len(t) /\ \A j \in 1..Len(s) : s[j] = t[j]

\* What was accepted stays, in front of what is accepted later.
LEMMA ListsGrow ==
    ASSUME NEW where \in Nat, NEW rows \in Seq(Rows), NEW f, Lists(f, where, rows, Len(rows)),
           NEW i \in 0..Len(rows), NEW k \in i..Len(rows)
    PROVE  IsPrefixOf(f[i], f[k])
<1> DEFINE Bad == { m \in i..k : ~IsPrefixOf(f[i], f[m]) }
<1>1. Len(rows) \in Nat /\ i \in Nat /\ k \in Nat /\ i <= k /\ k <= Len(rows)
  OBVIOUS
<1>2. \A m \in 0..Len(rows) : f[m] \in Seq(Rows)
  BY DEF Lists
<1> SUFFICES ASSUME Bad # {} PROVE FALSE
  BY <1>1
<1>3. PICK m \in Bad : \A l \in Bad : m <= l
  <2>1. Bad \subseteq Nat
    BY <1>1
  <2> HIDE DEF Bad
  <2> QED BY <2>1, LeastElement
<1>4. m \in i..k /\ ~IsPrefixOf(f[i], f[m])
  BY <1>3
<1>5. m # i
  BY <1>1, <1>2, <1>4 DEF IsPrefixOf
<1>6. m - 1 \in i..k /\ m - 1 \in 0..Len(rows) /\ m \in 1..Len(rows)
  BY <1>1, <1>4, <1>5
<1>7. IsPrefixOf(f[i], f[m - 1])
  BY <1>1, <1>3, <1>6
<1>8. \A s \in Seq(Rows), x \in Rows :
        Len(Append(s, x)) = Len(s) + 1 /\ \A j \in 1..Len(s) : Append(s, x)[j] = s[j]
  OBVIOUS
<1>9. rows[m] \in Rows /\ f[m - 1] \in Seq(Rows) /\ f[i] \in Seq(Rows)
  BY <1>1, <1>2, <1>6
<1>10. f[m] = Append(f[m - 1], rows[m]) \/ f[m] = f[m - 1]
  BY <1>6, Zenon DEF Lists
<1>11. Len(f[i]) \in Nat /\ Len(f[m - 1]) \in Nat
  BY <1>9
<1> HIDE DEF Bad
<1>12. CASE f[m] = f[m - 1]
  BY <1>4, <1>7, <1>12
<1>13. CASE f[m] = Append(f[m - 1], rows[m])
  <2>1. Len(f[m]) = Len(f[m - 1]) + 1 /\ \A j \in 1..Len(f[m - 1]) : f[m][j] = f[m - 1][j]
    BY <1>8, <1>9, <1>13
  <2>2. Len(f[i]) <= Len(f[m - 1]) /\ \A j \in 1..Len(f[i]) : f[i][j] = f[m - 1][j]
    BY <1>7 DEF IsPrefixOf
  <2>3. Len(f[i]) <= Len(f[m]) /\ \A j \in 1..Len(f[i]) : f[i][j] = f[m][j]
    BY <1>11, <2>1, <2>2
  <2> QED BY <1>4, <2>3 DEF IsPrefixOf
<1> QED BY <1>10, <1>12, <1>13

-----------------------------------------------------------------------------
(* The minimum and the maximum of a list of rows, one row at a time *)

Better(agg, x, y) == IF agg = "min" THEN x < y ELSE x > y

\* Row i is the first of the best of the first n rows.
IsBest(agg, rows, n, i) ==
    /\ i \in 1..n
    /\ \A j \in 1..n : ~Better(agg, rows[j].v, rows[i].v)
    /\ \A j \in 1..(i - 1) : Better(agg, rows[i].v, rows[j].v)

LEMMA RowValues ==
    ASSUME NEW rows \in Seq(Rows)
    PROVE  /\ Len(rows) \in Nat /\ DOMAIN rows = 1..Len(rows)
           /\ \A i \in 1..Len(rows) : rows[i] \in Rows /\ rows[i].v \in Int /\ rows[i] \in MaybeRows
<1>1. \A i \in 1..Len(rows) : rows[i] \in Rows
  OBVIOUS
<1>2. \A row \in Rows : row.v \in Int /\ row \in MaybeRows
  BY DEF Rows, MaybeRows
<1> QED BY <1>1, <1>2

\* The next row is the best if it is better than the best so far.
LEMMA BestGoesOn ==
    ASSUME NEW agg, NEW rows \in Seq(Rows), NEW n \in 1..Len(rows), n + 1 \in 1..Len(rows),
           NEW i, IsBest(agg, rows, n, i)
    PROVE  IF Better(agg, rows[n + 1].v, rows[i].v)
           THEN IsBest(agg, rows, n + 1, n + 1) ELSE IsBest(agg, rows, n + 1, i)
<1>1. /\ Len(rows) \in Nat /\ n \in Nat /\ i \in 1..n /\ (n + 1) - 1 = n
      /\ \A j \in 1..(n + 1) : rows[j].v \in Int
      /\ \A j \in 1..(n + 1) : j \in 1..n \/ j = n + 1
  BY RowValues DEF IsBest
<1> DEFINE v(j) == rows[j].v
<1>2. \A j \in 1..(n + 1) : v(j) \in Int
  BY <1>1
<1>3. /\ \A j \in 1..n : ~Better(agg, v(j), v(i))
      /\ \A j \in 1..(i - 1) : Better(agg, v(i), v(j))
  BY DEF IsBest
<1>4. i \in 1..(n + 1) /\ n + 1 \in 1..(n + 1) /\ \A j \in 1..n : j \in 1..(n + 1)
  BY <1>1
<1> HIDE DEF v
<1>5. CASE Better(agg, v(n + 1), v(i))
  <2>1. \A j \in 1..n : Better(agg, v(n + 1), v(j))
    BY <1>1, <1>2, <1>3, <1>4, <1>5 DEF Better
  <2>2. \A j \in 1..(n + 1) : ~Better(agg, v(j), v(n + 1))
    BY <1>1, <1>2, <1>4, <2>1 DEF Better
  <2> QED BY <1>1, <1>4, <1>5, <2>1, <2>2 DEF IsBest, v
<1>6. CASE ~Better(agg, v(n + 1), v(i))
  <2>1. \A j \in 1..(n + 1) : ~Better(agg, v(j), v(i))
    BY <1>1, <1>3, <1>6
  <2> QED BY <1>3, <1>4, <1>6, <2>1 DEF IsBest, v
<1> QED BY <1>5, <1>6 DEF v

LEMMA BestExists ==
    ASSUME NEW agg, NEW rows \in Seq(Rows), rows # <<>>
    PROVE  \E i \in 1..Len(rows) : IsBest(agg, rows, Len(rows), i)
<1> DEFINE Bad == { n \in 1..Len(rows) : ~\E i \in 1..n : IsBest(agg, rows, n, i) }
<1>1. Len(rows) \in Nat /\ Len(rows) # 0
  OBVIOUS
<1>2. Len(rows) \in 1..Len(rows)
  BY <1>1
<1> SUFFICES ASSUME Bad # {} PROVE FALSE
  BY <1>2
<1>3. PICK n \in Bad : \A l \in Bad : n <= l
  <2>1. Bad \subseteq Nat
    OBVIOUS
  <2> HIDE DEF Bad
  <2> QED BY <2>1, LeastElement
<1>4. n \in 1..Len(rows) /\ ~\E i \in 1..n : IsBest(agg, rows, n, i)
  BY <1>3
<1>5. CASE n = 1
  <2>1. rows[1].v \in Int
    BY <1>4, <1>5, RowValues
  <2>2. IsBest(agg, rows, 1, 1)
    BY <2>1 DEF IsBest, Better
  <2> QED BY <1>4, <1>5, <2>2
<1>6. CASE n # 1
  <2>1. n - 1 \in 1..Len(rows) /\ (n - 1) + 1 = n /\ n - 1 < n /\ n \in 1..n
    BY <1>1, <1>4, <1>6
  <2>2. n - 1 \notin Bad
    <3> HIDE DEF Bad
    <3> QED BY <1>1, <1>3, <1>4, <2>1
  <2>3. PICK i \in 1..(n - 1) : IsBest(agg, rows, n - 1, i)
    BY <2>1, <2>2
  <2>4. IsBest(agg, rows, n, n) \/ IsBest(agg, rows, n, i)
    BY <1>4, <2>1, <2>3, BestGoesOn
  <2>5. i \in 1..n
    BY <1>1, <1>4, <2>3
  <2> QED BY <1>4, <2>1, <2>4, <2>5
<1> QED BY <1>5, <1>6

LEMMA BestIs ==
    ASSUME NEW rows \in Seq(Rows), NEW i, q.agg \in {"min", "max"}, IsBest(q.agg, rows, Len(rows), i)
    PROVE  /\ AggregateOf(q.agg, rows) = rows[i].v
           /\ Representative(q, rows) = rows[i]
           /\ rows # <<>>
<1> DEFINE n == Len(rows)
           vs == { rows[j].v : j \in DOMAIN rows }
           x == rows[i].v
<1>1. /\ n \in Nat /\ DOMAIN rows = 1..n /\ i \in 1..n /\ \A j \in 1..n : rows[j].v \in Int
      /\ \A j \in 1..n : ~Better(q.agg, rows[j].v, x)
      /\ \A j \in 1..(i - 1) : Better(q.agg, x, rows[j].v) /\ j \in 1..n
  BY RowValues DEF IsBest
<1>2. rows # <<>>
  BY <1>1
<1>3. x \in vs /\ x \in Int /\ \A y \in vs : y \in Int /\ ~Better(q.agg, y, x)
  BY <1>1
<1>4. vs # {}
  BY <1>3
<1>5. AggregateOf(q.agg, rows) = x
  <2>1. CASE q.agg = "min"
    <3>1. AggregateOf(q.agg, rows) = CHOOSE z \in vs : \A y \in vs : z <= y
      BY <1>4, <2>1 DEF AggregateOf
    <3>2. \A y \in vs : x <= y
      <4> HIDE DEF vs, x
      <4> QED BY <1>3, <2>1 DEF Better
    <3> HIDE DEF vs, x
    <3>3. \A z \in vs : (\A y \in vs : z <= y) => z = x
      BY <1>3, <3>2
    <3> QED BY <1>3, <3>1, <3>2, <3>3
  <2>2. CASE q.agg = "max"
    <3>1. AggregateOf(q.agg, rows) = CHOOSE z \in vs : \A y \in vs : z >= y
      BY <1>4, <2>2 DEF AggregateOf
    <3>2. \A y \in vs : x >= y
      <4> HIDE DEF vs, x
      <4> QED BY <1>3, <2>2 DEF Better
    <3> HIDE DEF vs, x
    <3>3. \A z \in vs : (\A y \in vs : z >= y) => z = x
      BY <1>3, <3>2
    <3> QED BY <1>3, <3>1, <3>2, <3>3
  <2> QED BY <2>1, <2>2
<1>6. Representative(q, rows) = rows[i]
  <2> DEFINE First(j) == rows[j].v = AggregateOf(q.agg, rows)
                         /\ \A l \in 1..(j - 1) : rows[l].v # rows[j].v
  <2>1. Representative(q, rows) = rows[CHOOSE j \in DOMAIN rows : First(j)]
    BY <1>2, Zenon DEF Representative
  <2>2. First(i)
    BY <1>1, <1>5 DEF Better
  <2>3. \A j \in 1..n : First(j) => j = i
    <3> SUFFICES ASSUME NEW j \in 1..n, rows[j].v = x, \A l \in 1..(j - 1) : rows[l].v # rows[j].v
                 PROVE  j = i
      BY <1>5
    <3>1. ~(i < j)
      <4> SUFFICES ASSUME i < j PROVE FALSE
        OBVIOUS
      <4>1. i \in 1..(j - 1)
        BY <1>1
      <4> QED BY <4>1
    <3>2. ~(j < i)
      <4> SUFFICES ASSUME j < i PROVE FALSE
        OBVIOUS
      <4>1. j \in 1..(i - 1)
        BY <1>1
      <4> QED BY <1>1, <4>1 DEF Better
    <3> QED BY <1>1, <3>1, <3>2
  <2> HIDE DEF First
  <2> QED BY <1>1, <2>1, <2>2, <2>3
<1> QED BY <1>2, <1>5, <1>6

-----------------------------------------------------------------------------
(* The answer of a query without GROUP BY, clause by clause *)

LEMMA TakenIs ==
    ASSUME TypeOK
    PROVE  /\ Lists(Taken, q.where, table, Len(table))
           /\ q.where \in Nat /\ table \in Seq(Rows) /\ Len(table) \in Nat
           /\ \A k \in 0..Len(table) : Taken[k] \in Seq(Rows)
           /\ Taken[0] = <<>>
           /\ Found \in Seq(Rows)
<1>1. q.where \in Nat /\ table \in Seq(Rows) /\ Len(table) \in Nat
  BY DEF TypeOK, Queries
<1>2. Lists(Taken, q.where, table, Len(table))
  BY <1>1, AcceptedIs DEF Taken
<1>3. (\A k \in 0..Len(table) : Taken[k] \in Seq(Rows)) /\ Taken[0] = <<>>
  BY <1>2 DEF Lists
<1>4. Len(table) \in 0..Len(table)
  BY <1>1
<1> QED BY <1>1, <1>2, <1>3, <1>4 DEF Found

LEMMA AggregatedType ==
    ASSUME TypeOK, ~q.grouped, IsAggregate(q), NEW rows \in Seq(Rows)
    PROVE  Representative(q, rows) \in MaybeRows /\ AggregateOf(q.agg, rows) \in Scalars
<1>1. q.agg \in {"count", "min", "max"}
  BY DEF TypeOK, Queries, Aggs, IsAggregate
<1>2. Null \in Scalars /\ Int \subseteq Scalars /\ NoDoc \in MaybeRows
  BY DEF Scalars, MaybeRows
<1>3. Len(rows) \in Nat /\ \A i \in 1..Len(rows) : rows[i].v \in Int /\ rows[i] \in MaybeRows
  BY RowValues
<1>4. CASE rows = <<>>
  <2>1. Representative(q, rows) = NoDoc
    BY <1>4 DEF Representative
  <2>2. { rows[i].v : i \in DOMAIN rows } = {}
    BY <1>4
  <2>3. AggregateOf(q.agg, rows) \in {Null, Len(rows)}
    <3>1. CASE q.agg = "count"
      BY <3>1 DEF AggregateOf
    <3>2. CASE q.agg # "count"
      BY <1>1, <2>2, <3>2, Zenon DEF AggregateOf
    <3> QED BY <3>1, <3>2
  <2> QED BY <1>2, <1>3, <2>1, <2>3
<1>5. CASE rows # <<>> /\ q.agg \in {"min", "max"}
  <2>1. PICK i \in 1..Len(rows) : IsBest(q.agg, rows, Len(rows), i)
    BY <1>5, BestExists
  <2>2. AggregateOf(q.agg, rows) = rows[i].v /\ Representative(q, rows) = rows[i]
    BY <1>5, <2>1, BestIs
  <2> QED BY <1>2, <1>3, <2>2
<1>6. CASE rows # <<>> /\ q.agg = "count"
  <2>1. AggregateOf(q.agg, rows) = Len(rows)
    BY <1>6 DEF AggregateOf
  <2>2. Representative(q, rows) = Head(rows)
    BY <1>6 DEF Representative
  <2>3. Head(rows) = rows[1] /\ 1 \in 1..Len(rows)
    BY <1>3, <1>6
  <2> QED BY <1>2, <1>3, <2>1, <2>2, <2>3
<1> QED BY <1>1, <1>4, <1>5, <1>6

\* What the scan delivers: one result for each row, or one for all.
LEMMA CandsAre ==
    ASSUME TypeOK, ~q.grouped
    PROVE  /\ IsResults(Cands)
           /\ IsAggregate(q) => Len(Cands) = 1 /\ Cands[1] = Aggregated(q, Found)
           /\ ~IsAggregate(q) =>
                /\ Len(Cands) = Len(Found)
                /\ \A i \in 1..Len(Found) :
                     Cands[i] = [doc |-> Found[i], res |-> Result(q.res, Found[i], Null), agg |-> Null]
<1>0. q.res \in Results /\ Null \in Scalars
  BY DEF TypeOK, Queries, Scalars
<1>1. Found \in Seq(Rows)
  BY TakenIs
<1>2. Len(Found) \in Nat /\ DOMAIN Found = 1..Len(Found)
      /\ \A i \in 1..Len(Found) : Found[i] \in MaybeRows
  BY <1>1, RowValues
<1>3. CASE ~IsAggregate(q)
  <2> DEFINE At(i) == [doc |-> Found[i], res |-> Result(q.res, Found[i], Null), agg |-> Null]
  <2>1. Cands = [i \in 1..Len(Found) |-> At(i)]
    BY <1>2, <1>3 DEF Cands, Candidates
  <2>2. ASSUME NEW i \in 1..Len(Found)
        PROVE  At(i) \in Candidate /\ At(i).res \in DocsOf(Arity(q.res))
    <3>1. Result(q.res, Found[i], Null) \in DocsOf(Arity(q.res))
      BY <1>0, <1>2, ResultLen
    <3>2. Found[i] \in MaybeRows
      BY <1>2
    <3> QED BY <1>0, <3>1, <3>2 DEF Candidate, DocsOf
  <2>3. \A i \in 1..Len(Found) : At(i) = [doc |-> Found[i], res |-> Result(q.res, Found[i], Null), agg |-> Null]
    OBVIOUS
  <2> HIDE DEF At
  <2>4. Cands \in Seq(Candidate)
    BY <1>2, <2>1, <2>2, IsASeq
  <2>5. Len(Cands) = Len(Found) /\ \A i \in 1..Len(Found) : Cands[i] = At(i)
    BY <1>2, <2>1, <2>4
  <2>6. IsResults(Cands)
    BY <2>2, <2>4, <2>5 DEF IsResults
  <2> QED BY <1>3, <2>3, <2>5, <2>6
<1>4. CASE IsAggregate(q)
  <2>1. Cands = <<Aggregated(q, Found)>>
    BY <1>4 DEF Cands, Candidates
  <2>2. Representative(q, Found) \in MaybeRows /\ AggregateOf(q.agg, Found) \in Scalars
    BY <1>1, <1>4, AggregatedType
  <2> DEFINE rep1 == Representative(q, Found)
             val == AggregateOf(q.agg, Found)
  <2>3. Result(q.res, rep1, val) \in DocsOf(Arity(q.res))
    BY <1>0, <2>2, ResultLen
  <2>4. Aggregated(q, Found) = [doc |-> rep1, res |-> Result(q.res, rep1, val), agg |-> val]
    BY DEF Aggregated
  <2> HIDE DEF rep1, val
  <2>5. Aggregated(q, Found) \in Candidate /\ Aggregated(q, Found).res \in DocsOf(Arity(q.res))
    <3>1. rep1 \in MaybeRows /\ val \in Scalars /\ Result(q.res, rep1, val) \in Docs
      BY <2>2, <2>3 DEF DocsOf, rep1, val
    <3> QED BY <2>3, <2>4, <3>1 DEF Candidate
  <2>6. Cands \in Seq(Candidate) /\ Len(Cands) = 1 /\ Cands[1] = Aggregated(q, Found)
    BY <2>1, <2>5
  <2>7. IsResults(Cands)
    BY <2>5, <2>6 DEF IsResults
  <2> QED BY <1>4, <2>6, <2>7
<1> QED BY <1>3, <1>4

LEMMA KeptAre ==
    ASSUME TypeOK, ~q.grouped
    PROVE  IsResults(Kept) /\ (~q.distinct => Kept = Cands)
<1>1. IsResults(Cands)
  BY CandsAre
<1>2. CASE ~q.distinct
  BY <1>1, <1>2 DEF Kept, Distinct
<1>3. CASE q.distinct
  <2>1. PICK m \in 0..Len(Cands) : \E p : LeavesDistinct(p, m, Cands)
    BY <1>1, <1>3, DistinctSortsAre
  <2>2. m \in Nat
    BY <2>1
  <2>3. PICK p \in [1..m -> 1..Len(Cands)] : Distinct(q, Cands) = [i \in 1..m |-> Cands[p[i]]]
    BY <2>1 DEF LeavesDistinct
  <2>4. IsResults([i \in 1..m |-> Cands[p[i]]])
    BY <1>1, <2>2, PickedAre, Zenon
  <2>5. Kept = [i \in 1..m |-> Cands[p[i]]]
    BY <2>3 DEF Kept
  <2> QED BY <1>3, <2>4, <2>5
<1> QED BY <1>2, <1>3

LEMMA InOrderAre ==
    ASSUME TypeOK, ~q.grouped
    PROVE  /\ IsResults(InOrder)
           /\ Len(InOrder) = Len(Kept) /\ Len(Kept) \in Nat
           /\ q.order = <<>> => InOrder = Kept
<1>1. IsResults(Kept) /\ Len(Kept) \in Nat
  BY KeptAre DEF IsResults
<1>2. PICK p \in [1..Len(Kept) -> 1..Len(Kept)] :
        /\ Ordered(q, Kept) = [i \in 1..Len(Kept) |-> Kept[p[i]]]
        /\ q.order = <<>> => \A i \in 1..Len(Kept) : p[i] = i
  BY <1>1, OrderedSorts
<1>3. IsResults(InOrder) /\ Len(InOrder) = Len(Kept)
  <2>1. /\ IsResults([i \in 1..Len(Kept) |-> Kept[p[i]]])
        /\ Len([i \in 1..Len(Kept) |-> Kept[p[i]]]) = Len(Kept)
    <3>1. PICK s, m : s = Kept /\ m = Len(Kept)
      OBVIOUS
    <3>2. IsResults(s) /\ m \in Nat /\ p \in [1..m -> 1..Len(s)]
      BY <1>1, <1>2, <3>1, Zenon
    <3>3. IsResults([i \in 1..m |-> s[p[i]]]) /\ Len([i \in 1..m |-> s[p[i]]]) = m
      BY <3>2, PickedAre
    <3> QED BY <3>1, <3>3, Zenon
  <2>2. InOrder = [i \in 1..Len(Kept) |-> Kept[p[i]]]
    BY <1>2 DEF InOrder
  <2> QED BY <2>1, <2>2
<1>4. ASSUME q.order = <<>> PROVE InOrder = Kept
  <2>1. InOrder = [i \in 1..Len(Kept) |-> Kept[i]]
    BY <1>2, <1>4 DEF InOrder
  <2>2. Kept = [i \in 1..Len(Kept) |-> Kept[i]]
    BY <1>1 DEF IsResults
  <2> QED BY <2>1, <2>2
<1> QED BY <1>1, <1>3, <1>4

LEMMA AnswerIs ==
    ASSUME TypeOK, ~q.grouped
    PROVE  /\ Answer(q, table) \in Seq(Docs)
           /\ Len(Answer(q, table)) =
                LET to == IF q.limit < 0 \/ Off + q.limit > Len(InOrder) THEN Len(InOrder) ELSE Off + q.limit
                IN  IF to > Off THEN to - Off ELSE 0
           /\ \A i \in 1..Len(Answer(q, table)) :
                Off + i \in 1..Len(InOrder) /\ Answer(q, table)[i] = InOrder[Off + i].res
<1> DEFINE to == IF q.limit < 0 \/ Off + q.limit > Len(InOrder) THEN Len(InOrder) ELSE Off + q.limit
           slice == SubSeq(InOrder, Off + 1, to)
<1>1. InOrder \in Seq(Candidate) /\ Len(InOrder) \in Nat
  BY InOrderAre DEF IsResults
<1>2. q.limit \in Int /\ q.offset \in Int /\ Off \in Nat /\ to \in Int /\ to <= Len(InOrder)
  BY <1>1 DEF TypeOK, Queries, Off
<1>3. Slice(q, InOrder) = slice
  <2> DEFINE upto == IF q.limit < 0 THEN Len(InOrder) ELSE (1 + Off) + q.limit - 1
  <2>1. Slice(q, InOrder) = SubSeq(InOrder, 1 + Off, IF upto < Len(InOrder) THEN upto ELSE Len(InOrder))
    BY DEF Slice, Off
  <2>2. (IF upto < Len(InOrder) THEN upto ELSE Len(InOrder)) = to /\ 1 + Off = Off + 1
    BY <1>1, <1>2
  <2> HIDE DEF to, upto
  <2> QED BY <2>1, <2>2
<1>4. Answer(q, table) = [i \in DOMAIN slice |-> slice[i].res]
  BY <1>3 DEF Answer, InOrder, Kept, Cands, Found, Taken
<1> HIDE DEF to
<1>5. /\ slice \in Seq(Candidate)
      /\ Len(slice) = IF Off + 1 <= to THEN to - (Off + 1) + 1 ELSE 0
      /\ \A i \in 1..(to - (Off + 1) + 1) : slice[i] = InOrder[Off + 1 + i - 1]
  <2>1. \A i \in (Off + 1)..to : InOrder[i] \in Candidate
    BY <1>1, <1>2
  <2>2. Off + 1 \in Int
    BY <1>2
  <2>3. ASSUME NEW a \in Int, NEW b \in Int, \A i \in a..b : InOrder[i] \in Candidate
        PROVE  /\ SubSeq(InOrder, a, b) \in Seq(Candidate)
               /\ Len(SubSeq(InOrder, a, b)) = IF a <= b THEN b - a + 1 ELSE 0
               /\ \A i \in 1..(b - a + 1) : SubSeq(InOrder, a, b)[i] = InOrder[a + i - 1]
    BY <2>3, SubSeqProperties
  <2> QED BY <1>2, <2>1, <2>2, <2>3, Zenon
<1> DEFINE n == IF to > Off THEN to - Off ELSE 0
<1> HIDE DEF slice
<1>6. n \in Nat /\ Len(slice) = n /\ DOMAIN slice = 1..n
      /\ \A i \in 1..n : Off + i \in 1..Len(InOrder) /\ slice[i] = InOrder[Off + i] /\ slice[i] \in Candidate
  <2>1. n \in Nat /\ Len(slice) = n
    BY <1>2, <1>5
  <2>2. \A i \in 1..n : Off + i \in 1..Len(InOrder) /\ slice[i] = InOrder[Off + i]
    <3> SUFFICES ASSUME NEW i \in 1..n
                 PROVE  Off + i \in 1..Len(InOrder) /\ slice[i] = InOrder[Off + i]
      OBVIOUS
    <3>1. i \in 1..(to - (Off + 1) + 1) /\ Off + 1 + i - 1 = Off + i /\ Off + i \in 1..Len(InOrder)
      BY <1>1, <1>2
    <3>2. slice[i] = InOrder[Off + 1 + i - 1]
      BY <1>5, <3>1
    <3> QED BY <3>1, <3>2
  <2> QED BY <1>5, <2>1, <2>2
<1>7. \A i \in 1..n : slice[i].res \in Docs
  BY <1>6 DEF Candidate
<1> HIDE DEF n
<1>8. Answer(q, table) = [i \in 1..n |-> slice[i].res]
  BY <1>4, <1>6
<1>9. Answer(q, table) \in Seq(Docs)
  BY <1>6, <1>7, <1>8, IsASeq
<1>10. Len(Answer(q, table)) = n /\ \A i \in 1..n : Answer(q, table)[i] = slice[i].res
  BY <1>6, <1>8, <1>9
<1> QED BY <1>6, <1>9, <1>10 DEF n, to

-----------------------------------------------------------------------------
(* What a step leaves as it was *)

LEMMA CaseStays ==
    ASSUME UNCHANGED case
    PROVE  /\ q' = q /\ table' = table /\ answer' = answer
           /\ Taken' = Taken /\ Found' = Found /\ Cands' = Cands /\ Kept' = Kept
           /\ InOrder' = InOrder /\ Off' = Off
           /\ Answerable' <=> Answerable
<1>1. q' = q /\ table' = table /\ answer' = answer
  BY DEF case
<1>2. Taken' = Taken /\ Off' = Off
  BY <1>1 DEF Taken, Off
<1>3. Found' = Found
  BY <1>1, <1>2 DEF Found
<1>4. Cands' = Cands
  BY <1>1, <1>3 DEF Cands
<1>5. Kept' = Kept
  BY <1>1, <1>4 DEF Kept
<1>6. InOrder' = InOrder
  BY <1>1, <1>5 DEF InOrder
<1>7. Answerable' <=> Answerable
  BY <1>1, <1>4 DEF Answerable, IsAggregate
<1> QED BY <1>1, <1>2, <1>3, <1>4, <1>5, <1>6, <1>7

LEMMA Sizes ==
    ASSUME TypeOK, Answerable
    PROVE  /\ Len(Cands) \in Nat /\ Len(Kept) \in Nat /\ Len(InOrder) = Len(Kept)
           /\ Len(out) \in Nat /\ Off \in Nat
           /\ Len(ordered.items) \in Nat /\ Len(distincted.items) \in Nat
           /\ q.limit \in Int /\ q.offset \in Int /\ nLimit \in Int /\ nOffset \in Int
           /\ limitValid \in BOOLEAN
           /\ ~q.distinct => Kept = Cands
           /\ q.order = <<>> => InOrder = Kept
           /\ IsAggregate(q) => Len(Cands) = 1
           /\ q.distinct => Cands # <<>> /\ ~IsAggregate(q)
<1>1. ~q.grouped /\ (q.distinct => Cands # <<>> /\ ~IsAggregate(q))
  BY DEF Answerable
<1>2. Len(Cands) \in Nat /\ (IsAggregate(q) => Len(Cands) = 1)
  <2>1. IsResults(Cands) /\ (IsAggregate(q) => Len(Cands) = 1)
    BY <1>1, CandsAre, Zenon
  <2> QED BY <2>1 DEF IsResults
<1>3. (~q.distinct => Kept = Cands) /\ Len(Kept) \in Nat /\ Len(InOrder) = Len(Kept)
      /\ (q.order = <<>> => InOrder = Kept)
  BY <1>1, KeptAre, InOrderAre
<1>4. /\ q.limit \in Int /\ q.offset \in Int /\ nLimit \in Int /\ nOffset \in Int /\ limitValid \in BOOLEAN
      /\ Len(out) \in Nat /\ Len(ordered.items) \in Nat /\ Len(distincted.items) \in Nat
  BY DEF TypeOK, Queries, ListsOf
<1>5. Off \in Nat
  BY <1>4 DEF Off
<1> QED BY <1>1, <1>2, <1>3, <1>4, <1>5

LEMMA ScanStays ==
    ASSUME UNCHANGED <<case, pos, grouped, aggCtx, aggValue, docFrom>>, NEW k, ScanAt(k)
    PROVE  ScanAt(k)'
BY CaseStays DEF ScanAt

LEMMA DistinctStays ==
    ASSUME UNCHANGED <<case, pos, grouped, aggCtx, aggValue, docFrom, distincted>>, NEW k, DistinctAt(k)
    PROVE  DistinctAt(k)'
<1>1. ScanAt(k) => ScanAt(k)'
  BY ScanStays
<1>2. ScanAt(0) => ScanAt(0)'
  BY ScanStays
<1> QED BY <1>1, <1>2, CaseStays DEF DistinctAt, HoldsFrom

LEMMA TopStays ==
    ASSUME UNCHANGED <<case, pos, grouped, aggCtx, aggValue, docFrom, distincted, ordered>>, NEW k, TopAt(k)
    PROVE  TopAt(k)'
<1>1. DistinctAt(k) => DistinctAt(k)'
  BY DistinctStays
<1>2. DistinctAt(0) => DistinctAt(0)'
  BY DistinctStays
<1> QED BY <1>1, <1>2, CaseStays DEF TopAt, HoldsFrom

LEMMA ReturnedStays ==
    ASSUME Returned, pc # "idle", UNCHANGED <<case, client>>, aggValue' = aggValue \/ IsAggregate(q)
    PROVE  Returned'
BY CaseStays DEF Returned, client

LEMMA CallStays ==
    ASSUME UNCHANGED <<case, limits, out>>
    PROVE  /\ Asked' = Asked /\ (Calling' <=> Calling)
           /\ \A n : LimitLeft(n)' <=> LimitLeft(n)
BY CaseStays DEF Asked, Calling, LimitLeft, limits
\* The invariants of a place where the call is not, hold there.
LEMMA Places ==
    /\ pc # "idle" => IdleInv
    /\ pc # "offset" => OffsetInv
    /\ pc # "limit" => LimitStepInv
    /\ pc # "return" => ReturnInv
    /\ pc \notin Below \cup {"ordered"} => CallInv
BY DEF IdleInv, OffsetInv, LimitStepInv, ReturnInv, CallInv, Below

-----------------------------------------------------------------------------
(* A call goes down to a layer *)

LEMMA EnterScan ==
    ASSUME UNCHANGED case, pc' = ScanLayer, Returned', Calling', MiddleWaits', ScanAt(Middle)'
    PROVE  Delivers'
<1>1. pc' \in {"scan", "grouped"}
  BY CallLabels
<1>2. (IdleInv /\ OffsetInv /\ LimitStepInv /\ ReturnInv)'
  BY <1>1 DEF IdleInv, OffsetInv, LimitStepInv, ReturnInv
<1>3. CallInv'
  BY <1>1 DEF CallInv
<1> QED BY <1>2, <1>3 DEF Delivers

LEMMA EnterDistinct ==
    ASSUME TypeOK, Answerable, UNCHANGED case, pc' = DistinctLayer, Returned', Calling',
           UpperWaits', DistinctAt(Upper)'
    PROVE  Delivers'
<1>1. CASE q.distinct
  <2>1. pc' = "distinct"
    BY <1>1, CallLabels
  <2>2. (IdleInv /\ OffsetInv /\ LimitStepInv /\ ReturnInv)'
    BY <2>1 DEF IdleInv, OffsetInv, LimitStepInv, ReturnInv
  <2>3. CallInv'
    BY <2>1 DEF CallInv
  <2> QED BY <2>2, <2>3 DEF Delivers
<1>2. CASE ~q.distinct
  <2>1. pc' = ScanLayer /\ ~q'.distinct
    BY <1>2, CallLabels, CaseStays
  <2>2. Middle' = Upper' /\ MiddleWaits'
    BY <2>1 DEF Middle, MiddleWaits
  <2>3. ScanAt(Upper)'
    BY <2>1 DEF DistinctAt
  <2>4. ScanAt(Middle)'
    BY <2>2, <2>3
  <2> QED BY <2>1, <2>2, <2>4, EnterScan
<1> QED BY <1>1, <1>2

LEMMA EnterTop ==
    ASSUME TypeOK, Answerable, UNCHANGED case, pc' = TopLayer, Returned', Calling', TopAt(Asked)'
    PROVE  Delivers'
<1>1. CASE q.order # <<>>
  <2>1. pc' = "ordered"
    BY <1>1, CallLabels
  <2>2. (IdleInv /\ OffsetInv /\ LimitStepInv /\ ReturnInv)'
    BY <2>1 DEF IdleInv, OffsetInv, LimitStepInv, ReturnInv
  <2>3. CallInv'
    BY <2>1 DEF CallInv
  <2> QED BY <2>2, <2>3 DEF Delivers
<1>2. CASE q.order = <<>>
  <2>1. pc' = DistinctLayer /\ q'.order = <<>>
    BY <1>2, CallLabels, CaseStays
  <2>2. Upper' = Asked' /\ UpperWaits'
    BY <2>1 DEF Upper, UpperWaits
  <2>3. DistinctAt(Asked)'
    BY <2>1 DEF TopAt
  <2>4. DistinctAt(Upper)'
    BY <2>2, <2>3
  <2> QED BY <2>1, <2>2, <2>4, EnterDistinct
<1> QED BY <1>1, <1>2

-----------------------------------------------------------------------------
(* A call returns to a layer *)

LEMMA SameSeq ==
    ASSUME NEW S, NEW s \in Seq(S), NEW t \in Seq(S), Len(s) = Len(t),
           \A i \in 1..Len(s) : s[i] = t[i]
    PROVE  s = t
<1>1. s = [i \in 1..Len(s) |-> s[i]] /\ t = [i \in 1..Len(s) |-> t[i]]
  OBVIOUS
<1>2. [i \in 1..Len(s) |-> s[i]] = [i \in 1..Len(s) |-> t[i]]
  BY Zenon
<1> QED BY <1>1, <1>2, Zenon

\* Where the results end, or LIMIT is reached, the client has the answer.
LEMMA AnswerIsOut ==
    ASSUME TypeOK, Answerable, Returned,
           \/ /\ q.limit >= 0 => Len(out) <= q.limit
              /\ Off + Len(out) = Len(InOrder)
           \/ out = <<>> /\ Len(InOrder) < Off
           \/ q.limit = Len(out) /\ Off + Len(out) <= Len(InOrder)
           \/ q.limit = 0 /\ out = <<>>
    PROVE  out = answer
<1> DEFINE to == IF q.limit < 0 \/ Off + q.limit > Len(InOrder) THEN Len(InOrder) ELSE Off + q.limit
<1>1. /\ answer \in Seq(Docs)
      /\ Len(answer) = IF to > Off THEN to - Off ELSE 0
      /\ \A i \in 1..Len(answer) : answer[i] = InOrder[Off + i].res
  <2>1. ~q.grouped /\ answer = Answer(q, table)
    BY DEF Answerable, Returned
  <2> QED BY <2>1, AnswerIs
<1>2. /\ Len(out) \in Nat /\ Off \in Nat /\ Len(InOrder) \in Nat /\ q.limit \in Int
      /\ out \in Seq(Docs) /\ (out = <<>> => Len(out) = 0)
  BY Sizes DEF TypeOK
<1>3. Len(answer) = Len(out)
  BY <1>1, <1>2
<1> HIDE DEF to
<1>4. \A i \in 1..Len(out) : out[i] = answer[i]
  BY <1>1, <1>3 DEF Returned
<1> QED BY <1>1, <1>2, <1>3, <1>4, SameSeq

LEMMA FromTop ==
    ASSUME TypeOK, Answerable, Returned, Returned', Calling, pc # "idle",
           UNCHANGED <<case, limits, client>>, pc' = CallerOfOrdered,
           \/ rc' = "ROW" /\ TopAt(Asked + 1)'
           \/ rc' = "DONE" /\ Asked = Len(InOrder)
           \/ rc' = "NOMEM"
    PROVE  Delivers'
<1>1. /\ Len(out) \in Nat /\ Off \in Nat /\ Len(InOrder) \in Nat /\ q.limit \in Int /\ nOffset \in Int
  BY Sizes
<1>2. /\ out' = out /\ limitValid' = limitValid /\ nOffset' = nOffset /\ Off' = Off /\ answer' = answer
      /\ Asked' = Asked /\ Calling'
  BY CallStays, CaseStays DEF client, limits
<1>3. CASE limitValid
  <2>1. pc' = "return" /\ limitValid'
    BY <1>2, <1>3, CallLabels
  <2>2. (Asked + 1)' = (Off + Len(out) + 1)' /\ Asked = Off + Len(out)
    BY <1>2, <1>3 DEF Asked
  <2>3. rc' = "ROW" => TopAt(Off + Len(out) + 1)'
    BY <2>2
  <2>4. rc' = "DONE" => out' = answer'
    <3> SUFFICES ASSUME rc' = "DONE" PROVE out = answer
      BY <1>2
    <3>1. Off + Len(out) = Len(InOrder)
      BY <2>2
    <3>2. q.limit >= 0 => Len(out) <= q.limit
      BY <1>1, <1>3 DEF Calling
    <3> QED BY <3>1, <3>2, AnswerIsOut
  <2>5. ReturnInv'
    BY <1>2, <2>1, <2>3, <2>4 DEF ReturnInv
  <2>6. (IdleInv /\ OffsetInv /\ LimitStepInv /\ CallInv)'
    BY <2>1 DEF IdleInv, OffsetInv, LimitStepInv, CallInv, Below
  <2> QED BY <2>5, <2>6 DEF Delivers
<1>4. CASE ~limitValid
  <2>1. pc' = "offset" /\ ~limitValid' /\ out' = <<>> /\ nOffset \in 0..(Off - 1)
    BY <1>2, <1>4, CallLabels DEF Calling
  <2>2. Asked = Off - nOffset - 1
    BY <1>4 DEF Asked
  <2>3. (Asked + 1)' = (IF nOffset > 0 THEN Off - nOffset ELSE Off)'
    BY <1>1, <1>2, <2>1, <2>2
  <2>4. rc' = "ROW" => TopAt(IF nOffset > 0 THEN Off - nOffset ELSE Off)'
    BY <2>3
  <2>5. rc' = "DONE" => answer' = <<>>
    <3> SUFFICES ASSUME rc' = "DONE" PROVE out = answer
      BY <1>2, <2>1
    <3>1. out = <<>> /\ Len(InOrder) < Off
      BY <1>1, <1>2, <2>1, <2>2
    <3> QED BY <3>1, AnswerIsOut
  <2>6. (nOffset <= Off)'
    BY <1>1, <1>2, <2>1
  <2>7. OffsetInv'
    BY <2>1, <2>4, <2>5, <2>6 DEF OffsetInv
  <2>8. (IdleInv /\ ReturnInv /\ LimitStepInv /\ CallInv)'
    BY <2>1 DEF IdleInv, ReturnInv, LimitStepInv, CallInv, Below
  <2> QED BY <2>7, <2>8 DEF Delivers
<1> QED BY <1>3, <1>4

LEMMA FromDistinct ==
    ASSUME TypeOK, Answerable, Returned, Returned', Calling, UpperWaits, pc # "idle",
           UNCHANGED <<case, limits, client, ordered>>, pc' = CallerOfDistinct,
           \/ rc' = "ROW" /\ DistinctAt(Upper + 1)'
           \/ rc' = "DONE" /\ Upper = Len(Kept)
           \/ rc' = "NOMEM"
    PROVE  Delivers'
<1>1. Len(Kept) \in Nat /\ Len(InOrder) = Len(Kept)
  BY Sizes
<1>2. q' = q /\ Asked' = Asked /\ Calling' /\ Kept' = Kept /\ InOrder' = InOrder
  BY CallStays, CaseStays DEF client
<1>3. CASE q.order # <<>>
  <2>1. pc' = "fillOrdered" /\ Upper = Len(ordered.items)
    BY <1>3, CallLabels DEF Upper
  <2>2. FillsOrdered'
    BY <1>2, <1>3 DEF UpperWaits, FillsOrdered, KeyOf
  <2>3. (Upper + 1)' = (Len(ordered.items) + 1)'
    BY <1>2, <1>3 DEF Upper
  <2>4. rc' = "ROW" => DistinctAt(Len(ordered.items) + 1)'
    BY <2>3
  <2>5. rc' = "DONE" => Len(ordered'.items) = Len(Kept')
    BY <1>2, <2>1
  <2>6. CallInv'
    BY <1>2, <2>1, <2>2, <2>4, <2>5 DEF CallInv, Below
  <2>7. (IdleInv /\ OffsetInv /\ ReturnInv /\ LimitStepInv)'
    BY <2>1 DEF IdleInv, OffsetInv, ReturnInv, LimitStepInv
  <2> QED BY <2>6, <2>7 DEF Delivers
<1>4. CASE q.order = <<>>
  <2>1. pc' = CallerOfOrdered /\ Upper = Asked /\ InOrder = Kept
    BY <1>4, CallLabels, Sizes DEF Upper
  <2>2. (Upper + 1)' = (Asked + 1)'
    BY <1>2, <1>4 DEF Upper
  <2>3. ASSUME rc' = "ROW" PROVE TopAt(Asked + 1)'
    <3>1. DistinctAt(Asked + 1)'
      BY <2>2, <2>3
    <3>2. (Asked + 1)' \in 0..Len(InOrder')
      BY <1>2, <2>1, <3>1 DEF DistinctAt
    <3> QED BY <1>2, <1>4, <3>1, <3>2 DEF TopAt
  <2>4. rc' = "DONE" => Asked = Len(InOrder)
    BY <2>1
  <2> QED BY <2>1, <2>3, <2>4, FromTop
<1> QED BY <1>3, <1>4

LEMMA FromScan ==
    ASSUME TypeOK, Answerable, Returned, Returned', Calling, MiddleWaits, pc # "idle",
           UNCHANGED <<case, limits, client, ordered, distincted>>, pc' = CallerOfGrouped,
           \/ rc' = "ROW" /\ ScanAt(Middle + 1)'
           \/ rc' = "DONE" /\ Middle = Len(Cands)
           \/ rc' = "NOMEM"
    PROVE  Delivers'
<1>2. q' = q /\ Asked' = Asked /\ Calling' /\ Kept' = Kept /\ Cands' = Cands
  BY CallStays, CaseStays DEF client
<1>3. Upper' = Upper /\ UpperWaits'
  <2>1. UpperWaits => UpperWaits'
    BY <1>2 DEF UpperWaits, FillsOrdered, KeyOf
  <2> QED BY <1>2, <2>1 DEF Upper, MiddleWaits
<1>4. CASE q.distinct
  <2>1. pc' = "fillDistinct" /\ Middle = Len(distincted.items)
    BY <1>4, CallLabels DEF Middle
  <2>2. MiddleWaits'
    BY <1>2, <1>3, <1>4 DEF MiddleWaits, FillsDistinct
  <2>3. (Middle + 1)' = (Len(distincted.items) + 1)'
    BY <1>2, <1>4 DEF Middle
  <2>4. rc' = "ROW" => ScanAt(Len(distincted.items) + 1)'
    BY <2>3
  <2>5. rc' = "DONE" => Len(distincted'.items) = Len(Cands')
    BY <1>2, <2>1
  <2>6. CallInv'
    BY <1>2, <2>1, <2>2, <2>4, <2>5 DEF CallInv, Below
  <2>7. (IdleInv /\ OffsetInv /\ ReturnInv /\ LimitStepInv)'
    BY <2>1 DEF IdleInv, OffsetInv, ReturnInv, LimitStepInv
  <2> QED BY <2>6, <2>7 DEF Delivers
<1>5. CASE ~q.distinct
  <2>1. pc' = CallerOfDistinct /\ Middle = Upper /\ Kept = Cands /\ UpperWaits
    BY <1>5, CallLabels, Sizes DEF Middle, MiddleWaits
  <2>2. (Middle + 1)' = (Upper + 1)'
    BY <1>2, <1>5 DEF Middle
  <2>3. ASSUME rc' = "ROW" PROVE DistinctAt(Upper + 1)'
    <3>1. ScanAt(Upper + 1)'
      BY <2>2, <2>3
    <3>2. (Upper + 1)' \in 0..Len(Kept')
      BY <1>2, <2>1, <3>1 DEF ScanAt
    <3> QED BY <1>2, <1>5, <3>1, <3>2 DEF DistinctAt
  <2>4. rc' = "DONE" => Upper = Len(Kept)
    BY <2>1
  <2> QED BY <2>1, <2>3, <2>4, FromDistinct
<1> QED BY <1>4, <1>5

-----------------------------------------------------------------------------
(* What is read of the result that a layer stands at *)

LEMMA ScanRead ==
    ASSUME TypeOK, Answerable, Returned, NEW k, ScanAt(k), k # 0
    PROVE  /\ k \in 1..Len(Cands) /\ Readable
           /\ SourceDoc = Cands[k].doc /\ ResultDoc = Cands[k].res
           /\ docFrom \in {"DATASRC", "GROUPED"}
           /\ ~IsAggregate(q) => CurrentRow = Cands[k].doc
<1>1. ~q.grouped /\ Len(Cands) \in Nat
  BY Sizes DEF Answerable
<1>2. k \in 1..Len(Cands)
  BY <1>1 DEF ScanAt
<1>3. CASE ~IsAggregate(q)
  <2>1. docFrom = "DATASRC" /\ Len(Taken[pos]) = k /\ (pos = 0 \/ table[pos].v >= q.where)
    BY <1>3 DEF ScanAt
  <2>2. /\ Lists(Taken, q.where, table, Len(table)) /\ Taken[0] = <<>>
        /\ \A j \in 0..Len(table) : Taken[j] \in Seq(Rows)
        /\ Len(table) \in Nat /\ table \in Seq(Rows) /\ q.where \in Nat
    BY TakenIs
  <2>3. pos \in 0..Len(table)
    BY DEF TypeOK
  <2>4. Taken[pos] # <<>>
    BY <1>2, <2>1
  <2>5. pos \in 1..Len(table) /\ pos - 1 \in 0..Len(table) /\ table[pos].v >= q.where
    BY <2>1, <2>2, <2>3, <2>4
  <2>6. Taken[pos] = Append(Taken[pos - 1], table[pos])
    BY <2>2, <2>5, Zenon DEF Lists
  <2>7. Taken[pos - 1] \in Seq(Rows) /\ table[pos] \in Rows
    BY <2>2, <2>5
  <2>8. Taken[pos][k] = table[pos]
    BY <2>1, <2>6, <2>7
  <2>9. IsPrefixOf(Taken[pos], Found)
    <3>1. Len(table) \in pos..Len(table)
      BY <2>2, <2>3
    <3> QED BY <2>2, <2>3, <3>1, ListsGrow DEF Found
  <2>10. Len(Found) = Len(Cands)
         /\ \A i \in 1..Len(Found) :
              Cands[i] = [doc |-> Found[i], res |-> Result(q.res, Found[i], Null), agg |-> Null]
    BY <1>1, <1>3, CandsAre
  <2>11. Found[k] = table[pos]
    <3>1. k \in 1..Len(Taken[pos])
      BY <1>2, <2>1
    <3> QED BY <2>8, <2>9, <3>1 DEF IsPrefixOf
  <2>12. Cands[k] = [doc |-> table[pos], res |-> Result(q.res, table[pos], Null), agg |-> Null]
    BY <1>2, <2>10, <2>11
  <2>13. CurrentRow = table[pos] /\ SourceDoc = CurrentRow
    BY <2>1, <2>5 DEF CurrentRow, SourceDoc
  <2>14. ResultDoc = Result(q.res, SourceDoc, Null)
    BY <1>3, <2>1 DEF ResultDoc, Returned
  <2> QED BY <1>2, <2>1, <2>12, <2>13, <2>14 DEF Readable
<1>4. CASE IsAggregate(q)
  <2>1. /\ docFrom = "GROUPED" /\ aggValue = AggregateOf(q.agg, Found)
        /\ grouped.items = <<[key |-> <<>>, doc |-> Representative(q, Found)]>>
    BY <1>4 DEF ScanAt
  <2>2. Len(Cands) = 1 /\ Cands[1] = Aggregated(q, Found)
    BY <1>1, <1>4, CandsAre, Zenon
  <2>3. k = 1
    BY <1>2, <2>2
  <2>4. SourceDoc = Representative(q, Found) /\ grouped.items # <<>>
    BY <2>1 DEF SourceDoc
  <2>5. ResultDoc = Result(q.res, SourceDoc, aggValue)
    BY <2>1 DEF ResultDoc
  <2> QED BY <1>2, <1>4, <2>1, <2>2, <2>3, <2>4, <2>5 DEF Aggregated, Readable
<1> QED BY <1>3, <1>4

\* The head of a sorted list is the result it stands at.
LEMMA HeadIs ==
    ASSUME NEW S, NEW list \in ListsOf(S), NEW s, NEW k, HoldsFrom(list, k, s),
           Len(s) \in Nat, k \in 1..Len(s)
    PROVE  /\ list.items # <<>> /\ 1 \in 1..Len(list.items) /\ Head(list.items) = list.items[1]
           /\ k + 1 - 1 = k
           /\ Head(list.items).res = s[k].res
<1>1. list.items \in Seq(S) /\ Len(list.items) = Len(s) - k + 1
  BY DEF ListsOf, HoldsFrom
<1>2. 1 \in 1..Len(list.items) /\ k + 1 - 1 = k /\ list.items # <<>>
  BY <1>1
<1>3. Head(list.items) = list.items[1]
  BY <1>1, <1>2
<1>4. list.items[1].res = s[k + 1 - 1].res
  BY <1>2 DEF HoldsFrom
<1> QED BY <1>2, <1>3, <1>4

LEMMA DistinctRead ==
    ASSUME TypeOK, Answerable, Returned, NEW k, DistinctAt(k), k # 0
    PROVE  /\ k \in 1..Len(Kept) /\ Readable
           /\ SourceDoc = Kept[k].doc /\ ResultDoc = Kept[k].res
           /\ docFrom # "ORDERED"
<1>1. Len(Kept) \in Nat /\ (~q.distinct => Kept = Cands)
  BY Sizes
<1>2. k \in 1..Len(Kept)
  BY <1>1 DEF DistinctAt
<1>3. CASE ~q.distinct
  BY <1>1, <1>3, ScanRead DEF DistinctAt
<1>4. CASE q.distinct
  <2>1. docFrom = "DISTINCTED" /\ HoldsFrom(distincted, k, Kept)
        /\ \A i \in 1..Len(distincted.items) : distincted.items[i].doc = Kept[k + i - 1].doc
    BY <1>4 DEF DistinctAt
  <2>2. distincted \in ListsOf(DistinctItems)
    BY DEF TypeOK
  <2>3. /\ distincted.items # <<>> /\ 1 \in 1..Len(distincted.items)
        /\ Head(distincted.items) = distincted.items[1] /\ k + 1 - 1 = k
        /\ Head(distincted.items).res = Kept[k].res
    BY <1>1, <1>2, <2>1, <2>2, HeadIs
  <2>4. Head(distincted.items).doc = Kept[k].doc
    BY <2>1, <2>3
  <2> QED BY <1>2, <2>1, <2>3, <2>4 DEF Readable, SourceDoc, ResultDoc
<1> QED BY <1>3, <1>4

LEMMA TopRead ==
    ASSUME TypeOK, Answerable, Returned, NEW k, TopAt(k), k # 0
    PROVE  k \in 1..Len(InOrder) /\ Readable /\ ResultDoc = InOrder[k].res
<1>1. Len(Kept) \in Nat /\ Len(InOrder) = Len(Kept) /\ (q.order = <<>> => InOrder = Kept)
  BY Sizes
<1>2. k \in 1..Len(InOrder)
  BY <1>1 DEF TopAt
<1>3. CASE q.order = <<>>
  BY <1>1, <1>3, DistinctRead DEF TopAt
<1>4. CASE q.order # <<>>
  <2>1. docFrom = "ORDERED" /\ HoldsFrom(ordered, k, InOrder) /\ ordered \in ListsOf(OrderItems)
    BY <1>4 DEF TopAt, TypeOK
  <2>2. ordered.items # <<>> /\ Head(ordered.items).res = InOrder[k].res
    BY <1>1, <1>2, <2>1, HeadIs
  <2> QED BY <1>2, <2>1, <2>2 DEF Readable, ResultDoc
<1> QED BY <1>3, <1>4

-----------------------------------------------------------------------------
(* xjd1QueryStep and the client *)

Good == TypeOK /\ PipelineInv /\ Answerable /\ Delivers /\ ~StepAfterEnd

LEMMA GoodHas ==
    Good => /\ TypeOK /\ Answerable /\ Returned /\ ~q.grouped
            /\ IdleInv /\ OffsetInv /\ LimitStepInv /\ ReturnInv /\ CallInv
            /\ LayersInv /\ DocFromInv /\ LimitInv
BY DEF Good, Delivers, PipelineInv, Answerable

\* A statement that was prepared or rewound stands before its first result.
LEMMA Fresh ==
    ASSUME TypeOK, Answerable, pos = 0, docFrom = "DATASRC", aggCtx = NoCtx,
           grouped = ClosedList, distincted = ClosedList, ordered = ClosedList
    PROVE  TopAt(0)
<1>1. Len(Cands) \in Nat /\ Len(Kept) \in Nat /\ Len(InOrder) \in Nat
  BY Sizes
<1>2. Len(Taken[pos]) = 0
  BY TakenIs
<1>3. ScanAt(0)
  BY <1>1, <1>2 DEF ScanAt, ClosedList
<1> QED BY <1>1, <1>3 DEF TopAt, DistinctAt, ClosedList

LEMMA InitDelivers ==
    ASSUME Init, TypeOK, Answerable
    PROVE  Delivers
<1>1. TopAt(0)
  BY Fresh DEF Init
<1>2. Returned
  BY DEF Init, Returned
<1>3. IdleInv
  BY <1>1 DEF Init, IdleInv
<1>4. OffsetInv /\ LimitStepInv /\ ReturnInv /\ CallInv
  <2>1. pc = "idle"
    BY DEF Init
  <2> QED BY <2>1, Places DEF Below
<1> QED BY <1>2, <1>3, <1>4 DEF Delivers

LEMMA RewindDelivers ==
    ASSUME Good, Rewind
    PROVE  Delivers'
<1>1. UNCHANGED case /\ pc' = "idle" /\ ret' = "NONE" /\ out' = <<>> /\ ~limitValid'
  BY DEF Rewind
<1>2. TopAt(0)'
  <2>1. /\ pos' = 0 /\ docFrom' = "DATASRC" /\ aggCtx' = NoCtx
        /\ grouped' = ClosedList /\ distincted' = ClosedList /\ ordered' = ClosedList
    BY DEF Rewind
  <2>2. /\ Cands' = Cands /\ Kept' = Kept /\ InOrder' = InOrder /\ Taken' = Taken /\ q' = q
        /\ Len(Cands) \in Nat /\ Len(Kept) \in Nat /\ Len(InOrder) \in Nat
    BY <1>1, CaseStays, Sizes, GoodHas
  <2>3. Len(Taken'[pos']) = 0
    BY <2>1, <2>2, TakenIs, GoodHas
  <2>4. ScanAt(0)'
    BY <2>1, <2>2, <2>3 DEF ScanAt, ClosedList, NoCtx
  <2> QED BY <2>1, <2>2, <2>4 DEF TopAt, DistinctAt, ClosedList
<1>3. Returned'
  <2>1. answer' = Answer(q', table')
    BY <1>1, CaseStays, GoodHas DEF Returned
  <2>2. aggValue' = Null
    BY DEF Rewind
  <2> QED BY <1>1, <2>1, <2>2 DEF Returned
<1>4. IdleInv'
  BY <1>1, <1>2 DEF IdleInv
<1>5. (OffsetInv /\ LimitStepInv /\ ReturnInv /\ CallInv)'
  BY <1>1 DEF OffsetInv, LimitStepInv, ReturnInv, CallInv, Below
<1> QED BY <1>3, <1>4, <1>5 DEF Delivers

LEMMA StepDelivers ==
    ASSUME Good, Step
    PROVE  Delivers' /\ UNCHANGED client
<1>1. /\ UNCHANGED <<case, pos, grouped, aggCtx, aggValue, docFrom, distincted, ordered>>
      /\ UNCHANGED client /\ out' = out /\ ret' = ret
      /\ pc = "idle" /\ rc' = "ROW" /\ limitValid' = limitValid /\ nLimit' = nLimit
      /\ pc' = (IF limitValid THEN "limit" ELSE "offset")
      /\ nOffset' = (IF limitValid THEN nOffset ELSE q.offset)
      /\ ret \in {"NONE", "ROW"}
  BY DEF Step, ReturnTo, lists, aggs, client, Good, CanStep
<1>2. q' = q /\ Off' = Off /\ Off \in Nat /\ q.offset \in Int
  BY <1>1, CaseStays, Sizes, GoodHas
<1>3. Returned'
  BY <1>1, CaseStays, GoodHas DEF Returned
<1>4. CASE ret = "NONE"
  <2>1. ~limitValid /\ out = <<>> /\ TopAt(0)
    BY <1>1, <1>4, GoodHas DEF IdleInv
  <2>2. TopAt(0)'
    BY <1>1, <2>1, TopStays
  <2>3. (0)' = (IF nOffset > 0 THEN Off - nOffset ELSE Off)' /\ nOffset' <= Off'
    BY <1>1, <1>2, <2>1 DEF Off
  <2>4. OffsetInv'
    BY <1>1, <2>1, <2>2, <2>3 DEF OffsetInv
  <2>5. (IdleInv /\ LimitStepInv /\ ReturnInv /\ CallInv)'
    BY <1>1, <2>1 DEF IdleInv, LimitStepInv, ReturnInv, CallInv, Below
  <2> QED BY <1>1, <1>3, <2>4, <2>5 DEF Delivers
<1>5. CASE ret = "ROW"
  <2>1. limitValid /\ LimitLeft(Len(out)) /\ TopAt(Off + Len(out))
    BY <1>1, <1>5, GoodHas DEF IdleInv
  <2>2. ASSUME NEW n, n = Off + Len(out) PROVE TopAt(n)'
    BY <1>1, <2>1, <2>2, TopStays
  <2>3. TopAt(Off + Len(out))'
    BY <1>1, <1>2, <2>2
  <2>4. LimitLeft(Len(out))'
    BY <1>1, <1>2, <2>1 DEF LimitLeft
  <2>5. LimitStepInv'
    BY <1>1, <2>1, <2>3, <2>4 DEF LimitStepInv
  <2>6. (IdleInv /\ OffsetInv /\ ReturnInv /\ CallInv)'
    BY <1>1, <2>1 DEF IdleInv, OffsetInv, ReturnInv, CallInv, Below
  <2> QED BY <1>1, <1>3, <2>5, <2>6 DEF Delivers
<1> QED BY <1>1, <1>4, <1>5

LEMMA SkipRowDelivers ==
    ASSUME Good, SkipRow
    PROVE  Delivers' /\ UNCHANGED client
<1>1. /\ UNCHANGED <<case, pos, grouped, aggCtx, aggValue, docFrom, distincted, ordered>>
      /\ UNCHANGED client /\ out' = out
      /\ pc = "offset" /\ rc = "ROW" /\ limitValid' = limitValid /\ pc' = TopLayer
      /\ nOffset > 0 /\ nOffset' = nOffset - 1
  BY DEF SkipRow, lists, aggs, client
<1>2. Off' = Off /\ Off \in Nat /\ nOffset \in Int
  BY <1>1, CaseStays, Sizes, GoodHas
<1>3. ~limitValid /\ out = <<>> /\ nOffset <= Off /\ TopAt(Off - nOffset)
  BY <1>1, GoodHas DEF OffsetInv
<1>4. Returned'
  BY <1>1, GoodHas, ReturnedStays
<1>5. Calling'
  BY <1>1, <1>2, <1>3 DEF Calling
<1>6. ASSUME NEW n, n = Off - nOffset PROVE TopAt(n)'
  BY <1>1, <1>3, <1>6, TopStays
<1>7. Asked' = Off - nOffset
  BY <1>1, <1>2, <1>3 DEF Asked
<1>8. TopAt(Asked)'
  BY <1>6, <1>7
<1> QED BY <1>1, <1>4, <1>5, <1>8, GoodHas, EnterTop

LEMMA EvalLimitDelivers ==
    ASSUME Good, EvalLimit
    PROVE  Delivers' /\ UNCHANGED client
<1>1. /\ UNCHANGED <<case, pos, grouped, aggCtx, aggValue, docFrom, distincted, ordered>>
      /\ UNCHANGED client /\ out' = out /\ rc' = rc
      /\ pc = "offset" /\ (rc # "ROW" \/ nOffset <= 0) /\ pc' = "limit"
      /\ limitValid' = TRUE /\ nLimit' = q.limit
  BY DEF EvalLimit, lists, aggs, client
<1>2. q' = q /\ answer' = answer /\ Off' = Off /\ Off \in Nat /\ nOffset \in Int /\ q.limit \in Int
  BY <1>1, CaseStays, Sizes, GoodHas
<1>3. /\ out = <<>> /\ (rc = "ROW" => TopAt(IF nOffset > 0 THEN Off - nOffset ELSE Off))
      /\ (rc = "DONE" => answer = <<>>)
  BY <1>1, GoodHas DEF OffsetInv
<1>4. Returned'
  BY <1>1, GoodHas, ReturnedStays
<1>5. Len(out') = 0 /\ out' = <<>>
  BY <1>1, <1>3
<1>6. LimitLeft(Len(out))'
  BY <1>1, <1>2, <1>5 DEF LimitLeft
<1>7. ASSUME rc = "ROW" PROVE TopAt(Off + Len(out))'
  <2>1. (IF nOffset > 0 THEN Off - nOffset ELSE Off) = Off
    BY <1>1, <1>2, <1>7
  <2>2. TopAt(Off)
    BY <1>3, <1>7, <2>1
  <2>3. ASSUME NEW n, n = Off PROVE TopAt(n)'
    BY <1>1, <2>2, <2>3, TopStays
  <2>4. (Off + Len(out))' = Off
    BY <1>2, <1>5
  <2> QED BY <2>3, <2>4
<1>8. LimitStepInv'
  BY <1>1, <1>2, <1>3, <1>5, <1>6, <1>7 DEF LimitStepInv
<1>9. (IdleInv /\ OffsetInv /\ ReturnInv /\ CallInv)'
  BY <1>1 DEF IdleInv, OffsetInv, ReturnInv, CallInv, Below
<1> QED BY <1>1, <1>4, <1>8, <1>9 DEF Delivers

LEMMA StepWithinLimitDelivers ==
    ASSUME Good, StepWithinLimit
    PROVE  Delivers' /\ UNCHANGED client
<1>1. /\ UNCHANGED <<case, pos, grouped, aggCtx, aggValue, docFrom, distincted, ordered>>
      /\ UNCHANGED client /\ out' = out
      /\ pc = "limit" /\ rc = "ROW" /\ pc' = TopLayer /\ nLimit # 0
      /\ limitValid' = limitValid /\ nLimit' = (IF nLimit > 0 THEN nLimit - 1 ELSE nLimit)
  BY DEF StepWithinLimit, lists, aggs, client
<1>2. /\ q' = q /\ Off' = Off /\ Off \in Nat /\ nLimit \in Int /\ q.limit \in Int /\ Len(out) \in Nat
  BY <1>1, CaseStays, Sizes, GoodHas
<1>3. limitValid /\ LimitLeft(Len(out)) /\ TopAt(Off + Len(out))
  BY <1>1, GoodHas DEF LimitStepInv
<1>4. Returned'
  BY <1>1, GoodHas, ReturnedStays
<1>5. q.limit >= 0 => nLimit >= 0
  BY <1>3, GoodHas DEF LimitInv
<1>6. Calling'
  BY <1>1, <1>2, <1>3, <1>5 DEF Calling, LimitLeft
<1>7. ASSUME NEW n, n = Off + Len(out) PROVE TopAt(n)'
  BY <1>1, <1>3, <1>7, TopStays
<1>8. Asked' = Off + Len(out)
  BY <1>1, <1>2, <1>3 DEF Asked
<1>9. TopAt(Asked)'
  BY <1>7, <1>8
<1> QED BY <1>1, <1>4, <1>6, <1>9, GoodHas, EnterTop

LEMMA StopAtLimitDelivers ==
    ASSUME Good, StopAtLimit
    PROVE  Delivers' /\ UNCHANGED client
<1>1. /\ UNCHANGED <<case, pos, grouped, aggCtx, aggValue, docFrom, distincted, ordered>>
      /\ UNCHANGED client /\ out' = out /\ limitValid' = limitValid
      /\ pc = "limit" /\ (rc # "ROW" \/ nLimit = 0) /\ pc' = "return"
      /\ rc' = IF rc = "ROW" THEN "DONE" ELSE rc
  BY DEF StopAtLimit, ReturnTo, lists, aggs, client, limits
<1>2. /\ answer' = answer /\ Off \in Nat /\ nLimit \in Int /\ q.limit \in Int /\ Len(out) \in Nat
      /\ Len(InOrder) \in Nat
  BY <1>1, CaseStays, Sizes, GoodHas
<1>3. /\ limitValid /\ (rc = "DONE" => out = answer)
      /\ rc = "ROW" => LimitLeft(Len(out)) /\ TopAt(Off + Len(out))
  BY <1>1, GoodHas DEF LimitStepInv
<1>4. Returned'
  BY <1>1, GoodHas, ReturnedStays
<1>5. ASSUME rc = "ROW" PROVE out = answer
  <2>1. q.limit = Len(out)
    BY <1>1, <1>2, <1>3, <1>5 DEF LimitLeft
  <2>2. Off + Len(out) <= Len(InOrder)
    BY <1>2, <1>3, <1>5 DEF TopAt
  <2> QED BY <2>1, <2>2, AnswerIsOut, GoodHas
<1>6. rc' # "ROW" /\ (rc' = "DONE" => out' = answer')
  BY <1>1, <1>2, <1>3, <1>5
<1>7. ReturnInv'
  BY <1>1, <1>3, <1>6 DEF ReturnInv
<1>8. (IdleInv /\ OffsetInv /\ LimitStepInv /\ CallInv)'
  BY <1>1 DEF IdleInv, OffsetInv, LimitStepInv, CallInv, Below
<1> QED BY <1>1, <1>4, <1>7, <1>8 DEF Delivers

\* A result is returned: it is the next one of the answer.
LEMMA ReturnRowDelivers ==
    ASSUME Good, ReturnRow
    PROVE  /\ Delivers'
           /\ out' = Append(out, answer[Len(out) + 1]) /\ Len(out) < Len(answer)
           /\ ret' = "ROW" /\ answer' = answer /\ ret \in {"NONE", "ROW"}
<1>1. pc = "return" /\ rc = "ROW" /\ limitValid /\ Calling /\ TopAt(Off + Len(out) + 1)
  BY GoodHas DEF ReturnRow, ReturnInv
<1>2. /\ Off \in Nat /\ q.limit \in Int /\ Len(out) \in Nat /\ Len(InOrder) \in Nat /\ nLimit \in Int
      /\ out \in Seq(Docs)
  BY Sizes, GoodHas DEF TypeOK
<1> DEFINE k == Off + Len(out) + 1
<1>3. k # 0
  BY <1>2
<1>4. k \in 1..Len(InOrder) /\ Readable /\ ResultDoc = InOrder[k].res
  <2> HIDE DEF k
  <2>1. TopAt(k)
    BY <1>1 DEF k
  <2> QED BY <1>3, <2>1, TopRead, GoodHas
<1>5. /\ pc' = "idle" /\ ret' = "ROW" /\ out' = Append(out, ResultDoc)
      /\ UNCHANGED <<case, pos, grouped, aggCtx, aggValue, docFrom, distincted, ordered>>
      /\ UNCHANGED <<limitValid, nLimit>>
  BY <1>4 DEF ReturnRow, lists, aggs, limits
<1>6. q' = q /\ table' = table /\ answer' = answer /\ Off' = Off /\ InOrder' = InOrder
  BY <1>5, CaseStays
<1>7. Len(out') = Len(out) + 1 /\ out'[Len(out) + 1] = ResultDoc /\ \A i \in 1..Len(out) : out'[i] = out[i]
  BY <1>2, <1>5
<1>8. (q.limit >= 0 => Len(out) < q.limit) /\ LimitLeft(Len(out) + 1)
  BY <1>1 DEF Calling
<1>9. Len(out) < Len(answer) /\ answer[Len(out) + 1] = ResultDoc
  <2> DEFINE to == IF q.limit < 0 \/ Off + q.limit > Len(InOrder) THEN Len(InOrder) ELSE Off + q.limit
  <2>1. /\ Len(answer) = IF to > Off THEN to - Off ELSE 0
        /\ \A i \in 1..Len(answer) : answer[i] = InOrder[Off + i].res
    BY AnswerIs, GoodHas DEF Returned
  <2>2. to > Off /\ to - Off >= Len(out) + 1 /\ to \in Int
    BY <1>2, <1>4, <1>8
  <2>3. Len(out) + 1 \in 1..Len(answer) /\ Off + (Len(out) + 1) = k
    <3> HIDE DEF to
    <3> QED BY <1>2, <2>1, <2>2
  <2> HIDE DEF to, k
  <2> QED BY <1>2, <1>4, <2>1, <2>3
<1>10. Returned'
  <2>1. \A i \in 1..Len(out') : out'[i] = InOrder[Off + i].res
    <3> SUFFICES ASSUME NEW i \in 1..Len(out') PROVE out'[i] = InOrder[Off + i].res
      OBVIOUS
    <3>1. CASE i \in 1..Len(out)
      BY <1>7, <3>1, GoodHas DEF Returned
    <3>2. CASE i = Len(out) + 1
      <4>1. Off + i = k
        BY <1>2, <3>2
      <4> QED BY <1>4, <1>7, <3>2, <4>1
    <3> QED BY <1>2, <1>7, <3>1, <3>2
  <2>2. answer' = Answer(q', table') /\ (~IsAggregate(q') => aggValue' = Null)
    BY <1>5, <1>6, GoodHas DEF Returned
  <2> QED BY <1>5, <1>6, <2>1, <2>2 DEF Returned
<1>11. IdleInv'
  <2>1. ASSUME NEW n, n = k PROVE TopAt(n)'
    BY <1>1, <1>5, <2>1, TopStays
  <2>2. (Off + Len(out))' = k
    BY <1>2, <1>6, <1>7
  <2>3. TopAt(Off + Len(out))'
    <3> HIDE DEF k
    <3> QED BY <2>1, <2>2
  <2>4. LimitLeft(Len(out))'
    BY <1>5, <1>6, <1>7, <1>8 DEF LimitLeft
  <2> QED BY <1>1, <1>5, <2>3, <2>4 DEF IdleInv
<1>12. (OffsetInv /\ LimitStepInv /\ ReturnInv /\ CallInv)'
  BY <1>5 DEF OffsetInv, LimitStepInv, ReturnInv, CallInv, Below
<1>13. ret \in {"NONE", "ROW"}
  BY <1>1, GoodHas DEF Returned
<1> QED BY <1>5, <1>6, <1>9, <1>10, <1>11, <1>12, <1>13 DEF Delivers

\* No result is returned: the answer is complete, or memory ran out.
LEMMA ReturnNoRowDelivers ==
    ASSUME Good, ReturnNoRow
    PROVE  /\ Delivers'
           /\ UNCHANGED <<out, answer>> /\ ret \in {"NONE", "ROW"}
           /\ (ret' = "DONE" /\ out = answer) \/ ret' = "NOMEM"
<1>1. /\ pc = "return" /\ pc' = "idle" /\ ret' = rc /\ out' = out /\ rc \in {"DONE", "NOMEM"}
      /\ UNCHANGED case /\ aggValue' = aggValue
  BY GoodHas DEF ReturnNoRow, TypeOK, Codes, aggs
<1>2. rc = "DONE" => out = answer
  BY <1>1, GoodHas DEF ReturnInv
<1>3. Returned'
  BY <1>1, CaseStays, GoodHas DEF Returned
<1>4. (IdleInv /\ OffsetInv /\ LimitStepInv /\ ReturnInv /\ CallInv)'
  BY <1>1 DEF IdleInv, OffsetInv, LimitStepInv, ReturnInv, CallInv, Below
<1>5. ret \in {"NONE", "ROW"}
  BY <1>1, GoodHas DEF Returned
<1> QED BY <1>1, <1>2, <1>3, <1>4, <1>5, CaseStays DEF Delivers

-----------------------------------------------------------------------------
(* selectStepOrdered *)

LEMMA CallHas ==
    Good /\ pc \in Below \cup {"ordered"} =>
      /\ TypeOK /\ Answerable /\ Returned /\ ~q.grouped
      /\ Calling /\ CallInv /\ LayersInv /\ DocFromInv /\ pc # "idle"
<1> SUFFICES ASSUME Good, pc \in Below \cup {"ordered"}
             PROVE  Calling /\ pc # "idle"
  BY GoodHas
<1> QED BY GoodHas DEF CallInv, Below

LEMMA UpperStays ==
    ASSUME UNCHANGED <<case, limits, out, ordered>>
    PROVE  Upper' = Upper /\ (UpperWaits => UpperWaits')
BY CallStays, CaseStays DEF Upper, UpperWaits, FillsOrdered, KeyOf

\* A list of documents with its head taken off, or empty.
LEMMA PopIs ==
    ASSUME NEW S, NEW list \in ListsOf(S), NEW s, NEW k, HoldsFrom(list, k, s),
           Len(s) \in Nat, k \in 1..Len(s)
    PROVE  /\ Pop(list).items = <<>> <=> k = Len(s)
           /\ k < Len(s) => HoldsFrom(Pop(list), k + 1, s)
           /\ Len(Pop(list).items) = Len(s) - k
           /\ \A i \in 1..Len(Pop(list).items) :
                i + 1 \in 1..Len(list.items) /\ Pop(list).items[i] = list.items[i + 1]
<1>1. list.items \in Seq(S) /\ list.open \in BOOLEAN /\ Len(list.items) = Len(s) - k + 1
      /\ list.open /\ list = [open |-> list.open, items |-> list.items]
      /\ \A i \in 1..Len(list.items) : list.items[i].res = s[k + i - 1].res
  BY DEF ListsOf, HoldsFrom
<1>2. list.items # <<>>
  BY <1>1
<1>3. Pop(list).items = Tail(list.items) /\ Pop(list).open
  BY <1>1, <1>2 DEF Pop
<1>4. /\ Tail(list.items) \in Seq(S) /\ Len(Tail(list.items)) = Len(s) - k
      /\ \A i \in 1..Len(Tail(list.items)) :
           i + 1 \in 1..Len(list.items) /\ Tail(list.items)[i] = list.items[i + 1]
  BY <1>1, <1>2
<1>5. \A l \in Seq(S) : l = <<>> <=> Len(l) = 0
  OBVIOUS
<1>6. \A i \in 1..Len(Tail(list.items)) : (k + 1) + i - 1 = k + (i + 1) - 1
  BY <1>4
<1>7. \A i \in 1..Len(Tail(list.items)) : Tail(list.items)[i].res = s[(k + 1) + i - 1].res
  BY <1>1, <1>4, <1>6
<1>8. Len(s) - k = Len(s) - (k + 1) + 1 /\ (Len(s) - k = 0 <=> k = Len(s))
  OBVIOUS
<1>9. HoldsFrom(Pop(list), k + 1, s)
  BY <1>3, <1>4, <1>7, <1>8 DEF HoldsFrom
<1> QED BY <1>3, <1>4, <1>5, <1>8, <1>9

LEMMA OrderedFillDelivers ==
    ASSUME Good, OrderedFill
    PROVE  Delivers' /\ UNCHANGED client
<1>1. /\ UNCHANGED <<case, pos, grouped, aggCtx, aggValue, docFrom, distincted>>
      /\ UNCHANGED <<limits, client>> /\ out' = out
      /\ pc = "ordered" /\ pc' = DistinctLayer /\ ~ordered.open /\ ordered' = OpenList
  BY DEF OrderedFill, aggs, client
<1>2. /\ TypeOK /\ Answerable /\ Returned /\ Calling /\ TopAt(Asked) /\ q.order # <<>> /\ pc # "idle"
  BY <1>1, CallHas DEF CallInv, LayersInv
<1>3. Asked = 0 /\ DistinctAt(0)
  BY <1>1, <1>2 DEF TopAt, HoldsFrom
<1>4. /\ q' = q /\ Kept' = Kept /\ Len(Kept) \in Nat /\ Asked' = 0 /\ Calling'
  BY <1>1, <1>2, <1>3, CaseStays, CallStays, Sizes
<1>5. ordered'.items = <<>> /\ ordered'.open /\ Len(ordered'.items) = 0
  BY <1>1 DEF OpenList
<1>6. FillsOrdered' /\ Upper' = 0
  BY <1>2, <1>4, <1>5 DEF FillsOrdered, Upper
<1>7. DistinctAt(0)'
  BY <1>1, <1>3, DistinctStays
<1>8. (0)' = Upper'
  BY <1>6
<1>9. DistinctAt(Upper)' /\ UpperWaits'
  BY <1>6, <1>7, <1>8 DEF UpperWaits
<1>10. Returned'
  BY <1>1, <1>2, ReturnedStays
<1> QED BY <1>1, <1>2, <1>4, <1>9, <1>10, EnterDistinct

LEMMA OrderedAddDelivers ==
    ASSUME Good, OrderedAdd
    PROVE  Delivers' /\ UNCHANGED client
<1>1. pc = "fillOrdered" /\ rc = "ROW"
  BY DEF OrderedAdd
<1>2. /\ TypeOK /\ Answerable /\ Returned /\ Calling /\ pc # "idle"
      /\ FillsOrdered /\ DistinctAt(Len(ordered.items) + 1) /\ q.order # <<>>
  BY <1>1, CallHas DEF CallInv, LayersInv, Below
<1> DEFINE k == Len(ordered.items) + 1
           item == [key |-> KeyOf(Kept[k]), res |-> Kept[k].res]
<1>3. Len(ordered.items) \in Nat /\ Len(Kept) \in Nat /\ k # 0 /\ ordered \in ListsOf(OrderItems)
  BY <1>2, Sizes DEF TypeOK
<1>4. k \in 1..Len(Kept) /\ Readable /\ SourceDoc = Kept[k].doc /\ ResultDoc = Kept[k].res
  <2> HIDE DEF k
  <2>1. DistinctAt(k)
    BY <1>2 DEF k
  <2> QED BY <1>2, <1>3, <2>1, DistinctRead
<1>5. /\ UNCHANGED <<case, pos, grouped, aggCtx, aggValue, docFrom, distincted>>
      /\ UNCHANGED <<limits, client>> /\ out' = out /\ pc' = DistinctLayer
      /\ ordered' = Add(ordered, [key |-> OrderKey(q.order, SourceDoc, ResultDoc), res |-> ResultDoc])
  BY <1>4 DEF OrderedAdd, aggs, client
<1>6. ordered' = Add(ordered, item)
  BY <1>4, <1>5 DEF KeyOf
<1>7. /\ q' = q /\ Kept' = Kept /\ Asked' = Asked /\ Calling' /\ \A x : KeyOf(x)' = KeyOf(x)
  BY <1>2, <1>5, CaseStays, CallStays DEF KeyOf
<1> HIDE DEF item
<1>8. /\ ordered'.open /\ Len(ordered'.items) = k /\ ordered'.items[k] = item
      /\ \A i \in 1..Len(ordered.items) : ordered'.items[i] = ordered.items[i]
  BY <1>2, <1>3, <1>6 DEF Add, ListsOf, FillsOrdered
<1>9. FillsOrdered'
  <2>1. \A i \in 1..k : ordered'.items[i] = [key |-> KeyOf(Kept[i]), res |-> Kept[i].res]
    <3> SUFFICES ASSUME NEW i \in 1..k
                 PROVE  ordered'.items[i] = [key |-> KeyOf(Kept[i]), res |-> Kept[i].res]
      OBVIOUS
    <3>1. i = k \/ i \in 1..Len(ordered.items)
      BY <1>3
    <3> HIDE DEF k
    <3> QED BY <1>2, <1>8, <3>1 DEF item, FillsOrdered
  <2>2. q'.order # <<>> /\ Asked' = 0 /\ k <= Len(Kept')
    BY <1>2, <1>4, <1>7 DEF FillsOrdered
  <2> HIDE DEF k
  <2>3. \A i \in 1..Len(ordered'.items) : ordered'.items[i] = [key |-> KeyOf(Kept[i])', res |-> Kept'[i].res]
    BY <1>7, <1>8, <2>1 DEF KeyOf
  <2> QED BY <1>8, <2>2, <2>3 DEF FillsOrdered
<1>10. Upper' = k /\ UpperWaits'
  BY <1>2, <1>7, <1>8, <1>9 DEF Upper, UpperWaits
<1>11. ASSUME NEW n, n = k PROVE DistinctAt(n)'
  BY <1>2, <1>5, <1>11, DistinctStays
<1>12. DistinctAt(Upper)'
  <2> HIDE DEF k
  <2> QED BY <1>10, <1>11
<1>13. Returned'
  BY <1>2, <1>5, ReturnedStays
<1> QED BY <1>2, <1>5, <1>7, <1>10, <1>12, <1>13, EnterDistinct

LEMMA OrderedSortDelivers ==
    ASSUME Good, OrderedSort
    PROVE  Delivers' /\ UNCHANGED client
<1>1. /\ UNCHANGED case /\ UNCHANGED <<limits, client>> /\ out' = out /\ aggValue' = aggValue
      /\ pc = "fillOrdered" /\ rc = "DONE" /\ pc' = CallerOfOrdered /\ docFrom' = "ORDERED"
  BY DEF OrderedSort, ReturnTo, aggs, client
<1>2. PICK t \in StableSorts(ordered.items, OrderedBefore) :
        ordered' = [ordered EXCEPT !.items = t] /\ rc' = IF t # <<>> THEN "ROW" ELSE "DONE"
  BY DEF OrderedSort, ReturnTo
<1>3. /\ TypeOK /\ Answerable /\ Returned /\ Calling /\ pc # "idle" /\ ~q.grouped
      /\ FillsOrdered /\ q.order # <<>> /\ Len(ordered.items) = Len(Kept)
  BY <1>1, CallHas DEF CallInv, LayersInv, Below
<1> DEFINE n == Len(Kept)
<1>4. /\ n \in Nat /\ Len(InOrder) = n /\ ordered \in ListsOf(OrderItems)
  BY <1>3, Sizes DEF TypeOK
<1>5. DOMAIN ordered.items = 1..n /\ ordered.open
  BY <1>3, <1>4 DEF ListsOf, FillsOrdered
<1>6. \A i \in 1..n : ordered.items[i].key = KeyOf(Kept[i]) /\ ordered.items[i].res = Kept[i].res
  <2>1. \A i \in 1..n : ordered.items[i] = [key |-> KeyOf(Kept[i]), res |-> Kept[i].res]
    BY <1>3 DEF FillsOrdered
  <2> SUFFICES ASSUME NEW i \in 1..n
               PROVE  ordered.items[i].key = KeyOf(Kept[i]) /\ ordered.items[i].res = Kept[i].res
    OBVIOUS
  <2>2. ordered.items[i] = [key |-> KeyOf(Kept[i]), res |-> Kept[i].res]
    BY <2>1
  <2> HIDE DEF n
  <2> QED BY <2>2
<1>7. PICK p \in [1..Len(Kept) -> 1..Len(Kept)] :
        /\ Ordered(q, Kept) = [i \in 1..Len(Kept) |-> Kept[p[i]]]
        /\ \A items : /\ DOMAIN items = 1..Len(Kept)
                      /\ \A i \in 1..Len(Kept) : items[i].key = KeyOf(Kept[i])
                      => \A x \in StableSorts(items, OrderedBefore) :
                           x = [i \in 1..Len(Kept) |-> items[p[i]]]
        /\ q.order = <<>> => \A i \in 1..Len(Kept) : p[i] = i
  <2>1. IsResults(Kept)
    BY <1>3, KeptAre
  <2> QED BY <1>3, <2>1, OrderedSorts, Zenon
<1>8. t = [i \in 1..n |-> ordered.items[p[i]]]
  BY <1>2, <1>5, <1>6, <1>7, Zenon
<1>9. InOrder = [i \in 1..n |-> Kept[p[i]]]
  BY <1>7 DEF InOrder
<1>10. \A i \in 1..n : p[i] \in 1..n /\ t[i] = ordered.items[p[i]] /\ InOrder[i] = Kept[p[i]]
  <2>1. p \in [1..n -> 1..n]
    BY <1>7
  <2> HIDE DEF n
  <2> QED BY <1>8, <1>9, <2>1
<1> HIDE DEF n
<1>11. \A i \in 1..n : t[i].res = InOrder[i].res
  BY <1>6, <1>10
<1>12. ordered'.items = t /\ ordered'.open
  BY <1>2, <1>4, <1>5 DEF ListsOf
<1>13. t \in Seq(OrderItems) /\ Len(t) = n
  <2>1. \A i \in 1..n : t[i] \in OrderItems
    <3>1. \A i \in 1..n : ordered.items[i] \in OrderItems
      BY <1>4, <1>5 DEF ListsOf
    <3> QED BY <1>10, <3>1
  <2>2. t \in [1..n -> OrderItems]
    BY <1>8, <2>1
  <2>3. t \in Seq(OrderItems) /\ DOMAIN t = 1..n
    BY <1>4, <2>2
  <2> QED BY <1>4, <2>3
<1>14. Asked = 0 /\ Asked' = 0 /\ InOrder' = InOrder /\ q' = q
  BY <1>1, <1>3, CallStays, CaseStays DEF FillsOrdered
<1>15. ASSUME rc' = "ROW" PROVE TopAt(Asked + 1)'
  <2>1. n # 0 /\ 1 \in 1..n
    BY <1>2, <1>4, <1>13, <1>15
  <2>2. \A i \in 1..n : 1 + i - 1 = i
    BY <1>4
  <2>3. HoldsFrom(ordered', 1, InOrder')
    BY <1>4, <1>11, <1>12, <1>13, <1>14, <2>2 DEF HoldsFrom
  <2>4. TopAt(1)'
    BY <1>1, <1>3, <1>4, <1>14, <2>1, <2>3 DEF TopAt
  <2>5. (1)' = (Asked + 1)'
    BY <1>14
  <2> QED BY <2>4, <2>5
<1>16. rc' = "ROW" \/ (rc' = "DONE" /\ Asked = Len(InOrder))
  BY <1>2, <1>4, <1>13, <1>14
<1>17. Returned'
  BY <1>1, <1>3, ReturnedStays
<1> QED BY <1>1, <1>3, <1>15, <1>16, <1>17, FromTop

LEMMA OrderedErrorDelivers ==
    ASSUME Good, OrderedError
    PROVE  Delivers' /\ UNCHANGED client
<1>1. /\ UNCHANGED case /\ UNCHANGED <<limits, client>> /\ aggValue' = aggValue
      /\ pc = "fillOrdered" /\ rc' = "NOMEM" /\ pc' = CallerOfOrdered
  BY DEF OrderedError, aggs
<1>2. TypeOK /\ Answerable /\ Returned /\ Calling /\ pc # "idle"
  BY <1>1, CallHas DEF Below
<1>3. Returned'
  BY <1>1, <1>2, ReturnedStays
<1> QED BY <1>1, <1>2, <1>3, FromTop

LEMMA OrderedPopDelivers ==
    ASSUME Good, OrderedPop
    PROVE  Delivers' /\ UNCHANGED client
<1>1. pc = "ordered" /\ ordered.open
  BY DEF OrderedPop
<1>2. /\ TypeOK /\ Answerable /\ Returned /\ Calling /\ TopAt(Asked) /\ q.order # <<>> /\ pc # "idle"
  BY <1>1, CallHas DEF CallInv, LayersInv
<1>3. docFrom = "ORDERED" /\ HoldsFrom(ordered, Asked, InOrder) /\ Asked # 0
  BY <1>1, <1>2 DEF TopAt
<1>4. Len(InOrder) \in Nat /\ Asked \in 1..Len(InOrder) /\ ordered \in ListsOf(OrderItems)
  BY <1>2, <1>3, Sizes DEF TopAt, TypeOK
<1>5. /\ UNCHANGED case /\ UNCHANGED <<limits, client>> /\ out' = out /\ aggValue' = aggValue
      /\ pc' = CallerOfOrdered /\ docFrom' = "ORDERED" /\ ordered' = Pop(ordered)
      /\ rc' = IF ordered'.items # <<>> THEN "ROW" ELSE "DONE"
  BY <1>3 DEF OrderedPop, ReturnTo, aggs, client
<1>6. /\ ordered'.items = <<>> <=> Asked = Len(InOrder)
      /\ Asked < Len(InOrder) => HoldsFrom(ordered', Asked + 1, InOrder)
  BY <1>3, <1>4, <1>5, PopIs, Zenon
<1>7. Asked' = Asked /\ InOrder' = InOrder /\ q' = q
  BY <1>5, CallStays, CaseStays
<1>8. ASSUME rc' = "ROW" PROVE TopAt(Asked + 1)'
  <2>1. Asked < Len(InOrder)
    BY <1>4, <1>5, <1>6, <1>8
  <2>2. (Asked + 1)' = Asked + 1 /\ Asked + 1 \in 0..Len(InOrder) /\ Asked + 1 # 0
    BY <1>4, <1>7, <2>1
  <2>3. HoldsFrom(ordered', (Asked + 1)', InOrder')
    BY <1>6, <1>7, <2>1
  <2> QED BY <1>2, <1>5, <1>7, <2>2, <2>3 DEF TopAt, HoldsFrom
<1>9. Returned'
  BY <1>2, <1>5, ReturnedStays
<1>10. rc' = "ROW" \/ (rc' = "DONE" /\ Asked = Len(InOrder))
  BY <1>5, <1>6
<1> QED BY <1>2, <1>5, <1>8, <1>9, <1>10, FromTop

LEMMA OrderedNoMemDelivers ==
    ASSUME Good, OrderedNoMem
    PROVE  Delivers' /\ UNCHANGED client
<1>1. /\ UNCHANGED case /\ UNCHANGED <<limits, client>> /\ aggValue' = aggValue
      /\ pc \in {"ordered", "fillOrdered"} /\ rc' = "NOMEM" /\ pc' = CallerOfOrdered
  BY DEF OrderedNoMem, OutOfMemory, ReturnTo, aggs
<1>2. TypeOK /\ Answerable /\ Returned /\ Calling /\ pc # "idle"
  BY <1>1, CallHas DEF Below
<1>3. Returned'
  BY <1>1, <1>2, ReturnedStays
<1> QED BY <1>1, <1>2, <1>3, FromTop

-----------------------------------------------------------------------------
(* selectStepDistinct *)

LEMMA DistinctFillDelivers ==
    ASSUME Good, DistinctFill
    PROVE  Delivers' /\ UNCHANGED client
<1>1. /\ UNCHANGED <<case, pos, grouped, aggCtx, aggValue, docFrom>>
      /\ UNCHANGED <<limits, client, ordered>> /\ out' = out
      /\ pc = "distinct" /\ pc' = ScanLayer /\ ~distincted.open /\ distincted' = OpenList
  BY DEF DistinctFill, aggs, client
<1>2. /\ TypeOK /\ Answerable /\ Returned /\ Calling /\ q.distinct /\ pc # "idle"
      /\ UpperWaits /\ DistinctAt(Upper)
  BY <1>1, CallHas DEF CallInv, LayersInv, Below
<1>3. Upper = 0 /\ ScanAt(0)
  BY <1>1, <1>2 DEF DistinctAt, HoldsFrom
<1>4. /\ q' = q /\ Cands' = Cands /\ Len(Cands) \in Nat /\ Upper' = 0 /\ UpperWaits' /\ Calling'
  BY <1>1, <1>2, <1>3, CaseStays, CallStays, UpperStays, Sizes
<1>5. distincted'.items = <<>> /\ distincted'.open /\ Len(distincted'.items) = 0
  BY <1>1 DEF OpenList
<1>6. MiddleWaits' /\ Middle' = 0
  BY <1>2, <1>4, <1>5 DEF FillsDistinct, MiddleWaits, Middle
<1>7. ScanAt(0)'
  BY <1>1, <1>3, ScanStays
<1>8. (0)' = Middle'
  BY <1>6
<1>9. ScanAt(Middle)'
  BY <1>7, <1>8
<1>10. Returned'
  BY <1>1, <1>2, ReturnedStays
<1> QED BY <1>1, <1>4, <1>6, <1>9, <1>10, EnterScan

LEMMA DistinctAddDelivers ==
    ASSUME Good, DistinctAdd
    PROVE  Delivers' /\ UNCHANGED client
<1>1. pc = "fillDistinct" /\ rc = "ROW"
  BY DEF DistinctAdd
<1>2. /\ TypeOK /\ Answerable /\ Returned /\ Calling /\ pc # "idle"
      /\ MiddleWaits /\ ScanAt(Len(distincted.items) + 1) /\ q.distinct
  BY <1>1, CallHas DEF CallInv, LayersInv, Below
<1> DEFINE k == Len(distincted.items) + 1
           item == [res |-> Cands[k].res, doc |-> Cands[k].doc]
<1>3. /\ Len(distincted.items) \in Nat /\ Len(Cands) \in Nat /\ k # 0
      /\ distincted \in ListsOf(DistinctItems) /\ ~IsAggregate(q)
  BY <1>2, Sizes DEF TypeOK
<1>4. k \in 1..Len(Cands) /\ Readable /\ ResultDoc = Cands[k].res /\ CurrentRow = Cands[k].doc
  <2> HIDE DEF k
  <2>1. ScanAt(k)
    BY <1>2 DEF k
  <2> QED BY <1>2, <1>3, <2>1, ScanRead
<1>5. /\ UNCHANGED <<case, pos, grouped, aggCtx, aggValue, docFrom>>
      /\ UNCHANGED <<limits, client, ordered>> /\ out' = out /\ pc' = ScanLayer
      /\ distincted' = Add(distincted, [res |-> ResultDoc, doc |-> CurrentRow])
  BY <1>4 DEF DistinctAdd, aggs, client
<1>6. distincted' = Add(distincted, item)
  BY <1>4, <1>5
<1>7. q' = q /\ Cands' = Cands /\ Calling' /\ Upper' = Upper /\ UpperWaits'
  BY <1>2, <1>5, CaseStays, CallStays, UpperStays DEF MiddleWaits
<1>8. FillsDistinct
  BY <1>2 DEF MiddleWaits
<1> HIDE DEF item
<1>9. /\ distincted'.open /\ Len(distincted'.items) = k /\ distincted'.items[k] = item
      /\ \A i \in 1..Len(distincted.items) : distincted'.items[i] = distincted.items[i]
  BY <1>3, <1>6, <1>8 DEF Add, ListsOf, FillsDistinct
<1>10. FillsDistinct'
  <2>1. \A i \in 1..k : distincted'.items[i] = [res |-> Cands[i].res, doc |-> Cands[i].doc]
    <3> SUFFICES ASSUME NEW i \in 1..k
                 PROVE  distincted'.items[i] = [res |-> Cands[i].res, doc |-> Cands[i].doc]
      OBVIOUS
    <3>1. i = k \/ i \in 1..Len(distincted.items)
      BY <1>3
    <3> HIDE DEF k
    <3> QED BY <1>8, <1>9, <3>1 DEF item, FillsDistinct
  <2>2. q'.distinct /\ Upper' = 0 /\ k <= Len(Cands')
    BY <1>2, <1>4, <1>7, <1>8 DEF FillsDistinct
  <2> HIDE DEF k
  <2>3. \A i \in 1..Len(distincted'.items) :
          distincted'.items[i] = [res |-> Cands'[i].res, doc |-> Cands'[i].doc]
    BY <1>7, <1>9, <2>1
  <2> QED BY <1>9, <2>2, <2>3 DEF FillsDistinct
<1>11. Middle' = k /\ MiddleWaits'
  BY <1>2, <1>7, <1>9, <1>10 DEF Middle, MiddleWaits
<1>12. ASSUME NEW n, n = k PROVE ScanAt(n)'
  BY <1>2, <1>5, <1>12, ScanStays
<1>13. ScanAt(Middle)'
  <2> HIDE DEF k
  <2> QED BY <1>11, <1>12
<1>14. Returned'
  BY <1>2, <1>5, ReturnedStays
<1> QED BY <1>5, <1>7, <1>11, <1>13, <1>14, EnterScan

LEMMA DistinctSortDelivers ==
    ASSUME Good, DistinctSort
    PROVE  Delivers' /\ UNCHANGED client
<1>1. /\ UNCHANGED case /\ UNCHANGED <<limits, client, ordered>> /\ out' = out /\ aggValue' = aggValue
      /\ pc = "fillDistinct" /\ rc = "DONE" /\ pc' = CallerOfDistinct /\ docFrom' = "DISTINCTED"
      /\ rc' = "ROW"
  BY DEF DistinctSort, ReturnTo, aggs, client
<1>2. PICK t \in DistinctSorts(distincted.items, DistinctBefore) :
        distincted' = [distincted EXCEPT !.items = t]
  BY DEF DistinctSort
<1>3. /\ TypeOK /\ Answerable /\ Returned /\ Calling /\ pc # "idle" /\ ~q.grouped
      /\ MiddleWaits /\ FillsDistinct /\ UpperWaits /\ q.distinct
      /\ Len(distincted.items) = Len(Cands)
  BY <1>1, CallHas DEF CallInv, LayersInv, Below, MiddleWaits
<1> DEFINE n == Len(Cands)
<1>4. /\ n \in Nat /\ Cands # <<>> /\ distincted \in ListsOf(DistinctItems)
  BY <1>3, Sizes DEF TypeOK
<1>5. DOMAIN distincted.items = 1..n /\ distincted.open
  BY <1>3, <1>4 DEF ListsOf, FillsDistinct
<1>6. \A i \in 1..n : distincted.items[i].res = Cands[i].res /\ distincted.items[i].doc = Cands[i].doc
  <2>1. \A i \in 1..n : distincted.items[i] = [res |-> Cands[i].res, doc |-> Cands[i].doc]
    BY <1>3 DEF FillsDistinct
  <2> SUFFICES ASSUME NEW i \in 1..n
               PROVE  distincted.items[i].res = Cands[i].res /\ distincted.items[i].doc = Cands[i].doc
    OBVIOUS
  <2>2. distincted.items[i] = [res |-> Cands[i].res, doc |-> Cands[i].doc]
    BY <2>1
  <2> HIDE DEF n
  <2> QED BY <2>2
<1>7. PICK m \in 0..Len(Cands) : \E p : LeavesDistinct(p, m, Cands)
  <2>1. IsResults(Cands)
    BY <1>3, CandsAre
  <2> QED BY <1>3, <2>1, DistinctSortsAre
<1>8. PICK p \in [1..m -> 1..Len(Cands)] :
        /\ Distinct(q, Cands) = [i \in 1..m |-> Cands[p[i]]]
        /\ \A items : /\ DOMAIN items = 1..Len(Cands) /\ Len(items) = Len(Cands)
                      /\ \A i \in 1..Len(Cands) : items[i].res = Cands[i].res
                      => \A x \in DistinctSorts(items, DistinctBefore) :
                           x = [i \in 1..m |-> items[p[i]]]
        /\ m > 0
  BY <1>4, <1>7, Zenon DEF LeavesDistinct
<1>9. t = [i \in 1..m |-> distincted.items[p[i]]]
  BY <1>2, <1>3, <1>5, <1>6, <1>8, Zenon
<1>10. Kept = [i \in 1..m |-> Cands[p[i]]]
  BY <1>8 DEF Kept
<1>11. m \in Nat /\ m > 0 /\ p \in [1..m -> 1..n]
  BY <1>4, <1>7, <1>8
<1> HIDE DEF n
<1>12. \A i \in 1..m : p[i] \in 1..n /\ t[i] = distincted.items[p[i]] /\ Kept[i] = Cands[p[i]]
  BY <1>9, <1>10, <1>11
<1>13. \A i \in 1..m : t[i].res = Kept[i].res /\ t[i].doc = Kept[i].doc
  BY <1>6, <1>12
<1>14. distincted'.items = t /\ distincted'.open
  BY <1>2, <1>4, <1>5 DEF ListsOf
<1>15. Len(t) = m
  <2>1. DOMAIN t = 1..m /\ t \in [1..m -> DistinctItems]
    <3>1. \A i \in 1..m : t[i] \in DistinctItems
      <4>1. \A i \in 1..n : distincted.items[i] \in DistinctItems
        BY <1>4, <1>5 DEF ListsOf
      <4> QED BY <1>12, <4>1
    <3> QED BY <1>9, <3>1
  <2>2. t \in Seq(DistinctItems)
    BY <1>11, <2>1
  <2> QED BY <1>11, <2>1, <2>2
<1>16. Len(Kept) = m
  <2>1. IsResults(Kept) /\ Len(Kept) \in Nat
    BY <1>3, KeptAre, Sizes
  <2>2. DOMAIN Kept = 1..m /\ DOMAIN Kept = 1..Len(Kept)
    BY <1>10, <2>1 DEF IsResults
  <2> QED BY <1>11, <2>1, <2>2
<1>17. Upper = 0 /\ Upper' = 0 /\ Kept' = Kept /\ q' = q
  BY <1>1, <1>3, UpperStays, CaseStays DEF FillsDistinct
<1>18. DistinctAt(Upper + 1)'
  <2>1. \A i \in 1..m : 1 + i - 1 = i
    BY <1>11
  <2>2. HoldsFrom(distincted', 1, Kept')
    BY <1>11, <1>13, <1>14, <1>15, <1>16, <1>17, <2>1 DEF HoldsFrom
  <2>3. \A i \in 1..Len(distincted'.items) : distincted'.items[i].doc = Kept'[1 + i - 1].doc
    BY <1>13, <1>14, <1>15, <1>17, <2>1
  <2>4. 1 \in 0..Len(Kept')
    BY <1>11, <1>16, <1>17
  <2>5. DistinctAt(1)'
    BY <1>1, <1>3, <1>17, <2>2, <2>3, <2>4 DEF DistinctAt
  <2>6. (1)' = (Upper + 1)'
    BY <1>17
  <2> QED BY <2>5, <2>6
<1>19. Returned'
  BY <1>1, <1>3, ReturnedStays
<1> QED BY <1>1, <1>3, <1>18, <1>19, FromDistinct

LEMMA DistinctErrorDelivers ==
    ASSUME Good, DistinctError
    PROVE  Delivers' /\ UNCHANGED client
<1>1. /\ UNCHANGED case /\ UNCHANGED <<limits, client, ordered>> /\ aggValue' = aggValue
      /\ pc = "fillDistinct" /\ rc' = "NOMEM" /\ pc' = CallerOfDistinct
  BY DEF DistinctError, lists, aggs
<1>2. TypeOK /\ Answerable /\ Returned /\ Calling /\ UpperWaits /\ pc # "idle"
  BY <1>1, CallHas DEF Below, CallInv, MiddleWaits
<1>3. Returned'
  BY <1>1, <1>2, ReturnedStays
<1> QED BY <1>1, <1>2, <1>3, FromDistinct

LEMMA DistinctPopDelivers ==
    ASSUME Good, DistinctPop
    PROVE  Delivers' /\ UNCHANGED client
<1>1. /\ UNCHANGED case /\ UNCHANGED <<limits, client, ordered>> /\ out' = out /\ aggValue' = aggValue
      /\ pc = "distinct" /\ distincted.open /\ pc' = CallerOfDistinct
      /\ docFrom' = docFrom /\ distincted' = Pop(distincted)
      /\ rc' = IF distincted'.items # <<>> THEN "ROW" ELSE "DONE"
  BY DEF DistinctPop, ReturnTo, aggs, client
<1>2. /\ TypeOK /\ Answerable /\ Returned /\ Calling /\ q.distinct /\ pc # "idle"
      /\ UpperWaits /\ DistinctAt(Upper)
  BY <1>1, CallHas DEF CallInv, LayersInv, Below
<1>3. /\ docFrom = "DISTINCTED" /\ HoldsFrom(distincted, Upper, Kept) /\ Upper # 0
      /\ \A i \in 1..Len(distincted.items) : distincted.items[i].doc = Kept[Upper + i - 1].doc
  BY <1>1, <1>2 DEF DistinctAt
<1>4. Len(Kept) \in Nat /\ Upper \in 1..Len(Kept) /\ distincted \in ListsOf(DistinctItems)
  BY <1>2, <1>3, Sizes DEF DistinctAt, TypeOK
<1>5. /\ distincted'.items = <<>> <=> Upper = Len(Kept)
      /\ Upper < Len(Kept) => HoldsFrom(distincted', Upper + 1, Kept)
      /\ \A i \in 1..Len(distincted'.items) :
           i + 1 \in 1..Len(distincted.items) /\ distincted'.items[i] = distincted.items[i + 1]
      /\ Len(distincted'.items) = Len(Kept) - Upper
  BY <1>1, <1>3, <1>4, PopIs, Zenon
<1>6. Upper' = Upper /\ Kept' = Kept /\ q' = q
  BY <1>1, UpperStays, CaseStays
<1>7. ASSUME rc' = "ROW" PROVE DistinctAt(Upper + 1)'
  <2>1. Upper < Len(Kept)
    BY <1>1, <1>4, <1>5, <1>7
  <2>2. (Upper + 1)' = Upper + 1 /\ Upper + 1 \in 0..Len(Kept) /\ Upper + 1 # 0
    BY <1>4, <1>6, <2>1
  <2>3. HoldsFrom(distincted', (Upper + 1)', Kept')
    BY <1>5, <1>6, <2>1
  <2>4. \A i \in 1..Len(distincted'.items) : distincted'.items[i].doc = Kept[(Upper + 1) + i - 1].doc
    <3> SUFFICES ASSUME NEW i \in 1..Len(distincted'.items)
                 PROVE  distincted'.items[i].doc = Kept[(Upper + 1) + i - 1].doc
      OBVIOUS
    <3>1. distincted'.items[i].doc = Kept[Upper + (i + 1) - 1].doc
      BY <1>3, <1>5
    <3>2. Upper + (i + 1) - 1 = (Upper + 1) + i - 1
      BY <1>4, <1>5
    <3> QED BY <3>1, <3>2
  <2> QED BY <1>1, <1>2, <1>3, <1>6, <2>2, <2>3, <2>4 DEF DistinctAt, HoldsFrom
<1>8. Returned'
  BY <1>1, <1>2, ReturnedStays
<1>9. rc' = "ROW" \/ (rc' = "DONE" /\ Upper = Len(Kept))
  BY <1>1, <1>5
<1> QED BY <1>1, <1>2, <1>7, <1>8, <1>9, FromDistinct

LEMMA DistinctNoMemDelivers ==
    ASSUME Good, DistinctNoMem
    PROVE  Delivers' /\ UNCHANGED client
<1>1. /\ UNCHANGED case /\ UNCHANGED <<limits, client, ordered>> /\ aggValue' = aggValue
      /\ pc \in {"distinct", "fillDistinct"} /\ rc' = "NOMEM" /\ pc' = CallerOfDistinct
  BY DEF DistinctNoMem, OutOfMemory, ReturnTo, aggs
<1>2. TypeOK /\ Answerable /\ Returned /\ Calling /\ UpperWaits /\ pc # "idle"
  BY <1>1, CallHas DEF Below, CallInv, MiddleWaits
<1>3. Returned'
  BY <1>1, <1>2, ReturnedStays
<1> QED BY <1>1, <1>2, <1>3, FromDistinct

-----------------------------------------------------------------------------
(* The scan *)

LEMMA MiddleStays ==
    ASSUME UNCHANGED <<case, limits, out, ordered, distincted>>
    PROVE  Middle' = Middle /\ (MiddleWaits => MiddleWaits')
<1>1. Upper' = Upper /\ (UpperWaits => UpperWaits') /\ q' = q /\ Cands' = Cands
  BY UpperStays, CaseStays
<1> QED BY <1>1 DEF Middle, MiddleWaits, FillsDistinct

\* The row the scan goes on to is the next one that WHERE has accepted.
LEMMA MatchIsTaken ==
    ASSUME TypeOK, NEW i, IsNextMatch(i)
    PROVE  /\ i \in 1..Len(table) /\ table[i] \in Rows /\ table[i].v >= q.where
           /\ Taken[pos] \in Seq(Rows) /\ Taken[i] = Append(Taken[pos], table[i])
           /\ IsPrefixOf(Taken[i], Found)
<1>1. /\ Lists(Taken, q.where, table, Len(table)) /\ Len(table) \in Nat
      /\ \A j \in 0..Len(table) : Taken[j] \in Seq(Rows)
      /\ table \in Seq(Rows) /\ q.where \in Nat /\ pos \in 0..Len(table)
  BY TakenIs DEF TypeOK
<1>2. /\ i \in (pos + 1)..Len(table) /\ table[i].v >= q.where
      /\ \A j \in (pos + 1)..(i - 1) : table[j].v < q.where
  BY DEF IsNextMatch
<1>3. i \in 1..Len(table) /\ i - 1 \in pos..Len(table) /\ Len(table) \in i..Len(table) /\ i \in 0..Len(table)
  BY <1>1, <1>2
<1>4. Taken[i - 1] = Taken[pos]
  <2>1. PICK k : k = i - 1
    OBVIOUS
  <2>2. pos \in 0..Len(table) /\ k \in pos..Len(table) /\ \A j \in (pos + 1)..k : table[j].v < q.where
    BY <1>1, <1>2, <1>3, <2>1, Zenon
  <2>3. Taken[k] = Taken[pos]
    <3>1. PICK f, w, b : f = Taken /\ w = q.where /\ b = pos
      OBVIOUS
    <3>2. /\ Lists(f, w, table, Len(table)) /\ table \in Seq(Rows) /\ w \in Nat
          /\ b \in 0..Len(table) /\ k \in b..Len(table) /\ \A j \in (b + 1)..k : table[j].v < w
      BY <1>1, <2>2, <3>1, Zenon
    <3>3. f[k] = f[b]
      BY <3>2, ListsSkip
    <3> QED BY <3>1, <3>3, Zenon
  <2> QED BY <2>1, <2>3, Zenon
<1>5. Taken[i] = Append(Taken[i - 1], table[i])
  BY <1>1, <1>2, <1>3, Zenon DEF Lists
<1>6. IsPrefixOf(Taken[i], Found)
  BY <1>1, <1>3, ListsGrow DEF Found
<1>7. table[i] \in Rows /\ Taken[pos] \in Seq(Rows)
  BY <1>1, <1>3
<1> QED BY <1>2, <1>3, <1>4, <1>5, <1>6, <1>7

\* A scan that finds no further row has seen all that WHERE accepts.
LEMMA NoMatchIsAll ==
    ASSUME TypeOK, NoMatch
    PROVE  Found = Taken[pos]
<1>1. /\ Lists(Taken, q.where, table, Len(table)) /\ Len(table) \in Nat
      /\ table \in Seq(Rows) /\ q.where \in Nat /\ pos \in 0..Len(table)
  BY TakenIs DEF TypeOK
<1>2. Len(table) \in pos..Len(table) /\ \A j \in (pos + 1)..Len(table) : table[j].v < q.where
  BY <1>1 DEF NoMatch
<1> QED BY <1>1, <1>2, ListsSkip DEF Found

LEMMA ScanRowDelivers ==
    ASSUME Good, ScanRow
    PROVE  Delivers' /\ UNCHANGED client
<1>1. /\ UNCHANGED <<case, grouped, aggCtx, aggValue, docFrom, distincted, ordered>>
      /\ UNCHANGED <<limits, client>> /\ out' = out
      /\ pc = "scan" /\ pc' = CallerOfGrouped /\ rc' = "ROW"
  BY DEF ScanRow, ReturnTo, lists, aggs, client
<1>2. PICK i : IsNextMatch(i) /\ pos' = i
  BY DEF ScanRow
<1>3. /\ TypeOK /\ Answerable /\ Returned /\ Calling /\ pc # "idle" /\ ~q.grouped
      /\ MiddleWaits /\ ScanAt(Middle) /\ ~IsAggregate(q)
  BY <1>1, CallHas DEF CallInv, LayersInv, Below
<1>4. docFrom = "DATASRC" /\ Len(Taken[pos]) = Middle
  BY <1>3 DEF ScanAt
<1>5. /\ table[i] \in Rows /\ table[i].v >= q.where /\ Taken[pos] \in Seq(Rows)
      /\ Taken[i] = Append(Taken[pos], table[i]) /\ IsPrefixOf(Taken[i], Found)
  BY <1>2, <1>3, MatchIsTaken
<1>6. Len(Found) = Len(Cands) /\ Len(Cands) \in Nat
  BY <1>3, CandsAre, Sizes
<1>7. Len(Taken[i]) = Middle + 1 /\ Middle + 1 \in 0..Len(Cands)
  <2>1. Len(Taken[i]) = Middle + 1 /\ Middle \in Nat
    BY <1>4, <1>5
  <2>2. Len(Taken[i]) <= Len(Found)
    BY <1>5 DEF IsPrefixOf
  <2> QED BY <1>6, <2>1, <2>2
<1>8. Middle' = Middle /\ Taken' = Taken /\ Cands' = Cands /\ q' = q /\ table' = table
  BY <1>1, MiddleStays, CaseStays
<1>9. ScanAt(Middle + 1)'
  BY <1>1, <1>2, <1>3, <1>4, <1>5, <1>7, <1>8 DEF ScanAt, IsAggregate
<1>10. Returned'
  BY <1>1, <1>3, ReturnedStays
<1> QED BY <1>1, <1>3, <1>9, <1>10, FromScan

LEMMA ScanDoneDelivers ==
    ASSUME Good, ScanDone
    PROVE  Delivers' /\ UNCHANGED client
<1>1. /\ UNCHANGED <<case, distincted, ordered>> /\ UNCHANGED <<limits, client>> /\ aggValue' = aggValue
      /\ pc = "scan" /\ pc' = CallerOfGrouped /\ rc' = "DONE" /\ NoMatch
  BY DEF ScanDone, ReturnTo, lists, aggs
<1>2. /\ TypeOK /\ Answerable /\ Returned /\ Calling /\ pc # "idle" /\ ~q.grouped
      /\ MiddleWaits /\ ScanAt(Middle) /\ ~IsAggregate(q)
  BY <1>1, CallHas DEF CallInv, LayersInv, Below
<1>3. Len(Taken[pos]) = Middle
  BY <1>2 DEF ScanAt
<1>4. Found = Taken[pos] /\ Len(Found) = Len(Cands)
  BY <1>1, <1>2, NoMatchIsAll, CandsAre
<1>5. Middle = Len(Cands)
  BY <1>3, <1>4
<1>6. Returned'
  BY <1>1, <1>2, ReturnedStays
<1> QED BY <1>1, <1>2, <1>5, <1>6, FromScan

-----------------------------------------------------------------------------
(* An aggregate without GROUP BY *)

LEMMA AggregateFillDelivers ==
    ASSUME Good, AggregateFill
    PROVE  Delivers' /\ UNCHANGED client
<1>1. /\ UNCHANGED <<case, pos, aggCtx, aggValue, docFrom, distincted, ordered>>
      /\ UNCHANGED <<limits, client>> /\ out' = out
      /\ pc = "grouped" /\ pc' = "fillAggregate" /\ ~grouped.open /\ grouped' = OpenList /\ rep' = <<>>
  BY DEF AggregateFill, aggs, client
<1>2. /\ TypeOK /\ Answerable /\ Returned /\ Calling /\ pc # "idle"
      /\ MiddleWaits /\ ScanAt(Middle) /\ IsAggregate(q)
  BY <1>1, CallHas DEF CallInv, LayersInv, Below
<1>3. Middle = 0 /\ aggCtx = NoCtx /\ pos = 0
  BY <1>1, <1>2 DEF ScanAt
<1>4. Middle' = 0 /\ MiddleWaits' /\ Calling' /\ Taken' = Taken
  BY <1>1, <1>2, <1>3, MiddleStays, CallStays, CaseStays
<1>5. Accumulated'
  <2>1. Taken[0] = <<>>
    BY <1>2, TakenIs
  <2> QED BY <1>1, <1>3, <1>4, <2>1 DEF Accumulated, OpenList, NoCtx
<1>6. CallInv'
  BY <1>1, <1>4, <1>5 DEF CallInv
<1>7. (IdleInv /\ OffsetInv /\ LimitStepInv /\ ReturnInv)'
  BY <1>1 DEF IdleInv, OffsetInv, LimitStepInv, ReturnInv
<1>8. Returned'
  BY <1>1, <1>2, ReturnedStays
<1> QED BY <1>1, <1>6, <1>7, <1>8 DEF Delivers

\* One more row accumulated is the aggregate of one more row.
LEMMA AccumulatesOne ==
    ASSUME TypeOK, ~q.grouped, IsAggregate(q), NEW rows \in Seq(Rows), NEW row \in Rows,
           IF rows = <<>> THEN aggCtx = NoCtx /\ rep = <<>>
           ELSE aggCtx = AggregateOf(q.agg, rows) /\ rep = <<Representative(q, rows)>>
    PROVE  /\ Accumulate(row) = AggregateOf(q.agg, Append(rows, row))
           /\ (IF rep = <<>> \/ Improves(row) THEN <<row>> ELSE rep)
                = <<Representative(q, Append(rows, row))>>
<1> DEFINE new == Append(rows, row)
           n == Len(rows)
<1>1. /\ new \in Seq(Rows) /\ new # <<>> /\ Len(new) = n + 1 /\ n \in Nat
      /\ new[n + 1] = row /\ \A j \in 1..n : new[j] = rows[j]
      /\ (rows = <<>> <=> n = 0)
  OBVIOUS
<1>2. q.agg \in {"count", "min", "max"} /\ Null \notin Int /\ row.v \in Int
  BY NullAssumption DEF TypeOK, Queries, Aggs, IsAggregate, Rows
<1>3. CASE q.agg = "count"
  <2>1. AggregateOf(q.agg, new) = n + 1
    BY <1>1, <1>3 DEF AggregateOf
  <2>2. Representative(q, new) = new[1]
    BY <1>1, <1>3 DEF Representative
  <2>3. ~Improves(row) /\ Accumulate(row) = IF aggCtx = NoCtx THEN 1 ELSE aggCtx + 1
    BY <1>3 DEF Improves, Accumulate
  <2>4. CASE rows = <<>>
    <3>1. n = 0 /\ new[1] = row
      BY <1>1, <2>4
    <3> QED BY <2>1, <2>2, <2>3, <2>4, <3>1
  <2>5. CASE rows # <<>>
    <3>1. aggCtx = n /\ aggCtx # NoCtx
      <4>1. aggCtx = Len(rows) /\ Len(rows) \in Int
        BY <1>3, <2>5 DEF AggregateOf
      <4>2. Len(rows) # Null
        BY <1>2, <4>1
      <4>3. aggCtx # NoCtx
        BY <4>1, <4>2, Zenon DEF NoCtx
      <4> QED BY <4>1, <4>3
    <3>2. rep = <<rows[1]>> /\ rep # <<>>
      <4>1. Representative(q, rows) = Head(rows)
        BY <1>3, <2>5, Zenon DEF Representative
      <4>2. Head(rows) = rows[1]
        BY <2>5
      <4>3. rep = <<rows[1]>>
        BY <2>5, <4>1, <4>2
      <4> QED BY <4>3
    <3>3. new[1] = rows[1]
      BY <1>1, <2>5
    <3> HIDE DEF n
    <3>4. Accumulate(row) = AggregateOf(q.agg, new)
      <4> HIDE DEF new
      <4> QED BY <2>1, <2>3, <3>1
    <3>5. ~(rep = <<>> \/ Improves(row)) /\ rep = <<Representative(q, new)>>
      BY <2>2, <2>3, <3>2, <3>3
    <3> QED BY <3>4, <3>5
  <2> QED BY <2>4, <2>5
<1>4. CASE q.agg \in {"min", "max"}
  <2>1. /\ Accumulate(row) = IF Improves(row) THEN row.v ELSE aggCtx
        /\ Improves(row) <=> aggCtx = NoCtx \/ Better(q.agg, row.v, aggCtx)
    BY <1>4 DEF Accumulate, Improves, Better
  <2>2. CASE rows = <<>>
    <3>1. n = 0 /\ Len(new) = 1 /\ new[1] = row /\ aggCtx = NoCtx
      BY <1>1, <2>2
    <3>2. IsBest(q.agg, new, 1, 1)
      BY <1>2, <3>1 DEF IsBest, Better
    <3>3. AggregateOf(q.agg, new) = row.v /\ Representative(q, new) = row
      <4> HIDE DEF new
      <4>1. new \in Seq(Rows) /\ IsBest(q.agg, new, Len(new), 1)
        BY <1>1, <3>1, <3>2
      <4>2. AggregateOf(q.agg, new) = new[1].v /\ Representative(q, new) = new[1]
        BY <1>4, <4>1, BestIs
      <4> QED BY <3>1, <4>2
    <3> QED BY <2>1, <3>1, <3>3 DEF new
  <2>3. CASE rows # <<>>
    <3>1. PICK i \in 1..n : IsBest(q.agg, rows, n, i)
      BY <2>3, BestExists
    <3>2. AggregateOf(q.agg, rows) = rows[i].v /\ Representative(q, rows) = rows[i]
      BY <1>4, <3>1, BestIs
    <3>3. aggCtx = rows[i].v /\ rep = <<rows[i]>> /\ rep # <<>> /\ aggCtx # NoCtx
      <4>1. rows[i].v \in Int
        BY <3>1, RowValues
      <4>2. aggCtx = rows[i].v /\ rep = <<rows[i]>>
        BY <2>3, <3>2
      <4>3. rep # <<>>
        BY <4>2
      <4>4. aggCtx # Null
        <5> HIDE DEF n, new
        <5> QED BY <1>2, <4>1, <4>2
      <4> QED BY <4>2, <4>3, <4>4 DEF NoCtx
    <3>4. new[i] = rows[i] /\ n \in 1..Len(new) /\ n + 1 \in 1..Len(new)
      BY <1>1, <2>3
    <3> HIDE DEF new, n
    <3>5. IsBest(q.agg, new, n, i)
      <4>1. \A j \in 1..(i - 1) : j \in 1..n
        BY <1>1
      <4> QED BY <1>1, <3>1, <4>1 DEF IsBest
    <3>6. IF Better(q.agg, row.v, aggCtx)
          THEN IsBest(q.agg, new, n + 1, n + 1) ELSE IsBest(q.agg, new, n + 1, i)
      BY <1>1, <3>3, <3>4, <3>5, BestGoesOn
    <3>7. CASE Better(q.agg, row.v, aggCtx)
      <4>1. AggregateOf(q.agg, new) = row.v /\ Representative(q, new) = row
        BY <1>1, <1>4, <3>6, <3>7, BestIs
      <4> QED BY <2>1, <3>7, <4>1 DEF new
    <3>8. CASE ~Better(q.agg, row.v, aggCtx)
      <4>1. AggregateOf(q.agg, new) = aggCtx /\ Representative(q, new) = rows[i]
        BY <1>1, <1>4, <3>3, <3>4, <3>6, <3>8, BestIs
      <4> QED BY <2>1, <3>3, <3>8, <4>1 DEF new
    <3> QED BY <3>7, <3>8
  <2> QED BY <2>2, <2>3
<1> QED BY <1>2, <1>3, <1>4

LEMMA AggregateRowDelivers ==
    ASSUME Good, AggregateRow
    PROVE  Delivers' /\ UNCHANGED client
<1>1. /\ UNCHANGED <<case, grouped, aggValue, docFrom, distincted, ordered>>
      /\ UNCHANGED <<limits, client>> /\ out' = out
      /\ pc = "fillAggregate" /\ pc' = pc
  BY DEF AggregateRow, client
<1>2. PICK i \in 1..Len(table) :
        /\ IsNextMatch(i) /\ pos' = i /\ aggCtx' = Accumulate(table[i])
        /\ rep' = IF rep = <<>> \/ Improves(table[i]) THEN <<table[i]>> ELSE rep
  BY DEF AggregateRow
<1>3. /\ TypeOK /\ Answerable /\ Returned /\ Calling /\ pc # "idle" /\ ~q.grouped
      /\ MiddleWaits /\ Middle = 0 /\ Accumulated /\ IsAggregate(q)
  BY <1>1, CallHas DEF CallInv, LayersInv, Below
<1>4. Middle' = 0 /\ MiddleWaits' /\ Calling' /\ Taken' = Taken /\ q' = q /\ table' = table
  BY <1>1, <1>3, MiddleStays, CallStays, CaseStays
<1>5. Accumulated'
  <2>1. /\ table[i] \in Rows /\ table[i].v >= q.where /\ Taken[pos] \in Seq(Rows)
        /\ Taken[i] = Append(Taken[pos], table[i])
    BY <1>2, <1>3, MatchIsTaken
  <2>2. IF Taken[pos] = <<>> THEN aggCtx = NoCtx /\ rep = <<>>
        ELSE aggCtx = AggregateOf(q.agg, Taken[pos]) /\ rep = <<Representative(q, Taken[pos])>>
    BY <1>3 DEF Accumulated
  <2>3. /\ aggCtx' = AggregateOf(q.agg, Taken[i])
        /\ rep' = <<Representative(q, Taken[i])>>
    BY <1>2, <1>3, <2>1, <2>2, AccumulatesOne
  <2>4. Taken[i] # <<>>
    BY <2>1
  <2>5. grouped'.open /\ grouped'.items = <<>>
    BY <1>1, <1>3 DEF Accumulated
  <2> QED BY <1>2, <1>4, <2>1, <2>3, <2>4, <2>5 DEF Accumulated
<1>6. CallInv'
  BY <1>1, <1>4, <1>5 DEF CallInv
<1>7. (IdleInv /\ OffsetInv /\ LimitStepInv /\ ReturnInv)'
  BY <1>1 DEF IdleInv, OffsetInv, LimitStepInv, ReturnInv
<1>8. Returned'
  BY <1>1, <1>3, ReturnedStays
<1> QED BY <1>1, <1>6, <1>7, <1>8 DEF Delivers

\* What xFinal makes of the accumulated value is the aggregate of the rows.
LEMMA FinalIs ==
    ASSUME TypeOK, ~q.grouped, IsAggregate(q), NEW rows \in Seq(Rows),
           IF rows = <<>> THEN aggCtx = NoCtx /\ rep = <<>>
           ELSE aggCtx = AggregateOf(q.agg, rows) /\ rep = <<Representative(q, rows)>>
    PROVE  /\ Final(aggCtx) = AggregateOf(q.agg, rows)
           /\ (IF rep = <<>> THEN NoDoc ELSE rep[1]) = Representative(q, rows)
<1>1. q.agg \in {"count", "min", "max"} /\ Null \notin Int
  BY NullAssumption DEF TypeOK, Queries, Aggs, IsAggregate
<1>2. CASE rows = <<>>
  <2>1. Representative(q, rows) = NoDoc
    BY <1>2 DEF Representative
  <2>2. { rows[i].v : i \in DOMAIN rows } = {} /\ Len(rows) = 0
    BY <1>2
  <2>3. AggregateOf(q.agg, rows) = IF q.agg = "count" THEN 0 ELSE Null
    BY <1>1, <2>2 DEF AggregateOf
  <2> QED BY <1>2, <2>1, <2>3 DEF Final, NoCtx
<1>3. CASE rows # <<>>
  <2>1. aggCtx = AggregateOf(q.agg, rows) /\ rep = <<Representative(q, rows)>>
    BY <1>3
  <2>2. rep # <<>> /\ rep[1] = Representative(q, rows)
    BY <2>1
  <2>3. q.agg = "count" => aggCtx # NoCtx
    <3> SUFFICES ASSUME q.agg = "count" PROVE aggCtx # NoCtx
      OBVIOUS
    <3>1. aggCtx = Len(rows)
      BY <2>1 DEF AggregateOf
    <3>2. Len(rows) \in Int
      OBVIOUS
    <3>3. Len(rows) # Null
      BY <1>1, <3>2
    <3> QED BY <3>1, <3>3 DEF NoCtx
  <2> QED BY <2>1, <2>2, <2>3 DEF Final
<1> QED BY <1>2, <1>3

LEMMA AggregateDoneDelivers ==
    ASSUME Good, AggregateDone
    PROVE  Delivers' /\ UNCHANGED client
<1>1. /\ UNCHANGED <<case, distincted, ordered>> /\ UNCHANGED <<limits, client>> /\ out' = out
      /\ pc = "fillAggregate" /\ pc' = CallerOfGrouped /\ rc' = "ROW" /\ NoMatch
      /\ aggValue' = Final(aggCtx) /\ docFrom' = "GROUPED"
      /\ grouped' = Add(grouped, [key |-> <<>>, doc |-> IF rep = <<>> THEN NoDoc ELSE rep[1]])
  BY DEF AggregateDone, ReturnTo, client
<1>2. /\ TypeOK /\ Answerable /\ Returned /\ Calling /\ pc # "idle" /\ ~q.grouped
      /\ MiddleWaits /\ Middle = 0 /\ Accumulated /\ IsAggregate(q)
  BY <1>1, CallHas DEF CallInv, LayersInv, Below
<1>3. Found = Taken[pos] /\ Taken[pos] \in Seq(Rows)
  <2>1. pos \in 0..Len(table)
    BY <1>2 DEF TypeOK
  <2> QED BY <1>1, <1>2, <2>1, NoMatchIsAll, TakenIs
<1>4. /\ Final(aggCtx) = AggregateOf(q.agg, Found)
      /\ (IF rep = <<>> THEN NoDoc ELSE rep[1]) = Representative(q, Found)
  <2>1. IF Found = <<>> THEN aggCtx = NoCtx /\ rep = <<>>
        ELSE aggCtx = AggregateOf(q.agg, Found) /\ rep = <<Representative(q, Found)>>
    BY <1>2, <1>3 DEF Accumulated
  <2> QED BY <1>2, <1>3, <2>1, FinalIs
<1>5. /\ grouped'.open
      /\ grouped'.items = <<[key |-> <<>>, doc |-> Representative(q, Found)]>>
  <2>1. grouped.open /\ grouped.items = <<>> /\ grouped \in ListsOf(GroupItems)
    BY <1>2 DEF Accumulated, TypeOK
  <2> QED BY <1>1, <1>4, <2>1 DEF Add, ListsOf
<1>6. Middle' = 0 /\ Found' = Found /\ Cands' = Cands /\ q' = q
  BY <1>1, <1>2, MiddleStays, CaseStays
<1>7. ScanAt(1)'
  <2>1. 1 \in 0..Len(Cands)
    BY <1>2, Sizes
  <2> QED BY <1>1, <1>2, <1>4, <1>5, <1>6, <2>1 DEF ScanAt, IsAggregate
<1>8. (Middle + 1)' = 1
  BY <1>6
<1>9. ScanAt(Middle + 1)'
  BY <1>7, <1>8
<1>10. Returned'
  BY <1>1, <1>2, ReturnedStays
<1> QED BY <1>1, <1>2, <1>9, <1>10, FromScan

LEMMA AggregateAgainDelivers ==
    ASSUME Good, AggregateAgain
    PROVE  Delivers' /\ UNCHANGED client
<1>1. /\ UNCHANGED <<case, distincted, ordered>> /\ UNCHANGED <<limits, client>> /\ aggValue' = aggValue
      /\ pc = "grouped" /\ pc' = CallerOfGrouped /\ rc' = "DONE" /\ grouped.open
  BY DEF AggregateAgain, ReturnTo, lists, aggs
<1>2. /\ TypeOK /\ Answerable /\ Returned /\ Calling /\ pc # "idle"
      /\ MiddleWaits /\ ScanAt(Middle) /\ IsAggregate(q)
  BY <1>1, CallHas DEF CallInv, LayersInv, Below
<1>3. Middle \in 0..Len(Cands) /\ Middle # 0 /\ Len(Cands) = 1
  BY <1>1, <1>2, Sizes DEF ScanAt
<1>4. Middle = Len(Cands)
  BY <1>3
<1>5. Returned'
  BY <1>1, <1>2, ReturnedStays
<1> QED BY <1>1, <1>2, <1>4, <1>5, FromScan

LEMMA GroupedNoMemDelivers ==
    ASSUME Good, GroupedNoMem
    PROVE  Delivers' /\ UNCHANGED client
<1>1. /\ UNCHANGED case /\ UNCHANGED <<limits, client, ordered, distincted>> /\ aggValue' = aggValue
      /\ pc \in {"grouped", "fillGrouped", "fillAggregate"} /\ rc' = "NOMEM" /\ pc' = CallerOfGrouped
  BY DEF GroupedNoMem, OutOfMemory, ReturnTo, aggs
<1>2. TypeOK /\ Answerable /\ Returned /\ Calling /\ MiddleWaits /\ pc # "idle"
  BY <1>1, CallHas DEF Below, CallInv
<1>3. Returned'
  BY <1>1, <1>2, ReturnedStays
<1> QED BY <1>1, <1>2, <1>3, FromScan

-----------------------------------------------------------------------------
(* Every step delivers *)

\* Without GROUP BY no call is in a step that works on groups.
LEMMA NoGroupStep ==
    ASSUME Good
    PROVE  /\ ~GroupFill /\ ~GroupAdd /\ ~GroupSort /\ ~GroupPop /\ ~GroupsDone
           /\ ~GroupRow /\ ~GroupEnd /\ ~HavingTrue /\ ~HavingFalse
<1>1. ~q.grouped /\ pc \notin {"fillGrouped", "group", "having"}
  BY GoodHas DEF CallInv
<1> QED BY <1>1 DEF GroupFill, GroupAdd, GroupSort, GroupPop, GroupsDone,
                    GroupRow, GroupEnd, HavingTrue, HavingFalse

LEMMA LayerStepDelivers ==
    ASSUME Good, LayerStep
    PROVE  Delivers' /\ UNCHANGED client
BY NoGroupStep, OrderedFillDelivers, OrderedAddDelivers, OrderedSortDelivers,
   OrderedErrorDelivers, OrderedPopDelivers, OrderedNoMemDelivers,
   DistinctFillDelivers, DistinctAddDelivers, DistinctSortDelivers,
   DistinctErrorDelivers, DistinctPopDelivers, DistinctNoMemDelivers,
   ScanRowDelivers, ScanDoneDelivers, AggregateFillDelivers, AggregateRowDelivers,
   AggregateDoneDelivers, AggregateAgainDelivers, GroupedNoMemDelivers
   DEF LayerStep, NoMem

LEMMA StutterDelivers ==
    ASSUME Good, UNCHANGED vars
    PROVE  Delivers'
<1>1. /\ UNCHANGED <<case, pos, grouped, aggCtx, aggValue, docFrom, distincted, ordered>>
      /\ UNCHANGED <<limits, client>>
      /\ out' = out /\ ret' = ret /\ pc' = pc /\ rc' = rc /\ rep' = rep
      /\ limitValid' = limitValid /\ nOffset' = nOffset /\ grouped' = grouped
      /\ ordered' = ordered /\ distincted' = distincted /\ pos' = pos /\ aggCtx' = aggCtx
      /\ aggValue' = aggValue
  BY DEF vars, lists, aggs, limits, client
<1>2. /\ q' = q /\ table' = table /\ answer' = answer /\ Taken' = Taken /\ Cands' = Cands
      /\ Kept' = Kept /\ InOrder' = InOrder /\ Off' = Off
  BY <1>1, CaseStays
<1>3. /\ Asked' = Asked /\ (Calling' <=> Calling) /\ \A n : LimitLeft(n)' <=> LimitLeft(n)
  BY <1>1, CallStays
<1>4. Upper' = Upper /\ (UpperWaits => UpperWaits')
  BY <1>1, UpperStays
<1>5. Middle' = Middle /\ (MiddleWaits => MiddleWaits')
  BY <1>1, MiddleStays
<1>6. Returned /\ IdleInv /\ OffsetInv /\ LimitStepInv /\ ReturnInv /\ CallInv
  BY GoodHas
<1>7. \A n : TopAt(n) => TopAt(n)'
  BY <1>1, TopStays
<1>8. \A n : DistinctAt(n) => DistinctAt(n)'
  BY <1>1, DistinctStays
<1>9. \A n : ScanAt(n) => ScanAt(n)'
  BY <1>1, ScanStays
<1>10. Returned'
  BY <1>1, <1>2, <1>6 DEF Returned
<1>11. IdleInv'
  <2>1. TopAt(0) => TopAt(0)'
    BY <1>7
  <2>2. ASSUME TopAt(Off + Len(out)) PROVE TopAt(Off + Len(out))'
    <3>1. ASSUME NEW n, n = Off + Len(out) PROVE TopAt(n)'
      BY <1>7, <2>2, <3>1
    <3> QED BY <1>1, <1>2, <3>1
  <2>3. LimitLeft(Len(out)) => LimitLeft(Len(out))'
    BY <1>1, <1>2 DEF LimitLeft, limits
  <2> QED BY <1>1, <1>6, <2>1, <2>2, <2>3 DEF IdleInv
<1>12. OffsetInv'
  <2> DEFINE at == IF nOffset > 0 THEN Off - nOffset ELSE Off
  <2>1. ASSUME TopAt(at) PROVE TopAt(at)'
    <3>1. ASSUME NEW n, n = at PROVE TopAt(n)'
      BY <1>7, <2>1, <3>1
    <3>2. at' = at
      BY <1>1, <1>2
    <3> QED BY <3>1, <3>2
  <2> QED BY <1>1, <1>2, <1>6, <2>1 DEF OffsetInv
<1>13. LimitStepInv'
  <2>1. ASSUME TopAt(Off + Len(out)) PROVE TopAt(Off + Len(out))'
    <3>1. ASSUME NEW n, n = Off + Len(out) PROVE TopAt(n)'
      BY <1>7, <2>1, <3>1
    <3> QED BY <1>1, <1>2, <3>1
  <2>2. LimitLeft(Len(out)) => LimitLeft(Len(out))'
    BY <1>1, <1>2 DEF LimitLeft, limits
  <2> QED BY <1>1, <1>2, <1>6, <2>1, <2>2 DEF LimitStepInv
<1>14. ReturnInv'
  <2>1. ASSUME TopAt(Off + Len(out) + 1) PROVE TopAt(Off + Len(out) + 1)'
    <3>1. ASSUME NEW n, n = Off + Len(out) + 1 PROVE TopAt(n)'
      BY <1>7, <2>1, <3>1
    <3> QED BY <1>1, <1>2, <3>1
  <2> QED BY <1>1, <1>2, <1>3, <1>6, <2>1 DEF ReturnInv
<1>15. CallInv'
  <2>1. TopAt(Asked) => TopAt(Asked)'
    <3>1. ASSUME TopAt(Asked), NEW n, n = Asked PROVE TopAt(n)'
      BY <1>7, <3>1
    <3> QED BY <1>3, <3>1
  <2>2. DistinctAt(Upper) => DistinctAt(Upper)'
    <3>1. ASSUME DistinctAt(Upper), NEW n, n = Upper PROVE DistinctAt(n)'
      BY <1>8, <3>1
    <3> QED BY <1>4, <3>1
  <2>3. DistinctAt(Len(ordered.items) + 1) => DistinctAt(Len(ordered.items) + 1)'
    <3>1. ASSUME DistinctAt(Len(ordered.items) + 1), NEW n, n = Len(ordered.items) + 1
          PROVE  DistinctAt(n)'
      BY <1>8, <3>1
    <3> QED BY <1>1, <3>1
  <2>4. ScanAt(Middle) => ScanAt(Middle)'
    <3>1. ASSUME ScanAt(Middle), NEW n, n = Middle PROVE ScanAt(n)'
      BY <1>9, <3>1
    <3> QED BY <1>5, <3>1
  <2>5. ScanAt(Len(distincted.items) + 1) => ScanAt(Len(distincted.items) + 1)'
    <3>1. ASSUME ScanAt(Len(distincted.items) + 1), NEW n, n = Len(distincted.items) + 1
          PROVE  ScanAt(n)'
      BY <1>9, <3>1
    <3> QED BY <1>1, <3>1
  <2>6. FillsOrdered => FillsOrdered'
    BY <1>1, <1>2, <1>3 DEF FillsOrdered, KeyOf
  <2>7. Accumulated => Accumulated'
    BY <1>1, <1>2 DEF Accumulated
  <2> QED BY <1>1, <1>2, <1>3, <1>4, <1>5, <1>6, <2>1, <2>2, <2>3, <2>4, <2>5, <2>6, <2>7
             DEF CallInv
<1> QED BY <1>10, <1>11, <1>12, <1>13, <1>14, <1>15 DEF Delivers

\* No step changes the query, its collection or its meaning.
LEMMA CaseKept == [Next]_vars => UNCHANGED case
<1> SUFFICES ASSUME [Next]_vars PROVE UNCHANGED case
  OBVIOUS
<1>1. CASE LayerStep
  BY <1>1, LayerStepFrame DEF case
<1>2. CASE ~LayerStep
  BY <1>2, NextCases DEF Step, Rewind, SkipRow, EvalLimit, StepWithinLimit, StopAtLimit,
     ReturnRow, ReturnNoRow, Fault, case, vars
<1> QED BY <1>1, <1>2

\* A step of the pipeline is a step of the cursor or none.
LEMMA StepDeliversNext ==
    ASSUME Good, [Next]_vars
    PROVE  Delivers' /\ Answerable' /\ [Abstract!Next]_(Abstract!vars)
<1> USE DEF Abstract!Next, Abstract!vars, Abstract!StepRow, Abstract!StepDone,
            Abstract!StepNoMem, Abstract!Rewind, Abstract!CanStep
<1>1. UNCHANGED case
  BY CaseKept
<1>2. answer' = answer /\ Answerable'
  BY <1>1, CaseStays, GoodHas
<1>3. CASE Step
  BY <1>2, <1>3, StepDelivers DEF client
<1>4. CASE Rewind
  <2>1. out' = <<>> /\ ret' = "NONE"
    BY <1>4 DEF Rewind
  <2> QED BY <1>2, <1>4, <2>1, RewindDelivers
<1>5. CASE SkipRow
  BY <1>2, <1>5, SkipRowDelivers DEF client
<1>6. CASE EvalLimit
  BY <1>2, <1>6, EvalLimitDelivers DEF client
<1>7. CASE StepWithinLimit
  BY <1>2, <1>7, StepWithinLimitDelivers DEF client
<1>8. CASE StopAtLimit
  BY <1>2, <1>8, StopAtLimitDelivers DEF client
<1>9. CASE ReturnRow
  BY <1>2, <1>9, ReturnRowDelivers
<1>10. CASE ReturnNoRow
  BY <1>2, <1>10, ReturnNoRowDelivers
<1>11. CASE LayerStep
  BY <1>2, <1>11, LayerStepDelivers DEF client
<1>12. CASE UNCHANGED vars
  <2>1. out' = out /\ ret' = ret
    BY <1>12 DEF vars, client
  <2> QED BY <1>2, <1>12, <2>1, StutterDelivers
<1> QED BY <1>3, <1>4, <1>5, <1>6, <1>7, <1>8, <1>9, <1>10, <1>11, <1>12, NextCases

\* The inductive invariant under AnswersInOrder: whatever failed and whenever the
\* statement was rewound, each layer stands at a member of the list that its
\* clause makes, no member is lost or delivered twice on the way up, and DONE
\* follows the last one.
THEOREM LayersDeliver == ~StepAfterEnd => (Spec => []LayersAgree)
<1> SUFFICES ASSUME ~StepAfterEnd
             PROVE  Spec => []LayersAgree
  OBVIOUS
<1>1. Init /\ TypeOK /\ PipelineInv => LayersAgree
  BY InitDelivers DEF LayersAgree
<1>2. TypeOK /\ LayersAgree /\ [Next]_vars /\ PipelineInv' => LayersAgree'
  <2> SUFFICES ASSUME TypeOK, LayersAgree, [Next]_vars, Answerable'
               PROVE  Delivers'
    BY DEF LayersAgree
  <2>1. Answerable
    BY CaseKept, CaseStays
  <2>2. Good
    BY <2>1 DEF Good, LayersAgree
  <2> QED BY <2>2, StepDeliversNext
<1> QED BY <1>1, <1>2, PipelineAgrees, PTL DEF Spec

\* A statement without GROUP BY, of which DISTINCT (if it has one) is not over
\* an aggregate and not over nothing, is the cursor it promises to be: for any
\* collection and any clauses, whichever allocations fail and whenever it is
\* rewound, its steps return the results its query means, in their order, once
\* each, and DONE exactly after the last one (query.c:267-751).  The caller
\* stops stepping once a step has returned something else than a row.
THEOREM AnswersInOrder == ~StepAfterEnd => (Spec /\ Answerable => ImplementsCursor)
<1> SUFFICES ASSUME ~StepAfterEnd
             PROVE  Spec /\ Answerable => ImplementsCursor
  OBVIOUS
<1>1. Init /\ Answerable => Abstract!Init
  BY DEF Init, Abstract!Init
<1>2. Init /\ Answerable /\ TypeOK => Delivers
  BY InitDelivers
<1>3. TypeOK /\ PipelineInv /\ Answerable /\ Delivers /\ [Next]_vars
        => (Answerable /\ Delivers)' /\ [Abstract!Next]_(Abstract!vars)
  BY StepDeliversNext DEF Good
<1> QED BY <1>1, <1>2, <1>3, PipelineAgrees, PTL DEF Spec, ImplementsCursor, Abstract!Spec

\* Such a statement reads no result through an empty list and never fails the
\* assertion of selectStepOrdered, DISTINCT or not.
THEOREM AnswersWithoutFault == ~StepAfterEnd => (Spec /\ Answerable => []NeverFaults)
<1> SUFFICES ASSUME ~StepAfterEnd
             PROVE  Spec /\ Answerable => []NeverFaults
  OBVIOUS
<1>1. Abstract!Init => NeverFaults
  BY DEF Abstract!Init, NeverFaults
<1>2. NeverFaults /\ [Abstract!Next]_(Abstract!vars) => NeverFaults'
  BY DEF NeverFaults, Abstract!Next, Abstract!vars, Abstract!StepRow, Abstract!StepDone,
         Abstract!StepNoMem, Abstract!Rewind
<1> QED BY <1>1, <1>2, AnswersInOrder, PTL DEF ImplementsCursor, Abstract!Spec
=============================================================================
