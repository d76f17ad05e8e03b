----------------------------- MODULE MCCompound -----------------------------
(***************************************************************************)
(* Instances of Compound for TLC: one operator over every pair of short    *)
(* operands, and two or three operators over a few operands that overlap   *)
(* in different ways, nested to the left, to the right and on both sides.  *)
(***************************************************************************)
EXTENDS Compound

InnerOps == Ops \ {"SELECT"}

SelectNode(rows) == [op |-> "SELECT", rows |-> rows, left |-> 0, right |-> 0]
OpNode(op, l, r) == [op |-> op, rows |-> <<>>, left |-> l, right |-> r]

Results(n) == UNION { [1..k -> 1..3] : k \in 0..n }
Few == { <<>>, <<2>>, <<3, 1>>, <<2, 2, 3>> }

One(o, a, b) == <<SelectNode(a), SelectNode(b), OpNode(o, 1, 2)>>

NestedLeft(o, i, a, b, c) ==
    <<SelectNode(a), SelectNode(b), OpNode(i, 1, 2), SelectNode(c), OpNode(o, 3, 4)>>

NestedRight(o, i, a, b, c) ==
    <<SelectNode(a), SelectNode(b), SelectNode(c), OpNode(i, 2, 3), OpNode(o, 1, 4)>>

NestedBoth(o, i, j) ==
    <<SelectNode(<<2, 1>>), SelectNode(<<3, 2>>), OpNode(i, 1, 2),
      SelectNode(<<1, 3>>), SelectNode(<<3>>), OpNode(j, 4, 5), OpNode(o, 3, 6)>>

CompoundCases ==
    [tree : { One(o, a, b) : o \in InnerOps, a \in Results(3), b \in Results(2) },
     faults : {0}]
    \cup
    [tree : { One(o, a, b) : o \in InnerOps, a \in Few, b \in Few }
            \cup { NestedLeft(o, i, a, b, c) :
                      o \in InnerOps, i \in InnerOps, a \in Few, b \in Few, c \in Few }
            \cup { NestedRight(o, i, a, b, c) :
                      o \in InnerOps, i \in InnerOps, a \in Few, b \in Few, c \in Few },
     faults : {0}]
    \cup
    [tree : { NestedBoth(o, i, j) : o \in InnerOps, i \in InnerOps, j \in InnerOps }
            \cup { NestedLeft(o, i, <<2, 1>>, <<2>>, <<1, 2>>) : o \in InnerOps, i \in InnerOps },
     faults : {2}]
=============================================================================
