----------------------------- MODULE ResultList -----------------------------
(***************************************************************************)
(* sortResultList of query.c, one loop iteration per step: a bottom-up     *)
(* merge sort of a singly linked list with a fixed array of slots, where   *)
(* slot i holds no list or a sorted list of 2^i items; then the removal of *)
(* equal neighbours for DISTINCT; then the loop that asserts the order.    *)
(*                                                                         *)
(* A linked list is the sequence of its items.  addToResultList puts each  *)
(* new item at the head, so the list to sort is the reverse of the order   *)
(* in which its items were added.  An item is its keys, one per term of    *)
(* the ORDER BY or GROUP BY clause (one for DISTINCT), and the position at *)
(* which it was added, which the code does not look at: the specification  *)
(* uses it to say that the sort is stable.                                 *)
(*                                                                         *)
(* A key is a JSON scalar: an integer, Null, or Nan, the real that         *)
(* arithmetic on a value that is not a number produces and that no         *)
(* comparison of C finds smaller or greater than any real.                 *)
(***************************************************************************)
EXTENDS SortedList, SequencesExt

CONSTANTS
    Nan,            \* the JSON real that is not a number
    Keys,           \* the scalars that may be keys
    MaxKeys,        \* how many keys a list to sort may have, over all its items
    NSlots,         \* ArraySize(aList), 40 in the code
    Directions      \* possible directions of the terms: sequences of BOOLEAN

ASSUME BoundsAssumption == NSlots \in Nat \ {0} /\ MaxKeys \in Nat
ASSUME KeysAssumption == \A k \in Keys : k \in Scalars \cup {Nan}
ASSUME DirectionsAssumption == \A d \in Directions : d \in Seq(BOOLEAN)

VARIABLES
    added,          \* the items in the order they were added; never changes
    desc, uniq,     \* pEList, the directions of its terms, and uniq; never change
    list,           \* the items still to be put into slots
    aList,          \* the slots
    head,           \* pHead
    i,              \* the loop index over the slots
    prev,           \* pPrev: the items kept in front of it, and it; "uniq" only
    pc

Slots == 0..(NSlots - 1)

input == <<added, desc, uniq>>
vars == <<input, list, aList, head, i, prev, pc>>

-----------------------------------------------------------------------------
(* Comparison and merge *)

\* xjd1JsonCompare of two scalars: -1, 0 or 1.
JsonCompare(x, y) ==
    CASE x = y \/ (Nan \in {x, y} /\ Null \notin {x, y}) -> 0
      [] x = Null /\ y # Null -> 1
      [] x # Null /\ y = Null -> -1
      [] OTHER    -> IF x < y THEN -1 ELSE 1

\* cmpResultItem: the first term that differs decides, in its direction.
cmpResultItem(a, b) ==
    LET differ == { k \in DOMAIN desc : JsonCompare(a.key[k], b.key[k]) # 0 } IN
    IF differ = {} THEN 0
    ELSE LET k == CHOOSE k \in differ : \A j \in differ : k <= j
             c == JsonCompare(a.key[k], b.key[k])
         IN  IF desc[k] THEN -c ELSE c

\* Mutant of TakesFirst: of equal items the one of the second list goes first.
TakesFirstIfLess(x, y) == cmpResultItem(x, y) < 0

\* Of two items that compare equal the one of the first list goes first.
TakesFirst(x, y) == cmpResultItem(x, y) <= 0

\* What the merge makes of the first list from its item c[1] on and the second
\* from c[2] on.
mergeResultItems(p1, p2) ==
    LET from[c \in (1..(Len(p1) + 1)) \X (1..(Len(p2) + 1))] ==
            IF c[1] > Len(p1) THEN SubSeq(p2, c[2], Len(p2))
            ELSE IF c[2] > Len(p2) THEN SubSeq(p1, c[1], Len(p1))
            ELSE IF TakesFirst(p1[c[1]], p2[c[2]])
            THEN <<p1[c[1]]>> \o from[<<c[1] + 1, c[2]>>]
            ELSE <<p2[c[2]]>> \o from[<<c[1], c[2] + 1>>]
    IN  from[<<1, 1>>]

-----------------------------------------------------------------------------
\* The lists that addToResultList can have built.
Init ==
    /\ desc \in Directions
    /\ uniq \in IF Len(desc) = 1 /\ ~desc[1] THEN BOOLEAN ELSE {FALSE}
    /\ \E n \in 0..MaxKeys : \E keys \in [1..n -> [DOMAIN desc -> Keys]] :
        /\ n * Len(desc) <= MaxKeys
        /\ added = [k \in 1..n |-> [key |-> keys[k], at |-> k]]
    /\ list = Reverse(added)
    /\ aList = [k \in Slots |-> <<>>]
    /\ head = <<>> /\ i = 0 /\ prev = <<>>
    /\ pc = "next"

\* The next item of the list becomes a list of its own.
TakeItem ==
    /\ pc = "next" /\ list # <<>>
    /\ head' = <<Head(list)>>
    /\ list' = Tail(list)
    /\ i' = 0
    /\ pc' = "carry"
    /\ UNCHANGED <<input, aList, prev>>

\* Mutant of MergeSlot: the slot keeps the list that was merged.
MergeSlotKept ==
    /\ pc = "carry" /\ i < NSlots /\ aList[i] # <<>>
    /\ head' = mergeResultItems(head, aList[i])
    /\ i' = i + 1
    /\ UNCHANGED <<input, list, aList, prev, pc>>

\* for(i=0; aList[i]; i++): the slot is read before the assertion on i.
MergeSlot ==
    /\ pc = "carry" /\ i < NSlots /\ aList[i] # <<>>
    /\ head' = mergeResultItems(head, aList[i])
    /\ aList' = [aList EXCEPT ![i] = <<>>]
    /\ i' = i + 1
    /\ UNCHANGED <<input, list, prev, pc>>

FillSlot ==
    /\ pc = "carry" /\ i < NSlots /\ aList[i] = <<>>
    /\ aList' = [aList EXCEPT ![i] = head]
    /\ pc' = "next"
    /\ UNCHANGED <<input, list, head, i, prev>>

ReadPastSlots ==
    /\ pc = "carry" /\ i >= NSlots
    /\ pc' = "overrun"
    /\ UNCHANGED <<input, list, aList, head, i, prev>>

CollectFirst ==
    /\ pc = "next" /\ list = <<>>
    /\ head' = aList[0]
    /\ i' = 1
    /\ pc' = "collect"
    /\ UNCHANGED <<input, list, aList, prev>>

CollectSlot ==
    /\ pc = "collect" /\ i < NSlots
    /\ head' = mergeResultItems(head, aList[i])
    /\ i' = i + 1
    /\ UNCHANGED <<input, list, aList, prev, pc>>

\* pList->pItem is set; the loops that follow start at its first item.
Collected ==
    /\ pc = "collect" /\ i >= NSlots
    /\ IF uniq /\ head # <<>>
       THEN /\ prev' = <<Head(head)>>
            /\ list' = Tail(head)
            /\ pc' = "uniq"
       ELSE /\ UNCHANGED <<prev, list>>
            /\ pc' = "check"
    /\ i' = 1
    /\ UNCHANGED <<input, aList, head>>

\* Mutants of UniqStep: no item is unlinked; pNext is not read again after an
\* item has been unlinked.
UniqStepKeepsAll ==
    /\ pc = "uniq" /\ list # <<>>
    /\ prev' = Append(prev, Head(list))
    /\ list' = Tail(list)
    /\ UNCHANGED <<input, aList, head, i, pc>>
UniqStepStays ==
    /\ pc = "uniq" /\ list # <<>>
    /\ IF cmpResultItem(Last(prev), Head(list)) = 0
       THEN UNCHANGED <<prev, list>>
       ELSE prev' = Append(prev, Head(list)) /\ list' = Tail(list)
    /\ UNCHANGED <<input, aList, head, i, pc>>

\* An item equal to the last one that was kept is unlinked.
UniqStep ==
    /\ pc = "uniq" /\ list # <<>>
    /\ prev' = IF cmpResultItem(Last(prev), Head(list)) = 0
               THEN prev ELSE Append(prev, Head(list))
    /\ list' = Tail(list)
    /\ UNCHANGED <<input, aList, head, i, pc>>

UniqEnd ==
    /\ pc = "uniq" /\ list = <<>>
    /\ head' = prev
    /\ pc' = "check"
    /\ UNCHANGED <<input, list, aList, i, prev>>

\* assert( pNext==0 || cmpResultItem(pHead, pNext, pEList)<=(uniq?-1:0) )
InOrder(a, b) == cmpResultItem(a, b) <= IF uniq THEN -1 ELSE 0

CheckOrder ==
    /\ pc = "check" /\ i < Len(head)
    /\ IF InOrder(head[i], head[i + 1])
       THEN i' = i + 1 /\ UNCHANGED pc
       ELSE pc' = "aborted" /\ UNCHANGED i
    /\ UNCHANGED <<input, list, aList, head, prev>>

Sorted ==
    /\ pc = "check" /\ i >= Len(head)
    /\ pc' = "sorted"
    /\ UNCHANGED <<input, list, aList, head, i, prev>>

Next ==
    \/ TakeItem \/ MergeSlot \/ FillSlot \/ ReadPastSlots
    \/ CollectFirst \/ CollectSlot \/ Collected
    \/ UniqStep \/ UniqEnd \/ CheckOrder \/ Sorted

\* A function that is called runs to its end.
Spec == Init /\ [][Next]_vars /\ WF_vars(Next)

-----------------------------------------------------------------------------
(* Properties *)

Before(x, y) ==
    KeyLess([k \in DOMAIN desc |-> <<x.key[k]>>], [k \in DOMAIN desc |-> <<y.key[k]>>], desc)

\* What the rest of query.c relies on (query.c:101-146): the list that is left
\* has the items that were added, each once, in order, and equal ones in the
\* order in which they were added; with uniq, the first of them only.
At(items) == [k \in DOMAIN items |-> items[k].at]
AreStablySorted(items) ==
    /\ \A k \in DOMAIN items : items[k] = added[items[k].at]
    /\ IsStableOrder(At(items), added, Before)

KeepsPromise ==
    pc = "sorted" =>
        IF uniq
        THEN /\ \A k \in DOMAIN head : head[k] = added[head[k].at]
             /\ IsDistinctOrder(At(head), added, Before)
        ELSE Len(head) = Len(added) /\ AreStablySorted(head)

\* Between two items, a slot is empty or holds 2^i items, stably sorted, and each
\* slot those that were added before the ones of the slots behind it: no item is
\* lost and none is in two slots (query.c:109-119).
SlotsAreSortedRuns ==
    pc = "next" =>
        /\ \A k \in Slots : aList[k] # <<>> => Len(aList[k]) = 2 ^ k /\ AreStablySorted(aList[k])
        /\ \A n \in DOMAIN added :
              n > Len(list) <=> \E k \in Slots : \E j \in DOMAIN aList[k] : aList[k][j].at = n
        /\ \A k, l \in Slots : k < l =>
              \A x \in ToSet(aList[k]), y \in ToSet(aList[l]) : x.at < y.at

\* "assert( pNext==0 || cmpResultItem(pHead, pNext, pEList)<=(uniq?-1:0) )"
\* (query.c:142): the list has been sorted.
SortedAssertHolds == pc # "aborted"

\* "assert( i<ArraySize(aList) )" (query.c:113): a list of fewer than
\* 2^NSlots items never runs out of slots.
SlotsSuffice == pc = "overrun" => Len(added) >= 2 ^ NSlots

\* The sort ends: every item is placed and the final loops reach the end.
Terminates == <>(pc \in {"sorted", "aborted", "overrun"})
=============================================================================
