-------------------------------- MODULE Store --------------------------------
(***************************************************************************)
(* What the statements that change collections promise: a statement that   *)
(* returns has changed the committed collections to what it means, and a   *)
(* crash at any moment leaves one of the states the statement goes through *)
(* on the way, the one before it or a later one, never a mixture.          *)
(***************************************************************************)
EXTENDS Collections

CONSTANT Nil

VARIABLES
    data,       \* the committed collections
    base,       \* what they were before the statement that runs
    stmt,       \* the statement that runs, or Nil
    ret         \* what the last statement returned, "NONE" after a restart

vars == <<data, base, stmt, ret>>

Init ==
    /\ data = [c \in Colls |-> Absent]
    /\ base = data
    /\ stmt = Nil /\ ret = "NONE"

Begin ==
    /\ stmt = Nil
    /\ stmt' \in Given
    /\ UNCHANGED <<data, base, ret>>

\* A stage that has been committed is not taken back.
Advance ==
    /\ stmt # Nil
    /\ \E k \in 0..LastStage(stmt, base) : \E m \in k..LastStage(stmt, base) :
        /\ data = Stage(stmt, base, k)
        /\ data' = Stage(stmt, base, m)
    /\ UNCHANGED <<base, stmt, ret>>

Return ==
    /\ stmt # Nil
    /\ \E k \in 0..LastStage(stmt, base) : data = Stage(stmt, base, k)
    /\ data' = Stage(stmt, base, LastStage(stmt, base))
    /\ stmt' = Nil
    /\ ret' = Reply(stmt, base)
    /\ base' = data'

Restart ==
    /\ stmt' = Nil
    /\ ret' = "NONE"
    /\ base' = data
    /\ UNCHANGED data

Next == Begin \/ Advance \/ Return \/ Restart

Spec == Init /\ [][Next]_vars
=============================================================================
