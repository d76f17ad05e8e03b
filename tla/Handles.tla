------------------------------- MODULE Handles -------------------------------
(***************************************************************************)
(* The lifetime of the objects a client holds: an execution context        *)
(* (context.c), connections opened in it (conn.c) and the statements       *)
(* prepared on a connection (stmt.c), which a connection links into a list *)
(* that it reaches through pStmt.                                          *)
(*                                                                         *)
(* Objects are never reused: an object that free() has been called on      *)
(* stays "freed", so that a later access to it is seen.  A client uses a   *)
(* handle only until it closes it.  The constants say how orderly it is    *)
(* beyond that; the shell (shell.c:535-580, 438-470) has one statement at  *)
(* a time, deletes it before it closes the connection, and deletes its     *)
(* context last.                                                           *)
(***************************************************************************)
EXTENDS Integers, SequencesExt

CONSTANTS
    Conns,          \* connections that may be opened
    Stmts,          \* statements that may be prepared
    Nil,            \* the null pointer
    DeletesNewestFirst, \* a client deletes the statements of a connection newest first
    DeletesBeforeClose  \* a client closes a connection, or its context, last

ASSUME NilAssumption == Nil \notin Stmts \cup Conns
ASSUME ClientAssumption == DeletesNewestFirst \in BOOLEAN /\ DeletesBeforeClose \in BOOLEAN

VARIABLES
    context,        \* [state, nRef, isDying]
    conn,           \* for each connection [state, nRef, isDying, pStmt]
    stmt,           \* for each statement [state, pConn, pNext, pPrev]
    held,           \* client: for each connection its statements, newest first
    open,           \* client: the connections it has not closed
    fault           \* "none", "assert" or "freed" when freed memory is used

vars == <<context, conn, stmt, held, open, fault>>

-----------------------------------------------------------------------------
(* What the functions do to the objects *)

\* xjd1ContextUnref, with the xjd1_context_delete it may call.
ContextUnref(x) ==
    [x EXCEPT !.nRef = @ - 1,
              !.state = IF x.nRef - 1 <= 0 /\ x.isDying THEN "freed" ELSE @]

\* xjd1Unref; with it the xjd1_close that frees a connection that is dying.
ConnUnref(x) ==
    [x EXCEPT !.nRef = @ - 1,
              !.state = IF x.nRef - 1 <= 0 /\ x.isDying THEN "freed" ELSE @]

Init ==
    /\ context = [state |-> "live", nRef |-> 0, isDying |-> FALSE]
    /\ conn = [c \in Conns |->
                 [state |-> "unused", nRef |-> 0, isDying |-> FALSE, pStmt |-> Nil]]
    /\ stmt = [s \in Stmts |->
                 [state |-> "unused", pConn |-> Nil, pNext |-> Nil, pPrev |-> Nil]]
    /\ held = [c \in Conns |-> <<>>]
    /\ open = {}
    /\ fault = "none"

-----------------------------------------------------------------------------
(* context.c and conn.c *)

\* Mutant of OpenConn: a reference that xjd1_close does not give back.
OpenConnCounted(c) ==
    /\ fault = "none"
    /\ conn[c].state = "unused" /\ ~context.isDying
    /\ conn' = [conn EXCEPT ![c].state = "live", ![c].nRef = 1]
    /\ open' = open \cup {c}
    /\ UNCHANGED <<context, stmt, held, fault>>

\* xjd1_open: the connection points to its context but does not count in nRef.
OpenConn(c) ==
    /\ fault = "none"
    /\ conn[c].state = "unused" /\ ~context.isDying
    /\ conn' = [conn EXCEPT ![c].state = "live"]
    /\ open' = open \cup {c}
    /\ UNCHANGED <<context, stmt, held, fault>>

\* xjd1_close: nothing is freed while nRef > 0; the context is told otherwise.
CloseConn(c) ==
    /\ fault = "none"
    /\ c \in open
    /\ DeletesBeforeClose => held[c] = <<>>
    /\ open' = open \ {c}
    /\ IF conn[c].nRef > 0
       THEN /\ conn' = [conn EXCEPT ![c].isDying = TRUE]
            /\ UNCHANGED <<context, fault>>
       ELSE /\ conn' = [conn EXCEPT ![c].isDying = TRUE, ![c].state = "freed"]
            /\ IF context.state = "freed"
               THEN fault' = "freed" /\ UNCHANGED context
               ELSE context' = ContextUnref(context) /\ UNCHANGED fault
    /\ UNCHANGED <<stmt, held>>

\* xjd1_context_delete
DeleteContext ==
    /\ fault = "none"
    /\ ~context.isDying
    /\ DeletesBeforeClose => open = {}
    /\ context' = [context EXCEPT !.isDying = TRUE,
                                  !.state = IF context.nRef > 0 THEN @ ELSE "freed"]
    /\ UNCHANGED <<conn, stmt, held, open, fault>>

-----------------------------------------------------------------------------
(* stmt.c *)

\* xjd1_stmt_new: the statement becomes the head of the list.  The statement
\* that was the head is not told, and nRef of the connection stays.
NewStmt(c, s) ==
    /\ fault = "none"
    /\ c \in open /\ stmt[s].state = "unused"
    /\ stmt' = [stmt EXCEPT ![s] = [state |-> "live", pConn |-> c,
                                    pNext |-> conn[c].pStmt, pPrev |-> Nil]]
    /\ conn' = [conn EXCEPT ![c].pStmt = s]
    /\ held' = [held EXCEPT ![c] = <<s>> \o @]
    /\ UNCHANGED <<context, open, fault>>

\* Mutant of NewStmtFails: the statement is freed without being unlinked.
NewStmtFailsLinked(c, s) ==
    /\ fault = "none"
    /\ c \in open /\ stmt[s].state = "unused"
    /\ stmt' = [stmt EXCEPT ![s] = [state |-> "freed", pConn |-> c,
                                    pNext |-> conn[c].pStmt, pPrev |-> Nil]]
    /\ conn' = [conn EXCEPT ![c].pStmt = s]
    /\ UNCHANGED <<context, held, open, fault>>

\* The same for text that does not parse: xjd1_stmt_delete unlinks it again.
NewStmtFails(c, s) ==
    /\ fault = "none"
    /\ c \in open /\ stmt[s].state = "unused"
    /\ LET next == conn[c].pStmt IN
        stmt' = [x \in Stmts |->
                   IF x = s
                   THEN [state |-> "freed", pConn |-> c, pNext |-> next, pPrev |-> Nil]
                   ELSE [stmt[x] EXCEPT !.pPrev = IF x = next THEN Nil ELSE @]]
    /\ conn' = [conn EXCEPT ![c] = ConnUnref(@)]
    /\ UNCHANGED <<context, held, open, fault>>

\* Mutant of DeleteStmt: the connection is left pointing to the statement.
DeleteStmtStillHead(c, k) ==
    /\ fault = "none"
    /\ k \in DOMAIN held[c]
    /\ DeletesNewestFirst => k = 1
    /\ held' = [held EXCEPT ![c] = RemoveAt(@, k)]
    /\ LET s == held[c][k] IN
        IF stmt[s].pPrev = Nil /\ conn[c].pStmt # s
        THEN fault' = "assert" /\ UNCHANGED <<conn, stmt>>
        ELSE /\ stmt' = [stmt EXCEPT ![s].state = "freed"]
             /\ conn' = [conn EXCEPT ![c] = ConnUnref(@)]
             /\ UNCHANGED fault
    /\ UNCHANGED <<context, open>>

\* xjd1_stmt_delete of the statement the client holds at place k.
DeleteStmt(c, k) ==
    /\ fault = "none"
    /\ k \in DOMAIN held[c]
    /\ DeletesNewestFirst => k = 1
    /\ held' = [held EXCEPT ![c] = RemoveAt(@, k)]
    /\ LET s == held[c][k]
           p == stmt[s]
           relinked ==       \* the list without s
             [x \in Stmts |->
                [stmt[x] EXCEPT !.state = IF x = s THEN "freed" ELSE @,
                                !.pPrev = IF x = p.pNext THEN p.pPrev ELSE @,
                                !.pNext = IF x = p.pPrev THEN p.pNext ELSE @]]
       IN
       CASE conn[c].state = "freed" ->
              fault' = "freed" /\ UNCHANGED <<conn, stmt>>
         [] conn[c].state # "freed" /\ p.pPrev = Nil /\ conn[c].pStmt # s ->
              fault' = "assert" /\ UNCHANGED <<conn, stmt>>
         [] OTHER ->
              /\ stmt' = relinked
              /\ conn' = [conn EXCEPT ![c] =
                    ConnUnref([@ EXCEPT !.pStmt = IF p.pPrev = Nil THEN p.pNext ELSE conn[c].pStmt])]
              /\ UNCHANGED fault
    /\ UNCHANGED <<context, open>>

Next ==
    \/ \E c \in Conns : OpenConn(c) \/ CloseConn(c)
    \/ \E c \in Conns, s \in Stmts : NewStmt(c, s) \/ NewStmtFails(c, s)
    \/ \E c \in Conns : \E k \in DOMAIN held[c] : DeleteStmt(c, k)
    \/ DeleteContext

Spec == Init /\ [][Next]_vars

-----------------------------------------------------------------------------
(* Properties *)

Pointers == Stmts \cup {Nil}
States == {"unused", "live", "freed"}

\* The types of the fields of the three objects.
TypeOK ==
    /\ context \in [state : {"live", "freed"}, nRef : Int, isDying : BOOLEAN]
    /\ conn \in [Conns -> [state : States, nRef : Int, isDying : BOOLEAN, pStmt : Pointers]]
    /\ stmt \in [Stmts -> [state : States, pConn : Conns \cup {Nil},
                           pNext : Pointers, pPrev : Pointers]]
    /\ held \in [Conns -> Seq(Stmts)]
    /\ open \subseteq Conns
    /\ fault \in {"none", "assert", "freed"}

\* No function reads or writes an object that has been freed, and the assertion
\* of xjd1_stmt_delete holds (stmt.c:128), for a client that is orderly.
NoFault == fault = "none"

Orderly == DeletesNewestFirst /\ DeletesBeforeClose

\* The list of a connection has the statements the client still holds on it,
\* all of them and no other, newest first (stmt.c:38-39, 124-133).
ListIsHeld ==
    \A c \in open :
        /\ conn[c].pStmt = IF held[c] = <<>> THEN Nil ELSE held[c][1]
        /\ \A k \in DOMAIN held[c] :
              stmt[held[c][k]].pNext = IF k < Len(held[c]) THEN held[c][k + 1] ELSE Nil

\* What the client has let go of is freed at once, not kept for ever: a deleted
\* statement, a closed connection and, after the last of them, the context.
NothingLeaks ==
    /\ \A s \in Stmts : stmt[s].state = "live" =>
          \E c \in Conns : \E k \in DOMAIN held[c] : held[c][k] = s
    /\ \A c \in Conns \ open : conn[c].state \in {"unused", "freed"}
    /\ context.isDying /\ open = {} => context.state = "freed"

\* "The close does not actually occur until all references to the connection
\* also close.  This means that any prepared statements must also be closed."
\* (conn.c:63-65)
CloseWaitsForStatements ==
    \A c \in Conns : conn[c].state = "freed" => held[c] = <<>>

\* "assert( pStmt->pConn->pStmt==pStmt )" (stmt.c:128)
UnlinkAssertHolds == fault # "assert"
=============================================================================
