--------------------------------- MODULE Dml ---------------------------------
(***************************************************************************)
(* The statements that change collections: INSERT, CREATE and DROP of      *)
(* stmt.c, xjd1DeleteStep of delete.c and xjd1UpdateStep of update.c, one  *)
(* call into SQLite per step, on one connection to a database file.        *)
(*                                                                         *)
(* SQLite is external and modelled as the code uses it.  A write is        *)
(* committed when its statement ends unless a transaction is open; BEGIN   *)
(* fails inside a transaction and COMMIT outside one; a table cannot be    *)
(* dropped while a SELECT on the connection is between two of its rows     *)
(* (cursors counts those); a string of several statements given to         *)
(* sqlite3_exec is left at the first that fails.  Temporary tables and     *)
(* open transactions die with the connection.                              *)
(*                                                                         *)
(* delete.c and update.c look at no return code: what a failed call leads  *)
(* to is what the next call finds.                                         *)
(***************************************************************************)
EXTENDS Collections

CONSTANTS
    Nil,            \* no statement runs; no table _t1
    Clients,        \* how the client may behave, see client
    MaxRow,         \* bound: the largest rowid an INSERT makes
    MaxCursors      \* bound: SELECTs that are between two rows

ASSUME NilAssumption == Nil \notin Given /\ \A rows \in SUBSET (1..MaxRow) : Nil # rows
ASSUME AbsentAssumption == \A rows \in SUBSET (1..MaxRow) : Absent \notin [rows -> Docs]
ASSUME ClientsAssumption == Clients \subseteq [keepsCursors : BOOLEAN, deletesMissing : BOOLEAN]
ASSUME DmlBoundsAssumption == MaxRow \in Nat /\ MaxCursors \in Nat

VARIABLES
    client,         \* whether it leaves a SELECT between two rows, and whether it
                    \* names a missing collection in DELETE ... WHERE; never changes
    db,             \* the collections as the connection sees them
    disk,           \* the collections as committed: what a restart finds
    inTxn,          \* a transaction is open
    t1,             \* the rowids in the temporary table _t1, or Nil without it
    cursors,        \* SELECTs of other statements that are between two rows
    stmt, base,     \* the statement that runs, and disk before it
    pc,             \* the next call into SQLite, "idle" between statements
    pos,            \* rowid the scan is at
    nUpdate,        \* rows revised by the UPDATE
    ret             \* what the last statement returned

data == <<db, disk>>
txn == <<inTxn, t1>>
call == <<stmt, base>>
scan == <<pos, nUpdate>>
vars == <<client, data, txn, cursors, call, pc, scan, ret>>

Empty == [c \in Colls |-> Absent]

Init ==
    /\ client \in Clients
    /\ db = Empty /\ disk = Empty
    /\ inTxn = FALSE /\ t1 = Nil /\ cursors = 0
    /\ stmt = Nil /\ base = Empty /\ pc = "idle"
    /\ pos = 0 /\ nUpdate = 0
    /\ ret = "NONE"

-----------------------------------------------------------------------------
(* Calls into SQLite (external) *)

table == db[stmt.coll]
Exists == table # Absent

\* A write to the collection of the statement, committed unless in a transaction.
Write(t) ==
    /\ db' = [db EXCEPT ![stmt.coll] = t]
    /\ disk' = IF inTxn THEN disk ELSE db'

\* The statement is over (after the committed collections have been set).
Return(code) ==
    /\ pc' = "idle" /\ stmt' = Nil /\ base' = disk'
    /\ pos' = 0 /\ nUpdate' = 0
    /\ ret' = code

Goto(label) ==
    /\ pc' = label
    /\ UNCHANGED <<call, scan, ret>>

-----------------------------------------------------------------------------
(* The client: xjd1_stmt_step of a prepared statement, or of a SELECT *)

\* Mutant of FirstCall: an UPDATE with ELSE INSERT without a transaction.
FirstCallNoBegin(s) ==
    CASE s.op = "delete" -> "begin"
      [] s.op = "update" -> "scan"
      [] OTHER           -> s.op

FirstCall(s) ==
    CASE s.op = "delete" \/ IsUpsert(s)     -> "begin"
      [] s.op = "update" /\ ~IsUpsert(s)    -> "scan"
      [] OTHER                              -> s.op

Begin ==
    /\ pc = "idle"
    /\ stmt' \in Given
    /\ stmt'.op = "delete" /\ db[stmt'.coll] = Absent => client.deletesMissing
    /\ db[stmt'.coll] # Absent /\ Inserts(stmt', db[stmt'.coll]) =>
          NextRow(db[stmt'.coll]) \in 1..MaxRow
    /\ pc' = FirstCall(stmt')
    /\ UNCHANGED <<client, data, txn, cursors, base, scan, ret>>

\* A SELECT returns a row, and is not at its end; it is stepped to the end or
\* deleted.  (A SELECT over a join that is deleted keeps its cursors.)
OpenCursor ==
    /\ pc = "idle" /\ client.keepsCursors
    /\ cursors < MaxCursors
    /\ \E c \in Colls : db[c] # Absent /\ DOMAIN db[c] # {}
    /\ cursors' = cursors + 1
    /\ UNCHANGED <<client, data, txn, call, pc, scan, ret>>

CloseCursor ==
    /\ pc = "idle" /\ cursors > 0
    /\ cursors' = cursors - 1
    /\ UNCHANGED <<client, data, txn, call, pc, scan, ret>>

\* The process ends, between any two calls, and another opens the file.
Restart ==
    /\ db' = disk
    /\ inTxn' = FALSE /\ t1' = Nil /\ cursors' = 0
    /\ UNCHANGED <<client, disk>>
    /\ Return("NONE")

-----------------------------------------------------------------------------
(* xjd1_stmt_step: CREATE, DROP and INSERT, which report an error *)

Create ==
    /\ pc = "create"
    /\ IF Exists THEN UNCHANGED data ELSE Write(EmptyTable)
    /\ Return(IF Exists /\ ~stmt.lenient THEN "ERROR" ELSE "DONE")
    /\ UNCHANGED <<client, txn, cursors>>

Drop ==
    /\ pc = "drop"
    /\ IF Exists /\ cursors = 0 THEN Write(Absent) ELSE UNCHANGED data
    /\ Return(IF IF Exists THEN cursors = 0 ELSE stmt.lenient THEN "DONE" ELSE "ERROR")
    /\ UNCHANGED <<client, txn, cursors>>

\* INSERT ... SELECT is "not yet implemented": it leaves a message, inserts
\* nothing and returns XJD1_DONE, as a value that cannot be evaluated does.
Insert ==
    /\ pc = "insert"
    /\ IF Exists /\ stmt.doc # NoDoc THEN Write(Inserted(table, stmt.doc)) ELSE UNCHANGED data
    /\ Return(IF Exists \/ stmt.doc = NoDoc THEN "DONE" ELSE "ERROR")
    /\ UNCHANGED <<client, txn, cursors>>

-----------------------------------------------------------------------------
(* xjd1DeleteStep and xjd1UpdateStep *)

DeleteAll ==
    /\ pc = "deleteAll"
    /\ IF Exists THEN Write(EmptyTable) ELSE UNCHANGED data
    /\ Return("OK")
    /\ UNCHANGED <<client, txn, cursors>>

\* "BEGIN", and for DELETE "; CREATE TEMP TABLE _t1" if that succeeds.
BeginTransaction ==
    /\ pc = "begin"
    /\ inTxn' = TRUE
    /\ Goto(IF stmt.op = "delete" /\ ~inTxn THEN "createT1" ELSE "scan")
    /\ UNCHANGED <<client, data, t1, cursors>>

\* Mutant of CreateT1: a DELETE gives up when the table cannot be created.
CreateT1OrReturn ==
    /\ pc = "createT1"
    /\ UNCHANGED <<client, data, inTxn, cursors>>
    /\ IF t1 = Nil
       THEN t1' = {} /\ Goto("scan")
       ELSE UNCHANGED t1 /\ Return("OK")

CreateT1 ==
    /\ pc = "createT1"
    /\ t1' = IF t1 = Nil THEN {} ELSE t1
    /\ Goto("scan")
    /\ UNCHANGED <<client, data, inTxn, cursors>>

\* sqlite3_step(pQuery) at the next row of the collection.
IsNextRow(r) ==
    /\ Exists /\ r \in DOMAIN table /\ r > pos
    /\ \A x \in DOMAIN table : x > pos => x >= r

Accepts(r) == table[r] \in stmt.where

ScanRow ==
    /\ pc = "scan"
    /\ \E r \in 1..MaxRow : IsNextRow(r) /\ ~Accepts(r) /\ pos' = r
    /\ UNCHANGED <<client, data, txn, cursors, call, pc, nUpdate, ret>>

\* A row to delete: INSERT INTO _t1, which a row already there makes fail.
CollectRow ==
    /\ pc = "scan" /\ stmt.op = "delete"
    /\ \E r \in 1..MaxRow :
        /\ IsNextRow(r) /\ Accepts(r)
        /\ pos' = r
        /\ t1' = IF t1 = Nil THEN Nil ELSE t1 \cup {r}
    /\ UNCHANGED <<client, data, inTxn, cursors, call, pc, nUpdate, ret>>

\* Mutant of ReviseRow: the scan stays at the row.
ReviseRowAgain ==
    /\ pc = "scan" /\ stmt.op = "update"
    /\ \E r \in 1..MaxRow : IsNextRow(r) /\ Accepts(r) /\ Write(Revised(stmt, table, {r}))
    /\ nUpdate' = nUpdate + 1
    /\ UNCHANGED <<client, txn, cursors, call, pc, pos, ret>>

ReviseRow ==
    /\ pc = "scan" /\ stmt.op = "update"
    /\ \E r \in 1..MaxRow :
        /\ IsNextRow(r) /\ Accepts(r)
        /\ pos' = r
        /\ Write(Revised(stmt, table, {r}))
    /\ nUpdate' = nUpdate + 1
    /\ UNCHANGED <<client, txn, cursors, call, pc, ret>>

\* The end of the scan, or no scan because the collection is missing.
NoMoreRows == \A r \in 1..MaxRow : ~IsNextRow(r)

\* Mutant of ScanEnd: an UPDATE that revised a row skips the end of ELSE INSERT.
ScanEndNoCommit ==
    /\ pc = "scan" /\ NoMoreRows
    /\ UNCHANGED <<client, data, txn, cursors>>
    /\ CASE stmt.op = "delete"             -> Goto("deleteT1")
         [] IsUpsert(stmt) /\ nUpdate = 0 -> Goto("upsert")
         [] OTHER                          -> Return("OK")

ScanEnd ==
    /\ pc = "scan" /\ NoMoreRows
    /\ UNCHANGED <<client, data, txn, cursors>>
    /\ CASE stmt.op = "delete" -> Goto("deleteT1")
         [] IsUpsert(stmt)     -> Goto(IF nUpdate = 0 THEN "upsert" ELSE "commit")
         [] OTHER              -> Return("OK")

\* "DELETE FROM ... WHERE rowid IN _t1"
DeleteT1 ==
    /\ pc = "deleteT1"
    /\ IF Exists /\ t1 # Nil
       THEN Write(Without(table, t1)) /\ Goto("dropT1")
       ELSE UNCHANGED data /\ Return("OK")
    /\ UNCHANGED <<client, txn, cursors>>

\* "; DROP TABLE _t1"
DropT1 ==
    /\ pc = "dropT1"
    /\ UNCHANGED <<client, data, inTxn, cursors>>
    /\ IF cursors = 0
       THEN t1' = Nil /\ Goto("commit")
       ELSE UNCHANGED t1 /\ Return("OK")

\* ELSE INSERT
UpsertRow ==
    /\ pc = "upsert"
    /\ IF Exists THEN Write(Inserted(table, stmt.doc)) ELSE UNCHANGED data
    /\ Goto("commit")
    /\ UNCHANGED <<client, txn, cursors>>

\* "; COMMIT"
Commit ==
    /\ pc = "commit"
    /\ inTxn' = FALSE
    /\ disk' = db
    /\ Return("OK")
    /\ UNCHANGED <<client, db, t1, cursors>>

Statement ==
    \/ Create \/ Drop \/ Insert \/ DeleteAll
    \/ BeginTransaction \/ CreateT1
    \/ ScanRow \/ CollectRow \/ ReviseRow \/ ScanEnd
    \/ DeleteT1 \/ DropT1 \/ UpsertRow \/ Commit

Next == Begin \/ OpenCursor \/ CloseCursor \/ Restart \/ Statement

Spec == Init /\ [][Next]_vars

-----------------------------------------------------------------------------
(* Properties *)

Tables == UNION { [rows -> Docs] : rows \in SUBSET (1..MaxRow) }
Databases == [Colls -> Tables \cup {Absent}]
PCs == {"idle", "create", "drop", "insert", "deleteAll", "begin", "createT1", "scan",
        "deleteT1", "dropT1", "upsert", "commit"}

\* The types of the variables; a scan never passes more rows than there are.
TypeOK ==
    /\ client \in Clients
    /\ db \in Databases /\ disk \in Databases /\ base \in Databases
    /\ inTxn \in BOOLEAN
    /\ t1 = Nil \/ t1 \subseteq 1..MaxRow
    /\ cursors \in 0..MaxCursors
    /\ IF pc = "idle" THEN stmt = Nil ELSE stmt \in Given
    /\ pc \in PCs
    /\ pos \in 0..MaxRow /\ nUpdate \in 0..MaxRow
    /\ ret \in {"NONE", "OK", "DONE", "ERROR"}

\* A client that reads every SELECT to its end before it gives another
\* statement, and deletes from collections that exist.
Tidy == ~client.keepsCursors /\ ~client.deletesMissing

\* For a tidy client every statement changes the committed collections as a
\* whole, or row by row for UPDATE without ELSE INSERT, wherever a crash may
\* interrupt it; and what it has reported as done is committed (delete.c:44-68,
\* update.c:178-239, stmt.c:152-207).
Abstract == INSTANCE Store WITH data <- disk
ImplementsStore ==
    /\ Tidy => Abstract!Init
    /\ [][Tidy => Abstract!Next]_(Abstract!vars)

\* No transaction and no temporary table outlives the statement of a tidy
\* client that opened it (delete.c:44-45, 64-67, update.c:179, 238).
EndsClean == Tidy /\ pc = "idle" => ~inTxn /\ t1 = Nil

\* A DELETE that could not drop _t1 leaves its transaction open.  Whatever the
\* client did, the next DELETE with a WHERE clause from a collection that
\* exists, with no SELECT between two rows, closes both again, although its
\* own BEGIN or CREATE fails (delete.c:44-45, 64-67).
DeleteRecovers ==
    [][ pc \notin {"idle", "begin"} /\ stmt.op = "delete" /\ ret' = "OK" /\ pc' = "idle"
        /\ Exists /\ cursors = 0 => ~inTxn' /\ t1' = Nil ]_vars

\* "You can delete a single entry: DELETE FROM abc WHERE abc==1234"
\* (demo1.txt:66-68): the rows that a DELETE removes are among those that its
\* WHERE clause accepts.
DeletesOnlyAccepted ==
    [][ pc = "deleteT1" /\ pc' = "dropT1" =>
          \A r \in DOMAIN table \ DOMAIN db'[stmt.coll] : Accepts(r) ]_vars
=============================================================================
