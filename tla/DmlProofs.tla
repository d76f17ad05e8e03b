------------------------------ MODULE DmlProofs ------------------------------
(***************************************************************************)
(* What a DELETE or an UPDATE leaves behind it, for any collections,       *)
(* documents, statements and clients, by three inductive invariants, each  *)
(* proved from the one before it:                                          *)
(*                                                                         *)
(*   CallAgrees  the call into SQLite that comes next is one of the        *)
(*               statement that runs                                       *)
(*   Typed       the types, that there is room for a row to insert, and    *)
(*               that ELSE INSERT has seen no row it could have revised      *)
(*   IInv        whether a transaction is open and whether _t1 exists      *)
(*                                                                         *)
(* The first half of IInv, TxnAgrees, holds whatever the client does: a    *)
(* transaction that a statement finds open was left by a DELETE, whose _t1 *)
(* is there too, so that the next DELETE can go on where its own BEGIN     *)
(* fails.  The second, TidyAgrees, is what a tidy client finds.            *)
(*                                                                         *)
(* The second part of the module proves that for a tidy client the         *)
(* statements implement Store: a step commits nothing, or a later stage of *)
(* the statement that runs, or its last.  Its invariant, DataAgrees, says  *)
(* what each call finds in the collections by what they were before the    *)
(* statement (base): in a scan, the rows that it has passed and WHERE      *)
(* accepts are revised, or are in _t1; from the write that ends it to      *)
(* COMMIT, the connection sees what the statement means, and the file is   *)
(* as it was.                                                              *)
(***************************************************************************)
EXTENDS Dml, WellFoundedInduction, TLAPS

Between == {"idle", "create", "drop", "insert", "deleteAll", "begin"}
InDelete == {"createT1", "deleteT1", "dropT1"}
Plain == stmt.op = "update" /\ ~IsUpsert(stmt)

USE DEF Between, InDelete, Plain

CallAgrees ==
    /\ IF pc = "idle" THEN stmt = Nil ELSE stmt \in Given
    /\ pc \in {"create", "drop", "insert", "deleteAll"} => stmt.op = pc
    /\ pc = "begin" => stmt.op = "delete" \/ IsUpsert(stmt)
    /\ pc = "scan" => stmt.op \in {"delete", "update"}
    /\ pc \in InDelete => stmt.op = "delete"
    /\ pc = "upsert" => IsUpsert(stmt)
    /\ pc = "commit" => stmt.op = "delete" \/ IsUpsert(stmt)

\* A statement that will insert has a rowid within the bound to insert at.
HasRoom == Exists /\ Inserts(stmt, table) => NextRow(table) \in 1..MaxRow

\* An UPDATE that has revised nothing has rejected every row that it has passed.
PassedRejected == Exists => \A r \in DOMAIN table : r <= pos => ~Accepts(r)
AllRejected == Exists => \A r \in DOMAIN table : ~Accepts(r)

Typed ==
    /\ TypeOK
    /\ nUpdate <= pos
    /\ pc \in {"idle", "begin", "createT1"} => pos = 0
    /\ pc \in {"insert", "begin", "upsert"} \/ (pc = "scan" /\ nUpdate = 0) => HasRoom
    /\ pc = "scan" /\ stmt.op = "update" /\ nUpdate = 0 => PassedRejected
    /\ pc = "upsert" => AllRejected

TxnAgrees ==
    /\ pc \in Between \/ (pc = "scan" /\ Plain) => (inTxn => t1 # Nil)
    /\ pc \in InDelete \cup {"upsert", "commit"} => inTxn
    /\ pc = "scan" /\ ~Plain => inTxn
    /\ pc \in {"scan", "deleteT1", "dropT1"} /\ stmt.op = "delete" => t1 # Nil
    /\ pc = "commit" /\ stmt.op = "delete" => t1 = Nil

TidyAgrees ==
    Tidy =>
      /\ cursors = 0
      /\ pc \in Between \/ (pc = "scan" /\ Plain) => ~inTxn
      /\ pc \in Between \cup {"createT1", "upsert", "commit"} => t1 = Nil
      /\ pc = "scan" /\ stmt.op # "delete" => t1 = Nil
      /\ pc # "idle" /\ stmt.op = "delete" /\ pc \notin {"dropT1", "commit"} => Exists

IInv == TxnAgrees /\ TidyAgrees

-----------------------------------------------------------------------------
(* The call that comes next *)

\* What Begin has to choose from.
LEMMA FirstCalls ==
    ASSUME NEW s \in Given
    PROVE  \/ FirstCall(s) = "begin" /\ (s.op = "delete" \/ IsUpsert(s))
           \/ FirstCall(s) = "scan" /\ s.op = "update" /\ ~IsUpsert(s)
           \/ FirstCall(s) = s.op /\ s.op \in {"create", "drop", "insert", "deleteAll"}
<1>1. s.op \in Ops
  BY GivenAssumption DEF Statements
<1> QED BY <1>1 DEF FirstCall, Ops, IsUpsert

LEMMA CallStep == CallAgrees /\ [Next]_vars => CallAgrees'
<1> SUFFICES ASSUME CallAgrees, [Next]_vars PROVE CallAgrees'
  OBVIOUS
<1>1. CASE UNCHANGED vars \/ OpenCursor \/ CloseCursor
  <2>1. pc' = pc /\ stmt' = stmt
    BY <1>1 DEF vars, call, OpenCursor, CloseCursor
  <2> QED BY <2>1 DEF CallAgrees, IsUpsert
<1>2. CASE Begin
  <2>1. stmt' \in Given /\ pc' = FirstCall(stmt')
    BY <1>2 DEF Begin
  <2> QED BY <2>1, FirstCalls DEF CallAgrees, IsUpsert
<1>3. ASSUME NEW code, Return(code) PROVE CallAgrees'
  BY <1>3 DEF CallAgrees, Return
<1>4. CASE Restart \/ Create \/ Drop \/ Insert \/ DeleteAll \/ Commit
  BY <1>3, <1>4 DEF Restart, Create, Drop, Insert, DeleteAll, Commit
<1>5. CASE BeginTransaction \/ CreateT1 \/ UpsertRow
  <2>1. stmt' = stmt /\ stmt \in Given
    BY <1>5 DEF CallAgrees, BeginTransaction, CreateT1, UpsertRow, Goto, call
  <2>2. CASE BeginTransaction
    BY <2>1, <2>2 DEF CallAgrees, BeginTransaction, Goto, IsUpsert
  <2>3. CASE CreateT1
    BY <2>1, <2>3 DEF CallAgrees, CreateT1, Goto, IsUpsert
  <2>4. CASE UpsertRow
    BY <2>1, <2>4 DEF CallAgrees, UpsertRow, Goto, IsUpsert
  <2> QED BY <1>5, <2>2, <2>3, <2>4
<1>6. CASE ScanRow \/ CollectRow \/ ReviseRow
  <2>1. pc = "scan" /\ pc' = "scan" /\ stmt' = stmt
    BY <1>6 DEF ScanRow, CollectRow, ReviseRow, call
  <2> QED BY <2>1 DEF CallAgrees
<1>7. CASE ScanEnd
  <2>1. stmt \in Given /\ stmt.op \in {"delete", "update"}
    BY <1>7 DEF CallAgrees, ScanEnd
  <2>2. CASE stmt.op = "delete"
    BY <1>7, <2>1, <2>2 DEF CallAgrees, ScanEnd, Goto, call, IsUpsert
  <2>3. CASE IsUpsert(stmt)
    BY <1>7, <2>1, <2>3 DEF CallAgrees, ScanEnd, Goto, call, IsUpsert
  <2>4. CASE Plain
    BY <1>3, <1>7, <2>4 DEF ScanEnd
  <2> QED BY <2>1, <2>2, <2>3, <2>4
<1>8. CASE DeleteT1 \/ DropT1
  <2>1. stmt \in Given /\ stmt.op = "delete"
    BY <1>8 DEF CallAgrees, DeleteT1, DropT1
  <2>2. Return("OK") \/ (pc' \in {"dropT1", "commit"} /\ stmt' = stmt)
    BY <1>8 DEF DeleteT1, DropT1, Goto, call
  <2> QED BY <1>3, <2>1, <2>2 DEF CallAgrees
<1> QED BY <1>1, <1>2, <1>4, <1>5, <1>6, <1>7, <1>8 DEF Next, Statement

LEMMA Calls == Spec => []CallAgrees
<1>1. Init => CallAgrees
  BY DEF Init, CallAgrees
<1> QED BY <1>1, CallStep, PTL DEF Spec
-----------------------------------------------------------------------------
(* Types: what the operators of Collections make of a table *)

\* A set of numbers that is not empty has a least element.
LEMMA LeastElement ==
    ASSUME NEW T, T \subseteq Nat, T # {}
    PROVE  \E x \in T : \A y \in T : x <= y
<1> DEFINE R == { pair \in Nat \X Nat : pair[1] < pair[2] }
<1>1. IsWellFoundedOn(R, Nat)
  BY NatLessThanWellFounded DEF OpToRel
<1> HIDE DEF R
<1>2. PICK x \in T : \A y \in T : <<y, x>> \notin R
  BY <1>1, WFMin, Zenon
<1>3. \A y \in T : ~(y < x)
  BY <1>2 DEF R
<1> QED BY <1>3

LEMMA IsTable ==
    ASSUME NEW t
    PROVE  t \in Tables <=> DOMAIN t \subseteq 1..MaxRow /\ t \in [DOMAIN t -> Docs]
BY DEF Tables

LEMMA EmptyIsTable == EmptyTable \in Tables
BY DEF Tables, EmptyTable

LEMMA InsertedIsTable ==
    ASSUME NEW t \in Tables, NEW doc \in Docs, NextRow(t) \in 1..MaxRow
    PROVE  Inserted(t, doc) \in Tables
<1> DEFINE n == NextRow(t)
           u == Inserted(t, doc)
<1>1. u = [r \in DOMAIN t \cup {n} |-> IF r \in DOMAIN t THEN t[r] ELSE doc]
  BY DEF Inserted
<1>2. DOMAIN t \subseteq 1..MaxRow /\ t \in [DOMAIN t -> Docs]
  BY IsTable
<1> HIDE DEF n, u
<1>3. DOMAIN u = DOMAIN t \cup {n} /\ u \in [DOMAIN t \cup {n} -> Docs]
  BY <1>1, <1>2
<1>4. DOMAIN u \subseteq 1..MaxRow
  BY <1>2, <1>3 DEF n
<1>5. u \in Tables
  BY <1>3, <1>4, IsTable
<1> QED BY <1>5 DEF u

LEMMA RevisedIsTable ==
    ASSUME NEW s \in Given, NEW t \in Tables, NEW rows
    PROVE  Revised(s, t, rows) \in Tables /\ DOMAIN Revised(s, t, rows) = DOMAIN t
<1>1. s.set \in [Docs -> Docs]
  BY GivenAssumption DEF Statements
<1>2. DOMAIN t \subseteq 1..MaxRow /\ t \in [DOMAIN t -> Docs]
  BY IsTable
<1>3. Revised(s, t, rows) \in [DOMAIN t -> Docs]
  BY <1>1, <1>2 DEF Revised
<1> QED BY <1>2, <1>3, IsTable

LEMMA WithoutIsTable ==
    ASSUME NEW t \in Tables, NEW rows
    PROVE  Without(t, rows) \in Tables
<1>1. DOMAIN t \subseteq 1..MaxRow /\ t \in [DOMAIN t -> Docs]
  BY IsTable
<1>2. Without(t, rows) \in [DOMAIN t \ rows -> Docs]
  BY <1>1 DEF Without
<1> QED BY <1>1, <1>2, IsTable

LEMMA WriteTyped ==
    ASSUME TypeOK, stmt \in Given, NEW t \in Tables \cup {Absent}, Write(t)
    PROVE  db' \in Databases /\ disk' \in Databases
<1>1. stmt.coll \in Colls
  BY GivenAssumption DEF Statements
<1>2. db' \in Databases
  BY <1>1 DEF TypeOK, Databases, Write
<1> QED BY <1>2 DEF TypeOK, Write

\* The table of a statement.
LEMMA TableTyped ==
    ASSUME NEW d \in Databases, NEW s \in Given, d[s.coll] # Absent
    PROVE  d[s.coll] \in Tables /\ DOMAIN d[s.coll] \subseteq 1..MaxRow
<1>1. s.coll \in Colls
  BY GivenAssumption DEF Statements
<1>2. d[s.coll] \in Tables
  BY <1>1 DEF Databases
<1> QED BY <1>2, IsTable

LEMMA DocTyped ==
    ASSUME NEW s \in Given, s.doc # NoDoc
    PROVE  s.doc \in Docs
BY GivenAssumption DEF Statements

LEMMA NonePassed ==
    ASSUME TypeOK, stmt \in Given, pos = 0
    PROVE  PassedRejected
<1>1. Exists => DOMAIN table \subseteq 1..MaxRow
  BY TableTyped DEF TypeOK, Exists, table
<1> QED BY <1>1, DmlBoundsAssumption DEF PassedRejected

\* A scan that finds no next row has passed them all.
LEMMA ScanPassesAll ==
    ASSUME TypeOK, stmt \in Given, Exists, NoMoreRows
    PROVE  \A r \in DOMAIN table : r <= pos
<1> DEFINE T == { r \in DOMAIN table : r > pos }
<1>1. DOMAIN table \subseteq 1..MaxRow /\ pos \in 0..MaxRow
  BY TableTyped DEF TypeOK, Exists, table
<1>2. ASSUME T # {} PROVE FALSE
  <2>1. T \subseteq Nat
    BY <1>1, DmlBoundsAssumption
  <2>2. PICK x \in T : \A y \in T : x <= y
    BY <1>2, <2>1, LeastElement
  <2>3. x \in 1..MaxRow /\ IsNextRow(x)
    BY <1>1, <2>2, DmlBoundsAssumption DEF IsNextRow
  <2> QED BY <2>3 DEF NoMoreRows
<1> QED BY <1>1, <1>2, DmlBoundsAssumption

-----------------------------------------------------------------------------
(* Types: the steps *)

LEMMA InitTyped == Init => Typed
<1> SUFFICES ASSUME Init PROVE Typed
  OBVIOUS
<1>1. Empty \in Databases
  BY DEF Empty, Databases
<1>2. 0 \in 0..MaxRow /\ 0 \in 0..MaxCursors
  BY DmlBoundsAssumption
<1>3. inTxn = FALSE /\ pc = "idle" /\ pos = 0 /\ nUpdate = 0 /\ ret = "NONE" /\ cursors = 0
  BY DEF Init
<1>4. TypeOK
  BY <1>1, <1>2, <1>3 DEF Init, TypeOK, PCs
<1> QED BY <1>3, <1>4 DEF Typed

\* A statement that returns leaves the collections typed if it found them so.
LEMMA ReturnTyped ==
    ASSUME TypeOK, NEW code \in {"NONE", "OK", "DONE", "ERROR"}, Return(code),
           db' \in Databases, disk' \in Databases, UNCHANGED client,
           inTxn' \in BOOLEAN, t1' = Nil \/ t1' = t1, cursors' = cursors \/ cursors' = 0
    PROVE  Typed'
<1>1. pc' = "idle" /\ stmt' = Nil /\ base' = disk' /\ pos' = 0 /\ nUpdate' = 0 /\ ret' = code
  BY DEF Return
<1>2. TypeOK'
  BY <1>1, DmlBoundsAssumption DEF TypeOK, PCs
<1> QED BY <1>1, <1>2 DEF Typed

\* A call that is not a write, and leaves the statement running.
LEMMA GotoTyped ==
    ASSUME Typed, CallAgrees, CallAgrees', NEW label \in PCs \ {"idle"}, Goto(label), pc # "idle",
           UNCHANGED <<client, cursors>>, db' \in Databases, disk' \in Databases,
           inTxn' \in BOOLEAN, t1' = Nil \/ t1' \subseteq 1..MaxRow,
           label \in {"createT1", "scan"} => pos = 0,
           label \notin {"insert", "begin"},
           label = "scan" \/ label = "upsert" => HasRoom',
           label = "scan" => PassedRejected',
           label = "upsert" => AllRejected'
    PROVE  Typed'
<1>1. pc' = label /\ UNCHANGED <<stmt, base, pos, nUpdate, ret>>
  BY DEF Goto, call, scan
<1>2. TypeOK'
  BY <1>1 DEF Typed, TypeOK, CallAgrees
<1>3. /\ HasRoom' \/ label \notin {"scan", "upsert"}
      /\ nUpdate' <= pos' /\ (label \in {"createT1", "scan"} => pos' = 0)
  BY <1>1 DEF Typed
<1> QED BY <1>1, <1>2, <1>3 DEF Typed

\* What a step that leaves the collections and the statement alone keeps.
LEMMA Kept ==
    ASSUME UNCHANGED <<db, stmt>>
    PROVE  /\ HasRoom => HasRoom'
           /\ AllRejected => AllRejected'
           /\ PassedRejected /\ UNCHANGED pos => PassedRejected'
<1>1. (Exists <=> Exists') /\ table' = table
  BY DEF Exists, table
<1>2. \A r : Accepts(r)' <=> Accepts(r)
  BY <1>1 DEF Accepts
<1> QED BY <1>1, <1>2 DEF HasRoom, AllRejected, PassedRejected, Inserts, IsUpsert

LEMMA BetweenTyped ==
    ASSUME Typed, CallAgrees, CallAgrees',
           UNCHANGED vars \/ Begin \/ OpenCursor \/ CloseCursor \/ Restart
    PROVE  Typed'
<1>1. CASE UNCHANGED vars
  <2>1. /\ UNCHANGED <<client, db, disk, inTxn, t1, cursors, stmt, base>>
        /\ UNCHANGED <<pc, pos, nUpdate, ret>>
    BY <1>1 DEF vars, data, txn, call, scan
  <2>2. TypeOK'
    BY <2>1 DEF Typed, TypeOK
  <2> QED BY <2>1, <2>2, Kept DEF Typed
<1>2. CASE Begin
  <2>1. UNCHANGED <<client, db, disk, inTxn, t1, cursors, base, pos, nUpdate, ret>>
    BY <1>2 DEF Begin, data, txn, scan
  <2>2. stmt' \in Given /\ pc' = FirstCall(stmt') /\ pc' \in PCs /\ pc' # "idle"
    BY <1>2, FirstCalls DEF Begin, PCs
  <2>3. TypeOK'
    BY <2>1, <2>2 DEF Typed, TypeOK
  <2>4. HasRoom'
    BY <1>2, <2>1 DEF Begin, HasRoom, Exists, table, Inserts, IsUpsert
  <2>5. pos' = 0 /\ pc' # "upsert"
    BY <1>2, <2>1, <2>2, FirstCalls DEF Typed, Begin
  <2>6. PassedRejected'
    <3>1. Exists' => DOMAIN table' \subseteq 1..MaxRow
      BY <2>2, <2>3, TableTyped DEF TypeOK, Exists, table
    <3> QED BY <2>5, <3>1, DmlBoundsAssumption DEF PassedRejected
  <2> QED BY <2>1, <2>3, <2>4, <2>5, <2>6 DEF Typed
<1>3. CASE OpenCursor \/ CloseCursor
  <2>1. /\ UNCHANGED <<client, db, disk, inTxn, t1, stmt, base, pos, nUpdate, ret>>
        /\ pc = "idle" /\ pc' = "idle"
    BY <1>3 DEF OpenCursor, CloseCursor, data, txn, call, scan
  <2>2. cursors' \in 0..MaxCursors
    BY <1>3, DmlBoundsAssumption DEF Typed, TypeOK, OpenCursor, CloseCursor
  <2>3. TypeOK'
    BY <2>1, <2>2 DEF Typed, TypeOK
  <2> QED BY <2>1, <2>3 DEF Typed, TypeOK
<1>4. CASE Restart
  <2>1. /\ Return("NONE") /\ db' = disk /\ disk' = disk /\ UNCHANGED client
        /\ inTxn' = FALSE /\ t1' = Nil /\ cursors' = 0
    BY <1>4 DEF Restart
  <2> QED BY <2>1, ReturnTyped DEF Typed, TypeOK
<1> QED BY <1>1, <1>2, <1>3, <1>4

LEMMA OneCallTyped ==
    ASSUME Typed, CallAgrees, CallAgrees', Create \/ Drop \/ Insert \/ DeleteAll
    PROVE  Typed'
<1>1. /\ UNCHANGED <<client, inTxn, t1, cursors>> /\ stmt \in Given
      /\ TypeOK /\ inTxn \in BOOLEAN
  BY DEF CallAgrees, Typed, TypeOK, Create, Drop, Insert, DeleteAll, txn
<1>2. PICK code \in {"OK", "DONE", "ERROR"} : Return(code)
  BY DEF Create, Drop, Insert, DeleteAll
<1>3. UNCHANGED data \/ \E t \in Tables \cup {Absent} : Write(t)
  <2>1. CASE Create
    BY <2>1, EmptyIsTable DEF Create
  <2>2. CASE Drop
    BY <2>2 DEF Drop
  <2>3. CASE Insert
    <3>1. stmt.op = "insert" /\ HasRoom
      BY <2>3 DEF Insert, CallAgrees, Typed
    <3>2. Exists /\ stmt.doc # NoDoc => Inserted(table, stmt.doc) \in Tables
      BY <1>1, <3>1, TableTyped, DocTyped, InsertedIsTable
         DEF TypeOK, HasRoom, Inserts, Exists, table
    <3> QED BY <2>3, <3>2 DEF Insert
  <2>4. CASE DeleteAll
    BY <2>4, EmptyIsTable DEF DeleteAll
  <2> QED BY <2>1, <2>2, <2>3, <2>4
<1>4. db' \in Databases /\ disk' \in Databases
  BY <1>1, <1>3, WriteTyped DEF TypeOK, data
<1> QED BY <1>1, <1>2, <1>4, ReturnTyped

LEMMA TransactionTyped ==
    ASSUME Typed, CallAgrees, CallAgrees', BeginTransaction \/ CreateT1 \/ Commit
    PROVE  Typed'
<1>1. CASE BeginTransaction
  <2>1. /\ Goto("createT1") \/ Goto("scan")
        /\ pc = "begin"
        /\ UNCHANGED <<client, db, disk, t1, cursors>> /\ inTxn' = TRUE
    BY <1>1 DEF BeginTransaction, data
  <2>2. stmt' = stmt /\ stmt \in Given /\ pos = 0 /\ pos' = pos
    BY <2>1 DEF Typed, CallAgrees, Goto, call, scan
  <2>3. HasRoom' /\ PassedRejected'
    BY <2>1, <2>2, Kept, NonePassed DEF Typed
  <2> QED BY <2>1, <2>2, <2>3, GotoTyped DEF Typed, TypeOK, PCs
<1>2. CASE CreateT1
  <2>1. /\ Goto("scan") /\ pc = "createT1"
        /\ UNCHANGED <<client, db, disk, inTxn, cursors>>
    BY <1>2 DEF CreateT1, data
  <2>2. t1' = {} \/ t1' = t1
    BY <1>2 DEF CreateT1
  <2>3. /\ stmt' = stmt /\ stmt \in Given /\ pos = 0 /\ pos' = pos
        /\ stmt.op = "delete"
    BY <2>1 DEF Typed, CallAgrees, Goto, call, scan
  <2>4. HasRoom
    BY <2>3 DEF HasRoom, Inserts, IsUpsert
  <2>5. HasRoom' /\ PassedRejected'
    BY <2>1, <2>3, <2>4, Kept, NonePassed DEF Typed
  <2> QED BY <2>1, <2>2, <2>3, <2>5, GotoTyped DEF Typed, TypeOK, PCs
<1>3. CASE Commit
  BY <1>3, ReturnTyped DEF Commit, Typed, TypeOK
<1> QED BY <1>1, <1>2, <1>3

\* Each row that is scanned is farther than the one before, so that no more rows
\* are counted than there are.
LEMMA ScanTyped ==
    ASSUME Typed, CallAgrees, CallAgrees', ScanRow \/ CollectRow \/ ReviseRow
    PROVE  Typed'
<1>1. /\ pc = "scan" /\ pc' = "scan" /\ stmt \in Given
      /\ UNCHANGED <<client, inTxn, cursors, stmt, base, ret>>
  BY DEF CallAgrees, ScanRow, CollectRow, ReviseRow, data, txn, call
<1>2. PICK r \in 1..MaxRow : IsNextRow(r) /\ pos' = r
  BY DEF ScanRow, CollectRow, ReviseRow
<1>3. pos \in 0..MaxRow /\ nUpdate \in 0..MaxRow /\ nUpdate <= pos /\ pos < pos'
  BY <1>2 DEF Typed, TypeOK, IsNextRow
<1>4. CASE ScanRow \/ CollectRow
  <2>1. UNCHANGED <<db, disk, nUpdate>>
    BY <1>4 DEF ScanRow, CollectRow, data
  <2>2. t1' = Nil \/ t1' \subseteq 1..MaxRow
    BY <1>4 DEF Typed, TypeOK, ScanRow, CollectRow, txn
  <2>3. TypeOK'
    BY <1>1, <1>2, <2>1, <2>2 DEF Typed, TypeOK
  <2>4. nUpdate' = 0 => HasRoom'
    BY <1>1, <2>1, Kept DEF Typed
  <2>5. stmt.op = "update" /\ PassedRejected => PassedRejected'
    <3>1. stmt.op = "update" => ~Accepts(pos')
      BY <1>4, <1>2 DEF ScanRow, CollectRow
    <3>2. \A x \in DOMAIN table : x <= pos' => x <= pos \/ x = pos'
      <4>1. \A x \in DOMAIN table : x > pos => x >= pos'
        BY <1>2 DEF IsNextRow
      <4>2. Exists /\ DOMAIN table \subseteq 1..MaxRow
        BY <1>1, <1>2, TableTyped DEF Typed, TypeOK, IsNextRow, Exists, table
      <4> QED BY <1>2, <1>3, <4>1, <4>2, DmlBoundsAssumption
    <3>3. table' = table /\ stmt' = stmt /\ Exists' = Exists
      BY <1>1, <2>1 DEF Exists, table
    <3> QED BY <3>1, <3>2, <3>3 DEF PassedRejected, Accepts
  <2> QED BY <1>1, <1>2, <1>3, <2>1, <2>3, <2>4, <2>5 DEF Typed
<1>5. CASE ReviseRow
  <2>1. nUpdate' = nUpdate + 1 /\ t1' = t1
    BY <1>5 DEF ReviseRow, txn
  <2>2. Write(Revised(stmt, table, {pos'})) /\ Exists
    BY <1>5 DEF ReviseRow, IsNextRow
  <2>3. Revised(stmt, table, {pos'}) \in Tables
    BY <1>1, <2>2, TableTyped, RevisedIsTable DEF Typed, TypeOK, Exists, table
  <2>4. db' \in Databases /\ disk' \in Databases
    BY <1>1, <2>2, <2>3, WriteTyped DEF Typed
  <2>5. nUpdate' \in 0..MaxRow /\ nUpdate' <= pos' /\ nUpdate' # 0
    BY <1>2, <1>3, <2>1, DmlBoundsAssumption
  <2>6. TypeOK'
    BY <1>1, <1>2, <2>1, <2>4, <2>5 DEF Typed, TypeOK
  <2> QED BY <1>1, <2>5, <2>6 DEF Typed
<1> QED BY <1>4, <1>5

LEMMA EndTyped ==
    ASSUME Typed, CallAgrees, CallAgrees', ScanEnd \/ DeleteT1 \/ DropT1 \/ UpsertRow
    PROVE  Typed'
<1>1. /\ pc \in {"scan", "deleteT1", "dropT1", "upsert"} /\ stmt \in Given
      /\ TypeOK /\ UNCHANGED <<client, inTxn, cursors>> /\ inTxn \in BOOLEAN
  BY DEF Typed, TypeOK, CallAgrees, ScanEnd, DeleteT1, DropT1, UpsertRow, data, txn
<1>2. CASE ScanEnd
  <2>1. UNCHANGED <<db, disk, t1>>
    BY <1>2 DEF ScanEnd, data, txn
  <2>2. CASE Return("OK")
    BY <1>1, <2>1, <2>2, ReturnTyped DEF TypeOK
  <2>3. CASE Goto("deleteT1") \/ Goto("commit")
    BY <1>1, <2>1, <2>3, GotoTyped DEF TypeOK, PCs
  <2>4. CASE Goto("upsert") /\ nUpdate = 0
    <3>1. stmt' = stmt /\ pc = "scan" /\ stmt.op = "update" /\ NoMoreRows
      BY <1>2, <2>4 DEF CallAgrees, ScanEnd, Goto, call, IsUpsert
    <3>2. HasRoom /\ PassedRejected
      BY <2>4, <3>1 DEF Typed
    <3>3. AllRejected
      BY <1>1, <3>1, <3>2, ScanPassesAll DEF AllRejected, PassedRejected
    <3>4. HasRoom' /\ AllRejected'
      BY <2>1, <3>1, <3>2, <3>3, Kept
    <3> QED BY <1>1, <2>1, <2>4, <3>4, GotoTyped DEF TypeOK, PCs
  <2>5. stmt.op \in {"delete", "update"}
    BY <1>2 DEF CallAgrees, ScanEnd
  <2>6. Return("OK") \/ Goto("deleteT1") \/ Goto("commit") \/ (Goto("upsert") /\ nUpdate = 0)
    BY <1>2, <2>5 DEF ScanEnd, IsUpsert
  <2> QED BY <2>2, <2>3, <2>4, <2>6
<1>3. CASE DeleteT1
  <2>1. Exists /\ t1 # Nil => Without(table, t1) \in Tables
    BY <1>1, TableTyped, WithoutIsTable DEF TypeOK, Exists, table
  <2>2. db' \in Databases /\ disk' \in Databases /\ t1' = t1
    BY <1>1, <1>3, <2>1, WriteTyped DEF DeleteT1, TypeOK, data, txn
  <2> QED BY <1>1, <1>3, <2>2, ReturnTyped, GotoTyped DEF DeleteT1, TypeOK, PCs
<1>4. CASE DropT1
  <2>1. db' = db /\ disk' = disk /\ (t1' = Nil \/ t1' = t1)
    BY <1>4 DEF DropT1, data
  <2> QED BY <1>1, <1>4, <2>1, ReturnTyped, GotoTyped DEF DropT1, TypeOK, PCs
<1>5. CASE UpsertRow
  <2>1. HasRoom /\ AllRejected /\ IsUpsert(stmt)
    BY <1>5 DEF Typed, CallAgrees, UpsertRow
  <2>2. Exists => Inserted(table, stmt.doc) \in Tables
    <3>1. Exists => Inserts(stmt, table)
      BY <2>1 DEF AllRejected, Accepts, Inserts, IsUpsert, Matching
    <3>2. stmt.doc \in Docs
      BY <1>1, <2>1, DocTyped DEF IsUpsert
    <3> QED BY <1>1, <2>1, <3>1, <3>2, TableTyped, InsertedIsTable
            DEF TypeOK, HasRoom, Exists, table
  <2>3. db' \in Databases /\ disk' \in Databases /\ t1' = t1 /\ Goto("commit") /\ pc # "idle"
    BY <1>1, <1>5, <2>2, WriteTyped DEF UpsertRow, TypeOK, data, txn
  <2> QED BY <1>1, <2>3, GotoTyped DEF TypeOK, PCs
<1> QED BY <1>2, <1>3, <1>4, <1>5

LEMMA TypedStep == Typed /\ CallAgrees /\ CallAgrees' /\ [Next]_vars => Typed'
BY BetweenTyped, OneCallTyped, TransactionTyped, ScanTyped, EndTyped DEF Next, Statement

\* Every collection keeps its type whatever statements fail, and no scan counts
\* more rows than there are (delete.c:49-60, update.c:188-218).
THEOREM TypeCorrect == Spec => []TypeOK
<1>1. Spec => []Typed
  BY InitTyped, TypedStep, Calls, PTL DEF Spec
<1>2. Typed => TypeOK
  BY DEF Typed
<1> QED BY <1>1, <1>2, PTL

-----------------------------------------------------------------------------
(* The transaction and _t1 *)

LEMMA InitAgrees == Init => IInv
BY DEF Init, IInv, TxnAgrees, TidyAgrees

LEMMA UnchangedAgrees ==
    ASSUME IInv, UNCHANGED vars \/ OpenCursor \/ CloseCursor
    PROVE  IInv'
<1>1. /\ UNCHANGED <<client, db, inTxn, t1, stmt, pc>>
      /\ Tidy => cursors' = cursors \/ cursors' = cursors - 1
      /\ cursors = 0 => cursors' = 0 \/ ~Tidy
  BY DEF vars, OpenCursor, CloseCursor, data, txn, call, Tidy
<1> QED BY <1>1 DEF IInv, TxnAgrees, TidyAgrees, Tidy, IsUpsert, Exists, table

LEMMA BeginAgrees ==
    ASSUME IInv, Begin
    PROVE  IInv'
<1>1. /\ stmt' \in Given /\ pc = "idle" /\ pc' = FirstCall(stmt')
      /\ UNCHANGED <<client, db, inTxn, t1, cursors>>
  BY DEF Begin, data, txn
<1>2. \/ pc' = "begin" /\ (stmt'.op = "delete" \/ IsUpsert(stmt'))
      \/ pc' = "scan" /\ Plain'
      \/ pc' = stmt'.op /\ stmt'.op \in {"create", "drop", "insert", "deleteAll"}
  BY <1>1, FirstCalls DEF IsUpsert
<1>3. TxnAgrees'
  BY <1>1, <1>2 DEF IInv, TxnAgrees, IsUpsert
<1>4. Tidy' /\ stmt'.op = "delete" => Exists'
  BY <1>1 DEF Begin, Tidy, Exists, table
<1>5. TidyAgrees'
  BY <1>1, <1>2, <1>4 DEF IInv, TidyAgrees, Tidy, IsUpsert
<1> QED BY <1>3, <1>5 DEF IInv

\* After a statement returns there is no statement to speak of.
LEMMA ReturnAgrees ==
    ASSUME NEW code, Return(code), client' = client,
           inTxn' => t1' # Nil,
           Tidy => cursors' = 0 /\ ~inTxn' /\ t1' = Nil
    PROVE  IInv'
BY DEF IInv, TxnAgrees, TidyAgrees, Tidy, Return

LEMMA RestartAgrees ==
    ASSUME Restart
    PROVE  IInv'
<1>1. Return("NONE") /\ client' = client /\ ~inTxn' /\ t1' = Nil /\ cursors' = 0
  BY DEF Restart
<1> QED BY <1>1, ReturnAgrees

LEMMA OneCallAgrees ==
    ASSUME IInv, Create \/ Drop \/ Insert \/ DeleteAll
    PROVE  IInv'
<1>1. pc \in Between /\ UNCHANGED <<client, inTxn, t1, cursors>>
  BY DEF Create, Drop, Insert, DeleteAll, txn
<1>2. PICK code : Return(code)
  BY DEF Create, Drop, Insert, DeleteAll
<1>3. /\ inTxn' => t1' # Nil
      /\ Tidy => cursors' = 0 /\ ~inTxn' /\ t1' = Nil
  BY <1>1 DEF IInv, TxnAgrees, TidyAgrees
<1> QED BY <1>1, <1>2, <1>3, ReturnAgrees

\* A BEGIN that fails does so in a transaction that has its _t1.
LEMMA BeginTransactionAgrees ==
    ASSUME IInv, CallAgrees, BeginTransaction
    PROVE  IInv'
<1>1. /\ pc = "begin" /\ (stmt.op = "delete" \/ IsUpsert(stmt)) /\ inTxn'
      /\ pc' = IF stmt.op = "delete" /\ ~inTxn THEN "createT1" ELSE "scan"
      /\ UNCHANGED <<client, db, t1, cursors, stmt>>
  BY DEF CallAgrees, BeginTransaction, Goto, data, call
<1>2. TxnAgrees'
  BY <1>1 DEF IInv, TxnAgrees, IsUpsert
<1>3. TidyAgrees'
  BY <1>1 DEF IInv, TidyAgrees, Tidy, IsUpsert, Exists, table
<1> QED BY <1>2, <1>3 DEF IInv

LEMMA CreateT1Agrees ==
    ASSUME IInv, CallAgrees, CreateT1
    PROVE  IInv'
<1>1. /\ pc = "createT1" /\ stmt.op = "delete" /\ pc' = "scan"
      /\ UNCHANGED <<client, db, inTxn, cursors, stmt>>
  BY DEF CallAgrees, CreateT1, Goto, data, call
<1>2. t1' # Nil
  BY NilAssumption DEF CreateT1
<1>3. TxnAgrees'
  BY <1>1, <1>2 DEF IInv, TxnAgrees, IsUpsert
<1>4. TidyAgrees'
  BY <1>1 DEF IInv, TidyAgrees, Tidy, IsUpsert, Exists, table
<1> QED BY <1>3, <1>4 DEF IInv

\* A row that is collected may be in _t1 already; it is there afterwards.
LEMMA ScanAgrees ==
    ASSUME IInv, Typed, Typed', ScanRow \/ CollectRow \/ ReviseRow
    PROVE  IInv'
<1>1. /\ pc = "scan" /\ pc' = "scan"
      /\ UNCHANGED <<client, inTxn, cursors, stmt>>
  BY DEF ScanRow, CollectRow, ReviseRow, data, txn, call
<1>2. UNCHANGED t1 \/ (stmt.op = "delete" /\ t1' # Nil)
  <2>1. ASSUME CollectRow PROVE stmt.op = "delete" /\ t1' # Nil
    <3>1. stmt.op = "delete" /\ t1 # Nil
      BY <1>1, <2>1 DEF CollectRow, IInv, TxnAgrees
    <3>2. PICK r \in 1..MaxRow : t1' = t1 \cup {r}
      BY <2>1, <3>1 DEF CollectRow
    <3>3. t1' \subseteq 1..MaxRow
      BY <3>1, <3>2 DEF Typed, TypeOK
    <3> QED BY <3>1, <3>3, NilAssumption
  <2> QED BY <2>1 DEF ScanRow, ReviseRow, txn
<1>3. stmt.op = "delete" => UNCHANGED db
  BY DEF ScanRow, CollectRow, ReviseRow, data
<1>4. TxnAgrees'
  BY <1>1, <1>2 DEF IInv, TxnAgrees, IsUpsert
<1>5. TidyAgrees'
  BY <1>1, <1>2, <1>3 DEF IInv, TidyAgrees, Tidy, IsUpsert, Exists, table
<1> QED BY <1>4, <1>5 DEF IInv

LEMMA ScanEndAgrees ==
    ASSUME IInv, CallAgrees, ScanEnd
    PROVE  IInv'
<1>1. /\ pc = "scan" /\ stmt.op \in {"delete", "update"}
      /\ UNCHANGED <<client, db, inTxn, t1, cursors>>
  BY DEF CallAgrees, ScanEnd, data, txn
<1>2. CASE Plain
  <2>1. Return("OK")
    BY <1>1, <1>2 DEF ScanEnd
  <2>2. /\ inTxn' => t1' # Nil
        /\ Tidy => cursors' = 0 /\ ~inTxn' /\ t1' = Nil
    BY <1>1, <1>2 DEF IInv, TxnAgrees, TidyAgrees
  <2> QED BY <1>1, <2>1, <2>2, ReturnAgrees
<1>3. CASE ~Plain
  <2>1. /\ stmt' = stmt
        /\ \/ pc' = "deleteT1" /\ stmt.op = "delete"
           \/ pc' \in {"upsert", "commit"} /\ stmt.op # "delete"
    BY <1>1, <1>3 DEF ScanEnd, Goto, call, IsUpsert
  <2>2. TxnAgrees'
    BY <1>1, <1>3, <2>1 DEF IInv, TxnAgrees, IsUpsert
  <2>3. TidyAgrees'
    BY <1>1, <1>3, <2>1 DEF IInv, TidyAgrees, Tidy, IsUpsert, Exists, table
  <2> QED BY <2>2, <2>3 DEF IInv
<1> QED BY <1>2, <1>3

\* A DELETE from a missing collection leaves _t1 behind with the transaction.
LEMMA DeleteT1Agrees ==
    ASSUME IInv, CallAgrees, DeleteT1
    PROVE  IInv'
<1>1. /\ pc = "deleteT1" /\ stmt.op = "delete" /\ inTxn /\ t1 # Nil
      /\ UNCHANGED <<client, inTxn, t1, cursors>>
  BY DEF IInv, CallAgrees, TxnAgrees, DeleteT1, txn
<1>2. CASE Exists
  <2>1. pc' = "dropT1" /\ stmt' = stmt
    BY <1>1, <1>2 DEF DeleteT1, Goto, call
  <2> QED BY <1>1, <2>1 DEF IInv, TxnAgrees, TidyAgrees, Tidy, IsUpsert
<1>3. CASE ~Exists
  <2>1. ~Tidy /\ Return("OK")
    BY <1>1, <1>3 DEF IInv, TidyAgrees, DeleteT1
  <2> QED BY <1>1, <2>1, ReturnAgrees
<1> QED BY <1>2, <1>3

LEMMA DropT1Agrees ==
    ASSUME IInv, CallAgrees, DropT1
    PROVE  IInv'
<1>1. /\ pc = "dropT1" /\ stmt.op = "delete" /\ inTxn /\ t1 # Nil
      /\ UNCHANGED <<client, inTxn, cursors>>
  BY DEF IInv, CallAgrees, TxnAgrees, DropT1
<1>2. CASE cursors = 0
  <2>1. pc' = "commit" /\ stmt' = stmt /\ t1' = Nil
    BY <1>1, <1>2 DEF DropT1, Goto, call
  <2> QED BY <1>1, <2>1 DEF IInv, TxnAgrees, TidyAgrees, Tidy, IsUpsert
<1>3. CASE cursors # 0
  <2>1. ~Tidy /\ Return("OK") /\ t1' = t1
    BY <1>1, <1>3 DEF IInv, TidyAgrees, DropT1
  <2> QED BY <1>1, <2>1, ReturnAgrees
<1> QED BY <1>2, <1>3

LEMMA UpsertAgrees ==
    ASSUME IInv, CallAgrees, UpsertRow \/ Commit
    PROVE  IInv'
<1>1. CASE UpsertRow
  <2>1. /\ pc = "upsert" /\ pc' = "commit" /\ stmt.op # "delete"
        /\ UNCHANGED <<client, inTxn, t1, cursors, stmt>>
    BY <1>1 DEF UpsertRow, CallAgrees, Goto, IsUpsert, txn, call
  <2> QED BY <2>1 DEF IInv, TxnAgrees, TidyAgrees, Tidy
<1>2. CASE Commit
  <2>1. Return("OK") /\ ~inTxn' /\ UNCHANGED <<client, t1, cursors>>
    BY <1>2 DEF Commit
  <2>2. Tidy => cursors' = 0 /\ t1' = Nil
    BY <1>2, <2>1 DEF IInv, TidyAgrees, Commit
  <2> QED BY <2>1, <2>2, ReturnAgrees
<1> QED BY <1>1, <1>2

LEMMA StepAgrees == IInv /\ Typed /\ Typed' /\ CallAgrees /\ [Next]_vars => IInv'
BY UnchangedAgrees, BeginAgrees, RestartAgrees, OneCallAgrees, BeginTransactionAgrees,
   CreateT1Agrees, ScanAgrees, ScanEndAgrees, DeleteT1Agrees, DropT1Agrees, UpsertAgrees
   DEF Next, Statement

LEMMA Agrees == Spec => [](IInv /\ CallAgrees)
<1>1. Spec => []Typed
  BY InitTyped, TypedStep, Calls, PTL DEF Spec
<1> QED BY <1>1, InitAgrees, StepAgrees, Calls, PTL DEF Spec

-----------------------------------------------------------------------------
\* No transaction and no _t1 outlives the statement of a tidy client that opened
\* it, whatever statements it gives (delete.c:43-67, update.c:178, 238).
THEOREM TidyEndsClean == Spec => []EndsClean
<1>1. IInv => EndsClean
  BY DEF IInv, TidyAgrees, EndsClean
<1> QED BY <1>1, Agrees, PTL

\* A DELETE of any client that finds its collection and no SELECT between two
\* rows ends the transaction that an earlier one left open (delete.c:43-67).
THEOREM NextDeleteRecovers == Spec => DeleteRecovers
<1> DEFINE Closes == pc \notin {"idle", "begin"} /\ stmt.op = "delete" /\ ret' = "OK"
                     /\ pc' = "idle" /\ Exists /\ cursors = 0 => ~inTxn' /\ t1' = Nil
<1>1. ASSUME IInv, CallAgrees, [Next]_vars PROVE [Closes]_vars
  <2> SUFFICES ASSUME Next, pc \notin {"idle", "begin"}, stmt.op = "delete", ret' = "OK",
                      pc' = "idle", Exists, cursors = 0
               PROVE  ~inTxn' /\ t1' = Nil
    BY <1>1
  <2>1. ~(Begin \/ OpenCursor \/ CloseCursor \/ BeginTransaction)
    BY DEF Begin, OpenCursor, CloseCursor, BeginTransaction
  <2>2. ~Restart
    BY DEF Restart, Return
  <2>3. ~(Create \/ Drop \/ Insert \/ DeleteAll)
    BY <1>1 DEF CallAgrees, Create, Drop, Insert, DeleteAll
  <2>4. ~(CreateT1 \/ ScanRow \/ CollectRow \/ ReviseRow \/ UpsertRow)
    BY DEF CreateT1, ScanRow, CollectRow, ReviseRow, UpsertRow, Goto
  <2>5. ASSUME ScanEnd PROVE FALSE
    <3>1. ~IsUpsert(stmt) /\ pc' # "deleteT1"
      BY DEF IsUpsert
    <3>2. Goto("deleteT1")
      BY <2>5, <3>1 DEF ScanEnd
    <3> QED BY <3>1, <3>2 DEF Goto
  <2>6. ~DeleteT1
    BY <1>1 DEF IInv, TxnAgrees, DeleteT1, Goto
  <2>7. ~DropT1
    BY DEF DropT1, Goto
  <2>8. Commit
    BY <2>1, <2>2, <2>3, <2>4, <2>5, <2>6, <2>7 DEF Next, Statement
  <2> QED BY <1>1, <2>8 DEF IInv, TxnAgrees, Commit
<1>2. Spec => [][Closes]_vars
  BY <1>1, Agrees, PTL DEF Spec
<1> QED BY <1>2 DEF DeleteRecovers

-----------------------------------------------------------------------------
(* The refinement: for a tidy client the statements implement Store *)

\* The rows up to p that statement s changes in database d, and what an UPDATE
\* has made of d when its scan is past p.
Hit(s, d, p) == { r \in Matching(s, d[s.coll]) : r <= p }
After(s, d, p) ==
    IF d[s.coll] = Absent THEN d ELSE [d EXCEPT ![s.coll] = Revised(s, d[s.coll], Hit(s, d, p))]
Final(s, d) == Stage(s, d, LastStage(s, d))

Was == base[stmt.coll]

AtScan ==
    /\ stmt.op = "delete" => db = base /\ t1 = Hit(stmt, base, pos)
    /\ stmt.op = "update" =>
          /\ db = After(stmt, base, pos)
          /\ nUpdate = 0 <=> Was = Absent \/ Hit(stmt, base, pos) = {}
    /\ pos = 0 \/ (Was # Absent /\ pos \in DOMAIN Was)

DataAgrees ==
    /\ disk = IF pc = "scan" /\ Plain THEN db ELSE base
    /\ pc \notin {"scan", "dropT1", "commit"} => db = base
    /\ pc = "scan" => AtScan
    /\ pc = "deleteT1" => t1 = Matching(stmt, Was)
    /\ pc = "upsert" /\ Was # Absent => Matching(stmt, Was) = {}
    /\ pc \in {"dropT1", "commit"} => db = Final(stmt, base)

-----------------------------------------------------------------------------
(* What a statement means: Stage and Effect *)

LEMMA IsNoTable == Absent \notin Tables
BY AbsentAssumption DEF Tables

\* The next rowid is above all that are in use.
LEMMA NextRowAbove ==
    ASSUME NEW t \in Tables
    PROVE  /\ NextRow(t) \in Nat /\ NextRow(t) >= 1
           /\ \A r \in DOMAIN t : r < NextRow(t)
<1>1. DOMAIN t \subseteq 1..MaxRow
  BY IsTable
<1>2. CASE DOMAIN t = {}
  BY <1>2 DEF NextRow
<1>3. CASE DOMAIN t # {}
  <2> DEFINE D == DOMAIN t
             T == { MaxRow - r : r \in D }
  <2>1. T \subseteq Nat /\ T # {}
    BY <1>1, <1>3, DmlBoundsAssumption
  <2>2. PICK x \in T : \A y \in T : x <= y
    BY <2>1, LeastElement
  <2>3. PICK m \in D : x = MaxRow - m
    BY <2>2
  <2>4. \A r \in D : m >= r
    BY <1>1, <2>2, <2>3, DmlBoundsAssumption
  <2>5. Max(D) \in D /\ \A r \in D : Max(D) >= r
    BY <2>4 DEF Max
  <2>6. NextRow(t) = Max(D) + 1
    BY <1>3 DEF NextRow
  <2> QED BY <1>1, <2>5, <2>6, DmlBoundsAssumption
<1> QED BY <1>2, <1>3

LEMMA LastStageIs ==
    ASSUME NEW d \in Databases, NEW s \in Given
    PROVE  /\ LastStage(s, d) \in Nat /\ LastStage(s, d) >= 1
           /\ d[s.coll] # Absent => \A r \in DOMAIN d[s.coll] : r < LastStage(s, d)
<1>1. CASE d[s.coll] = Absent
  BY <1>1 DEF LastStage
<1>2. CASE d[s.coll] # Absent
  BY <1>2, TableTyped, NextRowAbove DEF LastStage
<1> QED BY <1>1, <1>2

LEMMA RevisedNone ==
    ASSUME NEW s, NEW t \in Tables
    PROVE  Revised(s, t, {}) = t
BY IsTable DEF Revised

LEMMA StageNone ==
    ASSUME NEW d \in Databases, NEW s \in Given
    PROVE  Stage(s, d, 0) = d
<1>1. s.coll \in Colls /\ DOMAIN d = Colls /\ d \in [Colls -> Tables \cup {Absent}]
  BY GivenAssumption DEF Statements, Databases
<1>2. CASE IsRowByRow(s, d[s.coll])
  <2>1. d[s.coll] \in Tables
    BY <1>2, TableTyped DEF IsRowByRow
  <2>2. { r \in Matching(s, d[s.coll]) : r < 0 } = {}
    BY <2>1, IsTable DEF Matching
  <2>3. Stage(s, d, 0) = [d EXCEPT ![s.coll] = Revised(s, d[s.coll], {})]
    BY <1>2, <2>2 DEF Stage
  <2> QED BY <1>1, <2>1, <2>3, RevisedNone
<1>3. CASE ~IsRowByRow(s, d[s.coll])
  <2>1. Stage(s, d, 0) = [d EXCEPT ![s.coll] = d[s.coll]]
    BY <1>3 DEF Stage
  <2> QED BY <1>1, <2>1
<1> QED BY <1>2, <1>3

LEMMA FinalAtOnce ==
    ASSUME NEW d \in Databases, NEW s \in Given, ~IsRowByRow(s, d[s.coll])
    PROVE  /\ Final(s, d) = [d EXCEPT ![s.coll] = Effect(s, d[s.coll])]
           /\ Effect(s, d[s.coll]) = d[s.coll] => Final(s, d) = d
<1>1. s.coll \in Colls /\ DOMAIN d = Colls /\ d \in [Colls -> Tables \cup {Absent}]
  BY GivenAssumption DEF Statements, Databases
<1>2. LastStage(s, d) # 0
  BY LastStageIs
<1>3. Final(s, d) = [d EXCEPT ![s.coll] = Effect(s, d[s.coll])]
  BY <1>2 DEF Final, Stage
<1> QED BY <1>1, <1>3

\* An UPDATE whose scan is past p is at a stage, or has changed nothing.
LEMMA StageOfScan ==
    ASSUME NEW d \in Databases, NEW s \in Given, s.op = "update", ~IsUpsert(s),
           NEW p \in 0..MaxRow, p = 0 \/ (d[s.coll] # Absent /\ p \in DOMAIN d[s.coll])
    PROVE  /\ p + 1 \in 0..LastStage(s, d) \/ d[s.coll] = Absent
           /\ d[s.coll] # Absent => After(s, d, p) = Stage(s, d, p + 1)
<1>1. p \in Int
  BY DmlBoundsAssumption
<1>2. p + 1 \in 0..LastStage(s, d) \/ d[s.coll] = Absent
  BY <1>1, LastStageIs
<1>3. ASSUME d[s.coll] # Absent PROVE After(s, d, p) = Stage(s, d, p + 1)
  <2>1. IsRowByRow(s, d[s.coll])
    BY <1>3 DEF IsRowByRow
  <2>2. DOMAIN d[s.coll] \subseteq Int
    BY <1>3, TableTyped, DmlBoundsAssumption
  <2>3. Hit(s, d, p) = { r \in Matching(s, d[s.coll]) : r < p + 1 }
    BY <1>1, <2>2 DEF Hit, Matching
  <2>4. Stage(s, d, p + 1) = [d EXCEPT ![s.coll] = Revised(s, d[s.coll], { r \in Matching(s, d[s.coll]) : r < p + 1 })]
    BY <2>1 DEF Stage
  <2> QED BY <1>3, <2>3, <2>4 DEF After
<1> QED BY <1>2, <1>3

LEMMA EffectIs ==
    ASSUME NEW s \in Given, NEW t
    PROVE  /\ s.op = "create" => Effect(s, t) = IF t = Absent THEN EmptyTable ELSE t
           /\ s.op = "drop" => Effect(s, t) = Absent
           /\ s.op \notin {"create", "drop"} /\ t = Absent => Effect(s, t) = Absent
           /\ s.op = "insert" /\ t # Absent =>
                 Effect(s, t) = IF s.doc = NoDoc THEN t ELSE Inserted(t, s.doc)
           /\ s.op = "deleteAll" /\ t # Absent => Effect(s, t) = EmptyTable
           /\ s.op = "delete" /\ t # Absent => Effect(s, t) = Without(t, Matching(s, t))
           /\ IsUpsert(s) /\ t # Absent =>
                 Effect(s, t) = IF Matching(s, t) = {} THEN Inserted(t, s.doc)
                                ELSE Revised(s, t, Matching(s, t))
<1>1. s.op = "create" => Effect(s, t) = IF t = Absent THEN EmptyTable ELSE t
  BY Zenon DEF Effect
<1>2. s.op = "drop" => Effect(s, t) = Absent
  BY DEF Effect
<1>3. s.op \notin {"create", "drop"} /\ t = Absent => Effect(s, t) = Absent
  BY DEF Effect
<1>4. s.op \notin {"create", "drop"} /\ t # Absent /\ Inserts(s, t) => Effect(s, t) = Inserted(t, s.doc)
  BY DEF Effect, Inserts
<1>5. s.op = "deleteAll" /\ t # Absent => Effect(s, t) = EmptyTable
  BY DEF Effect, Inserts
<1>6. s.op = "delete" /\ t # Absent => Effect(s, t) = Without(t, Matching(s, t))
  BY DEF Effect, Inserts
<1>7. s.op = "update" /\ t # Absent /\ ~Inserts(s, t) => Effect(s, t) = Revised(s, t, Matching(s, t))
  BY DEF Effect, Inserts
<1>8. s.op = "insert" /\ t # Absent /\ ~Inserts(s, t) => Effect(s, t) = t
  BY DEF Effect, Inserts
<1> QED BY <1>1, <1>2, <1>3, <1>4, <1>5, <1>6, <1>7, <1>8 DEF Inserts, IsUpsert

LEMMA FinalOfScan ==
    ASSUME NEW d \in Databases, NEW s \in Given, s.op = "update", ~IsUpsert(s),
           NEW p \in 0..MaxRow,
           d[s.coll] # Absent => \A r \in DOMAIN d[s.coll] : r <= p
    PROVE  Final(s, d) = After(s, d, p)
<1>1. CASE d[s.coll] = Absent
  <2>1. ~IsRowByRow(s, d[s.coll]) /\ Effect(s, d[s.coll]) = d[s.coll]
    BY <1>1, EffectIs DEF IsRowByRow
  <2> QED BY <1>1, <2>1, FinalAtOnce DEF After
<1>2. CASE d[s.coll] # Absent
  <2>1. IsRowByRow(s, d[s.coll])
    BY <1>2 DEF IsRowByRow
  <2>2. Hit(s, d, p) = Matching(s, d[s.coll])
    BY <1>2 DEF Hit, Matching
  <2>3. { r \in Matching(s, d[s.coll]) : r < LastStage(s, d) } = Matching(s, d[s.coll])
    BY <1>2, LastStageIs DEF Matching
  <2>4. Final(s, d) = [d EXCEPT ![s.coll] = Revised(s, d[s.coll], { r \in Matching(s, d[s.coll]) : r < LastStage(s, d) })]
    BY <2>1 DEF Stage, Final
  <2> QED BY <1>2, <2>2, <2>3, <2>4 DEF After
<1> QED BY <1>1, <1>2

LEMMA ReplyIs ==
    ASSUME NEW s \in Given, NEW d
    PROVE  /\ s.op = "create" => Reply(s, d) = IF d[s.coll] = Absent \/ s.lenient THEN "DONE" ELSE "ERROR"
           /\ s.op = "drop" => Reply(s, d) = IF d[s.coll] # Absent \/ s.lenient THEN "DONE" ELSE "ERROR"
           /\ s.op = "insert" => Reply(s, d) = IF d[s.coll] # Absent \/ s.doc = NoDoc THEN "DONE" ELSE "ERROR"
           /\ s.op \notin {"create", "drop", "insert"} => Reply(s, d) = "OK"
BY DEF Reply
-----------------------------------------------------------------------------
(* What a scan has done so far *)

LEMMA NothingYet ==
    ASSUME NEW d \in Databases, NEW s \in Given
    PROVE  /\ d[s.coll] # Absent => Hit(s, d, 0) = {}
           /\ After(s, d, 0) = d
<1>1. s.coll \in Colls /\ DOMAIN d = Colls /\ d \in [Colls -> Tables \cup {Absent}]
  BY GivenAssumption DEF Statements, Databases
<1>2. CASE d[s.coll] = Absent
  BY <1>2 DEF After
<1>3. CASE d[s.coll] # Absent
  <2>1. d[s.coll] \in Tables /\ DOMAIN d[s.coll] \subseteq 1..MaxRow
    BY <1>3, TableTyped
  <2>2. Hit(s, d, 0) = {}
    BY <2>1, DmlBoundsAssumption DEF Hit, Matching
  <2>3. Revised(s, d[s.coll], {}) = d[s.coll]
    BY <2>1, RevisedNone
  <2>4. After(s, d, 0) = [d EXCEPT ![s.coll] = d[s.coll]]
    BY <1>3, <2>2, <2>3 DEF After
  <2> QED BY <1>1, <2>2, <2>4
<1> QED BY <1>2, <1>3

\* What a scan that is past p has made of the collection of s.
LEMMA AfterIs ==
    ASSUME NEW d \in Databases, NEW s \in Given, NEW p
    PROVE  LET e == After(s, d, p)
           IN  /\ e[s.coll] = Absent <=> d[s.coll] = Absent
               /\ d[s.coll] # Absent =>
                     /\ e = [d EXCEPT ![s.coll] = Revised(s, d[s.coll], Hit(s, d, p))]
                     /\ e[s.coll] = Revised(s, d[s.coll], Hit(s, d, p))
                     /\ DOMAIN e[s.coll] = DOMAIN d[s.coll]
                     /\ \A r \in DOMAIN d[s.coll] \ Hit(s, d, p) : e[s.coll][r] = d[s.coll][r]
<1>1. s.coll \in Colls /\ DOMAIN d = Colls
  BY GivenAssumption DEF Statements, Databases
<1>2. CASE d[s.coll] = Absent
  BY <1>2 DEF After
<1>3. CASE d[s.coll] # Absent
  <2> DEFINE t == d[s.coll]
             u == Revised(s, t, Hit(s, d, p))
  <2>1. t \in Tables
    BY <1>3, TableTyped
  <2>2. u \in Tables /\ DOMAIN u = DOMAIN t
    BY <2>1, RevisedIsTable
  <2>3. u # Absent
    BY <2>2, IsNoTable
  <2>4. After(s, d, p) = [d EXCEPT ![s.coll] = u]
    BY <1>3 DEF After
  <2>5. After(s, d, p)[s.coll] = u
    BY <1>1, <2>4
  <2>6. \A r \in DOMAIN t \ Hit(s, d, p) : u[r] = t[r]
    BY DEF Revised
  <2> QED BY <1>3, <2>2, <2>3, <2>4, <2>5, <2>6
<1> QED BY <1>2, <1>3

\* Which rows a step of the scan adds to those it has changed.
LEMMA HitNext ==
    ASSUME NEW d \in Databases, NEW s \in Given, d[s.coll] # Absent,
           NEW p \in 0..MaxRow, NEW r \in DOMAIN d[s.coll], r > p,
           \A x \in DOMAIN d[s.coll] : x > p => x >= r
    PROVE  /\ r \notin Hit(s, d, p)
           /\ Hit(s, d, r) = IF d[s.coll][r] \in s.where THEN Hit(s, d, p) \cup {r} ELSE Hit(s, d, p)
<1>1. DOMAIN d[s.coll] \subseteq Int /\ p \in Int
  BY TableTyped, DmlBoundsAssumption
<1>2. \A x \in DOMAIN d[s.coll] : x <= r <=> x <= p \/ x = r
  BY <1>1
<1> QED BY <1>1, <1>2 DEF Hit, Matching

LEMMA RevisedTwice ==
    ASSUME NEW s, NEW t, NEW rows, NEW r \in DOMAIN t \ rows
    PROVE  Revised(s, Revised(s, t, rows), {r}) = Revised(s, t, rows \cup {r})
BY DEF Revised

\* The row that a scan revises is the row as it was.
LEMMA ReviseNext ==
    ASSUME NEW d \in Databases, NEW s \in Given, d[s.coll] # Absent,
           NEW p \in 0..MaxRow, NEW r \in DOMAIN d[s.coll], r > p,
           \A x \in DOMAIN d[s.coll] : x > p => x >= r,
           d[s.coll][r] \in s.where,
           NEW e, e = [After(s, d, p) EXCEPT ![s.coll] = Revised(s, After(s, d, p)[s.coll], {r})]
    PROVE  e = After(s, d, r)
<1> DEFINE t == d[s.coll]
           H == Hit(s, d, p)
<1>1. s.coll \in Colls /\ DOMAIN d = Colls
  BY GivenAssumption DEF Statements, Databases
<1>2. /\ After(s, d, p) = [d EXCEPT ![s.coll] = Revised(s, t, H)]
      /\ After(s, d, p)[s.coll] = Revised(s, t, H)
      /\ After(s, d, r) = [d EXCEPT ![s.coll] = Revised(s, t, Hit(s, d, r))]
  BY AfterIs
<1>3. r \notin H /\ Hit(s, d, r) = H \cup {r}
  BY HitNext
<1>4. Revised(s, Revised(s, t, H), {r}) = Revised(s, t, H \cup {r})
  BY <1>3, RevisedTwice
<1> HIDE DEF t, H
<1> QED BY <1>1, <1>2, <1>3, <1>4

-----------------------------------------------------------------------------
(* Each step, and the step of Store that it is *)

\* Store means by a statement what Collections means.
LEMMA SameMeaning ==
    ASSUME NEW s, NEW d, NEW k
    PROVE  /\ Abstract!LastStage(s, d) = LastStage(s, d)
           /\ Abstract!Stage(s, d, k) = Stage(s, d, k)
           /\ Abstract!Reply(s, d) = Reply(s, d)
<1>1. \A t : Abstract!NextRow(t) = NextRow(t)
  BY DEF Abstract!NextRow, NextRow, Max, Abstract!Max
<1>2. Abstract!LastStage(s, d) = LastStage(s, d)
  BY <1>1 DEF Abstract!LastStage, LastStage
<1>3. Abstract!IsUpsert(s) <=> IsUpsert(s)
  BY DEF Abstract!IsUpsert, IsUpsert
<1>4. \A t : Abstract!Matching(s, t) = Matching(s, t)
  BY DEF Abstract!Matching, Matching
<1>5. \A t : Abstract!IsRowByRow(s, t) <=> IsRowByRow(s, t)
  BY <1>3 DEF Abstract!IsRowByRow, IsRowByRow
<1>6. \A t, rows : Abstract!Revised(s, t, rows) = Revised(s, t, rows)
  BY DEF Abstract!Revised, Revised
<1>7. \A t, rows : Abstract!Without(t, rows) = Without(t, rows)
  BY DEF Abstract!Without, Without
<1>8. \A t, doc : Abstract!Inserted(t, doc) = Inserted(t, doc)
  BY <1>1 DEF Abstract!Inserted, Inserted
<1>9. \A t : Abstract!Inserts(s, t) <=> Inserts(s, t)
  BY <1>4 DEF Abstract!Inserts, Inserts
<1>10. Abstract!EmptyTable = EmptyTable
  BY DEF Abstract!EmptyTable, EmptyTable
<1>11. \A t : Abstract!Effect(s, t) = Effect(s, t)
  BY <1>4, <1>6, <1>7, <1>8, <1>9, <1>10 DEF Abstract!Effect, Effect
<1>12. Abstract!Stage(s, d, k) = Stage(s, d, k)
  BY <1>4, <1>5, <1>6, <1>11 DEF Abstract!Stage, Stage
<1>13. Abstract!Reply(s, d) = Reply(s, d)
  BY DEF Abstract!Reply, Reply
<1> QED BY <1>2, <1>12, <1>13

Inv == Typed /\ CallAgrees /\ IInv /\ (Tidy => DataAgrees)

Follows == [Abstract!Next]_(Abstract!vars)

LEMMA Running ==
    ASSUME Inv, pc # "idle"
    PROVE  /\ stmt \in Given /\ stmt # Nil /\ base \in Databases /\ db \in Databases
           /\ stmt.coll \in Colls /\ pos \in 0..MaxRow /\ nUpdate \in 0..MaxRow
           /\ stmt.op \in Ops
<1>1. stmt \in Given /\ TypeOK
  BY DEF Inv, CallAgrees, Typed
<1> QED BY <1>1, GivenAssumption, NilAssumption DEF Statements, TypeOK

\* A step that commits nothing and is not the end of the statement.
LEMMA Stutters ==
    ASSUME UNCHANGED <<disk, stmt, base, ret>>
    PROVE  Follows
BY DEF Follows, Abstract!vars

\* The end of a statement.
LEMMA Returns ==
    ASSUME Inv, pc # "idle", Return(Reply(stmt, base)),
           db' = disk', disk' = Final(stmt, base),
           \/ disk = base
           \/ \E k \in 0..LastStage(stmt, base) : disk = Stage(stmt, base, k)
    PROVE  DataAgrees' /\ Follows
<1>1. stmt \in Given /\ stmt # Nil /\ base \in Databases
  BY Running
<1>2. /\ pc' = "idle" /\ stmt' = Nil /\ base' = disk' /\ ret' = Reply(stmt, base)
  BY DEF Return
<1>3. DataAgrees'
  BY <1>2 DEF DataAgrees
<1>4. \E k \in 0..LastStage(stmt, base) : disk = Stage(stmt, base, k)
  BY <1>1, StageNone, LastStageIs
<1>5. Abstract!Return
  BY <1>1, <1>2, <1>4, SameMeaning DEF Abstract!Return, Final
<1> QED BY <1>3, <1>5 DEF Follows, Abstract!Next

LEMMA BetweenFollows ==
    ASSUME Inv, Tidy, UNCHANGED vars \/ Begin \/ OpenCursor \/ CloseCursor \/ Restart
    PROVE  DataAgrees' /\ Follows
<1>1. CASE UNCHANGED vars
  <2>1. UNCHANGED <<db, disk, t1, stmt, base, pc, pos, nUpdate, ret>>
    BY <1>1 DEF vars, data, txn, call, scan
  <2>2. DataAgrees'
    BY <2>1 DEF Inv, DataAgrees, AtScan, Was, Plain, IsUpsert
  <2> QED BY <2>1, <2>2, Stutters
<1>2. CASE Begin
  <2>1. /\ pc = "idle" /\ stmt' \in Given /\ pc' = FirstCall(stmt')
        /\ UNCHANGED <<db, disk, t1, base, pos, nUpdate, ret>>
    BY <1>2 DEF Begin, data, txn, scan
  <2>2. /\ disk = base /\ db = base /\ base \in Databases /\ stmt = Nil
        /\ pos = 0 /\ nUpdate = 0
    BY <2>1 DEF Inv, DataAgrees, Typed, TypeOK, CallAgrees
  <2>3. /\ pc' \notin {"idle", "deleteT1", "upsert", "dropT1", "commit"}
        /\ pc' = "scan" => stmt'.op = "update"
    BY <2>1, FirstCalls
  <2>4. /\ After(stmt', base, 0) = base
        /\ base[stmt'.coll] # Absent => Hit(stmt', base, 0) = {}
    BY <2>1, <2>2, NothingYet
  <2>5. pc' = "scan" => AtScan'
    BY <2>1, <2>2, <2>3, <2>4 DEF AtScan, Was
  <2>6. DataAgrees'
    BY <2>1, <2>2, <2>3, <2>5 DEF DataAgrees
  <2>7. Abstract!Begin
    BY <2>1, <2>2 DEF Abstract!Begin
  <2> QED BY <2>6, <2>7 DEF Follows, Abstract!Next
<1>3. CASE OpenCursor \/ CloseCursor
  <2>1. /\ UNCHANGED <<db, disk, t1, stmt, base, pc, pos, nUpdate, ret>>
        /\ pc = "idle"
    BY <1>3 DEF OpenCursor, CloseCursor, data, txn, call, scan
  <2>2. DataAgrees'
    BY <2>1 DEF Inv, DataAgrees
  <2> QED BY <2>1, <2>2, Stutters
<1>4. CASE Restart
  <2>1. /\ db' = disk /\ disk' = disk /\ pc' = "idle" /\ stmt' = Nil
        /\ base' = disk' /\ ret' = "NONE"
    BY <1>4 DEF Restart, Return
  <2>2. DataAgrees'
    BY <2>1 DEF DataAgrees
  <2>3. Abstract!Restart
    BY <2>1 DEF Abstract!Restart
  <2> QED BY <2>2, <2>3 DEF Follows, Abstract!Next
<1> QED BY <1>1, <1>2, <1>3, <1>4

LEMMA OneCallFollows ==
    ASSUME Inv, Tidy, Create \/ Drop \/ Insert \/ DeleteAll
    PROVE  DataAgrees' /\ Follows
<1>1. /\ pc \in {"create", "drop", "insert", "deleteAll"} /\ stmt.op = pc /\ stmt \in Given
      /\ ~inTxn /\ cursors = 0 /\ disk = base /\ db = base /\ base \in Databases
  <2>1. pc \in {"create", "drop", "insert", "deleteAll"}
    BY DEF Create, Drop, Insert, DeleteAll
  <2> QED BY <2>1, Running DEF Inv, CallAgrees, IInv, TidyAgrees, Between, DataAgrees
<1>2. ~IsRowByRow(stmt, Was)
  BY <1>1 DEF IsRowByRow
<1>3. /\ Final(stmt, base) = [base EXCEPT ![stmt.coll] = Effect(stmt, Was)]
      /\ Effect(stmt, Was) = Was => Final(stmt, base) = base
  BY <1>1, <1>2, FinalAtOnce DEF Was
<1>4. (Exists <=> Was # Absent) /\ table = Was
  BY <1>1 DEF Exists, table, Was
<1>5. ASSUME NEW t, Write(t), t = Effect(stmt, Was)
      PROVE  db' = disk' /\ disk' = Final(stmt, base)
  BY <1>1, <1>3, <1>5 DEF Write
<1>6. ASSUME UNCHANGED data, Was = Effect(stmt, Was)
      PROVE  db' = disk' /\ disk' = Final(stmt, base)
  BY <1>1, <1>3, <1>6 DEF data
<1>7. /\ stmt.op = "create" => Effect(stmt, Was) = IF Was = Absent THEN EmptyTable ELSE Was
      /\ stmt.op = "drop" => Effect(stmt, Was) = Absent
      /\ stmt.op \notin {"create", "drop"} /\ Was = Absent => Effect(stmt, Was) = Absent
      /\ stmt.op = "insert" /\ Was # Absent =>
            Effect(stmt, Was) = IF stmt.doc = NoDoc THEN Was ELSE Inserted(Was, stmt.doc)
      /\ stmt.op = "deleteAll" /\ Was # Absent => Effect(stmt, Was) = EmptyTable
  BY <1>1, EffectIs
<1>8. db' = disk' /\ disk' = Final(stmt, base)
  <2>1. CASE Create
    BY <2>1, <1>1, <1>4, <1>5, <1>6, <1>7 DEF Create
  <2>2. CASE Drop
    BY <2>2, <1>1, <1>4, <1>5, <1>6, <1>7 DEF Drop
  <2>3. CASE Insert
    BY <2>3, <1>1, <1>4, <1>5, <1>6, <1>7 DEF Insert
  <2>4. CASE DeleteAll
    BY <2>4, <1>1, <1>4, <1>5, <1>6, <1>7 DEF DeleteAll
  <2> QED BY <2>1, <2>2, <2>3, <2>4
<1>9. Return(Reply(stmt, base))
  <2>1. /\ stmt.op = "create" => Reply(stmt, base) = IF Was = Absent \/ stmt.lenient THEN "DONE" ELSE "ERROR"
        /\ stmt.op = "drop" => Reply(stmt, base) = IF Was # Absent \/ stmt.lenient THEN "DONE" ELSE "ERROR"
        /\ stmt.op = "insert" => Reply(stmt, base) = IF Was # Absent \/ stmt.doc = NoDoc THEN "DONE" ELSE "ERROR"
        /\ stmt.op = "deleteAll" => Reply(stmt, base) = "OK"
    BY <1>1, ReplyIs DEF Was
  <2>2. CASE Create
    <3>1. (IF Exists /\ ~stmt.lenient THEN "ERROR" ELSE "DONE") = Reply(stmt, base)
      BY <1>1, <1>4, <2>1, <2>2 DEF Create
    <3> QED BY <2>2, <3>1 DEF Create
  <2>3. CASE Drop
    <3>1. (IF IF Exists THEN cursors = 0 ELSE stmt.lenient THEN "DONE" ELSE "ERROR") = Reply(stmt, base)
      BY <1>1, <1>4, <2>1, <2>3 DEF Drop
    <3> QED BY <2>3, <3>1 DEF Drop
  <2>4. CASE Insert
    <3>1. (IF Exists \/ stmt.doc = NoDoc THEN "DONE" ELSE "ERROR") = Reply(stmt, base)
      BY <1>1, <1>4, <2>1, <2>4 DEF Insert
    <3> QED BY <2>4, <3>1 DEF Insert
  <2>5. CASE DeleteAll
    BY <1>1, <2>1, <2>5 DEF DeleteAll
  <2> QED BY <2>2, <2>3, <2>4, <2>5
<1> QED BY <1>1, <1>8, <1>9, Returns

LEMMA TransactionFollows ==
    ASSUME Inv, Tidy, BeginTransaction \/ CreateT1
    PROVE  DataAgrees' /\ Follows
<1>1. /\ pc \in {"begin", "createT1"} /\ pc' \in {"createT1", "scan"}
      /\ UNCHANGED <<db, disk, stmt, base, pos, nUpdate, ret>>
      /\ stmt \in Given /\ base \in Databases /\ disk = base /\ db = base
      /\ pos = 0 /\ nUpdate = 0
  <2>1. pc \in {"begin", "createT1"} /\ (Goto("createT1") \/ Goto("scan"))
    <3>1. CASE BeginTransaction
      BY <3>1, Zenon DEF BeginTransaction
    <3>2. CASE CreateT1
      BY <3>2, Zenon DEF CreateT1
    <3> QED BY <3>1, <3>2
  <2>2. UNCHANGED data
    BY DEF BeginTransaction, CreateT1
  <2> QED BY <2>1, <2>2, Running DEF Inv, Typed, TypeOK, DataAgrees, Goto, data, call, scan
<1>2. pc' = "scan" => AtScan' /\ ~Plain'
  <2>1. CASE BeginTransaction
    <3>1. ~inTxn /\ (stmt.op = "delete" \/ IsUpsert(stmt)) /\ (pc' = "scan" => stmt.op # "delete")
      BY <2>1 DEF Inv, IInv, TidyAgrees, CallAgrees, BeginTransaction, Between, Goto
    <3>2. /\ After(stmt, base, 0) = base
          /\ Was # Absent => Hit(stmt, base, 0) = {}
      BY <1>1, NothingYet DEF Was
    <3>3. pc' = "scan" => ~Plain'
      BY <1>1, <3>1 DEF Plain, IsUpsert
    <3>4. pc' = "scan" => AtScan'
      BY <1>1, <3>1, <3>2 DEF AtScan, Was, IsUpsert
    <3> QED BY <3>3, <3>4
  <2>2. CASE CreateT1
    <3>1. t1' = {} /\ stmt.op = "delete" /\ Was # Absent
      BY <1>1, <2>2 DEF Inv, IInv, TidyAgrees, CallAgrees, CreateT1, InDelete, Exists, table, Was
    <3>2. Hit(stmt, base, 0) = {}
      BY <1>1, <3>1, NothingYet DEF Was
    <3> QED BY <1>1, <3>1, <3>2 DEF AtScan, Was, Plain
  <2> QED BY <2>1, <2>2
<1>3. DataAgrees'
  BY <1>1, <1>2 DEF DataAgrees
<1> QED BY <1>1, <1>3, Stutters

LEMMA ScanFollows ==
    ASSUME Inv, Tidy, ScanRow \/ CollectRow \/ ReviseRow
    PROVE  DataAgrees' /\ Follows
<1>1. /\ pc = "scan" /\ pc' = "scan" /\ UNCHANGED <<stmt, base, ret>>
      /\ stmt \in Given /\ base \in Databases /\ AtScan
      /\ disk = (IF Plain THEN db ELSE base) /\ inTxn = ~Plain
      /\ pos \in 0..MaxRow /\ nUpdate \in 0..MaxRow /\ stmt.op \in {"delete", "update"}
  <2>1. pc = "scan" /\ pc' = "scan" /\ UNCHANGED <<stmt, base, ret>>
    BY DEF ScanRow, CollectRow, ReviseRow, call
  <2>2. inTxn \in BOOLEAN /\ inTxn = ~Plain
    BY <2>1 DEF Inv, IInv, TxnAgrees, TidyAgrees, Between, Plain, Typed, TypeOK
  <2> QED BY <2>1, <2>2, Running DEF Inv, CallAgrees, DataAgrees
<1>2. PICK r \in 1..MaxRow : /\ IsNextRow(r) /\ pos' = r
                             /\ \/ ScanRow /\ ~Accepts(r)
                                \/ CollectRow /\ Accepts(r) /\ t1' = IF t1 = Nil THEN Nil ELSE t1 \cup {r}
                                \/ ReviseRow /\ Accepts(r) /\ Write(Revised(stmt, table, {r}))
  BY DEF ScanRow, CollectRow, ReviseRow
<1>3. /\ Was # Absent /\ r \in DOMAIN Was /\ r > pos
      /\ \A x \in DOMAIN Was : x > pos => x >= r
      /\ Accepts(r) <=> Was[r] \in stmt.where
  <2>1. Exists /\ r \in DOMAIN table /\ r > pos /\ \A x \in DOMAIN table : x > pos => x >= r
    BY <1>2 DEF IsNextRow
  <2>2. CASE stmt.op = "delete"
    BY <1>1, <2>1, <2>2 DEF AtScan, Exists, table, Was, Accepts
  <2>3. CASE stmt.op = "update"
    <3>1. Was # Absent /\ DOMAIN table = DOMAIN Was
          /\ \A x \in DOMAIN Was \ Hit(stmt, base, pos) : table[x] = Was[x]
      BY <1>1, <2>1, <2>3, AfterIs DEF AtScan, Exists, table, Was
    <3>2. r \notin Hit(stmt, base, pos)
      BY <1>1, <2>1, <3>1, HitNext DEF Was
    <3> QED BY <2>1, <3>1, <3>2 DEF Accepts
  <2> QED BY <1>1, <2>2, <2>3
<1>4. Hit(stmt, base, r) = IF Accepts(r) THEN Hit(stmt, base, pos) \cup {r} ELSE Hit(stmt, base, pos)
  BY <1>1, <1>3, HitNext DEF Was
<1>5. CASE ScanRow \/ CollectRow
  <2>1. UNCHANGED <<db, disk, nUpdate>>
    BY <1>5 DEF ScanRow, CollectRow, data
  <2>2. stmt.op = "update" => ~Accepts(r)
    BY <1>1, <1>2, <1>5 DEF CollectRow, ReviseRow, ScanRow
  <2>3. stmt.op = "update" => After(stmt, base, r) = After(stmt, base, pos)
    BY <1>4, <2>2 DEF After
  <2>4. stmt.op = "delete" => t1' = Hit(stmt, base, r)
    <3>1. ASSUME stmt.op = "delete" PROVE t1 = Hit(stmt, base, pos) /\ t1 # Nil
      BY <1>1, <3>1 DEF Inv, IInv, TxnAgrees, AtScan
    <3>2. CASE ScanRow
      BY <1>4, <3>1, <3>2, <1>2 DEF ScanRow, txn, CollectRow, ReviseRow
    <3>3. CASE CollectRow
      BY <1>4, <3>1, <3>3, <1>2 DEF ScanRow, CollectRow, ReviseRow
    <3> QED BY <1>5, <3>2, <3>3
  <2>5. AtScan'
    BY <1>1, <1>2, <1>3, <1>4, <2>1, <2>2, <2>3, <2>4 DEF AtScan, Was
  <2>6. DataAgrees'
    BY <1>1, <2>1, <2>5 DEF DataAgrees, Plain, IsUpsert
  <2> QED BY <1>1, <2>1, <2>6, Stutters
<1>6. CASE ReviseRow
  <2>1. /\ stmt.op = "update" /\ nUpdate' = nUpdate + 1 /\ Accepts(r)
        /\ Write(Revised(stmt, table, {r}))
    BY <1>2, <1>6 DEF ReviseRow, ScanRow, CollectRow
  <2>2. db = After(stmt, base, pos)
    BY <1>1, <2>1 DEF AtScan
  <2>3. db' = After(stmt, base, r)
    <3>1. db' = [After(stmt, base, pos) EXCEPT ![stmt.coll] = Revised(stmt, After(stmt, base, pos)[stmt.coll], {r})]
      BY <2>1, <2>2 DEF Write, table
    <3>2. base[stmt.coll][r] \in stmt.where
      BY <1>3, <2>1 DEF Was
    <3>3. /\ base[stmt.coll] # Absent /\ r \in DOMAIN base[stmt.coll] /\ r > pos
          /\ \A x \in DOMAIN base[stmt.coll] : x > pos => x >= r
      BY <1>3 DEF Was
    <3>4. PICK d, s, p, e : d = base /\ s = stmt /\ p = pos /\ e = db'
      OBVIOUS
    <3>5. d \in Databases /\ s \in Given /\ p \in 0..MaxRow
      BY <1>1, <3>4
    <3>6. /\ d[s.coll] # Absent /\ r \in DOMAIN d[s.coll] /\ r > p
          /\ \A x \in DOMAIN d[s.coll] : x > p => x >= r
          /\ d[s.coll][r] \in s.where
      BY <3>2, <3>3, <3>4, Zenon
    <3>7. e = [After(s, d, p) EXCEPT ![s.coll] = Revised(s, After(s, d, p)[s.coll], {r})]
      BY <3>1, <3>4, Zenon
    <3>8. e = After(s, d, r)
      BY <3>5, <3>6, <3>7, ReviseNext
    <3> QED BY <3>4, <3>8, Zenon
  <2>4. nUpdate' # 0 /\ Hit(stmt, base, r) # {}
    BY <1>1, <1>4, <2>1, DmlBoundsAssumption
  <2>5. AtScan'
    BY <1>1, <1>2, <1>3, <2>1, <2>3, <2>4 DEF AtScan, Was
  <2>6. disk' = IF Plain THEN db' ELSE disk
    BY <1>1, <2>1 DEF Write
  <2>7. DataAgrees'
    BY <1>1, <2>5, <2>6 DEF DataAgrees, Plain, IsUpsert
  <2>8. CASE ~Plain
    BY <1>1, <2>6, <2>7, <2>8, Stutters
  <2>9. CASE Plain
    <3>1. /\ pos + 1 \in 0..LastStage(stmt, base) /\ disk = Stage(stmt, base, pos + 1)
      BY <1>1, <1>3, <2>2, <2>9, StageOfScan DEF AtScan, Was, Plain
    <3>2. r + 1 \in 0..LastStage(stmt, base) /\ disk' = Stage(stmt, base, r + 1)
      BY <1>1, <1>2, <1>3, <2>3, <2>6, <2>9, StageOfScan, DmlBoundsAssumption DEF Was, Plain
    <3>3. r + 1 \in (pos + 1)..LastStage(stmt, base)
      BY <1>1, <1>2, <1>3, <3>2, LastStageIs, DmlBoundsAssumption
    <3>4. Abstract!Advance
      BY <1>1, <3>1, <3>2, <3>3, SameMeaning, Running DEF Abstract!Advance
    <3> QED BY <2>7, <3>4 DEF Follows, Abstract!Next
  <2> QED BY <2>8, <2>9
<1> QED BY <1>5, <1>6

LEMMA ScanEndFollows ==
    ASSUME Inv, Tidy, ScanEnd
    PROVE  DataAgrees' /\ Follows
<1>1. /\ pc = "scan" /\ NoMoreRows /\ UNCHANGED <<db, disk, t1>>
      /\ stmt \in Given /\ base \in Databases /\ AtScan
      /\ disk = (IF Plain THEN db ELSE base)
      /\ pos \in 0..MaxRow /\ stmt.op \in {"delete", "update"} /\ TypeOK
  BY Running DEF Inv, CallAgrees, DataAgrees, ScanEnd, data, txn, Typed
<1>2. /\ Exists <=> Was # Absent
      /\ Exists => DOMAIN table = DOMAIN Was
  <2>1. CASE stmt.op = "delete"
    BY <1>1, <2>1 DEF AtScan, Exists, table, Was
  <2>2. CASE stmt.op = "update"
    BY <1>1, <2>2, AfterIs DEF AtScan, Exists, table, Was
  <2> QED BY <1>1, <2>1, <2>2
<1>3. Was # Absent => /\ \A r \in DOMAIN Was : r <= pos
                      /\ Hit(stmt, base, pos) = Matching(stmt, Was)
  <2>1. Was # Absent => \A r \in DOMAIN Was : r <= pos
    BY <1>1, <1>2, ScanPassesAll
  <2> QED BY <2>1 DEF Hit, Matching, Was
<1>4. CASE stmt.op = "delete"
  <2>1. Goto("deleteT1") /\ ~IsUpsert(stmt) /\ ~Plain
    BY <1>1, <1>4, Zenon DEF ScanEnd, IsUpsert, Plain
  <2>2. pc' = "deleteT1" /\ UNCHANGED <<stmt, base, pos, ret>>
    BY <2>1 DEF Goto, call, scan
  <2>3. Was # Absent
    BY <1>1, <1>2, <1>4 DEF Inv, IInv, TidyAgrees
  <2>4. DataAgrees'
    BY <1>1, <1>3, <1>4, <2>1, <2>2, <2>3 DEF DataAgrees, AtScan, Was
  <2> QED BY <1>1, <2>2, <2>4, Stutters
<1>5. CASE IsUpsert(stmt)
  <2>1. ~Plain /\ stmt.op = "update"
    BY <1>5 DEF IsUpsert, Plain
  <2>2. Goto(IF nUpdate = 0 THEN "upsert" ELSE "commit")
    BY <1>5, <2>1 DEF ScanEnd, IsUpsert
  <2>3. pc' = (IF nUpdate = 0 THEN "upsert" ELSE "commit") /\ UNCHANGED <<stmt, base, pos, ret>>
    BY <2>2 DEF Goto, call, scan
  <2>4. disk = base /\ db = After(stmt, base, pos) /\ (nUpdate = 0 <=> Was = Absent \/ Hit(stmt, base, pos) = {})
    BY <1>1, <2>1 DEF AtScan
  <2>5. CASE nUpdate = 0
    <3>1. Was # Absent => Matching(stmt, Was) = {} /\ Hit(stmt, base, pos) = Hit(stmt, base, 0)
      BY <1>1, <1>3, <2>4, <2>5, NothingYet DEF Was
    <3>2. After(stmt, base, pos) = After(stmt, base, 0)
      BY <3>1 DEF After, Was
    <3>3. db = base
      BY <1>1, <2>4, <3>2, NothingYet
    <3>4. DataAgrees'
      BY <1>1, <2>3, <2>4, <2>5, <3>1, <3>3 DEF DataAgrees, Was
    <3> QED BY <1>1, <2>3, <3>4, Stutters
  <2>6. CASE nUpdate # 0
    <3>1. Was # Absent /\ Matching(stmt, Was) # {}
      BY <1>3, <2>4, <2>6
    <3>2. ~IsRowByRow(stmt, Was) /\ Effect(stmt, Was) = Revised(stmt, Was, Matching(stmt, Was))
      BY <1>1, <1>5, <3>1, EffectIs DEF IsRowByRow
    <3>3. Final(stmt, base) = [base EXCEPT ![stmt.coll] = Revised(stmt, Was, Matching(stmt, Was))]
      BY <1>1, <3>2, FinalAtOnce DEF Was
    <3>4. db = Final(stmt, base)
      BY <1>3, <2>4, <3>1, <3>3 DEF After, Was
    <3>5. DataAgrees'
      BY <1>1, <2>3, <2>4, <2>6, <3>4 DEF DataAgrees
    <3> QED BY <1>1, <2>3, <3>5, Stutters
  <2> QED BY <2>5, <2>6
<1>6. CASE Plain
  <2>1. stmt.op = "update" /\ ~IsUpsert(stmt)
    BY <1>6 DEF Plain
  <2>2. Return("OK")
    BY <2>1 DEF ScanEnd
  <2>3. Reply(stmt, base) = "OK"
    BY <1>1, <2>1, ReplyIs
  <2>4. disk = db /\ db = After(stmt, base, pos)
    BY <1>1, <1>6, <2>1 DEF AtScan
  <2>5. Final(stmt, base) = After(stmt, base, pos)
    BY <1>1, <1>3, <2>1, FinalOfScan DEF Was
  <2>6. disk = base \/ \E k \in 0..LastStage(stmt, base) : disk = Stage(stmt, base, k)
    <3>1. CASE Was = Absent
      BY <2>4, <3>1 DEF After, Was
    <3>2. CASE Was # Absent
      BY <1>1, <2>1, <2>4, <3>2, StageOfScan DEF AtScan, Was
    <3> QED BY <3>1, <3>2
  <2> QED BY <1>1, <2>2, <2>3, <2>4, <2>5, <2>6, Returns
<1> QED BY <1>1, <1>4, <1>5, <1>6 DEF Plain

LEMMA EndFollows ==
    ASSUME Inv, Tidy, DeleteT1 \/ DropT1 \/ UpsertRow \/ Commit
    PROVE  DataAgrees' /\ Follows
<1>1. /\ pc \in {"deleteT1", "dropT1", "upsert", "commit"} /\ DataAgrees
      /\ stmt \in Given /\ base \in Databases /\ disk = base /\ inTxn
      /\ stmt.op = "delete" \/ IsUpsert(stmt)
  <2>1. pc \in {"deleteT1", "dropT1", "upsert", "commit"}
    BY DEF DeleteT1, DropT1, UpsertRow, Commit
  <2> QED BY <2>1, Running DEF Inv, IInv, TxnAgrees, CallAgrees, DataAgrees, InDelete
<1>2. ~IsRowByRow(stmt, Was)
  BY <1>1 DEF IsRowByRow, IsUpsert
<1>3. /\ Final(stmt, base) = [base EXCEPT ![stmt.coll] = Effect(stmt, Was)]
      /\ Effect(stmt, Was) = Was => Final(stmt, base) = base
  BY <1>1, <1>2, FinalAtOnce DEF Was
<1>4. ASSUME NEW label \in {"dropT1", "commit"}, Goto(label), UNCHANGED disk, db' = Final(stmt, base)
      PROVE  DataAgrees' /\ Follows
  <2>1. pc' = label /\ UNCHANGED <<stmt, base, ret>>
    BY <1>4 DEF Goto, call
  <2>2. DataAgrees'
    BY <1>1, <1>4, <2>1 DEF DataAgrees
  <2> QED BY <1>4, <2>1, <2>2, Stutters
<1>5. CASE DeleteT1
  <2>1. pc = "deleteT1" /\ stmt.op = "delete" /\ t1 # Nil /\ db = base /\ t1 = Matching(stmt, Was)
    BY <1>1, <1>5 DEF Inv, IInv, TxnAgrees, CallAgrees, DataAgrees, DeleteT1, InDelete
  <2>2. Exists /\ table = Was /\ Was # Absent
    BY <2>1 DEF Inv, IInv, TidyAgrees, Exists, table, Was
  <2>3. Write(Without(Was, Matching(stmt, Was))) /\ Goto("dropT1")
    BY <1>5, <2>1, <2>2 DEF DeleteT1
  <2>4. Effect(stmt, Was) = Without(Was, Matching(stmt, Was))
    BY <1>1, <2>1, <2>2, EffectIs
  <2>5. disk' = disk /\ db' = Final(stmt, base)
    BY <1>1, <1>3, <2>1, <2>3, <2>4 DEF Write
  <2> QED BY <1>4, <2>3, <2>5
<1>6. CASE DropT1
  <2>1. cursors = 0 /\ pc = "dropT1" /\ UNCHANGED <<db, disk>>
    BY <1>6 DEF Inv, IInv, TidyAgrees, DropT1, data
  <2>2. Goto("commit")
    BY <1>6, <2>1 DEF DropT1
  <2>3. db = Final(stmt, base)
    BY <1>1, <2>1 DEF DataAgrees
  <2> QED BY <1>4, <2>1, <2>2, <2>3
<1>7. CASE UpsertRow
  <2>1. /\ pc = "upsert" /\ IsUpsert(stmt) /\ db = base
        /\ Was # Absent => Matching(stmt, Was) = {}
    BY <1>1, <1>7 DEF Inv, CallAgrees, DataAgrees, UpsertRow
  <2>2. (Exists <=> Was # Absent) /\ table = Was
    BY <2>1 DEF Exists, table, Was
  <2>3. /\ Was = Absent => Effect(stmt, Was) = Was
        /\ Was # Absent => Effect(stmt, Was) = Inserted(Was, stmt.doc)
    BY <1>1, <2>1, EffectIs DEF IsUpsert
  <2>4. Goto("commit") /\ IF Was # Absent THEN Write(Inserted(Was, stmt.doc)) ELSE UNCHANGED <<db, disk>>
    BY <1>7, <2>2 DEF UpsertRow, data
  <2>5. disk' = disk /\ db' = Final(stmt, base)
    BY <1>1, <1>3, <2>1, <2>3, <2>4 DEF Write
  <2> QED BY <1>4, <2>4, <2>5
<1>8. CASE Commit
  <2>1. pc = "commit" /\ Return("OK") /\ disk' = db /\ db' = db
    BY <1>8 DEF Commit
  <2>2. Reply(stmt, base) = "OK"
    BY <1>1, ReplyIs DEF IsUpsert
  <2>3. db = Final(stmt, base)
    BY <1>1, <2>1 DEF DataAgrees
  <2> QED BY <1>1, <2>1, <2>2, <2>3, Returns
<1> QED BY <1>5, <1>6, <1>7, <1>8

-----------------------------------------------------------------------------
LEMMA StepFollows ==
    ASSUME Inv, [Next]_vars
    PROVE  (Tidy => DataAgrees') /\ (Tidy => Follows)
BY BetweenFollows, OneCallFollows, TransactionFollows, ScanFollows, ScanEndFollows, EndFollows
   DEF Next, Statement

LEMMA ClientStays == [Next]_vars => (Tidy' <=> Tidy)
<1>1. [Next]_vars => client' = client
  BY DEF vars, Next, Statement, Begin, OpenCursor, CloseCursor, Restart, Create, Drop, Insert, DeleteAll,
         BeginTransaction, CreateT1, ScanRow, CollectRow, ReviseRow, ScanEnd, DeleteT1, DropT1, UpsertRow, Commit
<1> QED BY <1>1 DEF Tidy

LEMMA InitFollows == Init => (Tidy => DataAgrees) /\ (Tidy => Abstract!Init)
BY DEF Init, DataAgrees, Abstract!Init, Empty

\* For a client that reads every SELECT to its end before it gives another
\* statement, and deletes from collections that exist, every statement changes
\* the committed collections as a whole, or row by row for an UPDATE without
\* ELSE INSERT, wherever a crash interrupts it, and what it reports as done is
\* committed (delete.c:44-68, update.c:178-239, stmt.c:152-207).
THEOREM TidyImplementsStore == Spec => ImplementsStore
<1>1. Spec => []Typed
  BY InitTyped, TypedStep, Calls, PTL DEF Spec
<1>2. Typed /\ CallAgrees /\ IInv /\ (Tidy => DataAgrees) <=> Inv
  BY DEF Inv
<1>3. Inv /\ [Next]_vars => (Tidy => DataAgrees)'
  BY StepFollows, ClientStays
<1>4. Spec => []Inv
  BY <1>1, <1>2, <1>3, Agrees, InitFollows, PTL DEF Spec
<1>5. Inv /\ [Next]_vars => [Tidy => Abstract!Next]_(Abstract!vars)
  BY StepFollows DEF Follows
<1> QED BY <1>4, <1>5, InitFollows, PTL DEF Spec, ImplementsStore

=============================================================================
