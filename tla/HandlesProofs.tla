---------------------------- MODULE HandlesProofs ----------------------------
(***************************************************************************)
(* Theorems about Handles, for every set of connections and of statements  *)
(* and a client that deletes the statements of a connection newest first   *)
(* and closes last.                                                        *)
(***************************************************************************)
EXTENDS Handles, SequenceTheorems, TLAPS

\* The statements a client holds are live, are linked to the connection they
\* were prepared on, have no predecessor recorded, and are held once.
HeldInv ==
    \A c \in Conns : \A k \in DOMAIN held[c] :
        /\ stmt[held[c][k]].state = "live"
        /\ stmt[held[c][k]].pConn = c
        /\ stmt[held[c][k]].pPrev = Nil
        /\ \A j \in DOMAIN held[c] : held[c][j] = held[c][k] => j = k

\* Nothing is freed under a client that still has it open: no counter is ever
\* positive, so what is closed is freed at once, and only what is closed.
OpenInv ==
    /\ \A c \in open : conn[c].state = "live" /\ ~conn[c].isDying
    /\ \A c \in Conns : conn[c].state = "unused" => conn[c].pStmt = Nil /\ c \notin open
    /\ \A c \in Conns \ open : held[c] = <<>>
    /\ ~context.isDying => context.state = "live"
    /\ context.isDying => open = {}
    /\ \A c \in Conns : conn[c].state = "unused" => ~conn[c].isDying

ConnRecords == [state : States, nRef : Int, isDying : BOOLEAN, pStmt : Pointers]

Inv == TypeOK /\ NoFault /\ ListIsHeld /\ HeldInv /\ OpenInv

-----------------------------------------------------------------------------
LEMMA TailFacts ==
    ASSUME NEW S, NEW s \in Seq(S), s # <<>>
    PROVE  /\ Tail(s) \in Seq(S) /\ Len(Tail(s)) = Len(s) - 1
           /\ DOMAIN Tail(s) = 1..(Len(s) - 1)
           /\ \A k \in 1..(Len(s) - 1) : Tail(s)[k] = s[k + 1]
OBVIOUS

LEMMA RemoveNewest ==
    ASSUME NEW S, NEW s \in Seq(S), s # <<>>
    PROVE  RemoveAt(s, 1) = Tail(s)
<1>a. RemoveAt(s, 1) = SubSeq(s, 1, 0) \o SubSeq(s, 2, Len(s))
  BY DEF RemoveAt
<1>b. SubSeq(s, 1, 0) = <<>>
  OBVIOUS
<1>c. SubSeq(s, 2, Len(s)) = Tail(s) /\ Tail(s) \in Seq(S)
  OBVIOUS
<1>d. QED
  BY <1>a, <1>b, <1>c

LEMMA PushFacts ==
    ASSUME NEW S, NEW s \in Seq(S), NEW x \in S
    PROVE  /\ <<x>> \o s \in Seq(S) /\ Len(<<x>> \o s) = Len(s) + 1
           /\ DOMAIN (<<x>> \o s) = 1..(Len(s) + 1)
           /\ (<<x>> \o s)[1] = x
           /\ \A k \in 1..Len(s) : (<<x>> \o s)[k + 1] = s[k]
           /\ \A k \in 2..(Len(s) + 1) : (<<x>> \o s)[k] = s[k - 1]
OBVIOUS

-----------------------------------------------------------------------------
LEMMA InitInv == Init => Inv
BY NilAssumption DEF Init, Inv, TypeOK, NoFault, ListIsHeld, HeldInv, OpenInv, States, Pointers

LEMMA OpenConnInv ==
    ASSUME Inv, NEW c \in Conns, OpenConn(c)
    PROVE  Inv'
<1>0. TypeOK /\ NoFault /\ OpenConn(c)
  BY DEF Inv
<1>1. TypeOK' /\ NoFault'
  <2>1. conn' \in [Conns -> ConnRecords]
    <3>1. conn \in [Conns -> ConnRecords] /\ conn' = [conn EXCEPT ![c].state = "live"]
      BY <1>0 DEF TypeOK, OpenConn, ConnRecords
    <3> QED BY <3>1 DEF ConnRecords, States
  <2>2. open' \subseteq Conns /\ UNCHANGED <<context, stmt, held, fault>>
    BY <1>0 DEF TypeOK, OpenConn
  <2> QED BY <1>0, <2>1, <2>2 DEF TypeOK, NoFault, ConnRecords
<1> USE DEF Inv, OpenConn
<1>2. ListIsHeld'
  BY DEF TypeOK, ListIsHeld, OpenInv
<1>3. HeldInv'
  BY DEF HeldInv
<1>4. OpenInv'
  BY DEF TypeOK, OpenInv
<1> QED
  BY <1>1, <1>2, <1>3, <1>4

LEMMA CloseConnInv ==
    ASSUME Orderly, Inv, NEW c \in Conns, CloseConn(c)
    PROVE  Inv'
<1> USE DEF Inv, CloseConn, Orderly
<1>1. /\ c \in open /\ held[c] = <<>> /\ context.state = "live" /\ ~context.isDying
      /\ conn[c].state = "live"
  BY DEF OpenInv
<1>2. ContextUnref(context) = [context EXCEPT !.nRef = @ - 1]
  BY <1>1 DEF ContextUnref, TypeOK
<1>3. context' \in {context, [context EXCEPT !.nRef = @ - 1]} /\ fault' = "none"
  BY <1>1, <1>2 DEF NoFault
<1>4. /\ conn' \in [Conns -> ConnRecords]
      /\ conn'[c].state \in {"live", "freed"}
      /\ \A d \in Conns \ {c} : conn'[d] = conn[d]
  <2>1. PICK r \in ConnRecords : r.state \in {"live", "freed"} /\ conn' = [conn EXCEPT ![c] = r]
    <3>1. conn[c] \in ConnRecords
      BY DEF TypeOK, ConnRecords
    <3>2. /\ [conn[c] EXCEPT !.isDying = TRUE] \in ConnRecords
          /\ [conn[c] EXCEPT !.isDying = TRUE].state = "live"
          /\ [conn[c] EXCEPT !.isDying = TRUE, !.state = "freed"] \in ConnRecords
          /\ [conn[c] EXCEPT !.isDying = TRUE, !.state = "freed"].state = "freed"
      BY <1>1, <3>1 DEF ConnRecords, States
    <3>3. \/ conn' = [conn EXCEPT ![c] = [conn[c] EXCEPT !.isDying = TRUE]]
          \/ conn' = [conn EXCEPT ![c] = [conn[c] EXCEPT !.isDying = TRUE, !.state = "freed"]]
      BY DEF TypeOK
    <3> QED
      BY <3>2, <3>3
  <2> QED
    BY <2>1 DEF TypeOK, ConnRecords
<1>5. TypeOK' /\ NoFault'
  <2>1. context' \in [state : {"live", "freed"}, nRef : Int, isDying : BOOLEAN]
    <3>1. context \in [state : {"live", "freed"}, nRef : Int, isDying : BOOLEAN]
      BY DEF TypeOK
    <3>2. [context EXCEPT !.nRef = @ - 1]
             \in [state : {"live", "freed"}, nRef : Int, isDying : BOOLEAN]
      BY <3>1
    <3> QED
      BY <1>3, <3>1, <3>2
  <2>2. open' \subseteq Conns
    BY DEF TypeOK
  <2> QED
    BY <1>3, <1>4, <2>1, <2>2 DEF TypeOK, NoFault, ConnRecords
<1>6. ListIsHeld'
  BY <1>4 DEF TypeOK, ListIsHeld
<1>7. HeldInv'
  BY DEF HeldInv
<1>8. OpenInv'
  <2>1. held' = held /\ open' = open \ {c}
    OBVIOUS
  <2>2. context'.isDying = context.isDying /\ context'.state = context.state
    BY <1>3 DEF TypeOK
  <2>3. OpenInv
    OBVIOUS
  <2>4. \A d \in Conns \ {c} : conn'[d] = conn[d]
    BY <1>4
  <2>5. conn'[c].state # "unused" /\ held[c] = <<>> /\ ~context.isDying /\ c \in Conns /\ open \subseteq Conns
    BY <1>1, <1>4 DEF TypeOK
  <2> HIDE DEF Inv, CloseConn
  <2> QED BY <2>1, <2>2, <2>3, <2>4, <2>5 DEF OpenInv
<1> QED
  BY <1>5, <1>6, <1>7, <1>8

LEMMA DeleteContextInv ==
    ASSUME Orderly, Inv, DeleteContext
    PROVE  Inv'
<1> USE DEF Inv, DeleteContext, Orderly
<1>1. TypeOK' /\ NoFault'
  BY DEF TypeOK, NoFault
<1>2. ListIsHeld' /\ HeldInv'
  BY DEF ListIsHeld, HeldInv
<1>3. OpenInv'
  BY DEF TypeOK, OpenInv
<1> QED
  BY <1>1, <1>2, <1>3

LEMMA NewStmtInv ==
    ASSUME Inv, NEW c \in Conns, NEW s \in Stmts, NewStmt(c, s)
    PROVE  Inv'
<1> USE DEF Inv, NewStmt
<1>held. /\ held \in [Conns -> Seq(Stmts)] /\ held[c] \in Seq(Stmts)
         /\ held' = [held EXCEPT ![c] = <<s>> \o held[c]]
  BY DEF TypeOK
<1>new. /\ held'[c] = <<s>> \o held[c] /\ held'[c] \in Seq(Stmts)
        /\ Len(held'[c]) = Len(held[c]) + 1 /\ DOMAIN held'[c] = 1..(Len(held[c]) + 1)
        /\ held'[c][1] = s
        /\ \A k \in 2..(Len(held[c]) + 1) : held'[c][k] = held[c][k - 1]
        /\ \A d \in Conns \ {c} : held'[d] = held[d]
  BY <1>held, PushFacts
<1>fresh. \A d \in Conns : \A k \in DOMAIN held[d] : held[d][k] \in Stmts \ {s}
  BY DEF HeldInv, TypeOK
<1>stmt. /\ stmt' = [stmt EXCEPT ![s] = stmt'[s]] /\ stmt'[s].state = "live"
         /\ stmt'[s].pConn = c /\ stmt'[s].pNext = conn[c].pStmt /\ stmt'[s].pPrev = Nil
         /\ \A x \in Stmts \ {s} : stmt'[x] = stmt[x]
  BY DEF TypeOK
<1>conn. /\ conn'[c].pStmt = s /\ conn'[c].state = conn[c].state
         /\ conn'[c].isDying = conn[c].isDying
         /\ \A d \in Conns \ {c} : conn'[d] = conn[d]
  BY DEF TypeOK
<1>1. TypeOK' /\ NoFault'
  <2>1. held' \in [Conns -> Seq(Stmts)]
    BY <1>held, <1>new
  <2> QED
    BY <2>1 DEF TypeOK, NoFault, States, Pointers
<1>2. ListIsHeld'
  <2> SUFFICES ASSUME NEW d \in open
               PROVE  /\ conn'[d].pStmt = IF held'[d] = <<>> THEN Nil ELSE held'[d][1]
                      /\ \A k \in DOMAIN held'[d] :
                            stmt'[held'[d][k]].pNext =
                               IF k < Len(held'[d]) THEN held'[d][k + 1] ELSE Nil
    BY DEF ListIsHeld
  <2>1. CASE d # c
    BY <2>1, <1>new, <1>fresh, <1>stmt, <1>conn DEF ListIsHeld, TypeOK
  <2>2. CASE d = c
    <3>1. held'[c] # <<>> /\ conn'[c].pStmt = held'[c][1]
      BY <1>new, <1>conn
    <3>2. conn[c].pStmt = IF held[c] = <<>> THEN Nil ELSE held[c][1]
      BY <2>2 DEF ListIsHeld
    <3>3. stmt'[held'[c][1]].pNext = IF 1 < Len(held'[c]) THEN held'[c][2] ELSE Nil
      BY <1>held, <1>new, <1>stmt, <3>2
    <3>4. ASSUME NEW k \in 2..(Len(held[c]) + 1)
          PROVE  stmt'[held'[c][k]].pNext = IF k < Len(held'[c]) THEN held'[c][k + 1] ELSE Nil
      <4>1. k - 1 \in DOMAIN held[c]
        BY <1>held
      <4>2. stmt[held[c][k - 1]].pNext =
               IF k - 1 < Len(held[c]) THEN held[c][(k - 1) + 1] ELSE Nil
        BY <2>2, <4>1 DEF ListIsHeld
      <4>3. held'[c][k] = held[c][k - 1] /\ stmt'[held[c][k - 1]] = stmt[held[c][k - 1]]
        BY <1>new, <1>fresh, <1>stmt, <4>1
      <4>4. k < Len(held'[c]) => held'[c][k + 1] = held[c][k]
        BY <1>held, <1>new
      <4> QED
        BY <1>held, <1>new, <4>2, <4>3, <4>4
    <3> QED
      BY <1>held, <1>new, <2>2, <3>1, <3>3, <3>4
  <2> QED
    BY <2>1, <2>2
<1>3. HeldInv'
  <2> SUFFICES ASSUME NEW d \in Conns, NEW k \in DOMAIN held'[d]
               PROVE  /\ stmt'[held'[d][k]].state = "live"
                      /\ stmt'[held'[d][k]].pConn = d
                      /\ stmt'[held'[d][k]].pPrev = Nil
                      /\ \A j \in DOMAIN held'[d] : held'[d][j] = held'[d][k] => j = k
    BY DEF HeldInv
  <2>1. CASE d # c
    BY <2>1, <1>new, <1>fresh, <1>stmt DEF HeldInv
  <2>2. CASE d = c /\ k = 1
    <3>1. \A j \in 2..(Len(held[c]) + 1) : held'[c][j] # s
      BY <1>held, <1>new, <1>fresh
    <3> QED
      BY <2>2, <3>1, <1>held, <1>new, <1>stmt
  <2>3. CASE d = c /\ k # 1
    <3>1. k \in 2..(Len(held[c]) + 1) /\ k - 1 \in DOMAIN held[c]
      BY <2>3, <1>held, <1>new
    <3>2. held'[c][k] = held[c][k - 1] /\ held'[c][k] # s
          /\ stmt'[held'[c][k]] = stmt[held[c][k - 1]]
      BY <3>1, <1>new, <1>fresh, <1>stmt
    <3>3. ASSUME NEW j \in DOMAIN held'[c], held'[c][j] = held'[c][k]
          PROVE  j = k
      <4>1. j # 1
        BY <3>2, <3>3, <1>new
      <4>2. j - 1 \in DOMAIN held[c] /\ held'[c][j] = held[c][j - 1]
        BY <4>1, <1>held, <1>new
      <4>3. held[c][j - 1] = held[c][k - 1]
        BY <3>2, <3>3, <4>2
      <4>4. j - 1 = k - 1
        BY <3>1, <4>2, <4>3 DEF HeldInv
      <4> QED
        BY <3>1, <4>2, <4>4, <1>held, <1>new
    <3> QED
      BY <2>3, <3>1, <3>2, <3>3 DEF HeldInv
  <2> QED
    BY <2>1, <2>2, <2>3
<1>4. OpenInv'
  BY <1>conn, <1>new DEF OpenInv, TypeOK
<1> QED
  BY <1>1, <1>2, <1>3, <1>4

\* A statement that does not parse is linked and unlinked in one call: the list
\* is as before.
LEMMA NewStmtFailsInv ==
    ASSUME Inv, NEW c \in Conns, NEW s \in Stmts, NewStmtFails(c, s)
    PROVE  Inv'
<1> USE DEF Inv, NewStmtFails
<1>1. /\ conn[c] \in ConnRecords /\ conn[c].state = "live" /\ ~conn[c].isDying
  BY DEF TypeOK, ConnRecords, OpenInv
<1>2. ConnUnref(conn[c]) = [conn[c] EXCEPT !.nRef = @ - 1]
  BY <1>1 DEF ConnUnref, ConnRecords
<1>3. conn' = [conn EXCEPT ![c] = [conn[c] EXCEPT !.nRef = @ - 1]]
  BY <1>2
<1>4. [conn[c] EXCEPT !.nRef = @ - 1] \in ConnRecords
  BY <1>1 DEF ConnRecords
<1>5. /\ conn' \in [Conns -> ConnRecords]
      /\ \A d \in Conns : /\ conn'[d].pStmt = conn[d].pStmt
                          /\ conn'[d].state = conn[d].state
                          /\ conn'[d].isDying = conn[d].isDying
  BY <1>1, <1>3, <1>4 DEF TypeOK, ConnRecords
<1>fresh. \A d \in Conns : \A k \in DOMAIN held[d] : held[d][k] \in Stmts \ {s}
  BY DEF HeldInv, TypeOK
<1>6. \A x \in Stmts \ {s} :
        /\ stmt'[x].state = stmt[x].state /\ stmt'[x].pConn = stmt[x].pConn
        /\ stmt'[x].pNext = stmt[x].pNext /\ stmt'[x].pPrev \in {stmt[x].pPrev, Nil}
  BY DEF TypeOK
<1>7. stmt' \in [Stmts -> [state : States, pConn : Conns \cup {Nil},
                           pNext : Pointers, pPrev : Pointers]]
  <2> DEFINE R == [state : States, pConn : Conns \cup {Nil}, pNext : Pointers, pPrev : Pointers]
  <2>1. PICK next \in Pointers : next = conn[c].pStmt
    BY <1>1 DEF ConnRecords
  <2>2. stmt \in [Stmts -> R] /\ Nil \in Pointers
    BY DEF TypeOK, Pointers
  <2>3. stmt' = [x \in Stmts |->
                   IF x = s
                   THEN [state |-> "freed", pConn |-> c, pNext |-> next, pPrev |-> Nil]
                   ELSE [stmt[x] EXCEPT !.pPrev = IF x = next THEN Nil ELSE @]]
    BY <2>1
  <2> HIDE DEF Inv, NewStmtFails
  <2>4. [state |-> "freed", pConn |-> c, pNext |-> next, pPrev |-> Nil] \in R
    BY <2>2 DEF States
  <2>5. ASSUME NEW x \in Stmts PROVE [stmt[x] EXCEPT !.pPrev = IF x = next THEN Nil ELSE @] \in R
    BY <2>2
  <2> QED BY <2>3, <2>4, <2>5
<1>8. TypeOK' /\ NoFault'
  BY <1>5, <1>7 DEF TypeOK, NoFault, ConnRecords
<1>9. ListIsHeld'
  BY <1>5, <1>6, <1>fresh DEF ListIsHeld, TypeOK
<1>10. HeldInv'
  BY <1>6, <1>fresh DEF HeldInv
<1>11. OpenInv'
  BY <1>5 DEF OpenInv
<1> QED
  BY <1>8, <1>9, <1>10, <1>11

LEMMA Unlinked ==
    ASSUME NEW r \in ConnRecords, NEW p \in Pointers
    PROVE  [r EXCEPT !.pStmt = p, !.nRef = r.nRef - 1] \in ConnRecords
<1>1. [r EXCEPT !.pStmt = p] \in ConnRecords /\ r.nRef - 1 \in Int
  BY DEF ConnRecords
<1> QED
  BY <1>1 DEF ConnRecords

LEMMA DeleteStmtInv ==
    ASSUME Orderly, Inv, NEW c \in Conns, NEW k \in DOMAIN held[c], DeleteStmt(c, k)
    PROVE  Inv'
<1> DEFINE s == held[c][1]
<1>1. /\ k = 1 /\ held[c] \in Seq(Stmts) /\ held[c] # <<>> /\ s \in Stmts
      /\ held \in [Conns -> Seq(Stmts)]
  <2>1. k = 1 /\ held \in [Conns -> Seq(Stmts)]
    BY DEF DeleteStmt, Orderly, Inv, TypeOK
  <2> QED
    BY <2>1
<1>2. c \in open /\ conn[c].state = "live" /\ ~conn[c].isDying /\ conn[c] \in ConnRecords
  BY <1>1 DEF Inv, OpenInv, TypeOK, ConnRecords
<1>3. /\ conn[c].pStmt = s /\ stmt[s].pPrev = Nil
      /\ stmt[s].pNext = IF 1 < Len(held[c]) THEN held[c][2] ELSE Nil
      /\ stmt \in [Stmts -> [state : States, pConn : Conns \cup {Nil},
                            pNext : Pointers, pPrev : Pointers]]
  BY <1>1, <1>2 DEF Inv, ListIsHeld, HeldInv, TypeOK
<1> DEFINE rest == Tail(held[c])
<1>4. /\ rest \in Seq(Stmts) /\ Len(rest) = Len(held[c]) - 1
      /\ DOMAIN rest = 1..(Len(held[c]) - 1)
      /\ \A j \in 1..(Len(held[c]) - 1) : rest[j] = held[c][j + 1]
      /\ RemoveAt(held[c], 1) = rest
  BY <1>1, TailFacts, RemoveNewest
<1>5. held' = [held EXCEPT ![c] = rest]
  BY <1>1, <1>4 DEF DeleteStmt
<1>6. /\ stmt' = [x \in Stmts |->
                    [stmt[x] EXCEPT !.state = IF x = s THEN "freed" ELSE @,
                                    !.pPrev = IF x = stmt[s].pNext THEN stmt[s].pPrev ELSE @,
                                    !.pNext = IF x = stmt[s].pPrev THEN stmt[s].pNext ELSE @]]
      /\ conn' = [conn EXCEPT ![c] = ConnUnref([conn[c] EXCEPT !.pStmt = stmt[s].pNext])]
      /\ UNCHANGED <<context, open, fault>>
  BY <1>1, <1>2, <1>3 DEF DeleteStmt
<1> HIDE DEF s, rest
<1>7. ConnUnref([conn[c] EXCEPT !.pStmt = stmt[s].pNext])
         = [conn[c] EXCEPT !.pStmt = stmt[s].pNext, !.nRef = conn[c].nRef - 1]
  BY <1>2 DEF ConnUnref, ConnRecords
<1>8. [conn[c] EXCEPT !.pStmt = stmt[s].pNext, !.nRef = conn[c].nRef - 1] \in ConnRecords
  <2>1. s \in Stmts /\ stmt[s].pNext \in Pointers
    BY <1>1, <1>3 DEF s
  <2> QED
    BY <2>1, <1>2, Unlinked
<1>9. /\ conn' \in [Conns -> ConnRecords] /\ conn'[c].pStmt = stmt[s].pNext
      /\ \A d \in Conns : /\ d # c => conn'[d].pStmt = conn[d].pStmt
                          /\ conn'[d].state = conn[d].state
                          /\ conn'[d].isDying = conn[d].isDying
  BY <1>2, <1>6, <1>7, <1>8 DEF Inv, TypeOK, ConnRecords
<1>10. /\ stmt' \in [Stmts -> [state : States, pConn : Conns \cup {Nil},
                               pNext : Pointers, pPrev : Pointers]]
       /\ \A x \in Stmts \ {s} :
             /\ stmt'[x].state = stmt[x].state /\ stmt'[x].pConn = stmt[x].pConn
             /\ stmt'[x].pNext = stmt[x].pNext /\ stmt'[x].pPrev \in {stmt[x].pPrev, Nil}
  <2>1. s \in Stmts /\ stmt[s].pPrev = Nil
    BY <1>1, <1>3 DEF s
  <2>2. \A x \in Stmts : x # stmt[s].pPrev
    BY <2>1, NilAssumption
  <2>3. stmt' = [x \in Stmts |-> [stmt[x] EXCEPT
                   !.state = IF x = s THEN "freed" ELSE stmt[x].state,
                   !.pPrev = IF x = stmt[s].pNext THEN Nil ELSE stmt[x].pPrev,
                   !.pNext = stmt[x].pNext]]
    BY <2>1, <2>2, <1>6
  <2>4. ASSUME NEW x \in Stmts
        PROVE  /\ stmt'[x] \in [state : States, pConn : Conns \cup {Nil},
                                pNext : Pointers, pPrev : Pointers]
               /\ x # s => stmt'[x].state = stmt[x].state
               /\ stmt'[x].pConn = stmt[x].pConn
               /\ stmt'[x].pNext = stmt[x].pNext /\ stmt'[x].pPrev \in {stmt[x].pPrev, Nil}
    <3>1. stmt[x] \in [state : States, pConn : Conns \cup {Nil},
                       pNext : Pointers, pPrev : Pointers]
      BY <1>3
    <3> QED
      BY <2>3, <3>1 DEF States, Pointers
  <2>5. DOMAIN stmt' = Stmts /\ stmt' = [x \in Stmts |-> stmt'[x]]
    BY <2>3
  <2> QED
    BY <2>4, <2>5
<1>11. /\ held' \in [Conns -> Seq(Stmts)] /\ held'[c] = rest
       /\ \A d \in Conns \ {c} : held'[d] = held[d]
  BY <1>1, <1>4, <1>5
\* What is still held is not what was deleted.
<1>12. \A d \in Conns : \A j \in DOMAIN held'[d] : held'[d][j] \in Stmts \ {s}
  <2> SUFFICES ASSUME NEW d \in Conns, NEW j \in DOMAIN held'[d]
               PROVE  held'[d][j] \in Stmts \ {s}
    OBVIOUS
  <2>1. CASE d = c
    <3>1. held'[d][j] = held[c][j + 1] /\ j + 1 \in DOMAIN held[c] /\ 1 \in DOMAIN held[c] /\ j # 0
      BY <2>1, <1>1, <1>4, <1>11
    <3>2. j + 1 # 1
      BY <2>1, <1>4, <1>11
    <3>3. held[c][j + 1] # held[c][1]
      BY <3>1, <3>2 DEF Inv, HeldInv
    <3> QED
      BY <3>1, <3>3, <1>1 DEF s
  <2>2. CASE d # c
    <3>1. held'[d] = held[d] /\ held[d][j] \in Stmts
      BY <2>2, <1>1, <1>11
    <3>2. stmt[held[d][j]].pConn = d
      BY <3>1 DEF Inv, HeldInv
    <3>3. stmt[s].pConn = c
      BY <1>1 DEF s, Inv, HeldInv
    <3> QED
      BY <2>2, <3>1, <3>2, <3>3
  <2> QED
    BY <2>1, <2>2
<1>13. TypeOK' /\ NoFault'
  BY <1>6, <1>9, <1>10, <1>11 DEF Inv, TypeOK, NoFault, ConnRecords
<1>14. ListIsHeld'
  <2> SUFFICES ASSUME NEW d \in open
               PROVE  /\ conn'[d].pStmt = IF held'[d] = <<>> THEN Nil ELSE held'[d][1]
                      /\ \A j \in DOMAIN held'[d] :
                            stmt'[held'[d][j]].pNext =
                               IF j < Len(held'[d]) THEN held'[d][j + 1] ELSE Nil
    BY <1>6 DEF ListIsHeld
  <2>0. d \in Conns
    BY DEF Inv, TypeOK
  <2>1. CASE d # c
    <3>1. /\ conn'[d].pStmt = conn[d].pStmt /\ held'[d] = held[d]
          /\ conn[d].pStmt = IF held[d] = <<>> THEN Nil ELSE held[d][1]
      BY <2>0, <2>1, <1>9, <1>11 DEF Inv, ListIsHeld
    <3>2. ASSUME NEW j \in DOMAIN held[d]
          PROVE  stmt'[held[d][j]].pNext = IF j < Len(held[d]) THEN held[d][j + 1] ELSE Nil
      <4>1. held[d][j] \in Stmts \ {s}
        BY <2>0, <3>1, <1>12
      <4>2. stmt'[held[d][j]].pNext = stmt[held[d][j]].pNext
        BY <4>1, <1>10
      <4> QED
        BY <4>2 DEF Inv, ListIsHeld
    <3> QED
      BY <3>1, <3>2
  <2>2. CASE d = c
    <3>1. conn'[c].pStmt = IF rest = <<>> THEN Nil ELSE rest[1]
      BY <1>1, <1>3, <1>4, <1>9
    <3>2. ASSUME NEW j \in DOMAIN rest
          PROVE  stmt'[rest[j]].pNext = IF j < Len(rest) THEN rest[j + 1] ELSE Nil
      <4>1. j + 1 \in DOMAIN held[c] /\ rest[j] = held[c][j + 1]
        BY <1>1, <1>4
      <4>2. stmt[held[c][j + 1]].pNext =
               IF j + 1 < Len(held[c]) THEN held[c][(j + 1) + 1] ELSE Nil
        BY <2>2, <4>1 DEF Inv, ListIsHeld
      <4>3. j < Len(rest) => rest[j + 1] = held[c][(j + 1) + 1]
        BY <1>1, <1>4
      <4>4. stmt'[rest[j]].pNext = stmt[rest[j]].pNext
        BY <1>10, <1>11, <1>12
      <4> QED
        BY <1>1, <1>4, <4>1, <4>2, <4>3, <4>4
    <3> QED
      BY <2>2, <1>11, <3>1, <3>2
  <2> QED
    BY <2>1, <2>2
<1>15. HeldInv'
  <2> SUFFICES ASSUME NEW d \in Conns, NEW j \in DOMAIN held'[d]
               PROVE  /\ stmt'[held'[d][j]].state = "live"
                      /\ stmt'[held'[d][j]].pConn = d
                      /\ stmt'[held'[d][j]].pPrev = Nil
                      /\ \A i \in DOMAIN held'[d] : held'[d][i] = held'[d][j] => i = j
    BY DEF HeldInv
  <2>1. CASE d # c
    BY <2>1, <1>10, <1>11, <1>12 DEF Inv, HeldInv
  <2>2. CASE d = c
    <3>1. /\ held'[d][j] = held[c][j + 1] /\ j + 1 \in DOMAIN held[c]
          /\ j \in 1..(Len(held[c]) - 1)
      BY <2>2, <1>1, <1>4, <1>11
    <3>2. /\ stmt'[held'[d][j]].state = "live" /\ stmt'[held'[d][j]].pConn = d
          /\ stmt'[held'[d][j]].pPrev = Nil
      BY <2>2, <3>1, <1>10, <1>12 DEF Inv, HeldInv
    <3>3. ASSUME NEW i \in DOMAIN held'[d], held'[d][i] = held'[d][j]
          PROVE  i = j
      <4>1. /\ held'[d][i] = held[c][i + 1] /\ i + 1 \in DOMAIN held[c]
            /\ i \in 1..(Len(held[c]) - 1)
        BY <2>2, <1>1, <1>4, <1>11
      <4>2. held[c][i + 1] = held[c][j + 1]
        BY <3>1, <3>3, <4>1
      <4>3. i + 1 = j + 1
        BY <3>1, <4>1, <4>2 DEF Inv, HeldInv
      <4> QED
        BY <3>1, <4>1, <4>3
    <3> QED
      BY <3>2, <3>3
  <2> QED
    BY <2>1, <2>2
<1>16. OpenInv'
  BY <1>2, <1>6, <1>9, <1>11 DEF Inv, OpenInv, TypeOK
<1> QED
  BY <1>13, <1>14, <1>15, <1>16 DEF Inv

-----------------------------------------------------------------------------
LEMMA NextInv ==
    ASSUME Orderly, Inv, [Next]_vars
    PROVE  Inv'
<1>1. ASSUME NEW c \in Conns, OpenConn(c) \/ CloseConn(c)
      PROVE  Inv'
  BY <1>1, OpenConnInv, CloseConnInv
<1>2. ASSUME NEW c \in Conns, NEW s \in Stmts, NewStmt(c, s) \/ NewStmtFails(c, s)
      PROVE  Inv'
  BY <1>2, NewStmtInv, NewStmtFailsInv
<1>3. ASSUME NEW c \in Conns, NEW k \in DOMAIN held[c], DeleteStmt(c, k)
      PROVE  Inv'
  BY <1>3, DeleteStmtInv
<1>4. CASE DeleteContext
  BY <1>4, DeleteContextInv
<1>5. CASE UNCHANGED vars
  BY <1>5 DEF vars, Inv, TypeOK, NoFault, ListIsHeld, HeldInv, OpenInv
<1> QED
  BY <1>1, <1>2, <1>3, <1>4, <1>5 DEF Next

-----------------------------------------------------------------------------
(* Leaks.  nRef is counted down only, so that nothing that is closed waits.  *)

CountInv == context.nRef <= 0 /\ \A c \in Conns : conn[c].nRef <= 0

LeakInv == CountInv /\ NothingLeaks

IsHeld(s) == \E c \in Conns : \E k \in DOMAIN held[c] : held[c][k] = s
LiveAreHeld == \A s \in Stmts : stmt[s].state = "live" => IsHeld(s)
ClosedAreFreed ==
    /\ \A c \in Conns \ open : conn[c].state \in {"unused", "freed"}
    /\ context.isDying /\ open = {} => context.state = "freed"

LEMMA LeakParts ==
    /\ NothingLeaks <=> LiveAreHeld /\ ClosedAreFreed
    /\ NothingLeaks' <=> LiveAreHeld' /\ ClosedAreFreed'
BY DEF NothingLeaks, LiveAreHeld, IsHeld, ClosedAreFreed

LEMMA InitLeak == Init => LeakInv
BY DEF Init, LeakInv, CountInv, NothingLeaks

LEMMA OpenCloseLeak ==
    ASSUME Orderly, Inv, Inv', LeakInv, NEW c \in Conns,
           OpenConn(c) \/ CloseConn(c) \/ DeleteContext
    PROVE  LeakInv'
<1>1. LiveAreHeld'
  BY LeakParts DEF LeakInv, LiveAreHeld, IsHeld, OpenConn, CloseConn, DeleteContext
<1>2. CASE OpenConn(c)
  <2>1. CountInv'
    BY <1>2 DEF LeakInv, CountInv, OpenConn, Inv, TypeOK
  <2>2. ClosedAreFreed'
    BY <1>2, LeakParts DEF LeakInv, ClosedAreFreed, OpenConn, Inv, TypeOK
  <2> QED BY <1>1, <2>1, <2>2, LeakParts DEF LeakInv
<1>3. CASE CloseConn(c)
  <2>1. /\ context.state = "live" /\ ~context.isDying /\ conn[c].nRef <= 0
        /\ context.nRef \in Int /\ context.nRef <= 0
        /\ conn[c].nRef \in Int /\ conn \in [Conns -> ConnRecords]
    BY <1>3 DEF CloseConn, LeakInv, CountInv, Inv, OpenInv, TypeOK, ConnRecords
  <2>0. ~(conn[c].nRef > 0) /\ context.state # "freed"
    BY <2>1
  <2>2. /\ conn' = [conn EXCEPT ![c].isDying = TRUE, ![c].state = "freed"]
        /\ context' = ContextUnref(context) /\ open' = open \ {c}
    BY <1>3, <2>0, Zenon DEF CloseConn
  <2>3. /\ conn'[c].state = "freed" /\ conn'[c].nRef = conn[c].nRef
        /\ \A d \in Conns \ {c} : conn'[d] = conn[d]
    BY <2>1, <2>2 DEF ConnRecords
  <2>4. context'.nRef = context.nRef - 1 /\ ~context'.isDying
    BY <2>1, <2>2 DEF ContextUnref, Inv, TypeOK
  <2>5. CountInv'
    BY <2>1, <2>3, <2>4 DEF LeakInv, CountInv
  <2>6. ClosedAreFreed'
    BY <2>2, <2>3, <2>4, LeakParts DEF LeakInv, ClosedAreFreed
  <2> QED BY <1>1, <2>5, <2>6, LeakParts DEF LeakInv
<1>4. CASE DeleteContext
  <2>1. /\ context'.state = "freed" /\ context'.nRef = context.nRef /\ conn' = conn /\ open' = open
    BY <1>4 DEF DeleteContext, LeakInv, CountInv, Inv, TypeOK
  <2> QED BY <1>1, <2>1, LeakParts DEF LeakInv, CountInv, ClosedAreFreed
<1> QED BY <1>2, <1>3, <1>4

LEMMA NewStmtLeak ==
    ASSUME Inv, LeakInv, NEW c \in Conns, NEW s \in Stmts, NewStmt(c, s)
    PROVE  LeakInv'
<1>1. /\ held[c] \in Seq(Stmts) /\ held'[c] = <<s>> \o held[c]
      /\ \A d \in Conns \ {c} : held'[d] = held[d]
  BY DEF NewStmt, Inv, TypeOK
<1>2. /\ \A x \in Stmts \ {s} : stmt'[x] = stmt[x]
      /\ \A d \in Conns : /\ conn'[d].state = conn[d].state /\ conn'[d].nRef = conn[d].nRef
      /\ UNCHANGED <<context, open>>
  BY DEF NewStmt, Inv, TypeOK
<1>3. IsHeld(s)'
  BY <1>1, PushFacts DEF IsHeld
<1>4. ASSUME NEW x \in Stmts, IsHeld(x) PROVE IsHeld(x)'
  <2>1. PICK d \in Conns : \E k \in DOMAIN held[d] : held[d][k] = x
    BY <1>4 DEF IsHeld
  <2>2. PICK k \in DOMAIN held[d] : held[d][k] = x
    BY <2>1
  <2>3. CASE d # c
    BY <1>1, <2>2, <2>3 DEF IsHeld
  <2>4. CASE d = c
    <3>1. k \in 1..Len(held[c])
      BY <1>1, <2>2, <2>4
    <3>2. k + 1 \in DOMAIN held'[c] /\ held'[c][k + 1] = x
      BY <1>1, <2>2, <2>4, <3>1, PushFacts
    <3> QED BY <3>2 DEF IsHeld
  <2> QED BY <2>3, <2>4
<1>5. LiveAreHeld'
  BY <1>2, <1>3, <1>4, LeakParts DEF LeakInv, LiveAreHeld
<1>6. CountInv' /\ ClosedAreFreed'
  BY <1>2, LeakParts DEF LeakInv, CountInv, ClosedAreFreed
<1> QED BY <1>5, <1>6, LeakParts DEF LeakInv

\* What xjd1Unref leaves of a connection that is not dying.
LEMMA Unreferenced ==
    ASSUME NEW r \in ConnRecords, ~r.isDying, r.nRef <= 0
    PROVE  /\ ConnUnref(r).state = r.state
           /\ ConnUnref(r).nRef \in Int /\ ConnUnref(r).nRef <= 0
BY DEF ConnUnref, ConnRecords

LEMMA NewStmtFailsLeak ==
    ASSUME Inv, LeakInv, NEW c \in Conns, NEW s \in Stmts, NewStmtFails(c, s)
    PROVE  LeakInv'
<1>1. conn[c] \in ConnRecords /\ ~conn[c].isDying /\ conn[c].nRef <= 0 /\ conn \in [Conns -> ConnRecords]
  BY DEF NewStmtFails, Inv, OpenInv, TypeOK, ConnRecords, LeakInv, CountInv
<1>2. /\ conn' = [conn EXCEPT ![c] = ConnUnref(conn[c])]
      /\ UNCHANGED <<context, held, open>>
  BY DEF NewStmtFails
<1>3. \A d \in Conns : conn'[d].state = conn[d].state /\ conn'[d].nRef <= 0
  BY <1>1, <1>2, Unreferenced DEF LeakInv, CountInv
<1>4. stmt'[s].state = "freed" /\ \A x \in Stmts \ {s} : stmt'[x].state = stmt[x].state
  BY DEF NewStmtFails, Inv, TypeOK
<1>5. LiveAreHeld'
  BY <1>2, <1>4, LeakParts DEF LeakInv, LiveAreHeld, IsHeld
<1>6. CountInv' /\ ClosedAreFreed'
  BY <1>2, <1>3, LeakParts DEF LeakInv, CountInv, ClosedAreFreed
<1> QED BY <1>5, <1>6, LeakParts DEF LeakInv

LEMMA DeleteStmtLeak ==
    ASSUME Orderly, Inv, LeakInv, NEW c \in Conns, NEW k \in DOMAIN held[c], DeleteStmt(c, k)
    PROVE  LeakInv'
<1> DEFINE s == held[c][1]
<1>1. /\ k = 1 /\ held \in [Conns -> Seq(Stmts)] /\ held[c] \in Seq(Stmts) /\ held[c] # <<>>
      /\ s \in Stmts
  <2>1. k = 1 /\ held \in [Conns -> Seq(Stmts)]
    BY DEF DeleteStmt, Orderly, Inv, TypeOK
  <2> QED BY <2>1
<1>2. /\ c \in open /\ conn[c].state = "live" /\ ~conn[c].isDying
      /\ conn \in [Conns -> ConnRecords] /\ conn[c].nRef <= 0
  BY <1>1 DEF Inv, OpenInv, TypeOK, ConnRecords, LeakInv, CountInv
<1>3. conn[c].pStmt = s /\ stmt[s].pPrev = Nil /\ stmt[s].pNext \in Pointers
  BY <1>1, <1>2 DEF Inv, ListIsHeld, HeldInv, TypeOK
<1>4. /\ held' = [held EXCEPT ![c] = Tail(held[c])]
      /\ conn' = [conn EXCEPT ![c] = ConnUnref([conn[c] EXCEPT !.pStmt = stmt[s].pNext])]
      /\ UNCHANGED <<context, open>>
  BY <1>1, <1>2, <1>3, RemoveNewest DEF DeleteStmt
<1>5. \A x \in Stmts : stmt'[x].state = IF x = s THEN "freed" ELSE stmt[x].state
  <2>1. stmt' = [x \in Stmts |->
                    [stmt[x] EXCEPT !.state = IF x = s THEN "freed" ELSE @,
                                    !.pPrev = IF x = stmt[s].pNext THEN stmt[s].pPrev ELSE @,
                                    !.pNext = IF x = stmt[s].pPrev THEN stmt[s].pNext ELSE @]]
    BY <1>1, <1>2, <1>3 DEF DeleteStmt
  <2>2. \A x \in Stmts : stmt[x] \in [state : States, pConn : Conns \cup {Nil},
                                      pNext : Pointers, pPrev : Pointers]
    BY DEF Inv, TypeOK
  <2> HIDE DEF s
  <2> QED BY <2>1, <2>2
<1> HIDE DEF s
<1>6. \A d \in Conns : conn'[d].state = conn[d].state /\ conn'[d].nRef <= 0
  <2>1. /\ [conn[c] EXCEPT !.pStmt = stmt[s].pNext] \in ConnRecords
        /\ [conn[c] EXCEPT !.pStmt = stmt[s].pNext].state = conn[c].state
        /\ [conn[c] EXCEPT !.pStmt = stmt[s].pNext].nRef = conn[c].nRef
        /\ ~[conn[c] EXCEPT !.pStmt = stmt[s].pNext].isDying
    BY <1>2, <1>3 DEF ConnRecords
  <2> QED BY <1>2, <1>4, <2>1, Unreferenced DEF LeakInv, CountInv
<1>7. ASSUME NEW x \in Stmts \ {s}, IsHeld(x) PROVE IsHeld(x)'
  <2>1. PICK d \in Conns : \E j \in DOMAIN held[d] : held[d][j] = x
    BY <1>7 DEF IsHeld
  <2>2. PICK j \in DOMAIN held[d] : held[d][j] = x
    BY <2>1
  <2>3. CASE d # c
    BY <1>1, <1>4, <2>2, <2>3 DEF IsHeld
  <2>4. CASE d = c
    <3>1. j \in 1..Len(held[c]) /\ j # 1
      BY <1>1, <2>2, <2>4 DEF s
    <3>2. held'[c] = Tail(held[c])
      BY <1>1, <1>4
    <3>3. j - 1 \in DOMAIN held'[c] /\ held'[c][j - 1] = x
      BY <1>1, <2>2, <2>4, <3>1, <3>2, TailFacts
    <3> QED BY <3>3 DEF IsHeld
  <2> QED BY <2>3, <2>4
<1>8. LiveAreHeld'
  BY <1>5, <1>7, LeakParts DEF LeakInv, LiveAreHeld
<1>9. CountInv' /\ ClosedAreFreed'
  BY <1>4, <1>6, LeakParts DEF LeakInv, CountInv, ClosedAreFreed
<1> QED BY <1>8, <1>9, LeakParts DEF LeakInv

LEMMA NextLeak ==
    ASSUME Orderly, Inv, Inv', LeakInv, [Next]_vars
    PROVE  LeakInv'
<1>1. CASE UNCHANGED vars
  BY <1>1 DEF vars, LeakInv, CountInv, NothingLeaks
<1>2. CASE DeleteContext /\ Conns = {}
  BY <1>2 DEF DeleteContext, LeakInv, CountInv, NothingLeaks, Inv, TypeOK
<1> QED
  BY <1>1, <1>2, OpenCloseLeak, NewStmtLeak, NewStmtFailsLeak, DeleteStmtLeak DEF Next

-----------------------------------------------------------------------------
\* The inductive invariant of the handles of an orderly client.
THEOREM InvHolds == Orderly => (Spec => []Inv)
<1> SUFFICES ASSUME Orderly PROVE Spec => []Inv
  OBVIOUS
<1>1. Init => Inv
  BY InitInv
<1>2. Inv /\ [Next]_vars => Inv'
  BY NextInv
<1> QED
  BY <1>1, <1>2, PTL DEF Spec

\* For an orderly client no function uses freed memory and the assertion of
\* xjd1_stmt_delete holds, whatever the number of connections and statements.
THEOREM OrderlyNeverFaults == Orderly => (Spec => []NoFault)
<1>1. Inv => NoFault
  BY DEF Inv
<1> QED
  BY <1>1, InvHolds, PTL

\* For an orderly client the list of a connection is the statements it holds.
THEOREM OrderlyList == Orderly => (Spec => []ListIsHeld)
<1>1. Inv => ListIsHeld
  BY DEF Inv
<1> QED
  BY <1>1, InvHolds, PTL

\* An orderly client leaks nothing: what it deletes and closes is freed at once,
\* whatever it does in between and whichever statements fail to parse.
THEOREM OrderlyLeaksNothing == Orderly => (Spec => []NothingLeaks)
<1> SUFFICES ASSUME Orderly PROVE Spec => []NothingLeaks
  OBVIOUS
<1>1. Init => LeakInv
  BY InitLeak
<1>2. Inv /\ Inv' /\ LeakInv /\ [Next]_vars => LeakInv'
  BY NextLeak
<1>3. LeakInv => NothingLeaks
  BY DEF LeakInv
<1>4. Spec => []Inv
  BY InvHolds
<1> QED
  BY <1>1, <1>2, <1>3, <1>4, PTL DEF Spec
=============================================================================
