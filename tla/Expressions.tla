----------------------------- MODULE Expressions -----------------------------
(***************************************************************************)
(* The nodes that JSON values are made of in memory, and how expressions   *)
(* are evaluated on them (src/src/json.c, expr.c and func.c).              *)
(*                                                                         *)
(* A node has a count of references and is known by its number; numbers    *)
(* are not used again, so a pointer to a node that was freed is seen.      *)
(* Memory does not run out here.  `lost' counts the references to a node   *)
(* that the code forgets: nobody gives them back.                          *)
(*                                                                         *)
(* A number is an integer of -MaxNumber..MaxNumber; the inputs are such    *)
(* that every result is one too, or no number (NaN).  Subqueries in        *)
(* expressions are left out.                                               *)
(***************************************************************************)
EXTENDS JsonText, Bitwise

CONSTANT MaxNumber     \* the largest number

-----------------------------------------------------------------------------
(* Memory.  An operator that stands for a function of the code takes the   *)
(* memory and returns it with the node the function returns as `res'.      *)

PoolRefs == 10000      \* the count a node of the parser's pool starts with

\* `kids' are the members of a container, with the keys of a struct; 0 is a
\* null pointer.  `pool' says that the node lives in a pool, and `chars' that
\* its string does.
Node(type, is, kids) ==
    [type |-> type, is |-> is, kids |-> kids, nRef |-> 1, lost |-> 0,
     pool |-> FALSE, chars |-> FALSE]
Kid(key, n) == [key |-> key, node |-> n]

Returning(m, n) == [m EXCEPT !.res = n]
Faulty(m) == [m EXCEPT !.fault = TRUE, !.res = 0]

\* A node is allocated and filled in.  (xjd1JsonNew zeroes it: false.)
Make(m, type, is, kids) ==
    [m EXCEPT !.nodes = Append(@, Node(type, is, kids)), !.res = Len(m.nodes) + 1]
New(m) == Make(m, "atom", <<"false">>, <<>>)

Ref(m, n) == IF n = 0 THEN Returning(m, 0)
             ELSE Returning([m EXCEPT !.nodes[n].nRef = @ + 1], n)

\* xjd1JsonToNull and xjd1JsonFree.
RECURSIVE ToNull(_, _), Free(_, _)
ToNull(m, n) ==
    LET freed == FoldLeft(LAMBDA acc, k : Free(acc, k.node), m, m.nodes[n].kids)
    IN  [freed EXCEPT !.nodes[n].type = "null", !.nodes[n].is = <<>>, !.nodes[n].kids = <<>>,
                      !.fault = @ \/ (m.nodes[n].type = "string" /\ m.nodes[n].chars)]

Free(m, n) ==
    LET less == [m EXCEPT !.nodes[n].nRef = @ - 1]
        gone == ToNull(less, n)
    IN  IF n = 0 THEN m
        ELSE IF m.nodes[n].type = "freed" THEN Faulty(m)
        ELSE IF less.nodes[n].nRef > 0 THEN less
        ELSE [gone EXCEPT !.nodes[n].type = "freed", !.fault = @ \/ m.nodes[n].pool]

\* The value a node stands for.
RECURSIVE ValueIn(_, _)
ValueIn(ns, n) ==
    IF n = 0 THEN NoValue
    ELSE [type |-> ns[n].type, is |-> ns[n].is,
          elems |-> [i \in DOMAIN ns[n].kids |->
                        Entry(ns[n].kids[i].key, ValueIn(ns, ns[n].kids[i].node))]]

\* New nodes for a value, as parseJson and xjd1JsonDeepCopy make them.
RECURSIVE Build(_, _)
Build(m, v) ==
    LET Next_(acc, e) == LET b == Build(acc.m, e.val)
                         IN  [m |-> b, kids |-> Append(acc.kids, Kid(e.key, b.res))]
        all == FoldLeft(Next_, [m |-> m, kids |-> <<>>], v.elems)
    IN  IF v = NoValue THEN Returning(m, 0) ELSE Make(all.m, v.type, v.is, all.kids)

DeepCopy(m, n) == Build(m, ValueIn(m.nodes, n))

\* A reference that is forgotten.
Lose(m, n) == [m EXCEPT !.nodes[n].lost = @ + 1]

\* Mutant of Edit: a node is its owner's to change whoever else refers to it.
EditShared(m, n) == Returning(m, n)

\* xjd1JsonEdit: the node itself if nobody else refers to it, else a copy, and
\* the reference that the caller gave for it is forgotten.
Edit(m, n) ==
    IF n = 0 \/ m.nodes[n].nRef = 1 THEN Returning(m, n)
    ELSE Lose(DeepCopy(m, n), n)

-----------------------------------------------------------------------------
(* Conversions and operators, on values.                                   *)

NaN == MaxNumber + 1      \* not a number, which reads as none
Number(x) == Atom(IF x = NaN THEN "nan" ELSE ToString(x))
Bool(b) == Atom(IF b THEN "true" ELSE "false")

\* The number a symbol is read as, or NaN.
ValueOf == [symbol \in Numbers |-> CHOOSE x \in -MaxNumber..MaxNumber : ToString(x) = symbol]
NumberOf(symbol) == IF symbol \in Numbers THEN ValueOf[symbol] ELSE NaN

\* xjd1JsonToReal.  A string is a number if all of it is, and the one without
\* characters is 0 (a number has one symbol here).
Real(v) ==
    CASE v.type = "atom" -> IF v.is[1] = "true" THEN 1 ELSE IF v.is[1] = "false" THEN 0 ELSE NumberOf(v.is[1])
      [] v.type = "string" /\ Len(v.is) <= 1 -> IF v.is = <<>> THEN 0 ELSE NumberOf(v.is[1])
      [] OTHER -> NaN

\* xjd1JsonToString.
Text(v) == IF v.type = "string" THEN v.is ELSE Render(v)

IsStr(v) == v.type \in {"string", "array", "struct"}

IsTrue(v) ==
    \/ v.type \in {"array", "struct"}
    \/ v.type = "string" /\ v.is # <<>>
    \/ v.type = "atom" /\ v.is[1] # "false" /\ (v.is[1] = "true" \/ Real(v) # 0)

Comparison == {"==", "!=", "<", "<=", ">", ">="}
Compares(op, v, w) ==
    LET c == Compare(v, w)
    IN  CASE op = "==" -> c = 0
          [] op = "!=" -> c # 0
          [] op = "<" -> c < 0
          [] op = "<=" -> c <= 0
          [] op = ">" -> c > 0
          [] op = ">=" -> c >= 0

\* Division by zero leaves the zero the result was made with.
Arithmetic == {"+", "-", "*", "/"}
Calculates(op, x, y) ==
    CASE op = "/" /\ y = 0 -> 0
      [] NaN \in {x, y} /\ ~(op = "/" /\ y = 0) -> NaN
      [] NaN \notin {x, y} /\ op = "+" -> x + y
      [] NaN \notin {x, y} /\ op = "-" -> x - y
      [] NaN \notin {x, y} /\ op = "*" -> x * y
      [] NaN \notin {x, y} /\ op = "/" /\ y # 0 -> x \div y

\* The operators on integers of 32 bits, for operands that C defines them on.
Integral == {"%", "&", "|", "<<", ">>"}
CalculatesInt(op, x, y) ==
    CASE op = "%" -> x % y
      [] op = "&" -> x & y
      [] op = "|" -> x | y
      [] op = "<<" -> IF y >= 32 THEN 0 ELSE x * 2^y
      [] op = ">>" -> IF y >= 32 THEN 0 ELSE x \div 2^y

\* inOperator: is v the key of an entry of w?  The string without characters
\* is read as index 0.
IsIn(v, w) ==
    LET index == IF v.is = <<>> THEN 0 ELSE IF Len(v.is) = 1 THEN NumberOf(v.is[1]) ELSE NaN
    IN  /\ v.type = "string" \/ TypeOf(v) = "real"
        /\ IF w.type = "array" THEN index \in 0..(Len(w.elems) - 1)
           ELSE w.type = "struct" /\ Index(w, v.is) # 0

\* withinOperator: is v the value of an entry of w?
IsWithin(v, w) == IsContainer(w) /\ \E i \in DOMAIN w.elems : Compare(v, w.elems[i].val) = 0

\* An operator on two values.
Binary(op, v, w) ==
    CASE op \in Comparison -> Bool(Compares(op, v, w))
      [] op = "+" /\ (IsStr(v) \/ IsStr(w)) -> String(Text(v) \o Text(w))
      [] op \in Arithmetic /\ ~(op = "+" /\ (IsStr(v) \/ IsStr(w))) ->
            Number(Calculates(op, Real(v), Real(w)))
      [] op \in Integral -> Number(CalculatesInt(op, Real(v), Real(w)))
      [] op = "IN" -> Bool(IsIn(v, w))
      [] op = "WITHIN" -> Bool(IsWithin(v, w))
Binaries == Comparison \cup Arithmetic \cup Integral \cup {"IN", "WITHIN"}

\* An operator on one value; length is of the text of its argument.
Unary(op, v) ==
    CASE op = "!" -> Bool(~IsTrue(v))
      [] op = "neg" -> Number(IF Real(v) = NaN THEN NaN ELSE -Real(v))
      [] op = "~" -> Number(-Real(v) - 1)
      [] op = "length" -> Number(Len(Text(v)))
Unaries == {"!", "neg", "~", "length"}

\* The character of a string at an index.
CharAt(v, x) == String(<<v.is[x + 1]>>)

-----------------------------------------------------------------------------
(* xjd1ExprEval.  An expression has an operator op and arguments args, each *)
(* with a key (of a member of a structure) and an expression; a literal has *)
(* the number of its node as lit, and a path the keys into the document of  *)
(* the row as path.                                                         *)

KidAt(m, n, key) == SelectInSeq(m.nodes[n].kids, LAMBDA k : k.key = key)

\* getProperty: a reference to the property, or a new null.
GetProperty(m, n, key) ==
    IF m.nodes[n].type = "struct" /\ KidAt(m, n, key) # 0
       /\ m.nodes[n].kids[KidAt(m, n, key)].node # 0
    THEN Ref(m, m.nodes[n].kids[KidAt(m, n, key)].node)
    ELSE Make(m, "null", <<>>, <<>>)

\* x[y]: a property, an element, a character, or else a new null.
GetIndexed(m, x, y) ==
    LET base == m.nodes[x]
        index == Real(ValueIn(m.nodes, y))
    IN  CASE base.type = "struct" -> GetProperty(m, x, Text(ValueIn(m.nodes, y)))
          [] base.type = "array" /\ index \in 0..(Len(base.kids) - 1) -> Ref(m, base.kids[index + 1].node)
          [] base.type = "string" /\ index \in 0..(Len(base.is) - 1) ->
                Build(m, CharAt(ValueIn(m.nodes, x), index))
          [] OTHER -> Make(m, "null", <<>>, <<>>)

\* What becomes of an operand: the operators on integers do not free theirs.
Drop(m, op, n) == IF op \in Integral \cup {"~"} THEN Lose(m, n) ELSE Free(m, n)

\* Whatever xjd1ExprEval returns is a reference of the caller's.
RECURSIVE Eval(_, _, _)
Eval(m, e, doc) ==
    LET Property(acc, key) == LET got == GetProperty(acc, acc.res, key)
                              IN  Returning(Free(got, acc.res), got.res)
        Member(acc, a) == LET v == Eval(acc.m, a.expr, doc)
                          IN  [m |-> v, kids |-> Append(acc.kids, Kid(a.key, v.res))]
        all == FoldLeft(Member, [m |-> m, kids |-> <<>>], e.args)
        Operand(i) == all.kids[i].node
        Value(i) == ValueIn(all.m.nodes, Operand(i))
        first == Eval(m, e.args[1].expr, doc)
        isTrue == IsTrue(ValueIn(first.nodes, first.res))
        got == GetIndexed(all.m, Operand(1), Operand(2))
        unused == New(first)      \* the node that ?: allocates and forgets
    IN  CASE e.op = "literal" -> Ref(m, e.lit)
          [] e.op = "path" -> FoldLeft(Property, Ref(m, doc), e.path)
          [] e.op \in {"struct", "array"} -> Make(all.m, e.op, <<>>, all.kids)
          [] e.op = "[]" -> Returning(Free(Free(got, Operand(1)), Operand(2)), got.res)
          [] e.op \in {"AND", "OR"} -> IF isTrue = (e.op = "OR") THEN first
                                       ELSE Eval(Free(first, first.res), e.args[2].expr, doc)
          [] e.op = "?:" -> Eval(Lose(Free(unused, first.res), unused.res),
                                 e.args[IF isTrue THEN 2 ELSE 3].expr, doc)
          [] e.op \in Unaries -> Build(Drop(all.m, e.op, Operand(1)), Unary(e.op, Value(1)))
          [] e.op \in Binaries -> Build(Drop(Drop(all.m, e.op, Operand(1)), e.op, Operand(2)),
                                        Binary(e.op, Value(1), Value(2)))

-----------------------------------------------------------------------------
\* What an expression means, on values: lits are those of the literals.
RECURSIVE Meaning(_, _, _)
Meaning(e, doc, lits) ==
    LET OrNull(v) == IF v = NoValue THEN Null ELSE v
        Property(v, key) == OrNull(Field(v, key))
        Arg(i) == Meaning(e.args[i].expr, doc, lits)
        args == [i \in DOMAIN e.args |-> Entry(e.args[i].key, Arg(i))]
        index == Real(Arg(2))
        Indexed(v) == CASE v.type = "struct" -> Property(v, Text(Arg(2)))
                        [] v.type = "array" /\ index \in 0..(Len(v.elems) - 1) -> v.elems[index + 1].val
                        [] v.type = "string" /\ index \in 0..(Len(v.is) - 1) -> CharAt(v, index)
                        [] OTHER -> Null
    IN  CASE e.op = "literal" -> lits[e.lit]
          [] e.op = "path" -> FoldLeft(Property, doc, e.path)
          [] e.op \in {"struct", "array"} -> [type |-> e.op, is |-> <<>>, elems |-> args]
          [] e.op = "[]" -> Indexed(Arg(1))
          [] e.op = "AND" -> IF IsTrue(Arg(1)) THEN Arg(2) ELSE Arg(1)
          [] e.op = "OR" -> IF IsTrue(Arg(1)) THEN Arg(1) ELSE Arg(2)
          [] e.op = "?:" -> IF IsTrue(Arg(1)) THEN Arg(2) ELSE Arg(3)
          [] e.op \in Unaries -> Unary(e.op, Arg(1))
          [] e.op \in Binaries -> Binary(e.op, Arg(1), Arg(2))
=============================================================================
