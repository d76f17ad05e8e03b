-------------------------------- MODULE MCJson --------------------------------
(***************************************************************************)
(* Instances of JsonNodes for TLC.  The rows hold what an assignment can   *)
(* meet at a place: nothing, an atom, a string, a structure or an array.   *)
(***************************************************************************)
EXTENDS JsonNodes

One == Atom("1")
Two == Atom("2")
a == <<"a">>
b == <<"b">>

\* Expressions and L-values.
Expr(op) == [op |-> op, lit |-> 0, path |-> <<>>, args |-> <<>>]
Literal(i) == [Expr("literal") EXCEPT !.lit = i]
Path(path) == [Expr("path") EXCEPT !.path = path]
Arg(key, e) == [key |-> key, expr |-> e]
StructOf(args) == [Expr("struct") EXCEPT !.args = args]
Op(op, es) == [Expr(op) EXCEPT !.args = [i \in DOMAIN es |-> Arg("", es[i])]]
ArrayOf(es) == [Expr("array") EXCEPT !.args = [i \in DOMAIN es |-> Arg(ToString(i - 1), es[i])]]

Dot(key) == [index |-> FALSE, key |-> key, number |-> -1]
Index_(n) == [index |-> TRUE, key |-> <<ToString(n)>>, number |-> n]
NoIndex == [index |-> TRUE, key |-> a, number |-> -1]

Lits == <<Two, String(<<"n">>)>>
Exprs == { Literal(2), Path(<<>>), Path(<<a, b>>),
           StructOf(<<Arg(b, Path(<<a>>)), Arg(a, Literal(2))>>),
           ArrayOf(<<Path(<<a>>), Literal(1), ArrayOf(<<>>)>>) }

\* Operands of every type, some of them parts of the row or of the statement.
OpLits == <<Two, String(<<"b">>), Atom("0"), String(<<>>), Null, String(<<"2", "n">>), Atom("true")>>
Operands == { Literal(i) : i \in DOMAIN OpLits }
              \cup { Path(<<a>>), Path(<<b>>), Path(<<a, b>>), ArrayOf(<<Path(<<b>>), Literal(1)>>) }
Naturals_ == { Literal(1), Literal(3), Path(<<a, b>>) }
Operations ==
    { Op(op, <<e, f>>) : op \in Arithmetic \cup Comparison \cup {"[]", "AND", "OR", "IN", "WITHIN"},
                         e \in Operands, f \in Operands }
    \cup { Op(op, <<e, f>>) : op \in Integral \ {"%"}, e \in Naturals_, f \in Naturals_ }
    \cup { Op(op, <<e>>) : op \in {"!", "neg", "length"}, e \in Operands }
    \cup { Op("%", <<Path(<<a, b>>), Literal(1)>>), Op("~", <<Path(<<a, b>>)>>), Op("~", <<Literal(1)>>),
           Op("<<", <<Literal(1), Literal(1)>>) }
    \cup { Op("?:", <<e, Path(<<a>>), f>>) : e \in Operands, f \in {Literal(2), Path(<<>>)} }
    \cup { Op("AND", <<Op("?:", <<Path(<<a>>), Path(<<a>>), Path(<<b>>)>>),
                       Op("OR", <<Op("&", <<Path(<<a, b>>), Literal(1)>>), Path(<<b>>)>>)>>) }
LValues == { <<>>, <<Dot(a)>>, <<Dot(a), Dot(b)>>, <<Dot(b), Dot(a)>>,
             <<Dot(a), Index_(0)>>, <<Dot(a), Index_(2)>>, <<Dot(a), NoIndex>>,
             <<Dot(a), Index_(1), Dot(b)>> }

Rows == << Struct(<<Entry(a, Struct(<<Entry(b, One), Entry(a, Array(<<One>>))>>))>>),
           Struct(<<Entry(b, Two), Entry(a, Array(<<String(<<"n">>), Struct(<<Entry(b, One)>>)>>))>>),
           Struct(<<Entry(b, String(<<"\"">>))>>),
           Struct(<<Entry(a, Two)>>),
           One >>

Case(stmt, rows) ==
    [stmt |-> stmt, rows |-> rows, lits |-> Lits, changes |-> <<>>,
     key |-> a, as |-> b, func |-> "", expr |-> Path(<<a>>), ends |-> <<>>]

\* A later assignment may not write into what an earlier one made of parts of
\* the document or of literals: those parts are shared, and it would change
\* them at their owners too.
WritesOnlyItsOwn(changes) ==
    \A i, j \in DOMAIN changes :
        i < j /\ changes[i].expr.op \in {"struct", "array"} =>
            ~IsStrictPrefix([k \in DOMAIN changes[i].lvalue |-> changes[i].lvalue[k].key],
                            [k \in DOMAIN changes[j].lvalue |-> changes[j].lvalue[k].key])

Changes == [lvalue : LValues, expr : Exprs]
Updates(rows, css) == { [Case("UPDATE", rows) EXCEPT !.changes = cs] : cs \in css }
Pairs == { cs \in { <<c, d>> : c \in Changes, d \in Changes } : WritesOnlyItsOwn(cs) }

-----------------------------------------------------------------------------
(* The values that are rendered, read and compared.                        *)

MCNumbers == { ToString(x) : x \in -MaxNumber..MaxNumber }
MCCollating == <<"NL", "\"">> \o [i \in 1..(2 * MaxNumber + 1) |-> ToString(i - MaxNumber - 1)]
                 \o <<",", ":", "[", "\\", "]", "a", "b", "false", "n", "null", "true", "u", "{", "}">>

Strings == { <<>>, <<"a">>, <<"\"">>, <<"\\">>, <<"\\", "n">>, <<"\\", "u", "a", "a", "a">>, <<"NL", "1">> }
Simple == { Atom("1"), Atom("2"), Atom("true"), Atom("false"), Null } \cup { String(z) : z \in Strings }
Flat == { Array(<<>>) } \cup { Array(<<v>>) : v \in Simple } \cup { Struct(<<Entry(k, v)>>) : k \in {a, <<"\"">>}, v \in Simple }
Texts == Simple \cup Flat
           \cup { Array(<<v, w>>) : v \in {One, String(<<"\\">>)}, w \in Flat }
           \cup { Struct(<<Entry(a, v), Entry(b, w)>>) : v \in {Two, Array(<<One>>)}, w \in Flat }

\* Values that differ in one place only: the type, the length, a key, an element.
Close == << Two, One, Atom("true"), Null, Atom("false"), String(b), String(<<"a", "b">>), String(a),
            String(<<>>), Array(<<One, Two>>), Array(<<Two>>), Array(<<>>), Array(<<One>>),
            Array(<<String(a)>>), Struct(<<Entry(a, Two)>>), Struct(<<Entry(b, One)>>),
            Struct(<<Entry(a, One), Entry(b, Null)>>), Struct(<<Entry(a, One)>>),
            Struct(<<Entry(<<"a", "b">>, One)>>), Struct(<<Entry(a, Array(<<One>>))>>) >>

Aggregate(rows, f, e) ==
    [Case("AGGREGATE", rows) EXCEPT !.func = f, !.expr = e, !.ends = <<Len(rows)>>]
Functions_ == {"min", "max", "array", "sum"}
InGroups(rows, ends, f, e) == [Aggregate(rows, f, e) EXCEPT !.ends = ends]

\* The row of the operators: a structure with a number, and a string.
OpRow == Struct(<<Entry(a, Struct(<<Entry(b, One), Entry(a, Null)>>)), Entry(b, String(b))>>)
Operates(rows, e) == [Aggregate(rows, "array", e) EXCEPT !.lits = OpLits]

MCCases ==
    UNION { Updates(<<Rows[i], Rows[(i % 5) + 1]>>, { <<c>> : c \in Changes }) : i \in 1..5 }
    \cup Updates(<<Rows[2], Rows[1]>>, Pairs)
    \cup { [Case("EACH", SubSeq(Rows, i, 5)) EXCEPT !.as = as] : i \in 1..5, as \in {a, b} }
    \cup { Aggregate(SubSeq(Rows, i, j), f, e) :
              i \in 1..5, j \in 4..5, f \in Functions_, e \in Exprs }
    \cup { InGroups(SubSeq(Rows, i, 5), ends, f, e) :
              i \in {1, 3}, ends \in {<<1, 3>>, <<2, 3>>, <<1, 2, 3>>}, f \in Functions_,
              e \in {Path(<<>>), Path(<<a>>), Literal(1), Literal(2)} }
    \cup { Aggregate(<<>>, f, Path(<<a>>)) : f \in Functions_ }
    \cup { Operates(<<OpRow>>, e) : e \in Operations }
    \cup { [c EXCEPT !.lits = OpLits] :
              c \in Updates(<<OpRow>>, { <<[lvalue |-> <<Dot(a)>>, expr |-> e]>> : e \in Operations }) }
    \cup { Aggregate(<<v>>, "max", Path(<<>>)) : v \in Texts }
    \cup { Aggregate(Close, f, Path(<<>>)) : f \in {"min", "max"} }

\* A structure without members, alone, before another member or element, and last.
Empty == Struct(<<>>)
EmptyCases ==
    { Aggregate(<<v>>, "array", Path(<<>>)) :
        v \in { Empty, Array(<<Empty>>), Array(<<Empty, One>>), Struct(<<Entry(a, Empty)>>),
                Struct(<<Entry(a, Empty), Entry(b, One)>>) } }
=============================================================================
