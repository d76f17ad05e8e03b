------------------------------- MODULE JsonText -------------------------------
(***************************************************************************)
(* JSON as text: how src/src/json.c renders a value, reads one back and    *)
(* compares two.                                                           *)
(*                                                                         *)
(* A text is a sequence of symbols: the characters of strings, the         *)
(* punctuation, and one symbol for each atom ("true", "null", "1", ...):   *)
(* how a number is spelled is left out.  What the database stores has no   *)
(* white space outside strings.  A symbol that starts no token, such as    *)
(* the "inf" an infinite number is rendered as, is the tokenizer's error.  *)
(***************************************************************************)
EXTENDS JsonValues

CONSTANTS
    Numbers,     \* the numbers, as the symbols they are rendered as
    Collating    \* the symbols that are compared, in their order

ASSUME NumbersAssumption == Numbers \subseteq ToSet(Collating)

Atoms == Numbers \cup {"true", "false"}

-----------------------------------------------------------------------------
(* Rendering.                                                              *)

\* Mutant of RenderString: a backslash is left as it is.
RenderStringQuotesOnly(z) ==
    <<"\"">> \o FlattenSeq([i \in DOMAIN z |-> IF z[i] = "\"" THEN <<"\\", z[i]>> ELSE <<z[i]>>]) \o <<"\"">>

\* renderString: a quote and a backslash are escaped, and nothing else.
RenderString(z) ==
    <<"\"">>
    \o FlattenSeq([i \in DOMAIN z |-> IF z[i] \in {"\"", "\\"} THEN <<"\\", z[i]>> ELSE <<z[i]>>])
    \o <<"\"">>

Separated(parts) ==
    FlattenSeq([i \in DOMAIN parts |-> IF i = 1 THEN parts[1] ELSE <<",">> \o parts[i]])

\* xjd1JsonRender.  A null pointer and a null value read the same.
RECURSIVE Render(_)
Render(v) ==
    LET Member(e) == RenderString(e.key) \o <<":">> \o Render(e.val)
    IN  CASE v.type \in {"none", "null"} -> <<"null">>
          [] v.type = "atom" -> v.is
          [] v.type = "string" -> RenderString(v.is)
          [] v.type = "array" ->
                <<"[">> \o Separated([i \in DOMAIN v.elems |-> Render(v.elems[i].val)]) \o <<"]">>
          [] v.type = "struct" ->
                <<"{">> \o Separated([i \in DOMAIN v.elems |-> Member(v.elems[i])]) \o <<"}">>

-----------------------------------------------------------------------------
(* Reading.  The position of the current token stands for the state of the *)
(* tokenizer.                                                              *)

\* The position after the string token that starts at i, or 0 if it does not
\* end: a backslash hides what follows it.
StringEnd(t, i) ==
    LET from[j \in (i + 1)..(Len(t) + 2)] ==
            IF j > Len(t) THEN 0
            ELSE IF t[j] = "\"" THEN j + 1
            ELSE from[j + (IF t[j] = "\\" THEN 2 ELSE 1)]
    IN  from[i + 1]

\* tokenNext: the type of the token at position i.
Token(t, i) ==
    CASE i > Len(t) -> "EOF"
      [] i <= Len(t) /\ t[i] = "\"" -> IF StringEnd(t, i) = 0 THEN "ERROR" ELSE "STRING"
      [] i <= Len(t) /\ t[i] \in {"{", "}", "[", "]", ",", ":"} -> t[i]
      [] i <= Len(t) /\ t[i] \in Atoms \cup {"null"} -> "VALUE"
      [] OTHER -> "ERROR"

\* xjd1DequoteString: the characters of a string token.  \u is dropped when at
\* least three characters follow it, and the characters stay.
Escapes == [b |-> "BS", f |-> "FF", n |-> "NL", r |-> "CR", t |-> "TAB"]

Dequote(token) ==
    LET last == Len(token) - 1
        Escaped(i) == IF token[i] \in DOMAIN Escapes THEN <<Escapes[token[i]]>>
                      ELSE IF token[i] = "u" /\ last - i >= 3 THEN <<>>
                      ELSE <<token[i]>>
        from[i \in 2..(last + 2)] ==
            IF i > last THEN <<>>
            ELSE IF token[i] = "\\" THEN Escaped(i + 1) \o from[i + 2]
            ELSE <<token[i]>> \o from[i + 1]
    IN  from[2]

StringAt(t, i) == Dequote(SubSeq(t, i, StringEnd(t, i) - 1))

\* parseJson: the value that starts at position i, and the position of the
\* token it leaves as the current one.  A structure without members leaves its
\* closing brace, an array without elements does not.
RECURSIVE Parse(_, _), Members(_, _, _), Elements(_, _, _)
Parse(t, i) ==
    LET token == Token(t, i)
    IN  CASE token = "{" -> IF Token(t, i + 1) = "}" THEN [v |-> Struct(<<>>), at |-> i + 1]
                            ELSE Members(t, i + 1, <<>>)
          [] token = "[" -> IF Token(t, i + 1) = "]" THEN [v |-> Array(<<>>), at |-> i + 2]
                            ELSE Elements(t, i + 1, <<>>)
          [] token = "STRING" -> [v |-> String(StringAt(t, i)), at |-> StringEnd(t, i)]
          [] token = "VALUE" -> [v |-> IF t[i] = "null" THEN Null ELSE Atom(t[i]), at |-> i + 1]
          [] OTHER -> [v |-> NoValue, at |-> i]

Members(t, i, entries) ==
    IF Token(t, i) # "STRING" THEN [v |-> NoValue, at |-> i]
    ELSE LET colon == StringEnd(t, i)
             p == Parse(t, colon + 1)
             es == Append(entries, Entry(StringAt(t, i), p.v))
         IN  CASE Token(t, colon) # ":" -> [v |-> NoValue, at |-> colon]
               [] Token(t, colon) = ":" /\ Token(t, p.at) = "," -> Members(t, p.at + 1, es)
               [] Token(t, colon) = ":" /\ Token(t, p.at) = "}" -> [v |-> Struct(es), at |-> p.at + 1]
               [] OTHER -> [v |-> NoValue, at |-> p.at]

Elements(t, i, vals) ==
    LET p == Parse(t, i)
        vs == Append(vals, p.v)
    IN  CASE Token(t, p.at) = "," -> Elements(t, p.at + 1, vs)
          [] Token(t, p.at) = "]" -> [v |-> Array(vs), at |-> p.at + 1]
          [] OTHER -> [v |-> NoValue, at |-> p.at]

\* xjd1JsonParse: what follows the value is not looked at.
Read(t) == Parse(t, 1).v

-----------------------------------------------------------------------------
(* Comparing.                                                              *)

Types == <<"false", "true", "real", "null", "string", "array", "struct">>   \* XJD1_FALSE ...
TypeOf(v) == IF v.type # "atom" THEN v.type
             ELSE IF v.is[1] \in Numbers THEN "real" ELSE v.is[1]

Position(seq, x) == SelectInSeq(seq, LAMBDA y : y = x)

\* The comparison of two sequences whose elements compare as Diff says: the
\* first difference, and else the lengths.
Lexical(a, b, Diff(_, _)) ==
    LET n == IF Len(a) < Len(b) THEN Len(a) ELSE Len(b)
        from[i \in 1..(n + 1)] ==
            IF i > n THEN Len(a) - Len(b)
            ELSE IF Diff(a[i], b[i]) # 0 THEN Diff(a[i], b[i])
            ELSE from[i + 1]
    IN  from[1]

CompareChars(x, y) == Position(Collating, x) - Position(Collating, y)

\* Mutant of CompareStrings: no more is compared than the shorter one has.
CompareStringsPrefix(z, w) ==
    IF IsPrefix(z, w) \/ IsPrefix(w, z) THEN 0 ELSE Lexical(z, w, CompareChars)

CompareStrings(z, w) == Lexical(z, w, CompareChars)                     \* strcmp

\* xjd1JsonCompare: negative, zero or positive.  (No value here is NaN.)
RECURSIVE Compare(_, _)
Compare(v, w) ==
    LET CompareEntries(e, f) == IF CompareStrings(e.key, f.key) # 0
                                THEN CompareStrings(e.key, f.key)
                                ELSE Compare(e.val, f.val)
    IN  CASE v.type = "none" -> IF w.type = "none" THEN 0 ELSE -1
          [] v.type # "none" /\ w.type = "none" -> 1
          [] v.type # "none" /\ w.type # "none" /\ TypeOf(v) # TypeOf(w) ->
                Position(Types, TypeOf(v)) - Position(Types, TypeOf(w))
          [] v.type \in {"atom", "string"} /\ TypeOf(v) = TypeOf(w) -> CompareStrings(v.is, w.is)
          [] v.type = "array" /\ w.type = "array" -> Lexical(Values(v), Values(w), Compare)
          [] v.type = "struct" /\ w.type = "struct" -> Lexical(v.elems, w.elems, CompareEntries)
          [] OTHER -> 0
=============================================================================
