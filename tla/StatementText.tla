----------------------------- MODULE StatementText -----------------------------
(***************************************************************************)
(* Where a statement ends: the two places of the code that say so, the     *)
(* test whether a text is complete (src/src/complete.c) and the tokenizer  *)
(* (src/src/tokenize.c).                                                   *)
(*                                                                         *)
(* A text is a sequence of symbols: the characters that matter to strings, *)
(* comments and statements as they are, "NL" for a new line, and one       *)
(* symbol for any word.                                                    *)
(***************************************************************************)
EXTENDS Integers, Sequences, SequencesExt

Spaces == {" ", "NL"}

\* The symbol at a position; the text ends with a zero.
Char(t, i) == IF i <= Len(t) THEN t[i] ELSE "NUL"

\* The first position from i on at which Found is true, or the one of the zero.
FirstFrom(t, i, Found(_)) ==
    LET from[k \in i..(Len(t) + 1)] == IF k > Len(t) \/ Found(k) THEN k ELSE from[k + 1]
    IN  IF i > Len(t) THEN Len(t) + 1 ELSE from[i]

SkipSpaces(t, i) == FirstFrom(t, i, LAMBDA k : t[k] \notin Spaces)
LineEnd(t, i) == FirstFrom(t, i, LAMBDA k : t[k] = "NL")
CommentEnd(t, i) == FirstFrom(t, i, LAMBDA k : t[k] = "*" /\ Char(t, k + 1) = "/")

-----------------------------------------------------------------------------
(* xjd1_complete                                                           *)

\* The closing quote of the string that starts at i: a backslash hides what
\* follows it.
QuoteAfter(t, i) ==
    LET from[k \in (i + 1)..(Len(t) + 2)] ==
            IF k > Len(t) THEN Len(t) + 1
            ELSE IF t[k] = "\"" THEN k
            ELSE from[k + (IF t[k] = "\\" THEN 2 ELSE 1)]
    IN  from[i + 1]


\* Is the text complete?  A comment is skipped up to its last slash, which then
\* begins another comment if a star follows.
Complete(t) ==
    LET from[i \in 1..(Len(t) + 1)] ==
            LET c == Char(t, i)
                d == Char(t, i + 1)
                end == CommentEnd(t, i + 2)
                quote == QuoteAfter(t, i)
            IN  [done \in BOOLEAN |->
                    CASE c = "NUL" -> done
                      [] c = ";" -> from[i + 1][TRUE]
                      [] c = "/" /\ d = "*" -> end <= Len(t) /\ from[end + 1][done]
                      [] c = "-" /\ d = "-" -> from[LineEnd(t, i)][done]
                      [] c = "\"" -> quote <= Len(t) /\ from[quote + 1][FALSE]
                      [] OTHER -> from[i + 1][done /\ c \in Spaces \cup {"/", "-"}]]
    IN  from[1][TRUE]

-----------------------------------------------------------------------------
(* xjd1GetToken                                                            *)

\* The position after the string that starts at i: a quote is doubled to be
\* part of it.  (One that does not end takes the zero with it.)
StringAfter(t, i) ==
    LET from[k \in (i + 1)..(Len(t) + 2)] ==
            IF k > Len(t) THEN Len(t) + 2
            ELSE IF t[k] # "\"" THEN from[k + 1]
            ELSE IF Char(t, k + 1) = "\"" THEN from[k + 2]
            ELSE k + 1
    IN  from[i + 1]

\* The token at position i: its type and the position after it.
TokenAt(t, i) ==
    LET c == t[i]
        end == CommentEnd(t, i + 2)
    IN  CASE c \in Spaces -> [type |-> "SPACE", after |-> SkipSpaces(t, i)]
          [] c = "-" /\ Char(t, i + 1) = "-" -> [type |-> "SPACE", after |-> LineEnd(t, i)]
          [] c = "/" /\ Char(t, i + 1) = "*" /\ i + 2 <= Len(t) ->
                [type |-> "SPACE", after |-> IF end <= Len(t) THEN end + 2 ELSE end]
          [] c = ";" -> [type |-> "SEMI", after |-> i + 1]
          [] c = "\"" -> [type |-> "STRING", after |-> StringAfter(t, i)]
          [] OTHER -> [type |-> "WORD", after |-> i + 1]

\* xjd1RunParser: the tokens from position i up to the first semicolon, as the
\* parser gets them, and the position after them.
StatementFrom(t, i) ==
    LET from[k \in i..(Len(t) + 2)] ==
            IF k > Len(t) THEN [tokens |-> <<>>, after |-> k, ended |-> FALSE]
            ELSE LET token == TokenAt(t, k)
                     rest == from[token.after]
                     chars == SubSeq(t, k, IF token.after > Len(t) THEN Len(t) ELSE token.after - 1)
                 IN  CASE token.type = "SPACE" -> rest
                       [] token.type = "SEMI" ->
                             [tokens |-> <<chars>>, after |-> token.after, ended |-> TRUE]
                       [] OTHER -> [rest EXCEPT !.tokens = <<chars>> \o @]
    IN  from[i]

\* What a text means as a script: its statements, each with its tokens.
Statements(t) ==
    LET from[i \in 1..(Len(t) + 2)] ==
            LET s == StatementFrom(t, i) IN IF s.ended THEN <<s.tokens>> \o from[s.after] ELSE <<>>
    IN  from[1]

\* Where the two agree on the end of strings and comments.  They do not on a
\* backslash in a string, a star after a comment, and a comment with a semicolon
\* in it after nothing but an operator.
Plain(t) ==
    /\ "\\" \notin ToSet(t)
    /\ \A i \in DOMAIN t : ~(t[i] = "*" /\ Char(t, i + 1) = "/" /\ Char(t, i + 2) = "*")
    /\ \A i \in DOMAIN t : (i = 1 \/ t[i - 1] = ";") =>
          LET s == StatementFrom(t, i).tokens IN s = <<>> \/ s[1] \notin {<<"-">>, <<"/">>}
=============================================================================
