-------------------------------- MODULE MCShell --------------------------------
(***************************************************************************)
(* Instances of Shell for TLC: every short text over the symbols that      *)
(* matter to strings and comments, and every short sequence of lines and   *)
(* commands, alone, read by another file and before a second file.         *)
(***************************************************************************)
EXTENDS Shell

Command_(name) == <<".", name, "NL">>
With(name, arg) == <<".", name, " ">> \o arg \o <<"NL">>
OpenLine == With("open", <<"db">>)
CommentLine == <<"-", "-", ";", "NL">>
Run(word) == <<word, ";", "NL">>

\* A text as lines: each ends with "NL", the last one too.
LinesIn(t) ==
    LET at == [i \in 1..(Len(t) + 1) |-> LineEnd(t, i)]
        from[i \in 1..(Len(t) + 2)] ==
            IF i > Len(t) THEN <<>> ELSE <<SubSeq(t, i, at[i] - 1) \o <<"NL">>>> \o from[at[i] + 1]
    IN  from[1]

Session(lines) == [files |-> [main |-> lines], args |-> <<"main">>]

Symbols == {";", "\"", "/", "*", "-", "NL", "x"}
Texts == { t \in UNION { [1..n -> Symbols] : n \in 1..4 } : Plain(t \o <<"NL">>) }
         \cup { <<"x", "/", "*", ";", "NL", "*", "/", ";">>, <<"x", "\"", ";", "NL", ";", "\"", ";", "e", ";">>,
                <<"x", "-", "-", "\"", ";", "NL", "/", "*", "\"", "*", "/", ";", "x">>,
                <<"x", "\"", "\"", "\"", ";", "\"", "\"", ";", "\"", ";">> }

\* Lines of statements and commands, in any order.
Fragments == { Run("x"), Run("e"), Run("f"), <<"x", ";", "e", ";", " ", "x", "NL">>, <<"x", "NL">>, <<" ", "NL">>,
               Command_("error"), With("error", <<"error">>), With("result", <<"x">>),
               With("testcase", <<"t">>), With("clear", <<"test-mode">>) }
Scripts == { <<a, b, c>> : a, b, c \in Fragments }

\* Commands of each kind once, with and without an argument.
Commands == { Command_("quit"), Command_("unknown"), Command_("testcase"), Command_("result"), Command_("open"),
              Command_("set"), With("set", <<"test-mode">>), With("open", <<"bad">>), OpenLine,
              With("read", <<"none">>), Command_("read"), <<".", "result", " ", "x", "\\", "NL">>,
              With("read", <<"sub">>) }

\* The file that is read begins with a comment, as its first line is lost (the
\* buffer still holds the command that reads it), and ends its statements, as an
\* unfinished one is dropped with that command.
Sub(lines) == <<CommentLine>> \o lines
Reads(pre, sub, post) ==
    [files |-> [main |-> <<OpenLine>> \o pre \o <<With("read", <<"sub">>)>> \o post,
                sub |-> Sub(sub), next |-> <<CommentLine, Run("x")>>],
     args |-> <<"main", "next">>]
\* Only the last file may end with a command that is not over: one that is
\* unknown or goes on, which stays in the buffer.
EndsItself(lines) == lines[1] # Command_("unknown") /\ "\\" \notin ToSet(lines[1])

Parts == { <<l>> : l \in Commands \cup {Run("e"), Run("f"), Run("x")} }
MCSessions ==
    { Session(<<OpenLine>> \o LinesIn(t)) : t \in Texts }
    \cup { Session(<<OpenLine, With("testcase", <<"t">>)>> \o s) : s \in Scripts }
    \cup { Session(<<c, d, Run("x"), Run("e")>>) : c, d \in Fragments \cup (Commands \ {With("read", <<"sub">>)}) }
    \cup { Reads(<<With("testcase", <<"t">>), Run("x")>>, <<Run("x")>> \o sub, post) :
              sub \in { <<l>> : l \in (Commands \ {With("read", <<"sub">>)}) \cup {Run("e"), <<" ", "NL">>} },
              post \in { p \in Parts : EndsItself(p) } }

\* Tests in which no statement is refused, and the last one does not fail.
StepSessions ==
    { Session(<<OpenLine, With("testcase", <<"t">>), a, b, Run("x")>>) :
        a, b \in { Run("x"), Run("f"), With("result", <<"x">>) } }
=============================================================================
