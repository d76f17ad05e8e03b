--------------------------------- MODULE Shell ---------------------------------
(***************************************************************************)
(* The shell of src/src/shell.c: it reads files line by line into a buffer *)
(* and runs the commands and statements in it.                             *)
(*                                                                         *)
(* A file is a sequence of lines, a line a sequence of symbols that ends   *)
(* with "NL".  A command is a line such as <<".", "result", " ", "x",      *)
(* "NL">>.  What a statement does is not modelled: one that starts with    *)
(* "e" or has no words cannot be prepared, one that starts with "f" fails  *)
(* at its first step (an INSERT into a collection that does not exist),    *)
(* and any other returns one row, its first token.  Only what the test     *)
(* mode looks at is modelled: echo, traces and prompts are left out, and   *)
(* lines that are longer than the buffer of fgets.                         *)
(***************************************************************************)
EXTENDS StatementText

CONSTANTS
    Sessions     \* what the shell is started on: records of `files', from names
                 \* to lines, and `args', the names on the command line

VARIABLES
    session,
    todo,        \* the files of the command line that were not read yet
    stack,       \* the files being read, each with the number of its next line
    inBuf,       \* the buffered input
    pc,          \* "line", "command", "script", "statements" or "end"
    pDb,         \* is a database open?
    testMode, testErrcode, testOut, nTest, nErr,
    ran          \* the tokens of each statement that was run

test == <<testMode, testErrcode, testOut, nTest, nErr>>
vars == <<session, todo, stack, inBuf, pc, pDb, test, ran>>

-----------------------------------------------------------------------------
\* xjd1_stmt_new returns an error; a text without tokens is no statement.
Refused(tokens) == tokens # <<>> /\ tokens[1] \in {<<"e">>, <<";">>}

\* xjd1_stmt_step returns an error, before any row.
FailsAtStep(tokens) == tokens # <<>> /\ tokens[1] = <<"f">>

\* What a statement adds to the output of a test.
Outcome(tokens) ==
    CASE Refused(tokens) -> <<"error">>
      [] tokens = <<>> \/ FailsAtStep(tokens) -> <<>>
      [] OTHER -> tokens[1]

TypeOK ==
    /\ pc \in {"line", "command", "script", "statements", "end"}
    /\ \A i \in DOMAIN stack : stack[i].line \in 1..(Len(session.files[stack[i].file]) + 1)
    /\ testMode \in BOOLEAN /\ testErrcode \in BOOLEAN /\ pDb \in BOOLEAN
    /\ nErr \in Nat /\ nTest \in Nat
    /\ pc \in {"command", "script"} => inBuf # <<>>
    /\ pc = "end" => stack = <<>> /\ todo = <<>>
    /\ testErrcode => testMode /\ testOut # <<>>

Init ==
    /\ session \in Sessions
    /\ todo = session.args /\ stack = <<>>
    /\ inBuf = <<>> /\ pc = "line"
    /\ pDb = FALSE
    /\ testMode = FALSE /\ testErrcode = FALSE /\ testOut = <<>> /\ nTest = 0 /\ nErr = 0
    /\ ran = <<>>

\* The file being read.
Top == Last(stack)
MoreLines == stack # <<>> /\ Top.line <= Len(session.files[Top.file])
Line == session.files[Top.file][Top.line]
Open(file) == [file |-> file, line |-> 1]

\* A command ends the file it is in; the command that has read that file is over.
FileOver(buf) ==
    /\ stack' = Front(stack)
    /\ inBuf' = IF Len(stack) > 1 THEN <<>> ELSE buf

-----------------------------------------------------------------------------
(* processOneFile                                                          *)

NextFile ==
    /\ pc = "line" /\ stack = <<>> /\ todo # <<>>
    /\ stack' = <<Open(Head(todo))>> /\ todo' = Tail(todo)
    /\ UNCHANGED <<session, inBuf, pc, pDb, test, ran>>

\* Mutant of ReadLine: what is left of a statement stays before a command.
ReadLineKeeps ==
    LET buf == inBuf \o Line
    IN  /\ pc = "line" /\ MoreLines
        /\ stack' = [stack EXCEPT ![Len(stack)].line = @ + 1]
        /\ inBuf' = buf
        /\ pc' = IF buf[1] = "." THEN "command" ELSE "script"
        /\ UNCHANGED <<session, todo, pDb, test, ran>>

\* A line is added to the buffer; a command discards a statement that has not
\* ended before it.
ReadLine ==
    LET buf == (IF Line[1] = "." THEN <<>> ELSE inBuf) \o Line
    IN  /\ pc = "line" /\ MoreLines
        /\ stack' = [stack EXCEPT ![Len(stack)].line = @ + 1]
        /\ inBuf' = buf
        /\ pc' = IF buf[1] = "." THEN "command" ELSE "script"
        /\ UNCHANGED <<session, todo, pDb, test, ran>>

EndOfFile ==
    /\ pc = "line" /\ stack # <<>> /\ ~MoreLines
    /\ FileOver(inBuf)
    /\ UNCHANGED <<session, todo, pc, pDb, test, ran>>

EndOfSession ==
    /\ pc = "line" /\ stack = <<>> /\ todo = <<>>
    /\ pc' = "end"
    /\ UNCHANGED <<session, todo, stack, inBuf, pDb, test, ran>>

-----------------------------------------------------------------------------
(* checkForTestError: an error nobody asked for is counted.                *)

Pending == testMode /\ testErrcode
ErrorsAfterCheck == IF Pending THEN nErr + 1 ELSE nErr
OutAfterCheck == IF Pending THEN <<>> ELSE testOut

\* Mutant of CheckForTestError: the error is not forgotten once it is counted.
CheckForTestErrorAgain ==
    nErr' = ErrorsAfterCheck /\ testOut' = testOut /\ testErrcode' = testErrcode

CheckForTestError ==
    /\ nErr' = ErrorsAfterCheck
    /\ testOut' = OutAfterCheck
    /\ testErrcode' = (testErrcode /\ ~Pending)

-----------------------------------------------------------------------------
(* processMetaCommand                                                      *)

\* The command in the buffer without the white space at its end, the name and,
\* after the space that ends it, the argument.  A zero that an earlier call has
\* written after the name ends the text.
Trimmed == SubSeq(inBuf, 1, Len(inBuf) - (FirstFrom(Reverse(inBuf), 1,
                                             LAMBDA k : Reverse(inBuf)[k] \notin Spaces) - 1))
Name == Trimmed[2]
Arg == LET rest == SubSeq(Trimmed, 4, Len(Trimmed))
       IN  SubSeq(rest, SkipSpaces(rest, 1), Len(rest))
HasArg == Len(Trimmed) > 2 /\ Trimmed[3] # "NUL"

Continues == Last(Trimmed) = "\\"
Command(name) == pc = "command" /\ ~Continues /\ Name = name
Done == inBuf' = <<>> /\ pc' = "line"

\* A command whose last character is a backslash goes on on the next line.
Continue ==
    /\ pc = "command" /\ Continues
    /\ inBuf' = Append(Front(Trimmed), " ")
    /\ pc' = "line"
    /\ UNCHANGED <<session, todo, stack, pDb, test, ran>>

Quit ==
    /\ Command("quit")
    /\ CheckForTestError
    /\ FileOver(<<>>) /\ pc' = "line"
    /\ UNCHANGED <<session, todo, pDb, testMode, nTest, ran>>

\* An unknown command stays in the buffer when it ends the file.
Unknown ==
    /\ Command("unknown")
    /\ nErr' = ErrorsAfterCheck + 1
    /\ testOut' = OutAfterCheck /\ testErrcode' = (testErrcode /\ ~Pending)
    /\ FileOver(Trimmed) /\ pc' = "line"
    /\ UNCHANGED <<session, todo, pDb, testMode, nTest, ran>>

Testcase ==
    /\ Command("testcase")
    /\ nErr' = ErrorsAfterCheck
    /\ IF HasArg THEN testOut' = <<>> /\ testErrcode' = FALSE /\ testMode' = TRUE
       ELSE /\ testOut' = OutAfterCheck /\ testErrcode' = (testErrcode /\ ~Pending)
            /\ UNCHANGED testMode
    /\ Done
    /\ UNCHANGED <<session, todo, stack, pDb, nTest, ran>>

\* .result compares the output since the test case began; .error does too, and
\* takes an error that happened as what was asked for.
Answer == IF HasArg THEN Arg ELSE <<>>
Result ==
    /\ Command("result")
    /\ nTest' = nTest + 1
    /\ nErr' = ErrorsAfterCheck + (IF Answer # OutAfterCheck THEN 1 ELSE 0)
    /\ testOut' = OutAfterCheck /\ testErrcode' = (testErrcode /\ ~Pending)
    /\ Done
    /\ UNCHANGED <<session, todo, stack, pDb, testMode, ran>>

Error ==
    /\ Command("error")
    /\ nTest' = nTest + 1
    /\ nErr' = nErr + (IF Answer # testOut THEN 1 ELSE 0)
    /\ testErrcode' = FALSE
    /\ Done
    /\ UNCHANGED <<session, todo, stack, pDb, testMode, testOut, ran>>

\* .open and .new: the database that was open is closed first.
OpenDB ==
    LET ok == Arg # <<"bad">>
    IN  /\ Command("open")
        /\ pDb' = IF HasArg THEN ok ELSE pDb
        /\ nErr' = ErrorsAfterCheck + (IF HasArg /\ ~ok THEN 1 ELSE 0)
        /\ testOut' = OutAfterCheck /\ testErrcode' = (testErrcode /\ ~Pending)
        /\ Done
        /\ UNCHANGED <<session, todo, stack, testMode, nTest, ran>>

\* .set and .clear of the test mode.
Flag ==
    /\ Command("set") \/ Command("clear")
    /\ CheckForTestError
    /\ testMode' = IF HasArg THEN Name = "set" ELSE testMode
    /\ Done
    /\ UNCHANGED <<session, todo, stack, pDb, nTest, ran>>

\* .read: the file is read while the command is still in the buffer, with a
\* zero after its name.
Read ==
    /\ Command("read")
    /\ IF HasArg /\ Arg[1] \in DOMAIN session.files
       THEN /\ stack' = Append(stack, Open(Arg[1]))
            /\ inBuf' = [Trimmed EXCEPT ![3] = "NUL"]
            /\ nErr' = ErrorsAfterCheck
       ELSE /\ nErr' = ErrorsAfterCheck + (IF HasArg THEN 1 ELSE 0)
            /\ inBuf' = <<>> /\ stack' = stack
    /\ testOut' = OutAfterCheck /\ testErrcode' = (testErrcode /\ ~Pending)
    /\ pc' = "line"
    /\ UNCHANGED <<session, todo, pDb, testMode, nTest, ran>>

MetaCommand == Continue \/ Quit \/ Unknown \/ Testcase \/ Result \/ Error \/ OpenDB \/ Flag \/ Read

-----------------------------------------------------------------------------
(* processScript                                                           *)

Start == SkipSpaces(inBuf, 1)
IsCommentLine == Char(inBuf, Start) = "-" /\ Char(inBuf, Start + 1) = "-"

\* The lengths of the parts of the buffer that end with a semicolon and are
\* complete.
Ends == { k \in Start..Len(inBuf) : inBuf[k] = ";" /\ Complete(SubSeq(inBuf, 1, k)) }
End == CHOOSE k \in Ends : \A j \in Ends : k <= j

Rest(i) == SubSeq(inBuf, i, Len(inBuf))

\* An error of the line before is counted.  Without a database the line is
\* dropped.
EnterScript ==
    /\ pc = "script"
    /\ CheckForTestError
    /\ IF pDb THEN inBuf' = inBuf /\ pc' = "statements" ELSE inBuf' = <<>> /\ pc' = "line"
    /\ UNCHANGED <<session, todo, stack, pDb, testMode, nTest, ran>>

\* A comment at the start of the buffer is removed with its line, and the rest
\* waits for the next line.
DropComment ==
    /\ pc = "statements" /\ IsCommentLine
    /\ inBuf' = Rest(SkipSpaces(inBuf, LineEnd(inBuf, Start)))
    /\ pc' = "line"
    /\ UNCHANGED <<session, todo, stack, pDb, test, ran>>


\* processOneStatement: the parser gets the text up to the end of the first
\* statement that is complete.  If that is refused, the error is kept for the
\* next line of a test, or counted; the loop over its steps ends at an error as
\* it does at the end, and nothing remembers which it was.
RunStatement ==
    LET tokens == StatementFrom(SubSeq(inBuf, 1, End), 1).tokens
    IN  /\ pc = "statements" /\ ~IsCommentLine /\ Ends # {}
        /\ ran' = Append(ran, tokens)
        /\ inBuf' = Rest(SkipSpaces(inBuf, End + 1))
        /\ IF testMode
           THEN /\ testOut' = testOut \o Outcome(tokens)
                /\ testErrcode' = (testErrcode \/ Refused(tokens))
                /\ nErr' = nErr
           ELSE /\ nErr' = nErr + (IF Refused(tokens) THEN 1 ELSE 0)
                /\ UNCHANGED <<testOut, testErrcode>>
        /\ UNCHANGED <<session, todo, stack, pc, pDb, testMode, nTest>>

\* What is left is no statement yet, or white space.
NoMore ==
    /\ pc = "statements" /\ ~IsCommentLine /\ Ends = {}
    /\ inBuf' = IF Start > Len(inBuf) THEN <<>> ELSE inBuf
    /\ pc' = "line"
    /\ UNCHANGED <<session, todo, stack, pDb, test, ran>>

ProcessScript == EnterScript \/ DropComment \/ RunStatement \/ NoMore

-----------------------------------------------------------------------------
Next == NextFile \/ ReadLine \/ EndOfFile \/ EndOfSession \/ MetaCommand \/ ProcessScript

Spec == Init /\ [][Next]_vars /\ WF_vars(Next)

-----------------------------------------------------------------------------
(* What a session means, on its lines as a whole.                          *)

IsCommand(line) == line[1] = "."
Is(line, name) == IsCommand(line) /\ line[2] = name
IsWith(line, name) == Is(line, name) /\ Len(line) > 3     \* with an argument

\* The lines of a file with those of the files it reads in their place, up to
\* the command that ends it; a command that goes on is one with the next line,
\* and lost if that is a command.
RECURSIVE LinesOf(_, _)
LinesOf(files, lines) ==
    LET line == lines[1]
        goesOn == IsCommand(line) /\ Len(line) > 2 /\ line[Len(line) - 1] = "\\"
        isLost == Len(lines) = 1 \/ IsCommand(lines[2])
        joined == SubSeq(line, 1, Len(line) - 2) \o <<" ">> \o lines[2]
        reads == IsWith(line, "read") /\ line[4] \in DOMAIN files
    IN  CASE lines = <<>> -> <<>>
          [] lines # <<>> /\ goesOn /\ isLost -> LinesOf(files, Tail(lines))
          [] lines # <<>> /\ goesOn /\ ~isLost -> LinesOf(files, <<joined>> \o SubSeq(lines, 3, Len(lines)))
          [] lines # <<>> /\ ~goesOn ->
                <<line>>
                \o (IF reads THEN LinesOf(files, files[line[4]]) ELSE <<>>)
                \o (IF Is(line, "quit") \/ Is(line, "unknown") THEN <<>> ELSE LinesOf(files, Tail(lines)))

Lines == FlattenSeq([i \in DOMAIN session.args |->
                        LinesOf(session.files, session.files[session.args[i]])])

\* The last line before line i for which P holds, or 0.
Before(lines, i, P(_)) == LET S == { j \in 1..(i - 1) : P(lines[j]) }
                          IN  IF S = {} THEN 0 ELSE CHOOSE j \in S : \A k \in S : k <= j

\* What a sequence has after a part that it begins with.
After(part, seq) == SubSeq(seq, Len(part) + 1, Len(seq))

\* The statements that end on line i of the session: those of the text since
\* the last command that the text without the line does not have yet.
NewStatements(lines, i) ==
    LET first == Before(lines, i, IsCommand) + 1
        StatementsTo(j) == Statements(FlattenSeq(SubSeq(lines, first, j)))
    IN  After(StatementsTo(i - 1), StatementsTo(i))

IsOpen(lines, i) == LET o == Before(lines, i, LAMBDA l : IsWith(l, "open"))
                    IN  o # 0 /\ lines[o][4] # "bad"
Ran(lines) == [i \in DOMAIN lines |->
                  IF IsCommand(lines[i]) \/ ~IsOpen(lines, i) THEN <<>> ELSE NewStatements(lines, i)]

Testing(lines, i) ==
    LET f == Before(lines, i, LAMBDA l : IsWith(l, "testcase") \/ IsWith(l, "set") \/ IsWith(l, "clear"))
    IN  f # 0 /\ ~Is(lines[f], "clear")

\* `runs' are the statements that end on each line.
SomeOn(runs, i, P(_)) == \E k \in DOMAIN runs[i] : P(runs[i][k])

\* The lines of tests with a refused statement, and another line behind them
\* that does not ask for the error.  It is the next line that counts the error:
\* one on the last line of all is never looked at.
Surprises(lines, runs) ==
    { i \in 1..(Len(lines) - 1) :
        Testing(lines, i) /\ ~Is(lines[i + 1], "error") /\ SomeOn(runs, i, Refused) }

\* The output there is to compare with on line i.
OutputAt(lines, runs, surprises, i) ==
    LET since == Before([j \in DOMAIN lines |-> j], i,
                        LAMBDA j : IsWith(lines[j], "testcase") \/ j \in surprises)
    IN  FlattenSeq([k \in 1..(i - 1 - since) |->
                       IF Testing(lines, since + k)
                       THEN FlattenSeq([n \in DOMAIN runs[since + k] |-> Outcome(runs[since + k][n])])
                       ELSE <<>>])

Compares(line) == Is(line, "result") \/ Is(line, "error")
Answered(line) == SelectSeq(SubSeq(line, 4, Len(line)), LAMBDA c : c \notin Spaces)

ErrorsOf(lines, runs, surprises, i) ==
    (IF i \in surprises THEN 1 ELSE 0)
    + (IF Testing(lines, i) THEN 0 ELSE Len(SelectSeq(runs[i], Refused)))
    + (IF Compares(lines[i]) /\ Answered(lines[i]) # OutputAt(lines, runs, surprises, i) THEN 1 ELSE 0)
    + (IF Is(lines[i], "unknown") \/ (Is(lines[i], "open") /\ "bad" \in ToSet(lines[i]))
          \/ (IsWith(lines[i], "read") /\ lines[i][4] \notin DOMAIN session.files) THEN 1 ELSE 0)

\* What the session has done is what its lines mean.
Agrees(lines, runs, surprises) ==
    /\ SelectSeq(ran, LAMBDA s : s # <<>>) = FlattenSeq(runs)
    /\ nErr = FoldSeq(LAMBDA i, n : n + ErrorsOf(lines, runs, surprises, i), 0, [i \in DOMAIN lines |-> i])
    /\ nTest = Len(SelectSeq(lines, Compares))
AgreesOnRuns(lines, runs) == Agrees(lines, runs, Surprises(lines, runs))
AgreesOn(lines) == AgreesOnRuns(lines, Ran(lines))

-----------------------------------------------------------------------------
(* Properties.                                                             *)


\* "Number of test errors" (shell.c:115), "%d errors from %d tests" (698): a line
\* of a test on which a statement fails, when the next one does not ask for the
\* error, is among them.
UnaskedFailures(lines, runs) ==
    { i \in DOMAIN lines :
        /\ Testing(lines, i) /\ (i < Len(lines) => ~Is(lines[i + 1], "error"))
        /\ SomeOn(runs, i, Refused) \/ SomeOn(runs, i, FailsAtStep) }
CountsTestErrors == pc = "end" => nErr >= Cardinality(UnaskedFailures(Lines, Ran(Lines)))

=============================================================================
