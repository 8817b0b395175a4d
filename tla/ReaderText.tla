----------------------------- MODULE ReaderText -----------------------------
(***************************************************************************)
(* src/reader.cpp on the text of the file: Reader::start and block_handler *)
(* as automata that turn characters into calls on the current context.     *)
(* The name of a directive is one symbol; p = Len(content) + 1 is the      *)
(* '\0' behind the text.                                                   *)
(***************************************************************************)
EXTENDS Integers, Sequences, SequencesExt, FileLayout

CONSTANTS Content,  \* the texts of files
          Written   \* files of which the directives are known: [text, marks]

ASSUME ContentAssumption == Content \subseteq Seq(Symbol)
ASSUME WrittenAssumption ==
  \A f \in Written : f.marks \in Seq(Mark) /\ Layout(f.text, f.marks)

VARIABLES content, p,
          input,       \* the signal of start, or the loop of block_handler that runs
          status,      \* of the table of that loop
          type,        \* the directive, what read_order returns
          name,        \* *name of the dictionary
          start, end,  \* 0 for nullptr
          depth,
          level,       \* s.size(), -1 as long as current is null
          error,       \* Reader::error
          tested,      \* whether start has tested it for this signal
          faulty,      \* whether a task finds an error in its text
          at,          \* history: where read_order was called
          calls,       \* history: the calls of current's operations; while input is "call"
                       \* the last of them is decided on and not made yet
          reportedAt   \* history: where p was when a task reported an error, or 0

vars == <<content, p, input, status, type, name, start, end, depth, level, error, tested,
          faulty, at, calls, reportedAt>>
handler == <<faulty, status, type, name, start, end, depth, at>>

Init ==
  /\ content \in Content /\ p = 1
  /\ input = "NEWCONTEXT" /\ tested = FALSE /\ error = FALSE /\ level = -1
  /\ faulty \in BOOLEAN
  /\ status = 0 /\ type = "none" /\ name = <<>> /\ start = 0 /\ end = 0 /\ depth = 0
  /\ at = 0 /\ calls = <<>> /\ reportedAt = 0

Char == IF p <= Len(content) THEN content[p] ELSE "nul"

\* What a table says of the character at p; columns count from 0 as in the code.
Look(table, column) == table[status + 1][column + 1]

NameTrans == << <<1, 5, 0, 5>>, <<5, 4, 1, 2>>, <<5, 4, 3, 2>>, <<5, 4, 3, 5>> >>
NameColumn == CASE Char = "lparen" -> 0 [] Char = "rparen" -> 1 [] Char = "space" -> 2
                [] Char \in NameChars -> 3 [] OTHER -> 4

\* (mutant) a backslash does not escape
BlockTransPlain == << <<0, 0, 1, 2, 4, 4, 4, 4>>, <<1, 0, 1, 1, 1, 4, 1, 1>>,
                      <<2, 2, 2, 2, 2, 4, 2, 2>>, <<2, 2, 2, 2, 2, 4, 2, 2>> >>

\* (mutant) a brace in the comment before a block opens it
BlockTransCommentOpens == << <<0, 0, 1, 2, 4, 4, 4, 4>>, <<1, 0, 1, 2, 1, 4, 1, 1>>,
                             <<2, 2, 2, 2, 2, 4, 3, 2>>, <<2, 2, 2, 2, 2, 4, 2, 2>> >>

BlockTrans == << <<0, 0, 1, 2, 4, 4, 4, 4>>, <<1, 0, 1, 1, 1, 4, 1, 1>>,
                 <<2, 2, 2, 2, 2, 4, 3, 2>>, <<2, 2, 2, 2, 2, 4, 2, 2>> >>
BlockColumn == CASE Char = "space" -> 0 [] Char = "newline" -> 1 [] Char = "comment" -> 2
                 [] Char = "open" -> 3 [] Char = "close" -> 4 [] Char = "nul" -> 5
                 [] Char = "backslash" -> 6 [] OTHER -> 7

LineTrans == << <<0, 1, 0, 5, 2, 6, 6, 2, 6>>, <<0, 1, 1, 1, 1, 1, 6, 1, 1>>,
                <<4, 4, 2, 2, 2, 3, 6, 2, 2>>, <<2, 2, 2, 2, 2, 2, 6, 2, 2>> >>
LineColumn == CASE Char = "newline" -> 0 [] Char = "comment" -> 1 [] Char = "space" -> 2
                [] Char = "open" -> 3 [] Char = "colon" -> 4 [] Char = "backslash" -> 5
                [] Char = "nul" -> 6 [] Char \in NameChars -> 7 [] OTHER -> 8

ContextTrans == << <<0, 1, 0, 2, 3, 3>>, <<0, 1, 1, 1, 3, 1>> >>
ContextColumn == CASE Char = "newline" -> 0 [] Char = "comment" -> 1 [] Char = "space" -> 2
                   [] Char = "open" -> 3 [] Char = "nul" -> 4 [] OTHER -> 5

-----------------------------------------------------------------------------
(* start *)

Signals == {"NEWCONTEXT", "READ", "NAME_CHAR", "ENDCONTEXT", "ERROR", "END", "COMMENT"}

\* An error of any task takes the place of the signal.  What start does then is
\* another step: one that is reported in between comes too late for it.
Test ==
  /\ input \in Signals /\ ~tested
  /\ tested' = TRUE
  /\ input' = IF error THEN "ERROR" ELSE input
  /\ UNCHANGED <<content, p, error, level, calls, reportedAt, handler>>

\* The signal start acts on.
Signal == IF tested THEN input ELSE "untested"

Called(what, last) ==
  Append(calls, [what |-> what, name |-> name, at |-> at, start |-> start, end |-> last])

NewContext ==
  /\ Signal = "NEWCONTEXT" /\ tested' = FALSE
  /\ level' = level + 1
  /\ input' = "READ"
  /\ calls' = IF level = -1 THEN calls ELSE Called("context", p - 1)
  /\ UNCHANGED <<content, p, error, reportedAt, handler>>

\* (mutant) a character that begins nothing is passed
ReadsOn(c) == CASE c \in {"newline", "space", "other"} -> "READ"
                [] c = "close" -> "ENDCONTEXT"
                [] c = "nul" -> "END"
                [] c = "comment" -> "COMMENT"
                [] c \in NameChars -> "NAME_CHAR"
                [] OTHER -> "ERROR"

\* (mutant) the '\0' is taken for a blank
ReadsNul(c) == CASE c \in {"newline", "space", "nul"} -> "READ"
                 [] c = "close" -> "ENDCONTEXT"
                 [] c = "comment" -> "COMMENT"
                 [] c \in NameChars -> "NAME_CHAR"
                 [] OTHER -> "ERROR"

SignalOf(c) == CASE c \in {"newline", "space"} -> "READ"
                 [] c = "close" -> "ENDCONTEXT"
                 [] c = "nul" -> "END"
                 [] c = "comment" -> "COMMENT"
                 [] c \in NameChars -> "NAME_CHAR"
                 [] OTHER -> "ERROR"

Read ==
  /\ Signal = "READ" /\ tested' = FALSE
  /\ input' = SignalOf(Char)
  /\ p' = IF Char = "nul" \/ input' \in {"NAME_CHAR", "ERROR"} THEN p ELSE p + 1
  /\ UNCHANGED <<content, error, level, calls, reportedAt, handler>>

EndContext ==
  /\ Signal = "ENDCONTEXT" /\ tested' = FALSE
  /\ IF level = 0 THEN input' = "ERROR" /\ UNCHANGED <<level, calls>>
     ELSE input' = "READ" /\ level' = level - 1 /\ calls' = Append(calls, [what |-> "end", at |-> p - 1])
  /\ UNCHANGED <<content, p, error, reportedAt, handler>>

\* ERROR ends the open contexts, END asserts that there are none.
Finish ==
  /\ Signal \in {"ERROR", "END"} /\ tested' = FALSE
  /\ IF Signal = "END" /\ level > 0
     THEN input' = "abort" /\ UNCHANGED <<level, calls>>
     ELSE /\ input' = (IF Signal = "END" THEN "done" ELSE "stopped") /\ level' = -1
          /\ calls' = calls \o [i \in 1..(level + 1) |-> [what |-> "end", at |-> p]]
  /\ UNCHANGED <<content, p, error, reportedAt, handler>>

\* A comment goes up to its newline, which is passed, or to the '\0'.
Comment ==
  LET q == Min({i \in p..(Len(content) + 1) : i = Len(content) + 1 \/ content[i] = "newline"})
  IN /\ Signal = "COMMENT" /\ tested' = FALSE
     /\ IF q = Len(content) + 1 THEN p' = q /\ input' = "END" ELSE p' = q + 1 /\ input' = "READ"
     /\ UNCHANGED <<content, error, level, calls, reportedAt, handler>>

-----------------------------------------------------------------------------
(* read_order and block_handler *)

\* The directive at p, whatever follows its name; anything else is raw text.
ReadOrder ==
  /\ Signal = "NAME_CHAR" /\ tested' = FALSE
  /\ type' = IF Char \in Directive THEN Char ELSE "raw"
  /\ p' = IF Char \in Directive THEN p + 1 ELSE p
  /\ input' = CASE type' \in {"raw", "make"} -> "line" [] type' = "context" -> "context"
                [] OTHER -> "name"
  /\ at' = p /\ name' = <<>> /\ start' = 0 /\ end' = 0 /\ status' = 0 /\ depth' = 0
  /\ UNCHANGED <<content, faulty, error, level, calls, reportedAt>>

\* block_handler returns a signal; start sends ERROR on to everybody.
Returns(signal) == input' = signal /\ error' = (error \/ signal = "ERROR")

\* (mutant) the flag is not tested before the call
DecidesAnyway(last) ==
  /\ input' = "call" /\ error' = error
  /\ calls' = Append(calls,
       [what |-> type, name |-> name', at |-> at, start |-> start', end |-> last])

\* A directive is read to its end, which only the reader sees, and the flag is tested:
\* unless a task has reported an error the operation of current is called next.
Decides(last) ==
  IF error THEN Returns("ERROR") /\ UNCHANGED calls
  ELSE /\ input' = "call" /\ UNCHANGED error
       /\ calls' = Append(calls,
            [what |-> type, name |-> name', at |-> at, start |-> start', end |-> last])

\* The operation is called, also when an error has been reported since the test.
Call ==
  /\ input = "call"
  /\ input' = "READ"
  /\ UNCHANGED <<content, p, level, error, tested, calls, reportedAt, handler>>

\* How many calls have been made.
CallsMade == IF input = "call" THEN Len(calls) - 1 ELSE Len(calls)

\* One turn of read_name, and what read_order makes of the end of it.
ReadName ==
  LET next == IF NameColumn = 4 THEN 5 ELSE Look(NameTrans, NameColumn)
      from == IF status = 1 /\ next = 2 THEN p ELSE start
      to == IF status = 2 /\ next \in {3, 4} THEN p ELSE end
      named == next = 4 /\ from # 0 /\ to # 0
  IN /\ input = "name"
     /\ p' = IF NameColumn = 4 THEN p ELSE p + 1
     /\ name' = IF named THEN SubSeq(content, from, to - 1) ELSE <<>>
     /\ start' = IF next \in {4, 5} THEN 0 ELSE from
     /\ end' = IF next \in {4, 5} THEN 0 ELSE to
     /\ status' = IF next \in {4, 5} THEN 0 ELSE next
     /\ CASE next \notin {4, 5} -> UNCHANGED <<input, error, calls>>
          [] next = 5 \/ (next = 4 /\ type \in {"undefdir", "unnoextend"} /\ ~named) ->
               Returns("ERROR") /\ UNCHANGED calls
          [] next = 4 /\ type \in {"defdir", "noextend"} ->
               input' = "block" /\ UNCHANGED <<error, calls>>
          [] OTHER -> Decides(p' - 1)
     /\ UNCHANGED <<content, faulty, type, depth, level, at, tested, reportedAt>>

\* The '#' that ends a line is left to start.
PassesEnd(c) == c # "comment"

\* One turn of the loop for the line form of raw and make.
Line ==
  LET next == Look(LineTrans, LineColumn)
  IN /\ input = "line"
     /\ start' = IF status = 0 /\ next = 2 THEN (IF Char = "colon" THEN p + 1 ELSE p)
                 ELSE IF next = 5 THEN 0 ELSE start
     /\ end' = IF status = 2 /\ next = 4 THEN p ELSE end
     /\ p' = IF next \in {5, 6} \/ (next = 4 /\ ~PassesEnd(Char)) THEN p ELSE p + 1
     /\ status' = IF next = 5 THEN 0 ELSE next
     /\ name' = name
     /\ CASE next = 4 -> Decides(end')
          [] next = 5 -> input' = "block" /\ UNCHANGED <<error, calls>>
          [] next = 6 -> Returns("ERROR") /\ UNCHANGED calls
          [] OTHER -> UNCHANGED <<input, error, calls>>
     /\ UNCHANGED <<content, faulty, type, depth, level, at, tested, reportedAt>>

\* One turn of the loop for a block.
Block ==
  LET next == Look(BlockTrans, BlockColumn)
      opens == status = 0 /\ next = 2
      deeper == IF status = 2 /\ next = 2 /\ Char = "open" THEN 1
                ELSE IF status = 2 /\ next = 2 /\ Char = "close" THEN -1 ELSE 0
      closed == next = 2 /\ depth' = 0
  IN /\ input = "block"
     /\ depth' = IF opens THEN depth + 1 ELSE depth + deeper
     /\ start' = IF opens THEN p + 1 ELSE start
     /\ end' = IF closed THEN p ELSE end
     /\ p' = IF next = 4 THEN p ELSE p + 1
     /\ status' = next
     /\ name' = name
     /\ IF closed THEN Decides(p)
        ELSE IF next = 4 THEN Returns("ERROR") /\ UNCHANGED calls
        ELSE UNCHANGED <<input, error, calls>>
     /\ UNCHANGED <<content, faulty, type, level, at, tested, reportedAt>>

\* One turn of the loop before the brace of a context.
Context ==
  LET next == Look(ContextTrans, ContextColumn)
  IN /\ input = "context"
     /\ p' = IF next = 3 THEN p ELSE p + 1
     /\ status' = next
     /\ CASE next = 2 -> Returns("NEWCONTEXT")
          [] next = 3 -> Returns("ERROR")
          [] OTHER -> UNCHANGED <<input, error>>
     /\ UNCHANGED <<content, faulty, type, name, start, end, depth, level, at, calls, tested,
                    reportedAt>>

\* start has returned, at the end of the text or for an error, or it was aborted.
Final == {"done", "stopped", "abort"}

Blocked == {"defdir", "noextend", "raw", "make"}  \* the directives with a text

\* A task reports an error.
Report ==
  /\ faulty /\ ~error /\ input \notin Final
  /\ \E k \in 1..CallsMade : calls[k].what \in Blocked
  /\ error' = TRUE /\ reportedAt' = p
  /\ UNCHANGED <<content, p, input, tested, level, calls, handler>>

Stopped == input \in Final /\ UNCHANGED vars

Next == \/ Test \/ NewContext \/ Read \/ EndContext \/ Finish \/ Comment \/ ReadOrder
        \/ ReadName \/ Line \/ Block \/ Context \/ Call \/ Report \/ Stopped

Spec == Init /\ [][Next]_vars /\ WF_vars(Next)

-----------------------------------------------------------------------------
TextOf(call) == SubSeq(content, call.start, call.end - 1)

\* p never passes the '\0', and a task gets a text within the file that is not ended by an
\* escaped character: the rest of a line up to its first end that is not escaped, or a
\* block up to the brace that closes it, where every brace that is not escaped counts,
\* one in a comment or in quotes too.
SpansFit ==
  /\ p \in 1..(Len(content) + 1)
  /\ \A k \in DOMAIN calls : calls[k].what \in Blocked =>
       LET c == calls[k] t == TextOf(c)
       IN /\ 1 <= c.start /\ c.start <= c.end /\ c.end <= Len(content)
          /\ \/ content[c.end] = "close" /\ Balanced(t)
             \/ content[c.end] \in {"newline", "comment"} /\ ForLine(t)

\* The reader accepts nothing else: a file it comes to the end of is laid out as the
\* directives of its calls, with blanks and comments between them and their contexts
\* nested.  Nothing is skipped, read twice or put into a directive it does not belong to.
AcceptsFiles ==
  input = "done" =>
    LET m == MarksOf(content, calls, Len(calls) - 1)
    IN Layout(content, m) /\ Nested(m)

\* What the reader makes of a file of directives, if no task finds an error.
ReadAs(m) ==
  IF Nested(m) THEN /\ input = "done"
                    /\ calls = Append([k \in DOMAIN m |-> m[k].call],
                                      [what |-> "end", at |-> Len(content) + 1])
               ELSE input # "done"

\* A file of directives in which no task finds an error is read as those directives, in
\* their order, with their names and texts, exactly when its contexts are nested.
MeansFile ==
  input \in Final /\ ~faulty => \A f \in Written : f.text = content => ReadAs(f.marks)

\* The reader comes to the end of every file, or an assertion stops the program.
Ends == <>(input \in Final)

\* Once a task has reported an error the reader defines, starts and takes back nothing
\* that it has still to read: it only ends what it has opened, and makes the one call
\* it may have decided on, of a directive that it had read to its end when the error
\* came.  After an error of its own it makes none.
NothingReadAfterError ==
  [][\A k \in (CallsMade + 1)..CallsMade' :
       error /\ calls'[k].what # "end" => p = reportedAt]_vars
=============================================================================
