------------------------------- MODULE Lexers -------------------------------
(***************************************************************************)
(* regex_reader and name_reader of src/context.cpp: automata that read one *)
(* pattern or name of a block into a buffer of fixed size.  A text is a    *)
(* sequence of character classes, and what is read is a sequence of        *)
(* positions of the text, so that a property can say which character went  *)
(* where.  Positions count from 1; p = Len(text) + 1 is `end`.             *)
(***************************************************************************)
EXTENDS Integers, Sequences, Blocks

CONSTANTS BufferSize,  \* buffer_size
          Redundancy,  \* redundancy_size
          Text(_)      \* the texts of blocks, by task

ASSUME BufferAssumption == /\ BufferSize \in Nat \ {0}
                            /\ Redundancy \in Nat \ {0}

\* What type_interpreter tells apart.  "mark" stands for the characters of this
\* word, which read_mark looks for; for everybody else they are name characters.
Blank == {"space", "tab"}
NameChar == {"name", "mark"}
Class == Blank \cup NameChar \cup
         {"newline", "colon", "backslash", "math", "comment", "quote", "other"}

VARIABLES task,    \* "defdir", "noextend", "raw" or "make"
          text,    \* the block, [start, end)
          p,
          state,   \* of the task
          error,   \* Reader::error
          reader,  \* the state of the reader that runs, how it returned, or "none"
          buf      \* buffer[0..len-1]: positions of text, Slash for an added backslash

Task == {"defdir", "noextend", "raw", "make"}

ASSUME TextAssumption == \A t \in Task : \A x \in Text(t) : x \in Seq(Class) /\ ForBlock(x)

Slash == 0
End == Len(text) + 1

\* One row of a switch: in state `from` a character of `on` leads to `to`, `put`
\* is written and p steps back by `back` after the character was passed.
Row(from, on, to, put, back) ==
  [from |-> from, on |-> on, to |-> to, put |-> put, back |-> back]
No == <<>>
Char == <<"char">>
SlashChar == <<"slash", "char">>
TwoSlashes == <<"slash", "slash">>

\* A pattern ends before a blank or a colon.
RegexEnds == Row("REGEX", Blank \cup {"colon"}, "END", No, 1)

\* A name ends before an escaped newline, which the caller reads again.
NameLineEnd == Row("ESCAPE_NAME", {"newline"}, "END", No, 2)

\* The state ESCAPE is split by `pre`, the state it was entered from.
RegexTable == {
  Row("AHEAD", Blank \cup {"newline"}, "AHEAD", No, 0),
  Row("AHEAD", {"backslash"}, "ESCAPE_AHEAD", No, 0),
  Row("AHEAD", {"comment"}, "COMMENT", No, 0),
  Row("AHEAD", {"quote"}, "QUOTATION", No, 0),
  Row("AHEAD", NameChar \cup {"colon", "math", "other"}, "REGEX", Char, 0),
  RegexEnds,
  Row("REGEX", {"backslash"}, "ESCAPE_REGEX", No, 0),
  Row("REGEX", {"newline", "comment", "quote"}, "ERROR", No, 0),
  Row("REGEX", NameChar \cup {"math", "other"}, "REGEX", Char, 0),
  Row("ESCAPE_AHEAD", {"newline"}, "AHEAD", No, 0),
  Row("ESCAPE_AHEAD", Class \ {"newline"}, "REGEX", Char, 0),
  Row("ESCAPE_REGEX", {"newline"}, "REGEX", No, 0),
  Row("ESCAPE_REGEX", Blank \cup {"colon", "backslash", "comment", "quote"}, "REGEX", Char, 0),
  Row("ESCAPE_REGEX", NameChar, "REGEX", SlashChar, 0),
  Row("ESCAPE_REGEX", {"math", "other"}, "ERROR", No, 0),
  Row("ESCAPE_QUOTATION", {"quote"}, "QUOTATION", Char, 0),
  Row("ESCAPE_QUOTATION", Class \ {"quote"}, "QUOTATION", SlashChar, 0),
  Row("COMMENT", {"newline"}, "AHEAD", No, 0),
  Row("COMMENT", Class \ {"newline"}, "COMMENT", No, 0),
  Row("QUOTATION", {"quote"}, "END", No, 0),
  Row("QUOTATION", {"newline"}, "ERROR", No, 0),
  Row("QUOTATION", {"backslash"}, "ESCAPE_QUOTATION", No, 0),
  Row("QUOTATION", Class \ {"quote", "newline", "backslash"}, "QUOTATION", Char, 0)}

NameTable == {
  Row("AHEAD", Blank \cup {"newline"}, "AHEAD", No, 0),
  Row("AHEAD", {"backslash"}, "ESCAPE_AHEAD", No, 0),
  Row("AHEAD", {"quote"}, "QUOTATION", No, 0),
  Row("AHEAD", NameChar, "NAME", Char, 0),
  Row("AHEAD", {"colon", "math", "comment", "other"}, "ERROR", No, 0),
  Row("NAME", {"backslash"}, "ESCAPE_NAME", No, 0),
  Row("NAME", NameChar, "NAME", Char, 0),
  Row("NAME", Class \ (NameChar \cup {"backslash"}), "END", No, 1),
  Row("ESCAPE_AHEAD", {"newline"}, "AHEAD", No, 0),
  Row("ESCAPE_AHEAD", NameChar, "ERROR", No, 0),
  Row("ESCAPE_AHEAD", Class \ (NameChar \cup {"newline"}), "NAME", SlashChar, 0),
  NameLineEnd,
  Row("ESCAPE_NAME", NameChar, "ERROR", No, 0),
  Row("ESCAPE_NAME", Class \ (NameChar \cup {"newline"}), "NAME", SlashChar, 0),
  Row("ESCAPE_QUOTATION", {"quote"}, "QUOTATION", Char, 0),
  Row("ESCAPE_QUOTATION", Class \ {"quote"}, "QUOTATION", TwoSlashes, 1),
  Row("QUOTATION", {"quote"}, "END", No, 0),
  Row("QUOTATION", {"newline"}, "ERROR", No, 0),
  Row("QUOTATION", NameChar, "QUOTATION", Char, 0),
  Row("QUOTATION", {"backslash"}, "ESCAPE_QUOTATION", No, 0),
  Row("QUOTATION", Class \ (NameChar \cup {"quote", "newline", "backslash"}),
      "QUOTATION", SlashChar, 0)}

\* Where the text may end: the state that becomes END there, with END itself.
RegexLast == {"REGEX", "END"}
NameLast == {"NAME", "END"}

\* The characters a row writes.
Written(put) == [i \in DOMAIN put |-> IF put[i] = "char" THEN p ELSE Slash]

Idle == reader = "none"
Reading == reader \notin {"none", "TRUE", "FALSE"}

Call == /\ Idle
        /\ reader' = "AHEAD"
        /\ buf' = <<>>

\* (mutant) the length of the buffer is tested when a name ends only
LateSizeCheck(last) ==
  IF Len(buf) >= BufferSize /\ reader = "END" THEN "ERROR"
  ELSE IF p # End THEN reader
  ELSE IF reader \in last THEN "END" ELSE "ERROR"

\* The state after the two tests at the top of the loop.
Checked(last) ==
  IF Len(buf) >= BufferSize THEN "ERROR"
  ELSE IF p # End THEN reader
  ELSE IF reader \in last THEN "END" ELSE "ERROR"

\* One turn of the loop of a reader.
Turn(table, last) ==
  /\ Reading
  /\ \/ /\ Checked(last) = "ERROR"
        /\ reader' = "FALSE"
        /\ UNCHANGED <<p, buf>>
     \/ /\ Checked(last) = "END"
        /\ reader' = "TRUE"
        /\ UNCHANGED <<p, buf>>
     \/ /\ Checked(last) \notin {"ERROR", "END"}
        /\ \E row \in table :
             /\ row.from = Checked(last) /\ text[p] \in row.on
             /\ reader' = row.to
             /\ buf' = buf \o Written(row.put)
             /\ p' = p + 1 - row.back
  /\ UNCHANGED text
=============================================================================
