------------------------------ MODULE MakeText ------------------------------
(***************************************************************************)
(* The tasks _raw and _make of src/context.cpp on the text of their block: *)
(* read_mark finds how many tabs the block is indented by, then the text   *)
(* is copied through a line buffer of fixed size, _make putting a prefix   *)
(* before its words.                                                       *)
(***************************************************************************)
EXTENDS Lexers, FiniteSetsExt, SequencesExt

CONSTANTS LineSize,    \* line_size
          PrefixSizes  \* the lengths of prefixes

\* A word with its prefix is shorter than a line (64 and 511 in the code), so the
\* branches for one that is not are left out.
ASSUME MakeAssumption ==
  /\ LineSize \in Nat /\ 2 * BufferSize <= LineSize + 2
  /\ PrefixSizes \subseteq 0..(BufferSize - 1) /\ 0 \in PrefixSizes

VARIABLES stop,    \* what *end is: "newline" or "close", any other character
          pre,
          tip,     \* tip of read_mark, 0 for nullptr
          indent,  \* ret of read_mark, then indent
          line,    \* line_buf[0..line_ind-1]
          out,     \* *output
          called,  \* history: where name_reader was called last
          skipped  \* history: what read_mark and the name_readers that failed passed

lexed == <<text, reader, buf, task, stop, error, called>>

\* The line holds positions of the text, Slash, and
PrefixChar == -1
NewLine == -2
Space == -3

-----------------------------------------------------------------------------
(* read_mark.  COMMENT and ESCAPE are split by `pre`. *)

MarkRow(from, on, to, tabs, where) ==
  [from |-> from, on |-> on, to |-> to, tabs |-> tabs, tip |-> where]

\* (mutant) an empty line does not start the count again
EmptyLineKept == MarkRow("AHEADMARK", {"newline"}, "AHEADMARK", "keep", "keep")

EmptyLine == MarkRow("AHEADMARK", {"newline"}, "AHEADMARK", "zero", "keep")

MarkComments == {"COMMENT_AHEADMARK", "COMMENT_SUSPICIOUS", "COMMENT_MARKHANDLE"}

MarkTable == {
  MarkRow("AHEADMARK", {"tab"}, "AHEADMARK", "add", "keep"),
  EmptyLine,
  MarkRow("AHEADMARK", {"comment"}, "COMMENT_AHEADMARK", "keep", "keep"),
  MarkRow("AHEADMARK", {"backslash"}, "ESCAPE_AHEADMARK", "keep", "here"),
  MarkRow("AHEADMARK", {"mark"}, "MARKHANDLE", "keep", "here"),
  MarkRow("AHEADMARK", {"space"}, "SUSPICIOUS", "keep", "here"),
  MarkRow("AHEADMARK", {"name", "colon", "math", "quote", "other"}, "MARKED", "keep", "here"),
  MarkRow("SUSPICIOUS", Blank, "SUSPICIOUS", "keep", "keep"),
  MarkRow("SUSPICIOUS", {"newline"}, "AHEADMARK", "keep", "keep"),
  MarkRow("SUSPICIOUS", {"comment"}, "COMMENT_SUSPICIOUS", "keep", "keep"),
  MarkRow("SUSPICIOUS", {"backslash"}, "ESCAPE_SUSPICIOUS", "keep", "keep"),
  MarkRow("SUSPICIOUS", {"mark"}, "MARKHANDLE", "keep", "keep"),
  MarkRow("SUSPICIOUS", {"name", "colon", "math", "quote", "other"}, "MARKED", "keep", "keep"),
  MarkRow("COMMENT_AHEADMARK", {"newline"}, "AHEADMARK", "zero", "keep"),
  MarkRow("COMMENT_SUSPICIOUS", {"newline"}, "AHEADMARK", "zero", "keep"),
  MarkRow("COMMENT_MARKHANDLE", {"newline"}, "MARKED", "keep", "next"),
  MarkRow("MARKHANDLE", Blank, "MARKHANDLE", "keep", "keep"),
  MarkRow("MARKHANDLE", {"newline"}, "MARKED", "keep", "next"),
  MarkRow("MARKHANDLE", {"comment"}, "COMMENT_MARKHANDLE", "keep", "keep"),
  MarkRow("MARKHANDLE", {"backslash"}, "ESCAPE_MARKHANDLE", "keep", "keep"),
  MarkRow("MARKHANDLE", NameChar \cup {"colon", "math", "quote", "other"}, "MARKED", "keep", "keep")}
  \cup
  {MarkRow(s, Class \ {"newline"}, s, "keep", "keep") : s \in MarkComments}
  \cup
  UNION {{MarkRow(e[1], {"newline"}, e[2], "keep", "keep"),
          MarkRow(e[1], Class \ {"newline"}, "MARKED", "keep", "keep")} :
     e \in {<<"ESCAPE_AHEADMARK", "AHEADMARK">>, <<"ESCAPE_SUSPICIOUS", "SUSPICIOUS">>,
            <<"ESCAPE_MARKHANDLE", "MARKHANDLE">>}}

MarkStates == {row.from : row \in MarkTable}
MarkMayEnd == {"AHEADMARK", "SUSPICIOUS"} \cup MarkComments

MarkReads ==
  /\ state \in MarkStates /\ p # End
  /\ \E row \in MarkTable :
       /\ row.from = state /\ text[p] \in row.on
       /\ state' = row.to
       /\ indent' = CASE row.tabs = "add" -> indent + 1
                      [] row.tabs = "zero" -> 0
                      [] OTHER -> indent
       /\ tip' = CASE row.tip = "here" -> p [] row.tip = "next" -> p + 1 [] OTHER -> tip
  /\ p' = p + 1
  /\ UNCHANGED <<lexed, pre, line, out, skipped>>

\* read_mark returns.  The task ends at once without a mark, or when another task
\* has reported an error.
MarkReturns ==
  LET found == state = "MARKED" \/ (p = End /\ state \in MarkMayEnd)
  IN /\ state = "MARKED" \/ (p = End /\ state \in MarkStates)
     /\ indent' = IF found THEN indent ELSE -1
     /\ p' = IF found /\ tip # 0 THEN tip ELSE p
     /\ state' = IF ~found \/ error THEN "END" ELSE IF task = "raw" THEN "READ" ELSE "BOL"
     /\ skipped' = 1..(p' - 1)
     /\ UNCHANGED <<lexed, pre, tip, line, out>>

-----------------------------------------------------------------------------
\* The first position from i on that is not one of `chars`, or End.
PastAll(i, chars) == Min({j \in i..End : j = End \/ text[j] \notin chars})

\* (mutant) the indentation is cut off whatever it is
CutIndent(i) == i + indent

\* read_tabs: at most `indent` tabs.  *end is not a tab.
ReadTabs(i) == Min({PastAll(i, {"tab"}), i + indent})

\* (mutant) the line is written out and stays in the buffer
FlushKeepsLine(x, l) ==
  IF Len(l) = LineSize THEN out' = out \o l /\ line' = Append(l, x)
                       ELSE out' = out /\ line' = Append(l, x)

\* writeinline(x) on the line l.
WriteInLine(x, l) ==
  IF Len(l) = LineSize THEN out' = out \o l /\ line' = <<x>>
                       ELSE out' = out /\ line' = Append(l, x)

\* if (*p == '\n') ++p, where *end may be a newline too.
PassNewline(e) == IF e < End \/ stop = "newline" THEN e + 1 ELSE e

\* One turn of _raw reads a line.
Read ==
  LET q == ReadTabs(p)
      e == PastAll(q, Class \ {"newline"})
  IN /\ state = "READ" /\ p # End
     /\ IF e - q >= LineSize
        THEN /\ p' = q + LineSize
             /\ state' = "ERROR"
             /\ out' = out
        ELSE /\ out' = IF q < p + indent /\ e = q THEN out
                       ELSE out \o [i \in 1..(e - q) |-> q + i - 1] \o <<NewLine>>
             /\ p' = PassNewline(e)
             /\ state' = IF p' = End THEN "END" ELSE IF p' > End THEN "past" ELSE "READ"
     /\ UNCHANGED <<lexed, pre, tip, indent, line, skipped>>

-----------------------------------------------------------------------------
(* _make *)

StateFor(c) == CASE c = "newline" -> "BOL"
                 [] c = "backslash" -> "ESCAPE"
                 [] c = "comment" -> "COMMENT"
                 [] c \in NameChar \cup {"quote"} -> "WORD"
                 [] OTHER -> "OTHER"

\* The character at i decides how to go on; at a character of `notes` the state
\* is kept in `pre`.
GoesOn(i, notes) ==
  /\ state' = StateFor(text[i])
  /\ p' = IF text[i] \in {"newline", "backslash", "comment"} THEN i + 1 ELSE i
  /\ pre' = IF text[i] \in notes THEN state ELSE pre

Stays == UNCHANGED <<lexed, tip, indent, skipped>>

Bol ==
  LET q == ReadTabs(p)
  IN /\ state = "BOL" /\ p # End
     /\ IF q = End THEN p' = q /\ state' = "END" /\ UNCHANGED pre
                   ELSE GoesOn(q, {"backslash"})
     /\ Stays /\ UNCHANGED <<line, out>>

WordCalls == state = "WORD" /\ p # End /\ Call /\ called' = p
             /\ UNCHANGED <<text, p, task, stop, state, pre, tip, indent, line, out, error, skipped>>

WordReads == Turn(NameTable, NameLast)
             /\ UNCHANGED <<task, stop, state, pre, tip, indent, line, out, error, called, skipped>>

\* What follows a word, with l in the line.
AfterWord(l) ==
  IF p = End THEN /\ WriteInLine(NewLine, l)
                  /\ state' = "END"
                  /\ UNCHANGED <<p, pre>>
             ELSE /\ line' = l /\ out' = out
                  /\ GoesOn(p, {"backslash", "comment"})

\* The word goes into the line behind its prefix, or without one.  The test for
\* room, line_size - line_ind - length >= 0, is unsigned and always true.
WordFits ==
  /\ reader = "TRUE" /\ buf # <<>>
  /\ \E k \in PrefixSizes :
       LET l == line \o [i \in 1..k |-> PrefixChar] \o buf
       IN IF Len(l) > LineSize
          THEN line' = l /\ state' = "overrun" /\ UNCHANGED <<p, pre, out>>
          ELSE AfterWord(l)
  /\ reader' = "none"
  /\ UNCHANGED <<text, buf, task, stop, error, called, tip, indent, skipped>>

\* An empty word fails the assertion item.check() of match().
WordEmpty ==
  /\ reader = "TRUE" /\ buf = <<>>
  /\ reader' = "none"
  /\ state' = "abort"
  /\ UNCHANGED <<text, p, buf, task, stop, error, called, pre, tip, indent, line, out, skipped>>

\* What name_reader refuses is left out, without an error.
WordRefused ==
  /\ reader = "FALSE"
  /\ AfterWord(line)
  /\ reader' = "none"
  /\ skipped' = skipped \cup called..(p - 1)
  /\ UNCHANGED <<text, buf, task, stop, error, called, tip, indent>>

Other ==
  /\ state = "OTHER" /\ p # End
  /\ WriteInLine(p, line)
  /\ IF p + 1 = End THEN p' = End /\ state' = "END" /\ UNCHANGED pre
                    ELSE GoesOn(p + 1, {"backslash", "comment"})
  /\ Stays

\* An escaped newline and the blanks behind it become one space.
Join ==
  LET q == PastAll(p + 1, Blank)
  IN /\ state = "ESCAPE" /\ p # End /\ text[p] = "newline"
     /\ WriteInLine(Space, line)
     /\ IF q = End THEN p' = End /\ UNCHANGED <<state, pre>>
                   ELSE GoesOn(q, {})
     /\ Stays

\* (mutant) the state before the backslash is taken up again
EscapeReturns ==
  /\ state = "ESCAPE" /\ p # End /\ text[p] # "newline"
  /\ IF text[p] \in NameChar THEN p' = p /\ state' = "ERROR" /\ pre' = state
                             ELSE p' = p - 1 /\ state' = pre /\ pre' = pre
  /\ Stays /\ UNCHANGED <<line, out>>

Escape ==
  /\ state = "ESCAPE" /\ p # End /\ text[p] # "newline"
  /\ IF text[p] \in NameChar THEN p' = p /\ state' = "ERROR" /\ pre' = state
                             ELSE p' = p - 1 /\ state' = "WORD" /\ pre' = pre
  /\ Stays /\ UNCHANGED <<line, out>>

Comment ==
  LET q == PastAll(p, Class \ {"newline"})
  IN /\ state = "COMMENT" /\ p # End
     /\ IF q = End
        THEN p' = End /\ UNCHANGED <<state, line, out>>
        ELSE /\ p' = q + 1
             /\ state' = "BOL"
             /\ IF pre # "BOL" THEN WriteInLine(NewLine, line) ELSE UNCHANGED <<line, out>>
     /\ Stays /\ UNCHANGED pre

-----------------------------------------------------------------------------
\* The state after the test for p == end at the top of both loops.
MakeNow == IF p # End \/ ~Idle THEN state
           ELSE CASE state \in {"READ", "BOL", "OTHER", "COMMENT"} -> "END"
                  [] state \in {"WORD", "ESCAPE"} -> "ERROR"
                  [] OTHER -> state

\* END; jobs_dec() follows.
Succeeds ==
  /\ Idle /\ MakeNow = "END"
  /\ out' = out \o Append(line, NewLine)
  /\ line' = <<>>
  /\ state' = "finished"
  /\ UNCHANGED <<lexed, p, pre, tip, indent, skipped>>

\* ERROR; jobs_dec() follows.
Fails ==
  /\ Idle /\ MakeNow = "ERROR"
  /\ error' = TRUE
  /\ state' = "finished"
  /\ UNCHANGED <<text, p, reader, buf, task, stop, pre, tip, indent, line, out, called, skipped>>

MakeNext == \/ MarkReads \/ MarkReturns \/ Read
            \/ Bol \/ WordCalls \/ WordReads \/ WordFits \/ WordEmpty \/ WordRefused
            \/ Other \/ Join \/ Escape \/ Comment
            \/ Succeeds \/ Fails
=============================================================================
