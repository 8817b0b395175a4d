----------------------------- MODULE BlockText -----------------------------
(***************************************************************************)
(* The four tasks on the text of their block: what goes where.             *)
(***************************************************************************)
EXTENDS DictText, MakeText

vars == <<task, text, p, state, error, reader, buf, pattern, dict,
          stop, pre, tip, indent, line, out, called, skipped>>
dictVars == <<pattern, dict>>
makeVars == <<stop, pre, tip, indent, line, out, called, skipped>>

ForDict == task \in {"defdir", "noextend"}

\* Another task may have set the flag before this one starts (check_err); raw and make
\* test it behind read_mark.  The line form of a block, for raw and make, ends at a
\* newline that is not escaped, or at a comment.
Init ==
  /\ task \in Task
  /\ text \in Text(task)
  /\ error \in BOOLEAN
  /\ state = IF ~ForDict THEN "AHEADMARK" ELSE IF error THEN "END" ELSE "AHEADPATTERN"
  /\ p = 1 /\ reader = "none" /\ buf = <<>>
  /\ pattern = <<>> /\ dict = <<>>
  /\ stop \in {"close"} \cup {s \in {"newline"} : ~ForDict /\ ForLine(text)}
  /\ pre = "ERROR" /\ tip = 0 /\ indent = 0
  /\ line = <<>> /\ out = <<>> /\ called = 0 /\ skipped = {}

Final == {"finished", "abort", "overrun", "past"}

Stopped == state \in Final /\ UNCHANGED vars

Next == \/ ForDict /\ DictNext /\ UNCHANGED makeVars
        \/ ~ForDict /\ MakeNext /\ UNCHANGED dictVars
        \/ Stopped

Spec == Init /\ [][Next]_vars /\ WF_vars(Next)

-----------------------------------------------------------------------------
(* What the tasks took from the text. *)

\* The positions of the block among what was written.
Places(s) == {x \in ToSet(s) : x > 0}
Kept(pair) == Places(pair.pattern) \cup Places(pair.prefix)

\* What is in the dictionary, or in the output and the line.
DictPlaces == UNION {Kept(dict[k]) : k \in DOMAIN dict}
Taken == DictPlaces \cup Places(out) \cup Places(line)

\* The positions in a sequence rise; those of S come before those of T.
Rising(s) == \A i, j \in DOMAIN s : i < j /\ s[i] > 0 /\ s[j] > 0 => s[i] < s[j]
Before(S, T) == \A x \in S, y \in T : x < y

\* The pointers and arrays of the readers.  p stays in the block, also where a reader
\* steps back or a loop skips tabs, blanks or a comment, and *end is never read as a
\* character of a pattern, name or word.  buffer[buffer_size + redundancy_size] is
\* never overrun, neither by a character, one or two of which are written after one
\* test, nor by the '\0' behind a pattern or name.  Nothing is said of p in the raw task
\* on the line form of a block, which passes the end (see StopsAtEnd), nor of line_buf,
\* where the test for room has no effect (see LineFits).
WithinBounds ==
  /\ p >= 1 /\ (p <= End \/ (task = "raw" /\ stop = "newline"))
  /\ \A k \in DOMAIN buf : buf[k] <= Len(text)
  /\ Len(buf) <= BufferSize + Redundancy
  /\ reader = "TRUE" => Len(buf) < BufferSize + Redundancy

\* Through all the steps back of the readers and through a line buffer that fills up,
\* no character of the block comes out twice, and they stay in their order.
InOrder ==
  /\ Rising(out \o line)
  /\ \A k \in DOMAIN dict : Rising(dict[k].pattern \o dict[k].prefix)
  /\ \A k, m \in DOMAIN dict : k < m => Before(Kept(dict[k]), Kept(dict[m]))

\* The characters that must not get lost: a dictionary's syntax may be dropped.
Counted == IF ForDict THEN NameChar ELSE NameChar \cup {"colon", "math", "other"}

\* What a dictionary task passed, or _make, without an error is in the dictionary or
\* the output, or in a comment, or read_mark took it for the mark, or it belongs to a
\* word name_reader refuses.
NothingDropped ==
  task # "raw" /\ state = "finished" /\ ~error /\ indent >= 0 =>
    \A i \in 1..(p - 1) :
      text[i] \in Counted => i \in Taken \cup skipped \/ Commented(text, i)

\* The newline at i ends a logical line.
EndsLine(i) == text[i] = "newline" /\ (Escapes(text)[i] => Commented(text, i))

\* Two pairs of a prefix dictionary are never taken from one logical line.
OwnLines ==
  task = "defdir" =>
    \A k \in 1..(Len(dict) - 1) :
      \E i \in Max(Kept(dict[k]))..Min(Kept(dict[k + 1])) : EndsLine(i)

\* Where the line of position i begins.
LineStart(i) == Max({j \in 1..i : j = 1 \/ text[j - 1] = "newline"})

\* _raw copies the text line by line, without its indentation as far as read_mark
\* found it, and each line of the output ends where a line of the text does.
RawCopies ==
  task = "raw" /\ state = "finished" /\ ~error /\ indent >= 0 =>
    LET begin == Cardinality(skipped) + 1
        Tab(i) == /\ \A j \in Max({LineStart(i), begin})..i : text[j] = "tab"
                  /\ i - Max({LineStart(i), begin}) < indent
        kept == {i \in begin..Len(text) : text[i] # "newline" /\ ~Tab(i)}
    IN /\ Taken = kept
       /\ \A k \in 1..(Len(out) - 1) : out[k] > 0 =>
            (out[k + 1] = NewLine <=> out[k] = Len(text) \/ text[out[k] + 1] = "newline")

\* The first character that is not a tab, on a line that is not empty or a comment.
FirstChar(i) == /\ text[i] \notin {"tab", "newline", "comment"} /\ ~Commented(text, i)
                /\ \A j \in 1..(i - 1) : text[j] \in {"tab", "newline", "comment"} \/ Commented(text, j)

MarkFound == state \in {"READ", "BOL"} /\ out = <<>> /\ line = <<>>
             /\ skipped = 1..(p - 1)

\* The comment on read_mark, for texts without spaces and escapes: the number of tabs
\* to ignore is that of the line that has the first character that is not a tab, and p
\* stops at this character, or at the line after it when it is the mark.
MarkTabs ==
  MarkFound /\ (\A i \in DOMAIN text : text[i] \notin {"space", "backslash"}) =>
    \A i \in DOMAIN text : FirstChar(i) =>
      /\ indent = Cardinality({j \in LineStart(i)..i : text[j] = "tab"})
      /\ \/ p = i
         \/ /\ text[i] = "mark" /\ text[p - 1] = "newline"
            /\ i < p /\ \A j \in i..(p - 2) : text[j] # "newline"

\* All four tasks come to jobs_dec() on every text, or the program stops at an
\* assertion or beyond the bounds of the findings.
Ends == <>(state \in Final)

\* assert(line_ind <= line_size) in writeinline: what is in the line fits into it.
LineFits == Len(line) <= LineSize

\* The comment on Context: a block is what lies before "the char after the real end".
\* A task never runs past it.
StopsAtEnd == state # "past"
=============================================================================
