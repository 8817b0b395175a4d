------------------------------ MODULE DictText ------------------------------
(***************************************************************************)
(* The tasks _defdir and _noextend of src/context.cpp on the text of their *)
(* block: which patterns and prefixes they add to the dictionary, and when *)
(* they report an error.  Regular expressions are not interpreted.         *)
(***************************************************************************)
EXTENDS Lexers

VARIABLES pattern,  \* the pattern read last
          dict      \* what add_item added

\* The states of _defdir that read characters; ESCAPE is split by `pre`.
DefdirTable == {
  Row("PATTERNEND", Blank, "PATTERNEND", No, 0),
  Row("PATTERNEND", {"colon"}, "AHEADPREFIX", No, 0),
  Row("PATTERNEND", {"backslash"}, "ESCAPE_PATTERNEND", No, 0),
  Row("PATTERNEND", Class \ (Blank \cup {"colon", "backslash"}), "ERROR", No, 0),
  Row("PREFIXEND", Blank, "PREFIXEND", No, 0),
  Row("PREFIXEND", {"newline"}, "AHEADPATTERN", No, 0),
  Row("PREFIXEND", {"backslash"}, "ESCAPE_PREFIXEND", No, 0),
  Row("PREFIXEND", {"comment"}, "COMMENT", No, 0),
  Row("PREFIXEND", Class \ (Blank \cup {"newline", "backslash", "comment"}), "ERROR", No, 0),
  Row("COMMENT", {"newline"}, "AHEADPATTERN", No, 0),
  Row("COMMENT", Class \ {"newline"}, "COMMENT", No, 0),
  Row("ESCAPE_PATTERNEND", {"newline"}, "PATTERNEND", No, 0),
  Row("ESCAPE_PREFIXEND", {"newline"}, "PREFIXEND", No, 0),
  Row("ESCAPE_PATTERNEND", Class \ {"newline"}, "ERROR", No, 0),
  Row("ESCAPE_PREFIXEND", Class \ {"newline"}, "ERROR", No, 0)}

\* Where the block may end.
DefdirLast == {"AHEADPATTERN", "PREFIXEND", "COMMENT", "END"}

\* The state after the test at the top of the loop.  A call that runs or has just
\* returned is inside the switch, and a task that has ended has left the loop.
DictNow == IF p # End \/ ~Idle \/ state \in {"finished", "abort"} THEN state
           ELSE IF state \in DefdirLast THEN "END" ELSE "ERROR"

Calls == Idle /\ DictNow \in {"AHEADPATTERN", "AHEADPREFIX"} /\ Call
         /\ UNCHANGED <<text, p, task, state, pattern, dict, error>>

\* A turn of the reader that runs: name_reader for a prefix, else regex_reader.
Reads == /\ IF state = "AHEADPREFIX" THEN Turn(NameTable, NameLast)
                                     ELSE Turn(RegexTable, RegexLast)
         /\ UNCHANGED <<task, state, pattern, dict, error>>

Returns(result) == reader = result /\ reader' = "none" /\ UNCHANGED <<text, p, buf, task, error>>

\* regex_reader failed: with nothing in the buffer the block counts as read.
NoPattern ==
  /\ state = "AHEADPATTERN"
  /\ Returns("FALSE")
  /\ state' = IF buf = <<>> THEN "END" ELSE "ERROR"
  /\ UNCHANGED <<pattern, dict>>

PatternOfDefdir ==
  /\ task = "defdir" /\ state = "AHEADPATTERN"
  /\ Returns("TRUE")
  /\ pattern' = buf
  /\ state' = "PATTERNEND"
  /\ UNCHANGED dict

\* add_item; it asserts item.check() of the pattern.
AddItem(pat, pre, next) ==
  /\ dict' = IF pat = <<>> THEN dict ELSE Append(dict, [pattern |-> pat, prefix |-> pre])
  /\ state' = IF pat = <<>> THEN "abort" ELSE next

PatternOfNoextend ==
  /\ task = "noextend" /\ state = "AHEADPATTERN"
  /\ Returns("TRUE")
  /\ AddItem(buf, <<>>, "AHEADPATTERN")
  /\ UNCHANGED pattern

\* (mutant) the rest of the line is not read
PrefixEndsLine ==
  /\ state = "AHEADPREFIX"
  /\ \/ /\ Returns("TRUE")
        /\ AddItem(pattern, buf, "AHEADPATTERN")
     \/ /\ Returns("FALSE")
        /\ state' = "ERROR"
        /\ UNCHANGED dict
  /\ UNCHANGED pattern

\* (mutant) the prefix is stored and the pattern of the pair before it kept
PrefixKeepsPattern ==
  /\ state = "AHEADPREFIX"
  /\ \/ /\ Returns("TRUE")
        /\ AddItem(IF dict = <<>> THEN pattern ELSE dict[1].pattern, buf, "PREFIXEND")
     \/ /\ Returns("FALSE")
        /\ state' = "ERROR"
        /\ UNCHANGED dict
  /\ UNCHANGED pattern

Prefix ==
  /\ state = "AHEADPREFIX"
  /\ \/ /\ Returns("TRUE")
        /\ AddItem(pattern, buf, "PREFIXEND")
     \/ /\ Returns("FALSE")
        /\ state' = "ERROR"
        /\ UNCHANGED dict
  /\ UNCHANGED pattern

\* A character between patterns and prefixes.
Passes ==
  /\ Idle
  /\ \E row \in DefdirTable :
       /\ row.from = DictNow /\ text[p] \in row.on
       /\ state' = row.to
  /\ p' = p + 1
  /\ UNCHANGED <<text, reader, buf, task, pattern, dict, error>>

\* ERROR sets the flag; dict.finish() and jobs_dec() follow in every case.
Finishes ==
  /\ Idle
  /\ DictNow \in {"END", "ERROR"}
  /\ error' = (error \/ DictNow = "ERROR")
  /\ state' = "finished"
  /\ UNCHANGED <<text, p, reader, buf, task, pattern, dict>>

DictNext == \/ Calls \/ Reads \/ NoPattern \/ PatternOfDefdir \/ PatternOfNoextend
            \/ Prefix \/ Passes \/ Finishes
=============================================================================
