-------------------------- MODULE BlockTextProofs --------------------------
(***************************************************************************)
(* For every text and every size of the buffers: the four tasks stay in    *)
(* the text of their block and in their buffer, no character of the block  *)
(* comes out twice or out of order, none is lost, two pairs never share a  *)
(* line, _raw copies the lines without their tabs, and read_mark counts    *)
(* the tabs of the mark's line.                                            *)
(***************************************************************************)
EXTENDS BlockText, WellFoundedInduction, SequenceTheorems, FiniteSetTheorems, TLAPS

\* What the proofs use of a row: at most two characters are written, p steps back
\* behind the character just read only from the state that knows one before it, and a
\* character is not written where p steps back over it.
Puts == {No, Char, SlashChar, TwoSlashes}

Sound(row) ==
  /\ row.to \notin {"none", "TRUE", "FALSE"}
  /\ row.put \in Puts
  /\ row.back \in 0..2
  /\ row.back = 2 => row.from = "ESCAPE_NAME"
  /\ row.to = "ESCAPE_NAME" => row.back = 0 /\ row.put = No
  /\ row.back # 0 => row.put \in {No, TwoSlashes}

LEMMA RegexRows == \A row \in RegexTable : Sound(row)
BY SMTT(60) DEF RegexTable, RegexEnds, Row, Sound, Puts

LEMMA NameRows == \A row \in NameTable : Sound(row)
BY SMTT(60) DEF NameTable, NameLineEnd, Row, Sound, Puts

\* The characters a row writes are the one at p and added backslashes.
LEMMA WrittenType ==
  ASSUME NEW put \in Puts, NEW n \in Nat, p \in 1..n
  PROVE  Written(put) \in Seq(0..n) /\ Len(Written(put)) <= 2
<1>1. CASE put = No
  BY <1>1 DEF No, Written
<1>2. CASE put = Char
  BY <1>2 DEF Char, Written, Slash
<1>3. CASE put = SlashChar
  BY <1>3 DEF SlashChar, Written, Slash
<1>4. CASE put = TwoSlashes
  BY <1>4 DEF TwoSlashes, Written, Slash
<1> QED BY <1>1, <1>2, <1>3, <1>4 DEF Puts
-----------------------------------------------------------------------------
\* The block itself, which no step changes.
BlockInv == /\ task \in Task /\ text \in Seq(Class) /\ stop \in {"close", "newline"}
            /\ Len(text) \in Nat /\ End = Len(text) + 1

\* Where the task is: behind the end only where _raw ends, at a newline it passed.
PointerInv ==
  /\ p \in 1..(End + 1)
  /\ p = End + 1 => state = "past"
  /\ state = "past" => task = "raw" /\ stop = "newline"
  /\ state = "READ" => task = "raw"
  /\ ~ForDict /\ state = "ESCAPE" => p >= 2
  /\ tip \in 0..End
  /\ ~ForDict => indent \in Nat \/ state \in {"END", "finished"}
  /\ ~ForDict /\ ~Idle => state = "WORD"

\* What the readers have in the buffer.
BufferInv ==
  /\ buf \in Seq(0..Len(text)) /\ Len(buf) \in Nat /\ Len(buf) <= BufferSize + 1
  /\ reader = "TRUE" => Len(buf) < BufferSize
  /\ reader = "ESCAPE_NAME" => p >= 2

TextInv == BlockInv /\ PointerInv /\ BufferInv

\* The states with a pattern that waits for its prefix.
PatternStates == {"PATTERNEND", "ESCAPE_PATTERNEND", "AHEADPREFIX"}

\* The rows of the other tables lead to no state that PointerInv knows more about.
LEMMA DefdirRows == \A row \in DefdirTable :
  /\ row.from \notin {"END", "ERROR", "finished", "abort"} /\ row.to \notin {"past", "READ", "ESCAPE"}
  /\ row.to \in PatternStates => row.from \in PatternStates
BY DEF DefdirTable, Row, PatternStates

LEMMA MarkRows ==
  \A row \in MarkTable : /\ row.from \notin {"WORD", "END", "finished", "past"}
                         /\ row.to \notin {"past", "READ", "ESCAPE"}
BY DEF MarkTable, MarkRow, EmptyLine, MarkComments

\* A set of numbers that is not empty has a least one.
LEMMA Least ==
  ASSUME NEW T, T \subseteq Nat, T # {}
  PROVE  Min(T) \in T /\ \A y \in T : Min(T) <= y
<1> DEFINE R == OpToRel(<, Nat)
<1>1. IsWellFoundedOn(R, Nat)
  BY NatLessThanWellFounded
<1>2. \A x, y \in Nat : <<y, x>> \in R <=> y < x
  BY DEF OpToRel
<1> HIDE DEF R
<1>3. PICK x \in T : \A y \in T : <<y, x>> \notin R
  BY <1>1, WFMin
<1>4. ASSUME NEW y \in T PROVE x <= y
  <2>1. x \in Nat /\ y \in Nat /\ ~(y < x)
    BY <1>2, <1>3
  <2> QED BY <2>1
<1> QED BY <1>4 DEF Min

\* A loop that skips characters stops in the block, or at its end.
LEMMA PastAllFacts ==
  ASSUME BlockInv, NEW i \in 1..End, NEW chars
  PROVE  /\ PastAll(i, chars) \in i..End
         /\ PastAll(i, chars) = End \/ text[PastAll(i, chars)] \notin chars
         /\ \A j \in i..PastAll(i, chars) - 1 : text[j] \in chars
<1> DEFINE T == {j \in i..End : j = End \/ text[j] \notin chars}
<1>1. End \in T /\ T \subseteq Nat
  BY DEF BlockInv
<1>2. PastAll(i, chars) = Min(T)
  BY DEF PastAll
<1>3. Min(T) \in T /\ \A j \in T : Min(T) <= j
  <2> HIDE DEF T
  <2> QED BY <1>1, Least
<1>4. PICK m : m = Min(T)
  OBVIOUS
<1>5. m \in i..End /\ (m = End \/ text[m] \notin chars)
  BY <1>3, <1>4
<1>6. ASSUME NEW j \in i..m - 1 PROVE text[j] \in chars
  <2>1. j \in i..End /\ ~(m <= j) /\ j # End
    BY <1>5 DEF BlockInv
  <2> QED BY <1>3, <1>4, <2>1
<1> QED BY <1>2, <1>4, <1>5, <1>6

LEMMA ReadTabsFacts ==
  ASSUME BlockInv, NEW i \in 1..End, indent \in Nat
  PROVE  /\ ReadTabs(i) \in i..End /\ ReadTabs(i) <= i + indent
         /\ \A j \in i..ReadTabs(i) - 1 : text[j] = "tab"
         /\ ReadTabs(i) < i + indent => ReadTabs(i) = End \/ text[ReadTabs(i)] # "tab"
<1> DEFINE q == PastAll(i, {"tab"})
<1>1. q \in i..End /\ (q = End \/ text[q] # "tab") /\ \A j \in i..q - 1 : text[j] = "tab"
  BY PastAllFacts
<1>2. ReadTabs(i) = Min({q, i + indent})
  BY DEF ReadTabs
<1> HIDE DEF q
<1>3. q \in Nat /\ i + indent \in Nat
  BY <1>1 DEF BlockInv
<1>4. Min({q, i + indent}) \in {q, i + indent} /\ Min({q, i + indent}) <= q
      /\ Min({q, i + indent}) <= i + indent
  <2> DEFINE S == {q, i + indent}
  <2>1. S \subseteq Nat /\ S # {}
    BY <1>3
  <2>2. Min(S) \in S /\ \A y \in S : Min(S) <= y
    <3> HIDE DEF S
    <3> QED BY <2>1, Least
  <2>3. q \in S /\ i + indent \in S
    OBVIOUS
  <2>4. Min(S) \in {q, i + indent} /\ Min(S) <= q /\ Min(S) <= i + indent
    <3>1. Min(S) \in {q, i + indent}
      BY <2>2
    <3> HIDE DEF S
    <3> QED BY <2>2, <2>3, <3>1
  <2> QED BY <2>4
<1>5. PICK m : m = ReadTabs(i)
  OBVIOUS
<1>6. m \in {q, i + indent} /\ m <= q /\ m <= i + indent
  BY <1>2, <1>4, <1>5
<1>7. m \in i..End
  BY <1>1, <1>3, <1>6 DEF BlockInv
<1>8. \A j \in i..m - 1 : j \in i..q - 1
  BY <1>1, <1>3, <1>6 DEF BlockInv
<1>9. m < i + indent => m = q
  BY <1>3, <1>6
<1> QED BY <1>1, <1>5, <1>6, <1>7, <1>8, <1>9
-----------------------------------------------------------------------------
\* One turn of a reader.
LEMMA TurnStep ==
  ASSUME BlockInv, BufferInv, p \in 1..End, NEW table, NEW last, Turn(table, last),
         \A row \in table : Sound(row)
  PROVE  /\ p' \in 1..End
         /\ buf' \in Seq(0..Len(text)) /\ Len(buf') \in Nat /\ Len(buf') <= BufferSize + 1
         /\ reader' = "TRUE" => Len(buf') < BufferSize
         /\ reader' = "ESCAPE_NAME" => p' >= 2
<1>1. Len(buf) \in Nat /\ BufferSize \in Nat /\ p \in Nat
  BY BufferAssumption DEF BufferInv
<1>2. CASE Checked(last) = "ERROR" /\ reader' = "FALSE" /\ UNCHANGED <<p, buf>>
  BY <1>2 DEF BufferInv
<1>3. CASE Checked(last) = "END" /\ reader' = "TRUE" /\ UNCHANGED <<p, buf>>
  <2>1. Len(buf) < BufferSize
    BY <1>1, <1>3 DEF Checked
  <2> QED BY <1>3, <2>1 DEF BufferInv
<1>4. ASSUME Checked(last) \notin {"ERROR", "END"}, NEW row \in table,
             row.from = Checked(last), reader' = row.to, buf' = buf \o Written(row.put),
             p' = p + 1 - row.back
      PROVE  /\ p' \in 1..End
             /\ buf' \in Seq(0..Len(text)) /\ Len(buf') \in Nat /\ Len(buf') <= BufferSize + 1
             /\ reader' = "TRUE" => Len(buf') < BufferSize
             /\ reader' = "ESCAPE_NAME" => p' >= 2
  <2>1. Len(buf) < BufferSize /\ p # End /\ Checked(last) = reader
    BY <1>1, <1>4 DEF Checked
  <2>2. p \in 1..Len(text) /\ Sound(row)
    BY <2>1 DEF BlockInv
  <2>3. row.back \in 0..2 /\ (row.back = 2 => p >= 2) /\ (row.to = "ESCAPE_NAME" => row.back = 0)
        /\ row.to # "TRUE"
    BY <1>4, <2>1, <2>2 DEF Sound, BufferInv
  <2>4. Written(row.put) \in Seq(0..Len(text)) /\ Len(Written(row.put)) <= 2
    BY <2>2, WrittenType DEF Sound, BlockInv
  <2>5. /\ buf' \in Seq(0..Len(text))
        /\ Len(buf') = Len(buf) + Len(Written(row.put))
    BY <1>4, <2>4, ConcatProperties DEF BufferInv
  <2> QED BY <1>1, <1>4, <2>1, <2>2, <2>3, <2>4, <2>5 DEF BlockInv
<1> QED BY <1>2, <1>3, <1>4 DEF Turn
-----------------------------------------------------------------------------
LEMMA DictStep ==
  ASSUME TextInv, ForDict, DictNext, UNCHANGED makeVars
  PROVE  TextInv'
<1> USE DEF TextInv
<1>0. BlockInv' /\ task' = task
  BY DEF BlockInv, makeVars, DictNext, Calls, Reads, NoPattern, PatternOfDefdir, PatternOfNoextend,
         Prefix, Passes, Finishes, Returns, Call, Turn, End
<1>1. task # "raw" /\ state \notin {"past", "READ"} /\ p \in 1..End
  BY DEF ForDict, PointerInv, BlockInv
<1>2. SUFFICES /\ p' \in 1..End /\ state' \notin {"past", "READ"} /\ UNCHANGED text /\ BufferInv'
  BY <1>0, <1>1, <1>2 DEF PointerInv, BlockInv, makeVars, ForDict
<1>3. CASE Calls
  BY <1>1, <1>3, BufferAssumption DEF Calls, Call, BufferInv
<1>4. CASE Reads
  BY <1>1, <1>4, TurnStep, RegexRows, NameRows DEF Reads, Turn, BufferInv
<1>5. CASE NoPattern \/ PatternOfDefdir \/ PatternOfNoextend \/ Prefix
  BY <1>1, <1>5 DEF NoPattern, PatternOfDefdir, PatternOfNoextend, Prefix, Returns, AddItem, BufferInv
<1>6. CASE Passes
  BY <1>1, <1>6, DefdirRows DEF Passes, DictNow, BufferInv, BlockInv, Idle
<1>7. CASE Finishes
  BY <1>1, <1>7 DEF Finishes, BufferInv
<1> QED BY <1>3, <1>4, <1>5, <1>6, <1>7 DEF DictNext
\* How _make goes on at a character.
LEMMA GoesOnFacts ==
  ASSUME BlockInv, NEW i \in 1..End, i # End, NEW notes, GoesOn(i, notes)
  PROVE  /\ p' \in 1..End /\ state' \in {"BOL", "ESCAPE", "COMMENT", "WORD", "OTHER"}
         /\ state' = "ESCAPE" => p' >= 2
<1>1. i \in 1..Len(text) /\ i \in Nat /\ Len(text) \in Nat /\ End = Len(text) + 1
  BY DEF BlockInv
<1>2. state' \in {"BOL", "ESCAPE", "COMMENT", "WORD", "OTHER"}
  BY DEF GoesOn, StateFor
<1>3. state' = "ESCAPE" => text[i] = "backslash"
  BY DEF GoesOn, StateFor
<1>4. p' = IF text[i] \in {"newline", "backslash", "comment"} THEN i + 1 ELSE i
  BY DEF GoesOn
<1> QED BY <1>1, <1>2, <1>3, <1>4

LEMMA AfterWordFacts ==
  ASSUME BlockInv, p \in 1..End, NEW l, AfterWord(l)
  PROVE  /\ p' \in 1..End /\ state' \notin {"past", "READ"}
         /\ state' = "ESCAPE" => p' >= 2
<1>1. CASE p = End
  BY <1>1 DEF AfterWord
<1>2. CASE p # End
  BY <1>2, GoesOnFacts DEF AfterWord
<1> QED BY <1>1, <1>2

\* A step of a task that leaves the reader alone, and the mark behind.
LEMMA Walks ==
  ASSUME TextInv, ~ForDict, UNCHANGED <<text, task, stop, reader, buf, tip>>, Idle,
         indent' \in Nat \/ state' \in {"END", "finished"},
         p' \in 1..End, state' \notin {"past", "READ"},
         state' = "ESCAPE" => p' >= 2
  PROVE  TextInv'
<1>1. BlockInv'
  BY DEF TextInv, BlockInv, End
<1>2. BufferInv'
  BY BufferAssumption DEF TextInv, BufferInv, Idle
<1>3. PointerInv'
  BY DEF TextInv, PointerInv, BlockInv, ForDict, End, Idle
<1> QED BY <1>1, <1>2, <1>3 DEF TextInv

LEMMA MakeStep ==
  ASSUME TextInv, ~ForDict, MakeNext, UNCHANGED dictVars
  PROVE  TextInv'
<1> USE DEF TextInv
<1>0. state = "past" \/ p \in 1..End
  BY DEF PointerInv, BlockInv
<1>1. CASE MarkReads
  <2>1. PICK row \in MarkTable :
          /\ row.from = state /\ state' = row.to
          /\ indent' = CASE row.tabs = "add" -> indent + 1
                         [] row.tabs = "zero" -> 0
                         [] OTHER -> indent
          /\ tip' = CASE row.tip = "here" -> p [] row.tip = "next" -> p + 1 [] OTHER -> tip
          /\ p' = p + 1
    BY <1>1 DEF MarkReads
  <2>2. state \notin {"WORD", "END", "finished", "past"} /\ state' \notin {"past", "READ", "ESCAPE"}
    BY <2>1, MarkRows
  <2>3. p # End
    BY <1>1 DEF MarkReads
  <2>4. indent' \in Nat
    BY <2>1, <2>2 DEF PointerInv
  <2>5. tip' \in 0..End /\ p' \in 1..End
    BY <1>0, <2>1, <2>2, <2>3 DEF PointerInv, BlockInv
  <2>6. Idle /\ UNCHANGED <<text, task, stop, reader, buf>>
    BY <1>1, <2>2 DEF MarkReads, PointerInv, lexed
  <2> QED BY <1>0, <2>2, <2>4, <2>5, <2>6 DEF PointerInv, BufferInv, BlockInv, ForDict, End, Idle
<1>2. CASE MarkReturns
  <2>1. state = "MARKED" \/ \E row \in MarkTable : row.from = state
    BY <1>2 DEF MarkReturns, MarkStates
  <2>2. state \notin {"WORD", "END", "finished", "past"}
    BY <2>1, MarkRows
  <2>3. p' \in 1..End
    BY <1>0, <1>2, <2>2 DEF MarkReturns, PointerInv, BlockInv
  <2>4. Idle /\ indent \in Nat /\ (indent' \in Nat \/ state' = "END")
    BY <1>2, <2>2 DEF MarkReturns, PointerInv
  <2>5. state' \in {"END", "BOL"} \/ (state' = "READ" /\ task = "raw")
    BY <1>2 DEF MarkReturns
  <2>6. UNCHANGED <<text, task, stop, reader, buf, tip>>
    BY <1>2 DEF MarkReturns, lexed
  <2> QED BY <2>3, <2>4, <2>5, <2>6 DEF PointerInv, BufferInv, BlockInv, ForDict, End, Idle
<1>3. CASE Read
  <2> DEFINE q == ReadTabs(p)
             e == PastAll(q, Class \ {"newline"})
  <2>1. state = "READ" /\ Idle /\ task = "raw" /\ indent \in Nat /\ p \in 1..End
    BY <1>0, <1>3 DEF Read, PointerInv
  <2>2. q \in 1..End
    BY <2>1, ReadTabsFacts DEF BlockInv
  <2>3. e \in q..End
    BY <2>2, PastAllFacts
  <2>4. \/ e - q >= LineSize /\ p' = q + LineSize /\ state' = "ERROR"
        \/ /\ p' = PassNewline(e)
           /\ state' = IF p' = End THEN "END" ELSE IF p' > End THEN "past" ELSE "READ"
    BY <1>3 DEF Read
  <2>5. UNCHANGED <<text, task, stop, reader, buf, tip, indent>>
    BY <1>3 DEF Read, lexed
  <2> HIDE DEF q, e
  <2>6. p' \in 1..End \/ (p' = End + 1 /\ stop = "newline")
    BY <2>2, <2>3, <2>4, MakeAssumption DEF PassNewline, BlockInv
  <2>7. /\ p' = End + 1 <=> state' = "past"
        /\ state' \in {"ERROR", "END", "READ", "past"}
    <3>1. CASE e - q >= LineSize /\ p' = q + LineSize /\ state' = "ERROR"
      BY <2>2, <2>3, <3>1, MakeAssumption DEF BlockInv
    <3>2. CASE state' = IF p' = End THEN "END" ELSE IF p' > End THEN "past" ELSE "READ"
      BY <2>6, <3>2 DEF BlockInv
    <3> QED BY <2>4, <3>1, <3>2
  <2> QED BY <2>1, <2>5, <2>6, <2>7 DEF PointerInv, BufferInv, BlockInv, ForDict, End, Idle
<1>4. CASE Bol
  <2>1. state = "BOL" /\ Idle /\ indent \in Nat /\ p \in 1..End
    BY <1>0, <1>4 DEF Bol, PointerInv
  <2>2. ReadTabs(p) \in 1..End
    BY <2>1, ReadTabsFacts DEF BlockInv
  <2>3. p' \in 1..End /\ state' \notin {"past", "READ"} /\ (state' = "ESCAPE" => p' >= 2)
    BY <1>4, <2>2, GoesOnFacts DEF Bol
  <2> QED BY <1>4, <2>1, <2>3, Walks DEF Bol, Stays, lexed
<1>5. CASE WordCalls
  BY <1>0, <1>5, BufferAssumption DEF WordCalls, Call, PointerInv, BufferInv, BlockInv, ForDict, End, Idle
<1>6. CASE WordReads
  <2>1. state = "WORD" /\ p \in 1..End
    BY <1>0, <1>6 DEF WordReads, Turn, Reading, PointerInv, Idle
  <2>2. /\ p' \in 1..End
        /\ buf' \in Seq(0..Len(text)) /\ Len(buf') \in Nat /\ Len(buf') <= BufferSize + 1
        /\ reader' = "TRUE" => Len(buf') < BufferSize
        /\ reader' = "ESCAPE_NAME" => p' >= 2
    BY <1>6, <2>1, TurnStep, NameRows DEF WordReads
  <2> QED BY <1>6, <2>1, <2>2 DEF WordReads, Turn, PointerInv, BufferInv, BlockInv, ForDict, End
<1>7. CASE WordFits \/ WordEmpty \/ WordRefused
  <2>1. state = "WORD" /\ indent \in Nat /\ p \in 1..End
    BY <1>0, <1>7 DEF WordFits, WordEmpty, WordRefused, PointerInv, Idle
  <2>2. /\ reader' = "none" /\ UNCHANGED <<text, buf, task, stop, tip, indent>>
        /\ \/ p' = p /\ state' \in {"overrun", "abort"}
           \/ \E l : AfterWord(l)
    BY <1>7 DEF WordFits, WordEmpty, WordRefused
  <2>3. p' \in 1..End /\ state' \notin {"past", "READ"} /\ (state' = "ESCAPE" => p' >= 2)
    BY <2>1, <2>2, AfterWordFacts
  <2> QED BY <2>1, <2>2, <2>3 DEF PointerInv, BufferInv, BlockInv, ForDict, End, Idle
<1>8. CASE Other
  <2>1. state = "OTHER" /\ Idle /\ indent \in Nat /\ p \in 1..End /\ p + 1 \in 1..End
    BY <1>0, <1>8 DEF Other, PointerInv, BlockInv
  <2>2. p' \in 1..End /\ state' \notin {"past", "READ"} /\ (state' = "ESCAPE" => p' >= 2)
    BY <1>8, <2>1, GoesOnFacts DEF Other
  <2> QED BY <1>8, <2>1, <2>2, Walks DEF Other, Stays, lexed
<1>9. CASE Join
  <2>1. state = "ESCAPE" /\ Idle /\ indent \in Nat /\ p \in 1..End /\ p + 1 \in 1..End
    BY <1>0, <1>9 DEF Join, PointerInv, BlockInv
  <2>2. PastAll(p + 1, Blank) \in 1..End /\ End >= 2
    BY <2>1, PastAllFacts DEF BlockInv
  <2>3. p' \in 1..End /\ state' \notin {"past", "READ"} /\ (state' = "ESCAPE" => p' >= 2)
    BY <1>9, <2>1, <2>2, GoesOnFacts DEF Join
  <2> QED BY <1>9, <2>1, <2>3, Walks DEF Join, Stays, lexed
<1>10. CASE Escape
  <2>1. state = "ESCAPE" /\ Idle /\ indent \in Nat /\ p \in 1..End /\ p >= 2
    BY <1>0, <1>10 DEF Escape, PointerInv
  <2>2. p' \in 1..End /\ state' \in {"ERROR", "WORD"}
    BY <1>10, <2>1 DEF Escape, BlockInv
  <2> QED BY <1>10, <2>1, <2>2, Walks DEF Escape, Stays, lexed
<1>11. CASE Comment
  <2>1. state = "COMMENT" /\ Idle /\ indent \in Nat /\ p \in 1..End
    BY <1>0, <1>11 DEF Comment, PointerInv
  <2>2. PastAll(p, Class \ {"newline"}) \in 1..End
    BY <2>1, PastAllFacts DEF BlockInv
  <2>3. p' \in 1..End /\ state' \in {"COMMENT", "BOL"}
    BY <1>11, <2>1, <2>2 DEF Comment, BlockInv
  <2> QED BY <1>11, <2>1, <2>3, Walks DEF Comment, Stays, lexed
<1>12. CASE Succeeds \/ Fails
  <2>1. /\ Idle /\ state' = "finished" /\ UNCHANGED <<text, task, stop, reader, buf, tip, p>>
        /\ MakeNow \in {"END", "ERROR"}
    BY <1>12 DEF Succeeds, Fails, lexed
  <2>2. state # "past"
    BY <2>1 DEF MakeNow
  <2> QED BY <1>0, <2>1, <2>2, Walks
<1> QED BY <1>1, <1>2, <1>3, <1>4, <1>5, <1>6, <1>7, <1>8, <1>9, <1>10, <1>11, <1>12 DEF MakeNext
-----------------------------------------------------------------------------
(* What was written, in order. *)

\* The places of what is written one behind the other.
LEMMA PlacesJoin ==
  ASSUME NEW s \in Seq(Int), NEW t \in Seq(Int)
  PROVE  /\ s \o t \in Seq(Int) /\ Places(s \o t) = Places(s) \cup Places(t)
         /\ Rising(s) /\ Rising(t) /\ Before(Places(s), Places(t)) => Rising(s \o t)
<1> DEFINE u == s \o t
<1>1. /\ Len(s) \in Nat /\ Len(t) \in Nat /\ u \in Seq(Int) /\ Len(u) = Len(s) + Len(t)
      /\ \A i \in 1..Len(s) : u[i] = s[i]
      /\ \A i \in 1..Len(t) : u[Len(s) + i] = t[i]
  BY ConcatProperties
<1>2. /\ DOMAIN s = 1..Len(s) /\ DOMAIN t = 1..Len(t) /\ DOMAIN u = 1..Len(s) + Len(t)
      /\ \A i \in 1..Len(s) : s[i] \in Int
      /\ \A i \in 1..Len(t) : t[i] \in Int
  BY <1>1
<1> HIDE DEF u
<1>3. \A i \in 1..Len(s) + Len(t) : i \in 1..Len(s) \/ (i - Len(s) \in 1..Len(t) /\ u[i] = t[i - Len(s)])
  <2> SUFFICES ASSUME NEW i \in 1..Len(s) + Len(t), i \notin 1..Len(s)
               PROVE  i - Len(s) \in 1..Len(t) /\ u[i] = t[i - Len(s)]
    OBVIOUS
  <2>1. i - Len(s) \in 1..Len(t) /\ Len(s) + (i - Len(s)) = i
    BY <1>1
  <2> QED BY <1>1, <2>1
<1>4. Places(u) = Places(s) \cup Places(t)
  <2>1. \A i \in 1..Len(t) : Len(s) + i \in 1..Len(s) + Len(t)
    BY <1>1
  <2>2. \A i \in 1..Len(s) : i \in 1..Len(s) + Len(t)
    BY <1>1
  <2>3. ASSUME NEW x \in ToSet(u) PROVE x \in ToSet(s) \cup ToSet(t)
    <3>1. PICK i \in 1..Len(s) + Len(t) : x = u[i]
      BY <1>2 DEF ToSet
    <3> QED BY <1>1, <1>2, <1>3, <3>1 DEF ToSet
  <2>4. ASSUME NEW x \in ToSet(s) \cup ToSet(t) PROVE x \in ToSet(u)
    <3>1. CASE x \in ToSet(s)
      <4>1. PICK i \in 1..Len(s) : x = s[i]
        BY <1>2, <3>1 DEF ToSet
      <4> QED BY <1>1, <1>2, <2>2, <4>1 DEF ToSet
    <3>2. CASE x \in ToSet(t)
      <4>1. PICK i \in 1..Len(t) : x = t[i]
        BY <1>2, <3>2 DEF ToSet
      <4> QED BY <1>1, <1>2, <2>1, <4>1 DEF ToSet
    <3> QED BY <2>4, <3>1, <3>2
  <2>5. ToSet(u) = ToSet(s) \cup ToSet(t)
    BY <2>3, <2>4
  <2> QED BY <2>5 DEF Places
<1>5. ASSUME Rising(s), Rising(t), Before(Places(s), Places(t)) PROVE Rising(u)
  <2> SUFFICES ASSUME NEW i \in 1..Len(s) + Len(t), NEW j \in 1..Len(s) + Len(t), i < j, u[i] > 0, u[j] > 0
               PROVE  u[i] < u[j]
    BY <1>2 DEF Rising
  <2>1. CASE j \in 1..Len(s)
    <3>1. i \in 1..Len(s)
      BY <1>1, <2>1
    <3>2. s[i] = u[i] /\ s[j] = u[j] /\ s[i] > 0 /\ s[j] > 0
      BY <1>1, <2>1, <3>1
    <3> QED BY <1>2, <1>5, <2>1, <3>1, <3>2 DEF Rising
  <2>2. CASE j \notin 1..Len(s) /\ i \in 1..Len(s)
    <3>1. j - Len(s) \in 1..Len(t) /\ u[j] = t[j - Len(s)] /\ u[i] = s[i]
      BY <1>1, <1>3, <2>2
    <3>2. u[i] \in Places(s) /\ u[j] \in Places(t)
      BY <1>2, <2>2, <3>1 DEF Places, ToSet
    <3> QED BY <1>5, <3>2 DEF Before
  <2>3. CASE j \notin 1..Len(s) /\ i \notin 1..Len(s)
    <3>1. /\ j - Len(s) \in 1..Len(t) /\ u[j] = t[j - Len(s)]
          /\ i - Len(s) \in 1..Len(t) /\ u[i] = t[i - Len(s)]
      BY <1>3, <2>3
    <3>2. i - Len(s) < j - Len(s)
      BY <1>1
    <3> QED BY <1>2, <1>5, <3>1, <3>2 DEF Rising
  <2> QED BY <2>1, <2>2, <2>3
<1> QED BY <1>1, <1>4, <1>5 DEF u

\* One thing more, behind the others.
LEMMA PlacesAppend ==
  ASSUME NEW s \in Seq(Int), NEW x \in Int
  PROVE  /\ Append(s, x) \in Seq(Int)
         /\ Places(Append(s, x)) = Places(s) \cup {y \in {x} : y > 0}
         /\ Rising(s) /\ Before(Places(s), {y \in {x} : y > 0}) => Rising(Append(s, x))
<1>1. PICK t : t = <<x>>
  OBVIOUS
<1>2. t \in Seq(Int) /\ Append(s, x) = s \o t
  BY <1>1
<1>3. Places(t) = {y \in {x} : y > 0} /\ Rising(t)
  BY <1>1 DEF Places, ToSet, Rising
<1> QED BY <1>2, <1>3, PlacesJoin

LEMMA PlacesOfNone == Places(<<>>) = {} /\ Rising(<<>>) /\ <<>> \in Seq(Int)
BY DEF Places, ToSet, Rising

\* What a row writes: the character at p, or nothing of the text.
LEMMA WrittenPlaces ==
  ASSUME NEW put \in Puts, p \in Nat \ {0}
  PROVE  /\ Written(put) \in Seq(Int) /\ Rising(Written(put))
         /\ put \in {No, TwoSlashes} => Places(Written(put)) = {}
         /\ put \in {Char, SlashChar} => Places(Written(put)) = {p}
<1>1. CASE put = No
  BY <1>1 DEF No, Char, SlashChar, Written, Places, ToSet, Rising
<1>2. CASE put = Char
  <2>1. PICK t : t = Written(put)
    OBVIOUS
  <2>2. t \in Seq(Int) /\ DOMAIN t = {1} /\ t[1] = p
    BY <1>2, <2>1 DEF Char, Written
  <2>3. ToSet(t) = {p}
    BY <2>2 DEF ToSet
  <2>4. Places(t) = {p} /\ Rising(t)
    BY <2>2, <2>3 DEF Places, Rising
  <2>5. Char # No /\ Char # TwoSlashes
    BY DEF No, TwoSlashes, Char
  <2> QED BY <1>2, <2>1, <2>2, <2>4, <2>5
<1>3. CASE put = SlashChar
  <2>1. PICK t : t = Written(put)
    OBVIOUS
  <2>2. t \in Seq(Int) /\ DOMAIN t = 1..2 /\ t[1] = 0 /\ t[2] = p
    BY <1>3, <2>1 DEF SlashChar, Written, Slash
  <2>3. ToSet(t) = {0, p}
    BY <2>2 DEF ToSet
  <2>4. Places(t) = {p} /\ Rising(t)
    BY <2>2, <2>3 DEF Places, Rising
  <2>5. SlashChar # No /\ SlashChar # TwoSlashes
    BY DEF No, TwoSlashes, SlashChar
  <2> QED BY <1>3, <2>1, <2>2, <2>4, <2>5
<1>4. CASE put = TwoSlashes
  <2>1. PICK t : t = Written(put)
    OBVIOUS
  <2>2. t \in Seq(Int) /\ DOMAIN t = 1..2 /\ t[1] = 0 /\ t[2] = 0
    BY <1>4, <2>1 DEF TwoSlashes, Written, Slash
  <2>3. ToSet(t) = {0}
    BY <2>2 DEF ToSet
  <2>4. Places(t) = {} /\ Rising(t)
    BY <2>2, <2>3 DEF Places, Rising
  <2>5. TwoSlashes # Char /\ TwoSlashes # SlashChar
    BY DEF Char, TwoSlashes, SlashChar
  <2> QED BY <1>4, <2>1, <2>2, <2>4, <2>5
<1> QED BY <1>1, <1>2, <1>3, <1>4 DEF Puts
-----------------------------------------------------------------------------
(* No character twice, and in order. *)

\* Where the task has come to: it may step back over the backslash it read last.
Bound == IF reader = "ESCAPE_NAME" \/ state = "ESCAPE" THEN p - 1 ELSE p

Behind(S) == \A x \in S : x < Bound

LEMMA BufferType == BlockInv /\ BufferInv => buf \in Seq(Int)
<1> SUFFICES ASSUME BlockInv, BufferInv PROVE buf \in Seq(Int)
  OBVIOUS
<1>1. 0..Len(text) \subseteq Int
  BY DEF BlockInv
<1> QED BY <1>1 DEF BufferInv

\* A turn of a reader goes on, and writes what it came to behind what it has.
LEMMA TurnOrder ==
  ASSUME BlockInv, BufferInv, p \in 1..End, state # "ESCAPE", state' = state,
         NEW table, NEW last, Turn(table, last), \A row \in table : Sound(row),
         Rising(buf), Behind(Places(buf))
  PROVE  /\ Bound \in Int /\ Bound' \in Int /\ Bound <= Bound'
         /\ Rising(buf') /\ \A x \in Places(buf') : x < Bound' /\ (x \in Places(buf) \/ x >= Bound)
<1>1. p \in Int /\ Bound \in Int
  BY DEF BlockInv, Bound
<1>2. CASE reader' \in {"TRUE", "FALSE"} /\ UNCHANGED <<p, buf>>
  <2>1. Bound' = p /\ Bound <= p
    BY <1>1, <1>2 DEF Bound
  <2>2. \A x \in Places(buf) : x \in Int
    BY BufferType, PlacesOfNone DEF Places, ToSet
  <2>3. Places(buf') = Places(buf) /\ Rising(buf')
    BY <1>2 DEF Places, Rising
  <2> QED BY <1>1, <2>1, <2>2, <2>3 DEF Behind
<1>3. ASSUME Checked(last) \notin {"ERROR", "END"}, NEW row \in table,
             row.from = Checked(last), reader' = row.to, buf' = buf \o Written(row.put),
             p' = p + 1 - row.back
      PROVE  /\ Bound' \in Int /\ Bound <= Bound'
             /\ Rising(buf') /\ \A x \in Places(buf') : x < Bound' /\ (x \in Places(buf) \/ x >= Bound)
  <2>1. Checked(last) = reader /\ Sound(row)
    BY <1>3 DEF Checked
  <2>2. /\ row.put \in Puts /\ row.back \in 0..2
        /\ row.back = 2 => reader = "ESCAPE_NAME"
        /\ reader' = "ESCAPE_NAME" => row.back = 0 /\ row.put = No
        /\ row.back # 0 => row.put \in {No, TwoSlashes}
    BY <1>3, <2>1 DEF Sound
  <2>3. PICK t : t = Written(row.put)
    OBVIOUS
  <2>4. /\ t \in Seq(Int) /\ Rising(t) /\ Places(t) \subseteq {p}
        /\ row.put \in {No, TwoSlashes} => Places(t) = {}
    BY <1>1, <2>2, <2>3, WrittenPlaces DEF Puts
  <2>5. Bound' = IF reader' = "ESCAPE_NAME" THEN p' - 1 ELSE p'
    BY DEF Bound
  <2>6. Bound' \in Int /\ Bound <= Bound'
    <3>1. CASE reader' = "ESCAPE_NAME"
      BY <1>1, <1>3, <2>2, <2>5, <3>1 DEF Bound
    <3>2. CASE reader' # "ESCAPE_NAME" /\ row.back = 2
      BY <1>1, <1>3, <2>2, <2>5, <3>2 DEF Bound
    <3>3. CASE reader' # "ESCAPE_NAME" /\ row.back \in 0..1
      BY <1>1, <1>3, <2>2, <2>5, <3>3 DEF Bound
    <3> QED BY <2>2, <3>1, <3>2, <3>3
  <2>7. Places(t) # {} => p < Bound'
    BY <1>1, <1>3, <2>2, <2>4, <2>5
  <2>8. \A x \in Places(buf) : x \in Int
    BY BufferType DEF Places, ToSet
  <2>9. Bound <= p
    BY <1>1 DEF Bound
  <2>10. Before(Places(buf), Places(t))
    <3>1. \A x \in Places(buf) : x < p
      BY <1>1, <2>8, <2>9 DEF Behind
    <3> QED BY <2>4, <3>1 DEF Before
  <2>11. Places(buf') = Places(buf) \cup Places(t) /\ Rising(buf')
    BY <1>3, <2>3, <2>4, <2>10, BufferType, PlacesJoin
  <2>12. ASSUME NEW x \in Places(buf') PROVE x < Bound' /\ (x \in Places(buf) \/ x >= Bound)
    <3>1. CASE x \in Places(buf)
      BY <1>1, <2>6, <2>8, <3>1 DEF Behind
    <3>2. CASE x = p /\ Places(t) # {}
      BY <1>1, <2>7, <2>9, <3>2
    <3> QED BY <2>4, <2>11, <3>1, <3>2
  <2> QED BY <2>6, <2>11, <2>12
<1>4. Bound' \in Int /\ Bound <= Bound' /\ Rising(buf')
      /\ \A x \in Places(buf') : x < Bound' /\ (x \in Places(buf) \/ x >= Bound)
  BY <1>1, <1>2, <1>3 DEF Turn
<1> QED BY <1>1, <1>4
-----------------------------------------------------------------------------
(* The dictionaries. *)

\* What a task is about to add to the dictionary.
Waiting == IF state \in PatternStates THEN pattern ELSE <<>>

PairType == [pattern : Seq(Int), prefix : Seq(Int)]

\* A pair in order.
Straight(pair) == /\ pair \in PairType
                  /\ Rising(pair.pattern) /\ Rising(pair.prefix)
                  /\ Before(Places(pair.pattern), Places(pair.prefix))

DictOrder ==
  /\ dict \in Seq(PairType) /\ pattern \in Seq(Int)
  /\ \A k \in DOMAIN dict : Straight(dict[k])
  /\ \A k, m \in DOMAIN dict : k < m => Before(Kept(dict[k]), Kept(dict[m]))
  /\ Behind(DictPlaces)
  /\ Rising(Waiting) /\ Behind(Places(Waiting)) /\ Before(DictPlaces, Places(Waiting))
  /\ ~Idle => /\ Rising(buf) /\ Behind(Places(buf))
              /\ Before(DictPlaces \cup Places(Waiting), Places(buf))

LEMMA DictPlacesType == DictOrder => DictPlaces \subseteq Int /\ Places(Waiting) \subseteq Int
<1> SUFFICES ASSUME DictOrder PROVE DictPlaces \subseteq Int /\ Places(Waiting) \subseteq Int
  OBVIOUS
<1>1. \A s \in Seq(Int) : Places(s) \subseteq Int
  BY DEF Places, ToSet
<1>2. ASSUME NEW k \in DOMAIN dict PROVE Kept(dict[k]) \subseteq Int
  <2>1. dict[k].pattern \in Seq(Int) /\ dict[k].prefix \in Seq(Int)
    BY DEF DictOrder, Straight, PairType
  <2> QED BY <1>1, <2>1 DEF Kept
<1>3. Waiting \in Seq(Int)
  BY DEF DictOrder, Waiting
<1> QED BY <1>1, <1>2, <1>3 DEF DictPlaces

\* A new pair brings its places.
LEMMA AddPlaces ==
  ASSUME dict \in Seq(PairType), NEW pair \in PairType, dict' = Append(dict, pair)
  PROVE  DictPlaces' = DictPlaces \cup Kept(pair)
<1>1. Len(dict) \in Nat /\ DOMAIN dict = 1..Len(dict)
  OBVIOUS
<1>2. /\ DOMAIN dict' = 1..Len(dict) + 1
      /\ \A k \in 1..Len(dict) : dict'[k] = dict[k]
      /\ dict'[Len(dict) + 1] = pair
  BY <1>1
<1>3. \A k \in 1..Len(dict) + 1 : k \in 1..Len(dict) \/ k = Len(dict) + 1
  BY <1>1
<1>4. \A k \in 1..Len(dict) : k \in 1..Len(dict) + 1
  BY <1>1
<1>5. DictPlaces' = UNION {Kept(dict'[k]) : k \in 1..Len(dict) + 1}
  BY <1>2 DEF DictPlaces, Kept, Places
<1>6. ASSUME NEW x \in DictPlaces' PROVE x \in DictPlaces \cup Kept(pair)
  <2>1. PICK k \in 1..Len(dict) + 1 : x \in Kept(dict'[k])
    BY <1>5
  <2>2. (dict'[k] = dict[k] /\ k \in DOMAIN dict) \/ dict'[k] = pair
    BY <1>1, <1>2, <1>3
  <2> QED BY <2>1, <2>2 DEF DictPlaces
<1>7. ASSUME NEW x \in DictPlaces \cup Kept(pair) PROVE x \in DictPlaces'
  <2>1. CASE x \in DictPlaces
    <3>1. PICK k \in 1..Len(dict) : x \in Kept(dict[k])
      BY <1>1, <2>1 DEF DictPlaces
    <3>2. dict'[k] = dict[k] /\ k \in 1..Len(dict) + 1
      BY <1>2, <1>4
    <3> QED BY <1>5, <3>1, <3>2
  <2>2. CASE x \in Kept(pair)
    <3>1. Len(dict) + 1 \in 1..Len(dict) + 1
      BY <1>1
    <3> QED BY <1>2, <1>5, <2>2, <3>1
  <2> QED BY <1>7, <2>1, <2>2
<1> QED BY <1>6, <1>7

\* A new pair behind the others.
LEMMA AddOrder ==
  ASSUME DictOrder, NEW pair, Straight(pair), Before(DictPlaces, Kept(pair)), dict' = Append(dict, pair)
  PROVE  /\ dict' \in Seq(PairType) /\ \A k \in DOMAIN dict' : Straight(dict'[k])
         /\ \A k, m \in DOMAIN dict' : k < m => Before(Kept(dict'[k]), Kept(dict'[m]))
         /\ DictPlaces' = DictPlaces \cup Kept(pair)
<1>1. /\ dict \in Seq(PairType) /\ pair \in PairType /\ Len(dict) \in Nat /\ DOMAIN dict = 1..Len(dict)
      /\ \A k \in 1..Len(dict) : Straight(dict[k])
      /\ \A k, m \in 1..Len(dict) : k < m => Before(Kept(dict[k]), Kept(dict[m]))
  BY DEF DictOrder, Straight
<1>2. /\ dict' \in Seq(PairType) /\ DOMAIN dict' = 1..Len(dict) + 1
      /\ \A k \in 1..Len(dict) : dict'[k] = dict[k]
      /\ dict'[Len(dict) + 1] = pair
  BY <1>1
<1>3. \A k \in 1..Len(dict) + 1 : k \in 1..Len(dict) \/ k = Len(dict) + 1
  BY <1>1
<1>4. \A k \in 1..Len(dict) : k \in 1..Len(dict) + 1
  BY <1>1
<1>5. \A k \in DOMAIN dict' : Straight(dict'[k])
  <2> SUFFICES ASSUME NEW k \in 1..Len(dict) + 1 PROVE Straight(dict'[k])
    BY <1>2
  <2>1. CASE k \in 1..Len(dict)
    <3>1. dict'[k] = dict[k] /\ Straight(dict[k])
      BY <1>1, <1>2, <2>1
    <3> QED BY <3>1
  <2>2. CASE k = Len(dict) + 1
    BY <1>2, <2>2
  <2> QED BY <1>3, <2>1, <2>2
<1>6. ASSUME NEW k \in 1..Len(dict) + 1, NEW m \in 1..Len(dict) + 1, k < m
      PROVE  Before(Kept(dict'[k]), Kept(dict'[m]))
  <2>1. k \in 1..Len(dict) /\ dict'[k] = dict[k]
    BY <1>1, <1>2, <1>3, <1>6
  <2>2. CASE m \in 1..Len(dict)
    <3>1. dict'[m] = dict[m]
      BY <1>2, <2>2
    <3> QED BY <1>1, <1>6, <2>1, <2>2, <3>1
  <2>3. CASE m = Len(dict) + 1
    <3>1. Kept(dict[k]) \subseteq DictPlaces
      BY <1>1, <2>1 DEF DictPlaces
    <3>2. dict'[m] = pair
      BY <1>2, <2>3
    <3> QED BY <2>1, <3>1, <3>2 DEF Before
  <2> QED BY <1>3, <2>2, <2>3
<1>7. DictPlaces' = DictPlaces \cup Kept(pair)
  BY <1>1, AddPlaces
<1> QED BY <1>2, <1>5, <1>6, <1>7

\* A step that adds nothing and goes on.
LEMMA OrderKept ==
  ASSUME DictOrder, Bound \in Int, Bound' \in Int, Bound <= Bound', dict' = dict, pattern' = pattern,
         state' \in PatternStates => state \in PatternStates, Idle' \/ buf' = <<>>
  PROVE  DictOrder'
<1>1. /\ DictPlaces' = DictPlaces /\ DictPlaces \subseteq Int /\ Places(Waiting) \subseteq Int
      /\ Waiting' = Waiting \/ Waiting' = <<>>
  BY DictPlacesType DEF DictPlaces, Waiting, Kept, Places
<1>2. ASSUME NEW S \in SUBSET Int, Behind(S) PROVE \A x \in S : x < Bound'
  BY <1>2 DEF Behind
<1>3. \A x \in DictPlaces \cup Places(Waiting) : x < Bound'
  BY <1>1, <1>2 DEF DictOrder
<1>4. Rising(Waiting') /\ Places(Waiting') \subseteq Places(Waiting)
  BY <1>1, PlacesOfNone DEF DictOrder
<1>5. /\ Rising(Waiting)' /\ Behind(DictPlaces)' /\ Behind(Places(Waiting))'
      /\ Before(DictPlaces, Places(Waiting))'
  BY <1>1, <1>3, <1>4 DEF DictOrder, Behind, Before, Places, Rising
<1>6. (~Idle => /\ Rising(buf) /\ Behind(Places(buf))
                /\ Before(DictPlaces \cup Places(Waiting), Places(buf)))'
  <2> SUFFICES ASSUME buf' = <<>>
               PROVE  (/\ Rising(buf) /\ Behind(Places(buf))
                       /\ Before(DictPlaces \cup Places(Waiting), Places(buf)))'
    BY DEF Idle
  <2>1. Places(buf)' = {} /\ Rising(buf)'
    BY PlacesOfNone DEF Places, Rising
  <2> QED BY <2>1 DEF Behind, Before
<1> QED BY <1>5, <1>6 DEF DictOrder, Straight, Kept, Places, Rising, Before, PairType

LEMMA DictOrderStep ==
  ASSUME TextInv, ForDict, state # "ESCAPE", DictOrder, DictNext, UNCHANGED makeVars
  PROVE  DictOrder' /\ state' # "ESCAPE"
<1> USE DEF TextInv
<1>1. p \in 1..End /\ p \in Int /\ Bound \in Int
  BY DEF ForDict, PointerInv, BlockInv, Bound
<1>2. CASE Calls
  <2>1. p' = p /\ state' = state /\ reader' = "AHEAD" /\ Bound = p /\ buf' = <<>>
        /\ UNCHANGED <<pattern, dict>>
    BY <1>2 DEF Calls, Call, Idle, Bound
  <2>2. Bound' = p
    BY <2>1 DEF Bound
  <2> QED BY <1>1, <2>1, <2>2, OrderKept
<1>3. CASE Reads
  <2>1. UNCHANGED <<state, pattern, dict>> /\ ~Idle
    BY <1>3 DEF Reads, Turn, Reading, Idle
  <2>2. Rising(buf) /\ Behind(Places(buf)) /\ Before(DictPlaces \cup Places(Waiting), Places(buf))
    BY <2>1 DEF DictOrder
  <2>3. /\ Bound \in Int /\ Bound' \in Int /\ Bound <= Bound'
        /\ Rising(buf') /\ \A x \in Places(buf') : x < Bound' /\ (x \in Places(buf) \/ x >= Bound)
    BY <1>1, <1>3, <2>1, <2>2, TurnOrder, RegexRows, NameRows DEF Reads
  <2>4. /\ DictPlaces' = DictPlaces /\ DictPlaces \subseteq Int /\ Places(Waiting) \subseteq Int
        /\ Waiting' = Waiting
    BY <2>1, DictPlacesType DEF DictPlaces, Waiting, Kept, Places
  <2>5. \A x \in DictPlaces \cup Places(Waiting) : x \in Int /\ x < Bound /\ x < Bound'
    BY <2>3, <2>4 DEF DictOrder, Behind
  <2>6. \A y \in Places(buf') : y \in Int
    <3>1. buf' \in Seq(Int)
      <4>1. TextInv'
        BY DictStep
      <4>2. (BlockInv /\ BufferInv => buf \in Seq(Int))'
        BY BufferType, PTL
      <4> QED BY <4>1, <4>2
    <3> QED BY <3>1 DEF Places, ToSet
  <2>7. \A x \in DictPlaces \cup Places(Waiting), y \in Places(buf') : x < y
    BY <1>1, <2>2, <2>3, <2>5, <2>6 DEF Before
  <2>8. Behind(DictPlaces)' /\ Behind(Places(Waiting))' /\ Behind(Places(buf))'
    BY <2>3, <2>4, <2>5 DEF Behind, Places
  <2>9. Before(DictPlaces, Places(Waiting))' /\ Before(DictPlaces \cup Places(Waiting), Places(buf))'
    BY <2>4, <2>7 DEF Before, DictOrder, Places
  <2>10. Rising(Waiting)' /\ Rising(buf)'
    BY <2>3, <2>4 DEF Rising, DictOrder
  <2> QED BY <2>1, <2>8, <2>9, <2>10 DEF DictOrder, Straight, Kept, Places, Rising, Before, PairType
<1>4. CASE NoPattern
  <2>1. p' = p /\ Bound <= p /\ reader' = "none" /\ state' \in {"END", "ERROR"} /\ UNCHANGED <<pattern, dict>>
    BY <1>1, <1>4 DEF NoPattern, Returns, Bound
  <2>2. Bound' = p
    BY <2>1 DEF Bound
  <2> QED BY <1>1, <2>1, <2>2, OrderKept DEF Idle, PatternStates
<1>5. CASE PatternOfDefdir
  <2>1. /\ p' = p /\ Bound = p /\ reader' = "none" /\ state' = "PATTERNEND"
        /\ pattern' = buf /\ UNCHANGED <<dict, buf>> /\ ~Idle /\ state = "AHEADPATTERN"
    BY <1>5 DEF PatternOfDefdir, Returns, Bound, Idle
  <2>2. Bound' = p
    BY <2>1 DEF Bound
  <2>3. Waiting' = buf /\ DictPlaces' = DictPlaces
    BY <2>1 DEF Waiting, PatternStates, DictPlaces, Kept, Places
  <2>4. Rising(Waiting)' /\ Behind(DictPlaces)' /\ Behind(Places(Waiting))' /\ Before(DictPlaces, Places(Waiting))'
    BY <2>1, <2>2, <2>3 DEF DictOrder, Rising, Behind, Before, Places
  <2>5. pattern' \in Seq(Int)
    BY <2>1, BufferType
  <2> QED BY <2>1, <2>4, <2>5 DEF DictOrder, Straight, Kept, Places, Rising, Before, PairType, Idle
<1>6. ASSUME NEW pat, NEW pfx, NEW next, AddItem(pat, pfx, next), pattern' = pattern,
             pat \in Seq(Int), pfx \in Seq(Int), Straight([pattern |-> pat, prefix |-> pfx]),
             Before(DictPlaces, Places(pat) \cup Places(pfx)), Behind(Places(pat) \cup Places(pfx)),
             reader' = "none", p' = p, next \notin PatternStates \cup {"ESCAPE"}
      PROVE  DictOrder' /\ state' # "ESCAPE"
  <2>1. state' \notin PatternStates /\ state' # "ESCAPE"
    BY <1>6 DEF AddItem, PatternStates
  <2>2. Bound' = p /\ Bound <= p
    BY <1>1, <1>6, <2>1 DEF Bound
  <2>3. CASE pat = <<>>
    <3>1. dict' = dict
      BY <1>6, <2>3 DEF AddItem
    <3> QED BY <1>1, <1>6, <2>1, <2>2, <3>1, OrderKept DEF Idle
  <2>4. CASE pat # <<>>
    <3> DEFINE pair == [pattern |-> pat, prefix |-> pfx]
    <3>1. dict' = Append(dict, pair) /\ Kept(pair) = Places(pat) \cup Places(pfx)
      BY <1>6, <2>4 DEF AddItem, Kept
    <3>2. Straight(pair)
      BY <1>6
    <3> HIDE DEF pair
    <3>3. /\ dict' \in Seq(PairType) /\ \A k \in DOMAIN dict' : Straight(dict'[k])
          /\ \A k, m \in DOMAIN dict' : k < m => Before(Kept(dict'[k]), Kept(dict'[m]))
          /\ DictPlaces' = DictPlaces \cup Kept(pair)
      BY <1>6, <3>1, <3>2, AddOrder
    <3>4. DictPlaces' \subseteq Int
      BY <1>6, <3>1, <3>3, DictPlacesType DEF Places, ToSet
    <3>5. \A x \in DictPlaces' : x < p
      BY <1>1, <1>6, <2>2, <3>1, <3>3, <3>4 DEF Behind, DictOrder
    <3>6. Waiting' = <<>>
      BY <2>1 DEF Waiting
    <3>7. Rising(Waiting)' /\ Places(Waiting)' = {}
      BY <3>6, PlacesOfNone DEF Rising, Places
    <3>8. Behind(DictPlaces)' /\ Behind(Places(Waiting))' /\ Before(DictPlaces, Places(Waiting))'
      BY <2>2, <3>5, <3>7 DEF Behind, Before
    <3>9. pattern' \in Seq(Int)
      BY <1>6 DEF DictOrder
    <3> QED BY <1>6, <2>1, <3>3, <3>7, <3>8, <3>9 DEF DictOrder, Straight, Kept, Places, Rising, Before, PairType, Idle
  <2> QED BY <2>3, <2>4
<1>7. CASE PatternOfNoextend
  <2>1. /\ AddItem(buf, <<>>, "AHEADPATTERN") /\ pattern' = pattern /\ reader' = "none" /\ p' = p
        /\ ~Idle /\ Places(<<>>) = {} /\ Rising(<<>>) /\ <<>> \in Seq(Int) /\ buf \in Seq(Int)
    BY <1>7, PlacesOfNone, BufferType DEF PatternOfNoextend, Returns, Idle
  <2>2. /\ Straight([pattern |-> buf, prefix |-> <<>>])
        /\ Before(DictPlaces, Places(buf)) /\ Behind(Places(buf))
    BY <2>1 DEF DictOrder, Straight, PairType, Before
  <2> QED BY <1>6, <2>1, <2>2 DEF PatternStates
<1>8. CASE Prefix
  <2>1. /\ state = "AHEADPREFIX" /\ reader' = "none" /\ p' = p /\ pattern' = pattern
        /\ ~Idle /\ buf \in Seq(Int) /\ Waiting = pattern /\ pattern \in Seq(Int)
    BY <1>8, BufferType DEF Prefix, Returns, Idle, Waiting, PatternStates, DictOrder
  <2>2. CASE AddItem(pattern, buf, "PREFIXEND")
    <3>1. /\ Straight([pattern |-> pattern, prefix |-> buf])
          /\ Before(DictPlaces, Places(pattern) \cup Places(buf))
          /\ Behind(Places(pattern) \cup Places(buf))
      BY <2>1 DEF DictOrder, Straight, PairType, Before, Behind
    <3> QED BY <1>6, <2>1, <2>2, <3>1 DEF PatternStates
  <2>3. CASE state' = "ERROR" /\ UNCHANGED dict
    <3>1. Bound' = p /\ Bound <= p
      BY <1>1, <2>1, <2>3 DEF Bound
    <3> QED BY <1>1, <2>1, <2>3, <3>1, OrderKept DEF Idle, PatternStates
  <2> QED BY <1>8, <2>2, <2>3 DEF Prefix
<1>9. CASE Passes
  <2>1. PICK row \in DefdirTable : row.from = DictNow /\ state' = row.to
    BY <1>9 DEF Passes
  <2>2. /\ row.from \notin {"END", "ERROR", "finished", "abort"} /\ row.to # "ESCAPE"
        /\ row.to \in PatternStates => row.from \in PatternStates
    BY DefdirRows
  <2>3. DictNow = state
    BY <2>1, <2>2 DEF DictNow
  <2>4. /\ p' = p + 1 /\ reader' = reader /\ Idle /\ UNCHANGED <<pattern, dict>>
    BY <1>9 DEF Passes
  <2>5. Bound' = p + 1 /\ Bound = p
    BY <2>1, <2>2, <2>4 DEF Bound, Idle
  <2>6. Idle'
    BY <2>4 DEF Idle
  <2> QED BY <1>1, <2>1, <2>2, <2>3, <2>4, <2>5, <2>6, OrderKept
<1>10. CASE Finishes
  <2>1. p' = p /\ reader' = "none" /\ state' = "finished" /\ Bound = p /\ UNCHANGED <<pattern, dict>>
    BY <1>10 DEF Finishes, Idle, Bound
  <2>2. Bound' = p
    BY <2>1 DEF Bound
  <2> QED BY <1>1, <2>1, <2>2, OrderKept DEF Idle, PatternStates
<1> QED BY <1>2, <1>3, <1>4, <1>5, <1>7, <1>8, <1>9, <1>10 DEF DictNext
-----------------------------------------------------------------------------
(* The output. *)

\* Where read_mark is at work: nothing is written yet.
MarkAll == MarkStates \cup {"MARKED"}

MakeOrder ==
  /\ out \in Seq(Int) /\ line \in Seq(Int)
  /\ Rising(out) /\ Rising(line) /\ Before(Places(out), Places(line))
  /\ Behind(Places(out) \cup Places(line))
  /\ state \in MarkAll => out = <<>>
  /\ state \in MarkAll \cup {"READ"} => line = <<>>
  /\ ~Idle => Rising(buf) /\ Behind(Places(buf)) /\ Before(Places(out) \cup Places(line), Places(buf))

LEMMA OutPlacesType == MakeOrder => Places(out) \cup Places(line) \subseteq Int
BY DEF MakeOrder, Places, ToSet

\* What writeinline does to out and line together: x comes behind l.
WrittenOut(x, l) ==
  /\ out' \in Seq(Int) /\ line' \in Seq(Int)
  /\ Places(out') \cup Places(line') = Places(out) \cup Places(l) \cup {y \in {x} : y > 0}
  /\ Rising(out') /\ Rising(line') /\ Before(Places(out'), Places(line'))

LEMMA WriteInLineFacts ==
  ASSUME MakeOrder, NEW l \in Seq(Int), Rising(l), Before(Places(out), Places(l)),
         NEW x \in Int, Before(Places(out) \cup Places(l), {y \in {x} : y > 0}), WriteInLine(x, l)
  PROVE  WrittenOut(x, l)
<1> DEFINE X == {y \in {x} : y > 0}
<1>1. out \in Seq(Int) /\ Rising(out)
  BY DEF MakeOrder
<1>2. /\ Append(l, x) \in Seq(Int) /\ Places(Append(l, x)) = Places(l) \cup X /\ Rising(Append(l, x))
  BY PlacesAppend DEF Before
<1>3. CASE out' = out \o l /\ line' = <<x>>
  <2>2. <<x>> \in Seq(Int) /\ Places(<<x>>) = X /\ Rising(<<x>>)
    BY DEF Places, ToSet, Rising
  <2>3. out \o l \in Seq(Int) /\ Places(out \o l) = Places(out) \cup Places(l) /\ Rising(out \o l)
    BY <1>1, PlacesJoin
  <2>4. Before(Places(out'), Places(line'))
    BY <1>3, <2>2, <2>3 DEF Before
  <2> QED BY <1>3, <2>2, <2>3, <2>4 DEF WrittenOut
<1>4. CASE out' = out /\ line' = Append(l, x)
  <2>1. Before(Places(out'), Places(line'))
    BY <1>2, <1>4 DEF Before
  <2> QED BY <1>1, <1>2, <1>4, <2>1 DEF WrittenOut
<1> QED BY <1>3, <1>4 DEF WriteInLine

\* A step that has out and line in order and goes on, with no reader at work.
LEMMA OutGoesOn ==
  ASSUME out' \in Seq(Int), line' \in Seq(Int), Rising(out'), Rising(line'),
         Before(Places(out'), Places(line')),
         NEW b \in Int, b <= Bound', Bound' \in Int, \A x \in Places(out') \cup Places(line') : x < b,
         state' \notin MarkAll, state' = "READ" => line' = <<>>, Idle'
  PROVE  MakeOrder'
<1>1. Places(out') \cup Places(line') \subseteq Int
  BY DEF Places, ToSet
<1>2. \A x \in Places(out') \cup Places(line') : x < Bound'
  BY <1>1
<1>3. Behind(Places(out) \cup Places(line))' /\ Rising(out)' /\ Rising(line)'
      /\ Before(Places(out), Places(line))'
  BY <1>2 DEF Behind, Rising, Before, Places
<1>4. MarkAll' = MarkAll
  BY DEF MarkAll, MarkStates
<1> QED BY <1>3, <1>4 DEF MakeOrder

\* No state of the loop is one of read_mark.
LEMMA LoopStates ==
  /\ {"BOL", "WORD", "ESCAPE", "COMMENT", "OTHER", "END", "ERROR", "READ", "past", "finished",
      "abort", "overrun"} \cap MarkAll = {}
BY DEF MarkAll, MarkStates, MarkTable, MarkRow, EmptyLine, MarkComments

\* How far a character takes _make.
LEMMA GoesOnBound ==
  ASSUME BlockInv, NEW i \in 1..End, i # End, NEW notes, GoesOn(i, notes), reader' = "none"
  PROVE  Bound' \in Int /\ i <= Bound' /\ state' \notin MarkAll /\ state' # "READ"
<1>1. i \in Int /\ state' \in {"BOL", "ESCAPE", "COMMENT", "WORD", "OTHER"}
  BY GoesOnFacts DEF BlockInv
<1>2. state' = "ESCAPE" => text[i] = "backslash"
  BY DEF GoesOn, StateFor
<1>3. p' = IF text[i] \in {"newline", "backslash", "comment"} THEN i + 1 ELSE i
  BY DEF GoesOn
<1>4. Bound' = IF state' = "ESCAPE" THEN p' - 1 ELSE p'
  BY DEF Bound
<1>5. state' \notin MarkAll
  BY <1>1, LoopStates
<1> QED BY <1>1, <1>2, <1>3, <1>4, <1>5

\* The line l after a word, and how _make goes on.
LEMMA AfterWordOrder ==
  ASSUME MakeOrder, BlockInv, p \in 1..End, NEW l \in Seq(Int), Rising(l),
         Before(Places(out), Places(l)), \A x \in Places(out) \cup Places(l) : x < p,
         AfterWord(l), reader' = "none"
  PROVE  MakeOrder' /\ Places(out') \cup Places(line') = Places(out) \cup Places(l) /\ p <= Bound'
<1>1. p \in Int /\ Idle' /\ out \in Seq(Int) /\ Rising(out)
  BY DEF BlockInv, Idle, MakeOrder
<1>2. CASE p = End
  <2>1. WriteInLine(NewLine, l) /\ p' = p /\ state' = "END"
    BY <1>2 DEF AfterWord
  <2>2. NewLine \in Int /\ {y \in {NewLine} : y > 0} = {}
    BY DEF NewLine
  <2>3. WrittenOut(NewLine, l)
    BY <2>1, <2>2, WriteInLineFacts DEF Before
  <2>4. Bound' = p /\ state' \notin MarkAll /\ state' # "READ"
    BY <2>1, LoopStates DEF Bound
  <2>5. MakeOrder'
    BY <1>1, <2>2, <2>3, <2>4, OutGoesOn DEF WrittenOut
  <2> QED BY <1>1, <2>2, <2>3, <2>4, <2>5 DEF WrittenOut
<1>3. CASE p # End
  <2>1. line' = l /\ out' = out /\ GoesOn(p, {"backslash", "comment"})
    BY <1>3 DEF AfterWord
  <2>2. Bound' \in Int /\ p <= Bound' /\ state' \notin MarkAll /\ state' # "READ"
    BY <1>3, <2>1, GoesOnBound
  <2>3. MakeOrder'
    BY <1>1, <2>1, <2>2, OutGoesOn
  <2> QED BY <2>1, <2>2, <2>3
<1> QED BY <1>2, <1>3

LEMMA MakeOrderStep ==
  ASSUME TextInv, ~ForDict, MakeOrder, MakeNext, UNCHANGED dictVars
  PROVE  MakeOrder'
<1> USE DEF TextInv
<1>0. /\ p \in Int /\ Bound \in Int /\ Bound <= p /\ (state = "past" \/ p \in 1..End)
      /\ out \in Seq(Int) /\ line \in Seq(Int) /\ Rising(out) /\ Rising(line)
      /\ Before(Places(out), Places(line)) /\ Places(out) \cup Places(line) \subseteq Int
      /\ \A x \in Places(out) \cup Places(line) : x < Bound
  BY OutPlacesType DEF PointerInv, BlockInv, Bound, MakeOrder, Behind
<1>1. \A x \in Places(out) \cup Places(line) : x < p
  BY <1>0 DEF Places
<1>2. CASE MarkReads
  <2>1. state \in MarkAll /\ out' = out /\ line' = line /\ reader' = reader
    BY <1>2 DEF MarkReads, MarkAll, lexed
  <2>2. out = <<>> /\ line = <<>> /\ Idle
    BY <2>1, LoopStates DEF MakeOrder, PointerInv
  <2>3. Idle' /\ out' = <<>> /\ line' = <<>>
    BY <2>1, <2>2 DEF Idle
  <2>4. Places(<<>>) = {} /\ Rising(<<>>) /\ <<>> \in Seq(Int)
    BY PlacesOfNone
  <2> QED BY <2>3, <2>4 DEF MakeOrder, Behind, Before, Rising, Places, ToSet
<1>3. CASE MarkReturns
  <2>1. state \in MarkAll /\ out' = out /\ line' = line /\ reader' = reader
    BY <1>3 DEF MarkReturns, MarkAll, lexed
  <2>2. out = <<>> /\ line = <<>> /\ Idle
    BY <2>1, LoopStates DEF MakeOrder, PointerInv
  <2>3. Idle' /\ out' = <<>> /\ line' = <<>>
    BY <2>1, <2>2 DEF Idle
  <2>4. Places(<<>>) = {} /\ Rising(<<>>) /\ <<>> \in Seq(Int)
    BY PlacesOfNone
  <2> QED BY <2>3, <2>4 DEF MakeOrder, Behind, Before, Rising, Places, ToSet
<1>4. CASE Read
  <2> DEFINE q == ReadTabs(p)
             e == PastAll(q, Class \ {"newline"})
             copy == [i \in 1..(e - q) |-> q + i - 1]
  <2>1. state = "READ" /\ Idle /\ indent \in Nat /\ p \in 1..End /\ Bound = p
    BY <1>0, <1>4 DEF Read, PointerInv, Bound, Idle
  <2>2. q \in p..End
    BY <2>1, ReadTabsFacts DEF BlockInv
  <2>3. e \in q..End
    <3>1. q \in 1..End
      BY <2>1, <2>2 DEF BlockInv
    <3> QED BY <3>1, PastAllFacts
  <2>4. state' \in {"ERROR", "END", "past", "READ"} /\ line' = line /\ reader' = "none"
    BY <1>4, <2>1 DEF Read, lexed, Idle
  <2>5. \/ out' = out /\ p' \in {q + LineSize, PassNewline(e)}
        \/ out' = out \o copy \o <<NewLine>> /\ p' = PassNewline(e)
    BY <1>4 DEF Read
  <2>6. p \in Int /\ q \in Int /\ e \in Int /\ p <= q /\ q <= e /\ PassNewline(e) \in {e, e + 1}
        /\ LineSize \in Nat
    BY <2>1, <2>2, <2>3, MakeAssumption DEF BlockInv, PassNewline
  <2>7. /\ copy \in Seq(Int) /\ Rising(copy) /\ \A x \in Places(copy) : x \in Int /\ q <= x /\ x < e
    <3> HIDE DEF q, e
    <3>1. PICK n \in Nat : n = e - q
      BY <2>6
    <3>2. PICK c : c = copy
      OBVIOUS
    <3>3. DOMAIN c = 1..n /\ \A i \in 1..n : c[i] = q + i - 1
      BY <3>1, <3>2
    <3>4. c \in Seq(Int)
      BY <2>6, <3>1, <3>2
    <3>5. Rising(c)
      BY <2>6, <3>1, <3>3 DEF Rising
    <3>6. ASSUME NEW x \in Places(c) PROVE x \in Int /\ q <= x /\ x < e
      <4>1. PICK i \in 1..n : x = q + i - 1
        BY <3>3 DEF Places, ToSet
      <4> QED BY <2>6, <3>1, <4>1
    <3> QED BY <3>2, <3>4, <3>5, <3>6
  <2>8. Bound' = p' /\ Idle' /\ state' \notin MarkAll /\ line' = <<>>
    BY <2>1, <2>4, LoopStates DEF Bound, MakeOrder, Idle
  <2> HIDE DEF q, e, copy
  <2>9. CASE out' = out /\ p' \in {q + LineSize, PassNewline(e)}
    <3>1. p' \in Int /\ p <= p'
      BY <2>6, <2>9
    <3>2. \A x \in Places(out') \cup Places(line') : x < p
      BY <1>1, <2>4, <2>9
    <3> QED BY <1>0, <2>4, <2>6, <2>8, <2>9, <3>1, <3>2, OutGoesOn
  <2>10. CASE out' = out \o copy \o <<NewLine>> /\ p' = PassNewline(e)
    <3>1. Places(<<>>) = {} /\ Rising(<<>>)
      BY PlacesOfNone
    <3>2. Before(Places(out), Places(copy))
      BY <1>0, <1>1, <2>6, <2>7 DEF Before
    <3>3. /\ out \o copy \in Seq(Int) /\ Rising(out \o copy)
          /\ Places(out \o copy) = Places(out) \cup Places(copy)
      BY <1>0, <2>7, <3>2, PlacesJoin
    <3>4. out' = Append(out \o copy, NewLine)
      BY <2>10, <3>3
    <3>5. NewLine \in Int /\ {y \in {NewLine} : y > 0} = {}
      BY DEF NewLine
    <3>6. out' \in Seq(Int) /\ Rising(out') /\ Places(out') = Places(out) \cup Places(copy)
      BY <3>3, <3>4, <3>5, PlacesAppend DEF Before
    <3>7. \A x \in Places(out') \cup Places(line') : x < e
      BY <1>0, <1>1, <2>6, <2>7, <2>8, <3>1, <3>6
    <3>8. Before(Places(out'), Places(line')) /\ Rising(line') /\ line' \in Seq(Int)
      BY <2>8, <3>1 DEF Before
    <3>9. Bound' \in Int /\ e <= Bound'
      BY <2>6, <2>8, <2>10
    <3> QED BY <2>6, <2>8, <3>6, <3>7, <3>8, <3>9, OutGoesOn
  <2> QED BY <2>5, <2>9, <2>10
<1>5. ASSUME NEW i \in 1..End, i # End, p <= i, NEW notes, GoesOn(i, notes), reader' = "none",
             out' = out, line' = line
      PROVE  MakeOrder'
  <2>1. Bound' \in Int /\ i <= Bound' /\ state' \notin MarkAll /\ state' # "READ"
    BY <1>5, GoesOnBound
  <2>2. i \in Int /\ p \in Int /\ Idle'
    BY <1>5 DEF BlockInv, PointerInv, Idle
  <2>3. \A x \in Places(out') \cup Places(line') : x < i
    BY <1>0, <1>1, <1>5, <2>2
  <2> QED BY <1>0, <1>5, <2>1, <2>2, <2>3, OutGoesOn
<1>6. ASSUME p' \in Int, Bound <= p', state' \in {"END", "ERROR", "WORD", "BOL", "COMMENT", "finished", "abort"},
             reader' = "none", out' = out, line' = line
      PROVE  MakeOrder'
  <2>1. Bound' = p' /\ state' \notin MarkAll /\ state' # "READ" /\ Idle'
    BY <1>6, LoopStates DEF Bound, Idle
  <2> QED BY <1>0, <1>6, <2>1, OutGoesOn
<1>7. ASSUME NEW b \in Int, \A x \in Places(out) \cup Places(line) : x < b,
             NEW x \in Int, x < b, x > 0 => \A y \in Places(out) \cup Places(line) : y < x,
             WriteInLine(x, line), reader' = "none",
             Bound' \in Int, b <= Bound', state' \notin MarkAll, state' # "READ"
      PROVE  MakeOrder'
  <2>1. Before(Places(out) \cup Places(line), {y \in {x} : y > 0})
    BY <1>7 DEF Before
  <2>2. WrittenOut(x, line)
    BY <1>0, <1>7, <2>1, WriteInLineFacts
  <2>3. \A y \in Places(out') \cup Places(line') : y < b
    BY <1>7, <2>2 DEF WrittenOut
  <2> QED BY <1>7, <2>2, <2>3, OutGoesOn DEF WrittenOut, Idle
<1>8. CASE Bol
  <2>1. state = "BOL" /\ Idle /\ indent \in Nat /\ p \in 1..End /\ p # End
    BY <1>0, <1>8 DEF Bol, PointerInv
  <2>2. ReadTabs(p) \in p..End /\ ReadTabs(p) \in 1..End
    BY <2>1, ReadTabsFacts DEF BlockInv
  <2>3. out' = out /\ line' = line /\ reader' = "none" /\ p <= ReadTabs(p) /\ ReadTabs(p) \in Int
    BY <1>8, <2>1, <2>2 DEF Bol, Stays, lexed, Idle, BlockInv
  <2>4. CASE ReadTabs(p) = End
    BY <1>0, <1>6, <1>8, <2>1, <2>3, <2>4 DEF Bol, BlockInv
  <2>5. CASE ReadTabs(p) # End
    BY <1>5, <1>8, <2>2, <2>3, <2>5 DEF Bol
  <2> QED BY <2>4, <2>5
<1>9. CASE WordCalls
  <2>1. /\ reader' = "AHEAD" /\ buf' = <<>> /\ UNCHANGED <<p, state, out, line>> /\ state = "WORD"
        /\ Bound = p /\ Bound' = p
    BY <1>9 DEF WordCalls, Call, Bound, Idle
  <2>2. Rising(buf)' /\ Places(buf)' = {}
    BY <2>1, PlacesOfNone DEF Rising, Places
  <2> QED BY <2>1, <2>2, LoopStates DEF MakeOrder, Rising, Before, Behind, Places
<1>10. CASE WordReads
  <2>1. /\ UNCHANGED <<state, out, line>> /\ ~Idle /\ p \in 1..End /\ state = "WORD"
    BY <1>0, <1>10 DEF WordReads, Turn, Reading, Idle, PointerInv
  <2>2. Rising(buf) /\ Behind(Places(buf)) /\ Before(Places(out) \cup Places(line), Places(buf))
    BY <2>1 DEF MakeOrder
  <2>3. /\ Bound \in Int /\ Bound' \in Int /\ Bound <= Bound'
        /\ Rising(buf') /\ \A x \in Places(buf') : x < Bound' /\ (x \in Places(buf) \/ x >= Bound)
    BY <1>10, <2>1, <2>2, TurnOrder, NameRows DEF WordReads
  <2>4. \A y \in Places(buf') : y \in Int
    <3>1. buf' \in Seq(Int)
      <4>1. TextInv'
        BY MakeStep
      <4>2. (BlockInv /\ BufferInv => buf \in Seq(Int))'
        BY BufferType, PTL
      <4> QED BY <4>1, <4>2
    <3> QED BY <3>1 DEF Places, ToSet
  <2>5. \A x \in Places(out) \cup Places(line) : x \in Int /\ x < Bound /\ x < Bound'
    BY <1>0, <2>3
  <2>6. \A x \in Places(out) \cup Places(line), y \in Places(buf') : x < y
    BY <2>2, <2>3, <2>4, <2>5 DEF Before
  <2>7. Behind(Places(out) \cup Places(line))' /\ Behind(Places(buf))' /\ Rising(buf)'
        /\ Before(Places(out) \cup Places(line), Places(buf))'
    BY <2>1, <2>3, <2>5, <2>6 DEF Behind, Before, Places, Rising
  <2>8. state' = "WORD" /\ "WORD" \notin MarkAll
    BY <2>1, LoopStates
  <2>9. out' = out /\ line' = line /\ MarkAll' = MarkAll
    BY <2>1 DEF MarkAll, MarkStates
  <2> QED BY <1>0, <2>7, <2>8, <2>9 DEF MakeOrder, Rising, Before, Places
<1>11. CASE WordFits
  <2>1. /\ ~Idle /\ state = "WORD" /\ p \in 1..End /\ Bound = p /\ reader' = "none" /\ buf \in Seq(Int)
    BY <1>0, <1>11, BufferType DEF WordFits, Idle, PointerInv, Bound
  <2>2. Rising(buf) /\ Behind(Places(buf)) /\ Before(Places(out) \cup Places(line), Places(buf))
    BY <2>1 DEF MakeOrder
  <2>3. PICK k, l :
          /\ k \in PrefixSizes /\ l = line \o [i \in 1..k |-> PrefixChar] \o buf
          /\ \/ line' = l /\ state' = "overrun" /\ UNCHANGED <<p, pre, out>>
             \/ AfterWord(l)
    BY <1>11 DEF WordFits
  <2>4. PICK f : f = [i \in 1..k |-> PrefixChar]
    OBVIOUS
  <2>5. f \in Seq(Int) /\ Places(f) = {} /\ Rising(f)
    <3>1. k \in Nat
      BY <2>3, MakeAssumption
    <3> QED BY <2>4, <3>1 DEF PrefixChar, Places, ToSet, Rising
  <2>6. line \o f \in Seq(Int) /\ Places(line \o f) = Places(line) /\ Rising(line \o f)
    <3>1. Before(Places(line), Places(f))
      BY <2>5 DEF Before
    <3>2. /\ line \o f \in Seq(Int) /\ Places(line \o f) = Places(line) \cup Places(f)
          /\ Rising(line \o f)
      BY <1>0, <2>5, <3>1, PlacesJoin
    <3> QED BY <2>5, <3>2
  <2>7. Before(Places(line), Places(buf)) /\ Before(Places(out), Places(buf))
    BY <2>2 DEF Before
  <2>8. l \in Seq(Int) /\ Places(l) = Places(line) \cup Places(buf) /\ Rising(l)
    BY <2>1, <2>2, <2>3, <2>4, <2>6, <2>7, PlacesJoin
  <2>9. Before(Places(out), Places(l)) /\ \A x \in Places(out) \cup Places(l) : x < p
    BY <1>0, <2>1, <2>2, <2>7, <2>8 DEF Before, Behind
  <2>10. CASE line' = l /\ state' = "overrun" /\ UNCHANGED <<p, pre, out>>
    <3>1. Bound' = p /\ state' \notin MarkAll /\ state' # "READ" /\ Idle' /\ p \in Int
      BY <2>1, <2>10, LoopStates DEF Bound, Idle, BlockInv
    <3>2. \A x \in Places(out') \cup Places(line') : x < p
      BY <2>9, <2>10
    <3>3. Before(Places(out'), Places(line')) /\ Rising(out') /\ Rising(line')
          /\ out' \in Seq(Int) /\ line' \in Seq(Int)
      BY <1>0, <2>8, <2>9, <2>10
    <3> QED BY <3>1, <3>2, <3>3, OutGoesOn
  <2>11. CASE AfterWord(l)
    BY <2>1, <2>8, <2>9, <2>11, AfterWordOrder
  <2> QED BY <2>3, <2>10, <2>11
<1>12. CASE WordEmpty
  BY <1>0, <1>6, <1>12 DEF WordEmpty, PointerInv, BlockInv, Idle
<1>13. CASE WordRefused
  <2>1. AfterWord(line) /\ reader' = "none" /\ state = "WORD" /\ p \in 1..End
    BY <1>0, <1>13 DEF WordRefused, PointerInv, Idle
  <2> QED BY <1>0, <1>1, <2>1, AfterWordOrder
<1>14. CASE Other
  <2>1. /\ state = "OTHER" /\ Idle /\ p \in 1..End /\ p + 1 \in 1..End /\ p \in Int
        /\ Bound = p /\ reader' = "none" /\ WriteInLine(p, line)
    BY <1>0, <1>14 DEF Other, PointerInv, BlockInv, Bound, Idle, Stays, lexed
  <2>2. Bound' \in Int /\ p + 1 <= Bound' /\ state' \notin MarkAll /\ state' # "READ"
    <3>1. CASE p + 1 = End
      <4>1. p' = End /\ state' = "END"
        BY <1>14, <3>1 DEF Other
      <4> QED BY <2>1, <3>1, <4>1, LoopStates DEF Bound
    <3>2. CASE p + 1 # End
      BY <1>14, <2>1, <3>2, GoesOnBound DEF Other
    <3> QED BY <3>1, <3>2
  <2>3. \A x \in Places(out) \cup Places(line) : x < p + 1
    BY <1>0, <1>1, <2>1
  <2> QED BY <1>1, <1>7, <2>1, <2>2, <2>3
<1>15. CASE Join
  <2>1. /\ state = "ESCAPE" /\ Idle /\ p \in 1..End /\ p + 1 \in 1..End /\ p \in Int
        /\ reader' = "none" /\ WriteInLine(Space, line) /\ Space \in Int /\ Space < p /\ ~(Space > 0)
    BY <1>0, <1>15 DEF Join, PointerInv, BlockInv, Idle, Stays, lexed, Space
  <2>2. PastAll(p + 1, Blank) \in 1..End /\ PastAll(p + 1, Blank) \in p + 1..End
    BY <2>1, PastAllFacts DEF BlockInv
  <2>3. Bound' \in Int /\ p <= Bound' /\ state' \notin MarkAll /\ state' # "READ"
    <3>1. CASE PastAll(p + 1, Blank) = End
      <4>1. p' = End /\ state' = state
        BY <1>15, <3>1 DEF Join
      <4>2. p + 1 <= End /\ End \in Int
        BY <2>1 DEF BlockInv
      <4>3. Bound' = End - 1
        BY <2>1, <4>1 DEF Bound, End
      <4> QED BY <2>1, <4>1, <4>2, <4>3, LoopStates
    <3>2. CASE PastAll(p + 1, Blank) # End
      BY <1>15, <2>1, <2>2, <3>2, GoesOnBound DEF Join, BlockInv
    <3> QED BY <3>1, <3>2
  <2> QED BY <1>1, <1>7, <2>1, <2>3
<1>16. CASE Escape
  <2>1. state = "ESCAPE" /\ Idle /\ p \in Int /\ Bound = p - 1 /\ out' = out /\ line' = line /\ reader' = "none"
    BY <1>0, <1>16 DEF Escape, Bound, Stays, lexed, Idle, PointerInv
  <2>2. p' \in {p, p - 1} /\ state' \in {"ERROR", "WORD"}
    BY <1>16 DEF Escape
  <2> QED BY <1>6, <2>1, <2>2
<1>17. CASE Comment
  <2>1. state = "COMMENT" /\ Idle /\ p \in 1..End /\ p \in Int /\ Bound = p /\ reader' = "none"
    BY <1>0, <1>17 DEF Comment, PointerInv, Bound, Idle, Stays, lexed, BlockInv
  <2>2. PastAll(p, Class \ {"newline"}) \in p..End
    BY <2>1, PastAllFacts
  <2>3. p' \in Int /\ p <= p' /\ state' \in {"COMMENT", "BOL"}
    BY <1>17, <2>1, <2>2 DEF Comment, BlockInv
  <2>4. (out' = out /\ line' = line) \/ WriteInLine(NewLine, line)
    BY <1>17 DEF Comment
  <2>5. NewLine \in Int /\ NewLine < p /\ ~(NewLine > 0)
    BY <2>1 DEF NewLine, BlockInv
  <2>6. Bound' = p' /\ state' \notin MarkAll /\ state' # "READ"
    BY <2>1, <2>3, LoopStates DEF Bound
  <2>7. CASE out' = out /\ line' = line
    BY <1>6, <2>1, <2>3, <2>7
  <2>8. CASE WriteInLine(NewLine, line)
    BY <1>1, <1>7, <2>1, <2>3, <2>5, <2>6, <2>8
  <2> QED BY <2>4, <2>7, <2>8
<1>18. CASE Succeeds
  <2>1. /\ out' = out \o Append(line, NewLine) /\ line' = <<>> /\ state' = "finished" /\ p' = p
        /\ reader' = "none" /\ MakeNow = "END"
    BY <1>18 DEF Succeeds, Idle, lexed
  <2>2. p \in Int /\ Bound' = p /\ Bound <= p /\ state' \notin MarkAll /\ Idle'
    BY <1>0, <2>1, LoopStates DEF Bound, MakeNow, Idle, PointerInv
  <2>3. NewLine \in Int /\ {y \in {NewLine} : y > 0} = {}
    BY DEF NewLine
  <2>4. /\ Append(line, NewLine) \in Seq(Int) /\ Places(Append(line, NewLine)) = Places(line)
        /\ Rising(Append(line, NewLine))
    BY <1>0, <2>3, PlacesAppend DEF Before
  <2>5. out' \in Seq(Int) /\ Rising(out') /\ Places(out') = Places(out) \cup Places(line)
    BY <1>0, <2>1, <2>4, PlacesJoin
  <2>6. line' \in Seq(Int) /\ Rising(line') /\ Places(line') = {}
    BY <2>1, PlacesOfNone
  <2>7. Before(Places(out'), Places(line')) /\ \A x \in Places(out') \cup Places(line') : x < p
    BY <1>1, <2>5, <2>6 DEF Before
  <2> QED BY <1>0, <2>1, <2>2, <2>5, <2>6, <2>7, OutGoesOn
<1>19. CASE Fails
  <2>1. p \in Int /\ Bound <= p
    BY <1>0, <1>19 DEF Fails, MakeNow, PointerInv
  <2> QED BY <1>6, <1>19, <2>1 DEF Fails, Idle
<1> QED BY <1>2, <1>3, <1>4, <1>8, <1>9, <1>10, <1>11, <1>12, <1>13, <1>14, <1>15, <1>16, <1>17, <1>18, <1>19 DEF MakeNext
-----------------------------------------------------------------------------
LEMMA TextStarts == ASSUME Init PROVE TextInv
<1>1. BlockInv
  BY TextAssumption DEF Init, BlockInv, End
<1>2. PointerInv
  BY <1>1 DEF Init, PointerInv, BlockInv, ForDict, Idle
<1>3. BufferInv
  BY <1>1, BufferAssumption DEF Init, BufferInv
<1> QED BY <1>1, <1>2, <1>3 DEF TextInv

LEMMA TextStep == ASSUME TextInv, [Next]_vars PROVE TextInv'
<1>1. CASE UNCHANGED vars
  BY <1>1 DEF vars, TextInv, BlockInv, PointerInv, BufferInv, ForDict, End, Idle
<1>2. CASE Next
  BY <1>1, <1>2, DictStep, MakeStep DEF Next, Stopped
<1> QED BY <1>1, <1>2

\* For every text block_handler may take: buffer[] is never overrun, by the '\0' neither,
\* and p stays in the block but for the raw task on a block in line form, of which, as of
\* line_buf, nothing is said (context.cpp:565-731, 1067-1133, 1183-1417): see WithinBounds.
THEOREM StaysWithinBounds == Spec => []WithinBounds
<1>1. TextInv => WithinBounds
  <2> SUFFICES ASSUME TextInv PROVE WithinBounds
    OBVIOUS
  <2>1. p >= 1 /\ (p <= End \/ (task = "raw" /\ stop = "newline"))
    BY DEF TextInv, PointerInv, BlockInv
  <2>2. \A k \in DOMAIN buf : buf[k] <= Len(text)
    BY DEF TextInv, BufferInv, BlockInv
  <2>3. Len(buf) <= BufferSize + Redundancy /\ (reader = "TRUE" => Len(buf) < BufferSize + Redundancy)
    BY BufferAssumption DEF TextInv, BufferInv
  <2> QED BY <2>1, <2>2, <2>3 DEF WithinBounds
<1> QED BY <1>1, TextStarts, TextStep, PTL DEF Spec

\* What the task that does not run would write stays empty.
OrderInv ==
  /\ ForDict => DictOrder /\ state # "ESCAPE" /\ out = <<>> /\ line = <<>>
  /\ ~ForDict => MakeOrder /\ dict = <<>>

LEMMA OrderStarts == ASSUME Init PROVE OrderInv
<1>1. Places(<<>>) = {} /\ Rising(<<>>) /\ <<>> \in Seq(Int)
  BY PlacesOfNone
<1>2. CASE ForDict
  <2>1. dict = <<>> /\ pattern = <<>> /\ Idle /\ out = <<>> /\ line = <<>> /\ state \in {"END", "AHEADPATTERN"}
    BY <1>2 DEF Init, Idle
  <2>2. DictPlaces = {} /\ Waiting = <<>> /\ dict \in Seq(PairType)
    BY <2>1 DEF DictPlaces, Waiting
  <2> QED BY <1>1, <1>2, <2>1, <2>2 DEF OrderInv, DictOrder, Behind, Before
<1>3. CASE ~ForDict
  <2>1. dict = <<>> /\ Idle /\ out = <<>> /\ line = <<>>
    BY DEF Init, Idle
  <2> QED BY <1>1, <1>3, <2>1 DEF OrderInv, MakeOrder, Behind, Before
<1> QED BY <1>2, <1>3

LEMMA OrderStep == ASSUME TextInv, OrderInv, [Next]_vars PROVE OrderInv'
<1>1. CASE UNCHANGED vars
  <2>1. UNCHANGED <<task, text, p, state, reader, buf, pattern, dict, line, out>>
    BY <1>1 DEF vars
  <2>2. DictOrder' <=> DictOrder
    BY <2>1 DEF DictOrder, Idle, Behind, Bound, Waiting, DictPlaces, Straight, Kept, Places, Rising,
                Before, PairType
  <2>3. MakeOrder' <=> MakeOrder
    BY <2>1 DEF MakeOrder, Idle, Behind, Bound, Places, Rising, Before, MarkAll, MarkStates
  <2> QED BY <2>1, <2>2, <2>3 DEF OrderInv, ForDict
<1>2. CASE ForDict /\ DictNext /\ UNCHANGED makeVars
  <2>1. DictOrder' /\ state' # "ESCAPE"
    BY <1>2, DictOrderStep DEF OrderInv
  <2>2. UNCHANGED <<task, out, line>>
    BY <1>2 DEF makeVars, DictNext, Calls, Reads, NoPattern, PatternOfDefdir, PatternOfNoextend,
                Prefix, Passes, Finishes, Returns
  <2> QED BY <1>2, <2>1, <2>2 DEF OrderInv, ForDict
<1>3. CASE ~ForDict /\ MakeNext /\ UNCHANGED dictVars
  <2>1. MakeOrder'
    BY <1>3, MakeOrderStep DEF OrderInv
  <2>2. UNCHANGED <<task, dict>>
    BY <1>3 DEF dictVars, MakeNext, MarkReads, MarkReturns, Read, Bol, WordCalls, WordReads, WordFits,
                WordEmpty, WordRefused, Other, Join, Escape, Comment, Succeeds, Fails, Stays, lexed
  <2> QED BY <1>3, <2>1, <2>2 DEF OrderInv, ForDict
<1> QED BY <1>1, <1>2, <1>3 DEF Next, Stopped

\* For every text: through the steps back of the readers and the line buffer, no
\* character comes out twice and none out of order: see InOrder.
THEOREM KeepsTheOrder == Spec => []InOrder
<1>1. OrderInv => InOrder
  <2> SUFFICES ASSUME OrderInv PROVE InOrder
    OBVIOUS
  <2>1. CASE ForDict
    <3>1. DictOrder /\ out \o line = <<>>
      BY <2>1 DEF OrderInv
    <3>2. Rising(out \o line)
      BY <3>1, PlacesOfNone
    <3>3. ASSUME NEW k \in DOMAIN dict PROVE Rising(dict[k].pattern \o dict[k].prefix)
      BY <3>1, PlacesJoin DEF DictOrder, Straight, PairType
    <3> QED BY <3>1, <3>2, <3>3 DEF InOrder, DictOrder
  <2>2. CASE ~ForDict
    <3>1. MakeOrder /\ dict = <<>>
      BY <2>2 DEF OrderInv
    <3>2. Rising(out \o line)
      BY <3>1, PlacesJoin DEF MakeOrder
    <3> QED BY <3>1, <3>2 DEF InOrder
  <2> QED BY <2>1, <2>2
<1>2. TextInv /\ OrderInv /\ [Next]_vars => (TextInv /\ OrderInv)'
  BY TextStep, OrderStep
<1> QED BY <1>1, <1>2, TextStarts, OrderStarts, PTL DEF Spec
-----------------------------------------------------------------------------
(* Nothing is dropped. *)

Word == NameChar \cup {"colon", "math", "other"}

\* The characters of `chars` before position n are in S, or commented.
Held(n, chars, S) == \A i \in 1..(n - 1) : text[i] \in chars => i \in S \/ Commented(text, i)

\* A row that passes a character of `chars` and does not write it.
Drops(row, chars) == /\ row.back = 0 /\ row.from # "COMMENT" /\ row.put \notin {Char, SlashChar}
                     /\ row.on \cap chars # {}

\* A comment begins with its sign and lasts up to the newline.
Comments(row) ==
  row.to = "COMMENT" => row.back = 0 /\ (row.on = {"comment"} \/ (row.from = "COMMENT" /\ "newline" \notin row.on))

\* regex_reader drops no name character, not even where it refuses; name_reader
\* drops one only where it refuses.
LEMMA RegexKeeps == \A row \in RegexTable : ~Drops(row, NameChar) /\ Comments(row)
BY SMTT(60) DEF RegexTable, RegexEnds, Row, Drops, Comments, No, Char, SlashChar, NameChar, Blank, Class

LEMMA NameKeeps ==
  \A row \in NameTable : /\ Drops(row, Word) => row.to = "ERROR"
                         /\ row.from # "COMMENT" /\ row.to # "COMMENT"
BY SMTT(60) DEF NameTable, NameLineEnd, Row, Drops, No, Char, SlashChar, TwoSlashes, NameChar, Word, Blank, Class

LEMMA DefdirKeeps ==
  \A row \in DefdirTable :
    /\ row.on \cap NameChar # {} => row.to = "ERROR" \/ row.from = "COMMENT"
    /\ Comments(row) /\ row.to \notin {"finished", "END", "abort"}
    /\ row.from \in PatternStates /\ row.to \notin PatternStates => row.to = "ERROR"
BY SMTT(60) DEF DefdirTable, Row, Comments, NameChar, Blank, Class, PatternStates

\* A comment goes on up to the newline.
LEMMA CommentGoesOn ==
  ASSUME BlockInv, NEW i \in 1..Len(text),
         text[i] = "comment" \/ (Commented(text, i) /\ text[i] # "newline")
  PROVE  Commented(text, i + 1)
<1>1. i \in Nat /\ i + 1 - 1 = i
  OBVIOUS
<1>2. CASE text[i] = "comment"
  <2>1. i \in 1..(i + 1 - 1) /\ \A k \in i..(i + 1 - 1) : k = i
    BY <1>1
  <2>2. \A k \in i..(i + 1 - 1) : text[k] # "newline"
    BY <1>2, <2>1
  <2> QED BY <1>2, <2>1, <2>2 DEF Commented
<1>3. CASE Commented(text, i) /\ text[i] # "newline"
  <2>1. PICK j \in 1..(i - 1) : text[j] = "comment" /\ \A k \in j..(i - 1) : text[k] # "newline"
    BY <1>3 DEF Commented
  <2>2. j \in 1..(i + 1 - 1) /\ \A k \in j..(i + 1 - 1) : k \in j..(i - 1) \/ k = i
    BY <1>1
  <2> QED BY <1>3, <2>1, <2>2 DEF Commented
<1> QED BY <1>2, <1>3

\* One more character that is held.
LEMMA HeldNext ==
  ASSUME p \in Nat \ {0}, NEW chars, NEW S, Held(p, chars, S),
         text[p] \in chars => p \in S \/ Commented(text, p)
  PROVE  Held(p + 1, chars, S)
<1>1. \A i \in 1..(p + 1 - 1) : i \in 1..(p - 1) \/ i = p
  OBVIOUS
<1> QED BY <1>1 DEF Held

\* Characters that do not count, or are commented.
LEMMA HeldUpTo ==
  ASSUME NEW n \in Int, NEW m \in Int, NEW chars, NEW S, Held(n, chars, S),
         \A i \in n..(m - 1) : text[i] \notin chars \/ Commented(text, i)
  PROVE  Held(m, chars, S)
<1>1. \A i \in 1..(m - 1) : i \in 1..(n - 1) \/ i \in n..(m - 1)
  OBVIOUS
<1> QED BY <1>1 DEF Held

\* Fewer characters.
LEMMA HeldBack ==
  ASSUME NEW n \in Int, NEW m \in Int, m <= n, NEW chars, NEW S, Held(n, chars, S)
  PROVE  Held(m, chars, S)
<1>1. \A i \in 1..(m - 1) : i \in 1..(n - 1)
  OBVIOUS
<1> QED BY <1>1 DEF Held

\* A turn of a reader keeps what is held, in the buffer or in S, if the row it takes
\* drops none of it.
LEMMA TurnHeld ==
  ASSUME BlockInv, BufferInv, p \in 1..End, NEW table, NEW last, Turn(table, last),
         \A row \in table : Sound(row) /\ Comments(row) /\ (row.from = "COMMENT" => Commented(text, p)),
         NEW chars, NEW S, Held(p, chars, S \cup Places(buf))
  PROVE  /\ reader' = "COMMENT" => Commented(text, p')
         /\ \/ Held(p', chars, S \cup Places(buf'))
            \/ \E row \in table : Drops(row, chars) /\ reader' = row.to
<1>1. CASE reader' \in {"TRUE", "FALSE"} /\ UNCHANGED <<p, buf>>
  BY <1>1
<1>2. ASSUME Checked(last) \notin {"ERROR", "END"}, NEW row \in table,
             row.from = Checked(last), text[p] \in row.on, reader' = row.to,
             buf' = buf \o Written(row.put), p' = p + 1 - row.back
      PROVE  /\ reader' = "COMMENT" => Commented(text, p')
             /\ Held(p', chars, S \cup Places(buf')) \/ Drops(row, chars)
  <2>1. Sound(row) /\ Comments(row) /\ p # End /\ p \in 1..Len(text) /\ p \in Nat \ {0}
    BY <1>2 DEF Checked, BlockInv
  <2>2. reader' = "COMMENT" => Commented(text, p')
    <3> SUFFICES ASSUME reader' = "COMMENT" PROVE Commented(text, p')
      OBVIOUS
    <3>1. p' = p + 1 /\ (text[p] = "comment" \/ (row.from = "COMMENT" /\ text[p] # "newline"))
      BY <1>2, <2>1 DEF Comments
    <3> QED BY <2>1, <3>1, CommentGoesOn
  <2>3. PICK t : t = Written(row.put)
    OBVIOUS
  <2>4. t \in Seq(Int) /\ (row.put \in {Char, SlashChar} => Places(t) = {p})
    BY <2>1, <2>3, WrittenPlaces DEF Sound, Puts
  <2>5. Places(buf') = Places(buf) \cup Places(t)
    BY <1>2, <2>3, <2>4, BufferType, PlacesJoin
  <2>6. Held(p, chars, S \cup Places(buf'))
    BY <2>5 DEF Held
  <2>7. CASE row.back # 0
    <3>1. p' \in Int /\ p' <= p
      BY <1>2, <2>1, <2>7 DEF Sound
    <3> QED BY <2>1, <2>2, <2>6, <3>1, HeldBack
  <2>8. CASE row.back = 0 /\ ~Drops(row, chars)
    <3>1. text[p] \in chars => p \in Places(t) \/ Commented(text, p)
      BY <1>2, <2>4, <2>8 DEF Drops
    <3>2. Held(p + 1, chars, S \cup Places(buf'))
      BY <2>1, <2>5, <2>6, <3>1, HeldNext
    <3> QED BY <1>2, <2>1, <2>2, <2>8, <3>2
  <2> QED BY <2>2, <2>7, <2>8
<1> QED BY <1>1, <1>2 DEF Turn

\* What the reader that runs has in its buffer.
Carried == IF Idle THEN {} ELSE Places(buf)

DictHeld ==
  /\ ~Idle => state \in {"AHEADPATTERN", "AHEADPREFIX"}
  /\ reader = "COMMENT" \/ (Idle /\ state = "COMMENT") => Commented(text, p)
  /\ \/ Held(p, NameChar, DictPlaces \cup Places(Waiting) \cup Carried)
     \/ state \in {"ERROR", "abort"} \/ (state = "finished" /\ error)
     \/ (state = "AHEADPREFIX" /\ reader \in {"ERROR", "FALSE"})

LEMMA DictHeldStep ==
  ASSUME TextInv, ForDict, DictOrder, DictHeld, DictNext, UNCHANGED makeVars
  PROVE  DictHeld'
<1> DEFINE Rest == DictPlaces \cup Places(Waiting)
<1>0. text' = text /\ p \in 1..End /\ p \in Nat \ {0} /\ BlockInv /\ BufferInv
  BY DEF DictNext, Calls, Reads, NoPattern, PatternOfDefdir, PatternOfNoextend, Prefix, Passes, Finishes,
         Returns, Turn, TextInv, PointerInv, BlockInv, ForDict
<1>1. ASSUME Idle', state' = "COMMENT" => Commented(text, p'),
             \/ Held(p', NameChar, DictPlaces' \cup Places(Waiting'))
             \/ state' \in {"ERROR", "abort"} \/ (state' = "finished" /\ error')
      PROVE  DictHeld'
  <2>1. reader' = "none" /\ Carried' = {}
    BY <1>1 DEF Idle, Carried
  <2>2. Places(Waiting)' = Places(Waiting')
    BY DEF Places
  <2> QED BY <1>0, <1>1, <2>1, <2>2 DEF DictHeld, Held
<1>2. CASE Calls
  <2>1. /\ Idle /\ reader' = "AHEAD" /\ buf' = <<>> /\ UNCHANGED <<p, state, pattern, dict>>
        /\ DictNow \in {"AHEADPATTERN", "AHEADPREFIX"}
    BY <1>2 DEF Calls, Call
  <2>2. state \in {"AHEADPATTERN", "AHEADPREFIX"}
    BY <2>1 DEF DictNow, Idle
  <2>3. Held(p, NameChar, Rest)
    BY <2>1, <2>2 DEF DictHeld, Idle, Carried
  <2>4. (DictPlaces \cup Places(Waiting))' = Rest
    BY <2>1 DEF DictPlaces, Waiting, Kept, Places
  <2> HIDE DEF Rest
  <2>5. Held(p', NameChar, (DictPlaces \cup Places(Waiting) \cup Carried)')
    BY <2>1, <2>3, <2>4 DEF Held
  <2> QED BY <1>0, <2>1, <2>2, <2>5 DEF DictHeld, Held, Idle
<1>3. CASE Reads
  <2>1. /\ ~Idle /\ UNCHANGED <<state, pattern, dict>> /\ state \in {"AHEADPATTERN", "AHEADPREFIX"}
        /\ reader \notin {"TRUE", "FALSE"}
    BY <1>3 DEF Reads, Turn, Reading, Idle, DictHeld
  <2>2. Carried = Places(buf) /\ (DictPlaces \cup Places(Waiting))' = Rest /\ ~Idle'
        /\ Carried' = Places(buf')
    <3>1. ~Idle'
      BY <1>3, <1>0, <2>1, RegexRows, NameRows DEF Reads, Turn, Idle, Sound
    <3>2. Carried' = Places(buf')
      BY <3>1 DEF Carried, Places
    <3>3. (DictPlaces \cup Places(Waiting))' = Rest
      BY <2>1 DEF DictPlaces, Waiting, Kept, Places
    <3>4. Carried = Places(buf)
      BY <2>1 DEF Carried
    <3> QED BY <3>1, <3>2, <3>3, <3>4
  <2> HIDE DEF Rest
  <2>3. SUFFICES /\ reader' = "COMMENT" => Commented(text, p')
                 /\ \/ Held(p', NameChar, Rest \cup Places(buf'))
                    \/ state = "AHEADPREFIX" /\ reader' \in {"ERROR", "FALSE"}
    <3>1. Held(p', NameChar, Rest \cup Places(buf'))
          => Held(p', NameChar, (DictPlaces \cup Places(Waiting) \cup Carried)')
      BY <2>2
    <3> QED BY <1>0, <2>1, <2>2, <2>3, <3>1 DEF DictHeld, Held
  <2>4. CASE state = "AHEADPREFIX" /\ reader = "ERROR"
    <3>1. Turn(NameTable, NameLast) /\ NameLast = {"NAME", "END"}
      BY <1>3, <2>4 DEF Reads, NameLast
    <3>2. Checked(NameLast) = "ERROR"
      BY <2>4, <3>1 DEF Checked
    <3> QED BY <2>4, <3>1, <3>2 DEF Turn
  <2>5. CASE ~(state = "AHEADPREFIX" /\ reader = "ERROR")
    <3>1. Held(p, NameChar, Rest \cup Places(buf))
      BY <2>1, <2>2, <2>5 DEF DictHeld, Rest
    <3>2. CASE state = "AHEADPREFIX"
      <4>1. Turn(NameTable, NameLast)
        BY <1>3, <3>2 DEF Reads
      <4>2. \A row \in NameTable : Sound(row) /\ Comments(row) /\ (row.from = "COMMENT" => Commented(text, p))
        BY NameRows, NameKeeps DEF Comments
      <4>3. /\ reader' = "COMMENT" => Commented(text, p')
            /\ \/ Held(p', NameChar, Rest \cup Places(buf'))
               \/ \E row \in NameTable : Drops(row, NameChar) /\ reader' = row.to
        BY <1>0, <3>1, <4>1, <4>2, TurnHeld
      <4>4. \A row \in NameTable : Drops(row, NameChar) => row.to = "ERROR"
        BY NameKeeps DEF Drops, Word
      <4> QED BY <3>2, <4>3, <4>4
    <3>3. CASE state # "AHEADPREFIX"
      <4>1. Turn(RegexTable, RegexLast)
        BY <1>3, <3>3 DEF Reads
      <4>2. CASE reader = "COMMENT"
        <5>1. \A row \in RegexTable : Sound(row) /\ Comments(row) /\ (row.from = "COMMENT" => Commented(text, p))
          BY <4>2, RegexRows, RegexKeeps DEF DictHeld
        <5> QED BY <1>0, <3>1, <4>1, <5>1, TurnHeld, RegexKeeps
      <4>3. CASE reader # "COMMENT"
        <5> DEFINE Others == {row \in RegexTable : row.from # "COMMENT"}
        <5>1. Checked(RegexLast) # "COMMENT"
          BY <4>3 DEF Checked
        <5>2. Turn(Others, RegexLast)
          BY <4>1, <5>1 DEF Turn
        <5>3. \A row \in Others : Sound(row) /\ Comments(row) /\ (row.from = "COMMENT" => Commented(text, p))
              /\ ~Drops(row, NameChar)
          BY RegexRows, RegexKeeps
        <5> HIDE DEF Others
        <5> QED BY <1>0, <3>1, <5>2, <5>3, TurnHeld
      <4> QED BY <4>2, <4>3
    <3> QED BY <3>2, <3>3
  <2> QED BY <2>4, <2>5
<1>4. CASE NoPattern
  <2>1. /\ state = "AHEADPATTERN" /\ ~Idle /\ reader' = "none" /\ UNCHANGED <<p, buf, pattern, dict>>
        /\ state' = IF buf = <<>> THEN "END" ELSE "ERROR"
    BY <1>4 DEF NoPattern, Returns, Idle
  <2>2. Held(p, NameChar, DictPlaces \cup Places(Waiting) \cup Places(buf)) /\ Waiting = <<>>
    BY <2>1 DEF DictHeld, Carried, Waiting, PatternStates
  <2>3. buf = <<>> => DictPlaces' \cup Places(Waiting') = DictPlaces \cup Places(Waiting) \cup Places(buf)
    BY <2>1, <2>2, PlacesOfNone DEF DictPlaces, Waiting, Kept, Places, PatternStates
  <2>4. Held(p', NameChar, DictPlaces' \cup Places(Waiting')) \/ state' = "ERROR"
    BY <2>1, <2>2, <2>3
  <2> QED BY <1>1, <2>1, <2>4 DEF Idle
<1>5. CASE PatternOfDefdir
  <2>1. /\ state = "AHEADPATTERN" /\ ~Idle /\ reader' = "none" /\ UNCHANGED <<p, buf, dict>>
        /\ pattern' = buf /\ state' = "PATTERNEND"
    BY <1>5 DEF PatternOfDefdir, Returns, Idle
  <2>2. Held(p, NameChar, DictPlaces \cup Places(Waiting) \cup Places(buf)) /\ Waiting = <<>>
    BY <2>1 DEF DictHeld, Carried, Waiting, PatternStates
  <2>3. DictPlaces' \cup Places(Waiting') = DictPlaces \cup Places(Waiting) \cup Places(buf)
    BY <2>1, <2>2, PlacesOfNone DEF DictPlaces, Waiting, Kept, Places, PatternStates
  <2> QED BY <1>1, <2>1, <2>2, <2>3 DEF Idle
<1>6. ASSUME NEW pat \in Seq(Int), NEW pfx \in Seq(Int), NEW next, AddItem(pat, pfx, next),
             Held(p, NameChar, DictPlaces \cup Places(pat) \cup Places(pfx)), p' = p, reader' = "none",
             next \notin {"COMMENT"} \cup PatternStates
      PROVE  DictHeld'
  <2>1. CASE pat = <<>>
    BY <1>1, <1>6, <2>1 DEF AddItem, Idle
  <2>2. CASE pat # <<>>
    <3> DEFINE pair == [pattern |-> pat, prefix |-> pfx]
    <3>1. /\ dict' = Append(dict, pair) /\ state' = next /\ pair \in PairType
          /\ Kept(pair) = Places(pat) \cup Places(pfx)
      BY <1>6, <2>2 DEF AddItem, PairType, Kept
    <3> HIDE DEF pair
    <3>2. DictPlaces' = DictPlaces \cup Kept(pair)
      BY <3>1, AddPlaces DEF DictOrder
    <3>3. Held(p', NameChar, DictPlaces' \cup Places(Waiting'))
      BY <1>6, <3>1, <3>2 DEF Held
    <3> QED BY <1>1, <1>6, <3>1, <3>3 DEF Idle
  <2> QED BY <2>1, <2>2
<1>7. CASE PatternOfNoextend
  <2>1. /\ state = "AHEADPATTERN" /\ ~Idle /\ reader' = "none" /\ p' = p
        /\ AddItem(buf, <<>>, "AHEADPATTERN")
    BY <1>7 DEF PatternOfNoextend, Returns, Idle
  <2>2. Held(p, NameChar, DictPlaces \cup Places(Waiting) \cup Places(buf)) /\ Waiting = <<>>
    BY <2>1 DEF DictHeld, Carried, Waiting, PatternStates
  <2>3. Held(p, NameChar, DictPlaces \cup Places(buf) \cup Places(<<>>))
    BY <2>2, PlacesOfNone DEF Held
  <2>4. buf \in Seq(Int) /\ <<>> \in Seq(Int) /\ "AHEADPATTERN" \notin {"COMMENT"} \cup PatternStates
    BY <1>0, BufferType, PlacesOfNone DEF PatternStates
  <2> QED BY <1>6, <2>1, <2>3, <2>4
<1>8. CASE Prefix
  <2>1. /\ state = "AHEADPREFIX" /\ ~Idle /\ reader' = "none" /\ p' = p /\ Waiting = pattern
        /\ Carried = Places(buf) /\ buf \in Seq(Int) /\ pattern \in Seq(Int)
    BY <1>0, <1>8, BufferType DEF Prefix, Returns, Idle, Waiting, PatternStates, Carried, DictOrder
  <2>2. CASE Returns("TRUE") /\ AddItem(pattern, buf, "PREFIXEND")
    <3>1. Held(p, NameChar, DictPlaces \cup Places(pattern) \cup Places(buf))
      BY <2>1, <2>2 DEF DictHeld, Returns
    <3> QED BY <1>6, <2>1, <2>2, <3>1 DEF PatternStates
  <2>3. CASE state' = "ERROR"
    BY <1>1, <2>1, <2>3 DEF Idle
  <2> QED BY <1>8, <2>2, <2>3 DEF Prefix
<1>9. CASE Passes
  <2>1. PICK row \in DefdirTable : row.from = DictNow /\ text[p] \in row.on /\ state' = row.to
    BY <1>9 DEF Passes
  <2>2. /\ row.from \notin {"END", "ERROR", "finished", "abort"}
        /\ row.to \in PatternStates => row.from \in PatternStates
        /\ row.from \in PatternStates /\ row.to \notin PatternStates => row.to = "ERROR"
        /\ Comments(row) /\ (row.on \cap NameChar # {} => row.to = "ERROR" \/ row.from = "COMMENT")
    BY DefdirRows, DefdirKeeps
  <2>3. DictNow = state /\ p # End /\ p \in 1..Len(text)
    BY <1>0, <1>9, <2>1, <2>2 DEF DictNow, Passes, BlockInv, Idle
  <2>4. /\ p' = p + 1 /\ Idle' /\ Idle /\ UNCHANGED <<pattern, dict>>
    BY <1>9 DEF Passes, Idle
  <2>5. Held(p, NameChar, Rest) /\ (state = "COMMENT" => Commented(text, p))
    BY <2>1, <2>2, <2>3, <2>4 DEF DictHeld, Carried, Idle
  <2>6. state' = "COMMENT" => Commented(text, p')
    <3> SUFFICES ASSUME state' = "COMMENT" PROVE Commented(text, p')
      OBVIOUS
    <3>1. text[p] = "comment" \/ (row.from = "COMMENT" /\ text[p] # "newline")
      BY <2>1, <2>2 DEF Comments
    <3> QED BY <1>0, <2>1, <2>3, <2>4, <2>5, <3>1, CommentGoesOn
  <2>7. CASE row.to = "ERROR"
    BY <1>1, <2>1, <2>4, <2>6, <2>7
  <2>8. CASE row.to # "ERROR"
    <3>1. text[p] \in NameChar => Commented(text, p)
      BY <2>1, <2>2, <2>3, <2>5, <2>8
    <3>2. DictPlaces' \cup Places(Waiting') = Rest
      BY <2>1, <2>2, <2>3, <2>4, <2>8 DEF DictPlaces, Waiting, Kept, Places
    <3> HIDE DEF Rest
    <3>3. Held(p + 1, NameChar, Rest)
      BY <1>0, <2>5, <3>1, HeldNext
    <3> QED BY <1>1, <2>4, <2>6, <3>2, <3>3
  <2> QED BY <2>7, <2>8
<1>10. CASE Finishes
  <2>1. /\ Idle /\ Idle' /\ p' = p /\ state' = "finished" /\ UNCHANGED <<pattern, dict>>
        /\ error' = (error \/ DictNow = "ERROR") /\ DictNow \in {"END", "ERROR"}
    BY <1>10 DEF Finishes, Idle
  <2>2. CASE DictNow = "ERROR"
    BY <1>1, <2>1, <2>2
  <2>3. CASE DictNow = "END"
    <3>1. state \in DefdirLast
      BY <2>1, <2>3 DEF DictNow, DefdirLast
    <3>2. Held(p, NameChar, Rest)
      BY <2>1, <3>1 DEF DictHeld, Carried, DefdirLast, Idle
    <3>3. DictPlaces' \cup Places(Waiting') = Rest
      BY <2>1, <3>1 DEF DictPlaces, Waiting, Kept, Places, DefdirLast, PatternStates
    <3> QED BY <1>1, <2>1, <3>2, <3>3
  <2> QED BY <2>1, <2>2, <2>3
<1> QED BY <1>2, <1>3, <1>4, <1>5, <1>7, <1>8, <1>9, <1>10 DEF DictNext
-----------------------------------------------------------------------------
(* The same of _make. *)

\* What is written, or left out on purpose.
Rest == Places(out) \cup Places(line) \cup skipped

\* The states in which all of the text up to p is accounted for.
Accounted == {"BOL", "WORD", "ESCAPE", "COMMENT", "OTHER", "END"}

MakeHeld ==
  /\ ~Idle => /\ called \in Int /\ Held(called, Word, Rest)
              /\ reader \in {"ERROR", "FALSE"} \/ Held(p, Word, Rest \cup Places(buf))
  /\ Idle /\ (state \in Accounted \/ (state = "finished" /\ ~error)) => Held(p, Word, Rest)
  /\ Idle /\ state = "COMMENT" => Commented(text, p)

\* What is written, wherever writeinline puts it.
LEMMA WriteInLinePlaces ==
  ASSUME out \in Seq(Int), NEW l \in Seq(Int), NEW x \in Int, WriteInLine(x, l)
  PROVE  Places(out') \cup Places(line') = Places(out) \cup Places(l) \cup {y \in {x} : y > 0}
<1>1. Places(Append(l, x)) = Places(l) \cup {y \in {x} : y > 0}
  BY PlacesAppend
<1>2. Places(<<x>>) = {y \in {x} : y > 0}
  BY DEF Places, ToSet
<1>3. Places(out \o l) = Places(out) \cup Places(l)
  BY PlacesJoin
<1> QED BY <1>1, <1>2, <1>3 DEF WriteInLine

\* A character that decides how to go on is passed only where it does not count.
LEMMA GoesOnHeld ==
  ASSUME BlockInv, NEW i \in 1..End, i # End, NEW notes, GoesOn(i, notes),
         NEW S, Held(i, Word, S)
  PROVE  Held(p', Word, S) /\ (state' = "COMMENT" => Commented(text, p'))
<1>1. i \in 1..Len(text) /\ i \in Int
  BY DEF BlockInv
<1>2. p' = IF text[i] \in {"newline", "backslash", "comment"} THEN i + 1 ELSE i
  BY DEF GoesOn
<1>3. state' = "COMMENT" => text[i] = "comment"
  BY DEF GoesOn, StateFor
<1>4. Held(p', Word, S)
  <2>1. CASE text[i] \in {"newline", "backslash", "comment"}
    <3>1. text[i] \notin Word
      BY <2>1 DEF Word, NameChar
    <3>2. \A j \in i..(i + 1 - 1) : j = i
      BY <1>1
    <3> QED BY <1>1, <1>2, <2>1, <3>1, <3>2, HeldUpTo
  <2>2. CASE text[i] \notin {"newline", "backslash", "comment"}
    BY <1>2, <2>2
  <2> QED BY <2>1, <2>2
<1>5. state' = "COMMENT" => Commented(text, p')
  BY <1>1, <1>2, <1>3, CommentGoesOn
<1> QED BY <1>4, <1>5

\* Behind a word, with the line l that has it.
LEMMA AfterWordHeld ==
  ASSUME BlockInv, p \in 1..End, out \in Seq(Int), NEW l \in Seq(Int), AfterWord(l),
         NEW S, Held(p, Word, Places(out) \cup Places(l) \cup S)
  PROVE  Held(p', Word, Places(out') \cup Places(line') \cup S) /\ (state' = "COMMENT" => Commented(text, p'))
<1>1. CASE p = End
  <2>1. WriteInLine(NewLine, l) /\ p' = p /\ state' = "END"
    BY <1>1 DEF AfterWord
  <2>2. Places(out') \cup Places(line') = Places(out) \cup Places(l)
    BY <2>1, WriteInLinePlaces DEF NewLine
  <2> QED BY <2>1, <2>2
<1>2. CASE p # End
  <2>1. line' = l /\ out' = out /\ GoesOn(p, {"backslash", "comment"})
    BY <1>2 DEF AfterWord
  <2> QED BY <1>2, <2>1, GoesOnHeld
<1> QED BY <1>1, <1>2

LEMMA MakeHeldStep ==
  ASSUME TextInv, task = "make", MakeOrder, MakeHeld, MakeNext, UNCHANGED dictVars
  PROVE  MakeHeld'
<1>0. /\ text' = text /\ BlockInv /\ BufferInv /\ (state = "past" \/ p \in 1..End) /\ p \in Int
      /\ state # "past" /\ state # "READ" /\ out \in Seq(Int) /\ line \in Seq(Int) /\ ~ForDict
      /\ (~Idle => state = "WORD")
  BY DEF MakeNext, MarkReads, MarkReturns, Read, Bol, WordCalls, WordReads, WordFits, WordEmpty,
         WordRefused, Other, Join, Escape, Comment, Succeeds, Fails, Stays, lexed, Turn,
         TextInv, PointerInv, BlockInv, MakeOrder, ForDict
<1>1. ASSUME reader' = "none", state' = "COMMENT" => Commented(text, p'),
             \/ Held(p', Word, Places(out') \cup Places(line') \cup skipped')
             \/ state' \notin Accounted \cup {"finished"} \/ (state' = "finished" /\ error')
      PROVE  MakeHeld'
  BY <1>0, <1>1 DEF MakeHeld, Held, Rest, Places, Idle, Accounted
<1>2. Idle => reader = "none"
  BY DEF Idle
<1>3. CASE MarkReads
  <2>1. PICK row \in MarkTable : row.from = state /\ state' = row.to
    BY <1>3 DEF MarkReads
  <2>2. state \in MarkAll /\ state' \notin Accounted \cup {"finished"}
    <3>1. state' \notin Accounted \cup {"finished"}
      BY <2>1 DEF MarkTable, MarkRow, EmptyLine, MarkComments, Accounted
    <3> QED BY <1>3, <3>1 DEF MarkReads, MarkAll
  <2>3. reader' = "none" /\ state' # "COMMENT"
    BY <1>0, <1>2, <1>3, <2>2, LoopStates DEF MarkReads, lexed, Accounted
  <2> QED BY <1>1, <2>2, <2>3
<1>4. CASE MarkReturns
  <2>1. reader' = "none" /\ skipped' = 1..(p' - 1) /\ state' # "COMMENT"
    <3>1. state \in MarkAll
      BY <1>4 DEF MarkReturns, MarkAll
    <3>2. Idle
      BY <1>0, <3>1, LoopStates
    <3> QED BY <1>2, <1>4, <3>2 DEF MarkReturns, lexed
  <2>2. Held(p', Word, Places(out') \cup Places(line') \cup skipped')
    BY <2>1 DEF Held
  <2> QED BY <1>1, <2>1, <2>2
<1>5. CASE Read
  BY <1>0, <1>5 DEF Read
<1>6. CASE Bol
  <2>1. state = "BOL" /\ Idle /\ indent \in Nat /\ p \in 1..End /\ p # End
    BY <1>0, <1>6 DEF Bol, TextInv, PointerInv
  <2>2. /\ ReadTabs(p) \in p..End /\ ReadTabs(p) \in 1..End
        /\ \A j \in p..ReadTabs(p) - 1 : text[j] = "tab"
    BY <1>0, <2>1, ReadTabsFacts DEF BlockInv
  <2>3. PICK q : q = ReadTabs(p)
    OBVIOUS
  <2>4. UNCHANGED <<out, line, skipped, reader>>
    BY <1>6 DEF Bol, Stays, lexed
  <2>5. Held(p, Word, Rest)
    BY <2>1 DEF MakeHeld, Accounted
  <2>6. Held(q, Word, Rest)
    <3>1. q \in Int /\ \A j \in p..(q - 1) : text[j] \notin Word
      BY <1>0, <2>2, <2>3 DEF Word, NameChar, BlockInv
    <3> QED BY <1>0, <2>5, <3>1, HeldUpTo
  <2>7. \/ q = End /\ p' = q /\ state' = "END"
        \/ q # End /\ GoesOn(q, {"backslash"})
    BY <1>6, <2>3 DEF Bol
  <2>8. Held(p', Word, Rest) /\ (state' = "COMMENT" => Commented(text, p'))
    BY <1>0, <2>2, <2>3, <2>6, <2>7, GoesOnHeld
  <2> QED BY <1>1, <1>2, <2>1, <2>4, <2>8 DEF Rest
<1>7. CASE WordCalls
  <2>1. /\ state = "WORD" /\ Idle /\ reader' = "AHEAD" /\ called' = p /\ UNCHANGED <<p, out, line, skipped>>
    BY <1>7 DEF WordCalls, Call
  <2>2. Held(p, Word, Rest) /\ ~Idle'
    BY <2>1 DEF MakeHeld, Idle, Accounted
  <2>3. Held(p, Word, Rest)' /\ Held(called, Word, Rest)'
    BY <1>0, <2>1, <2>2 DEF Held, Rest, Places
  <2>4. Held(p, Word, Rest \cup Places(buf))'
    BY <2>3 DEF Held
  <2> QED BY <1>0, <2>1, <2>2, <2>3, <2>4 DEF MakeHeld
<1>8. CASE WordReads
  <2>1. /\ ~Idle /\ state = "WORD" /\ p \in 1..End /\ UNCHANGED <<out, line, skipped, called>>
        /\ Turn(NameTable, NameLast)
    BY <1>0, <1>8 DEF WordReads, Turn, Reading, Idle
  <2>2. ~Idle'
    BY <2>1, NameRows DEF Turn, Idle, Sound
  <2>3. called' \in Int /\ Held(called, Word, Rest)'
    BY <1>0, <2>1 DEF MakeHeld, Held, Rest, Places
  <2>4. reader' \in {"ERROR", "FALSE"} \/ Held(p', Word, Rest \cup Places(buf'))
    <3>1. CASE reader \in {"ERROR", "FALSE"}
      <4>1. NameLast = {"NAME", "END"} /\ reader = "ERROR"
        BY <2>1, <3>1 DEF NameLast, Turn, Reading
      <4>2. Checked(NameLast) = "ERROR"
        BY <4>1 DEF Checked
      <4> QED BY <2>1, <4>2 DEF Turn
    <3>2. CASE Held(p, Word, Rest \cup Places(buf))
      <4>1. \A row \in NameTable : Sound(row) /\ Comments(row) /\ (row.from = "COMMENT" => Commented(text, p))
        BY NameRows, NameKeeps DEF Comments
      <4>2. \/ Held(p', Word, Rest \cup Places(buf'))
            \/ \E row \in NameTable : Drops(row, Word) /\ reader' = row.to
        BY <1>0, <2>1, <3>2, <4>1, TurnHeld
      <4> QED BY <4>2, NameKeeps
    <3> QED BY <2>1, <3>1, <3>2 DEF MakeHeld
  <2>5. reader' \in {"ERROR", "FALSE"} \/ Held(p, Word, Rest \cup Places(buf))'
    BY <1>0, <2>1, <2>4 DEF Held, Rest, Places
  <2> QED BY <2>2, <2>3, <2>5 DEF MakeHeld
<1>9. CASE WordFits
  <2>1. /\ reader = "TRUE" /\ ~Idle /\ reader' = "none" /\ skipped' = skipped /\ buf \in Seq(Int)
        /\ p \in 1..End
    BY <1>0, <1>9, BufferType DEF WordFits, Idle
  <2>2. Held(p, Word, Rest \cup Places(buf))
    BY <2>1 DEF MakeHeld
  <2>3. PICK k, l :
          /\ k \in PrefixSizes /\ l = line \o [i \in 1..k |-> PrefixChar] \o buf
          /\ state' = "overrun" \/ AfterWord(l)
    BY <1>9 DEF WordFits
  <2>4. l \in Seq(Int) /\ Places(l) = Places(line) \cup Places(buf)
    <3>1. PICK f : f = [i \in 1..k |-> PrefixChar]
      OBVIOUS
    <3>2. f \in Seq(Int) /\ Places(f) = {}
      <4>1. k \in Nat
        BY <2>3, MakeAssumption
      <4> QED BY <3>1, <4>1 DEF PrefixChar, Places, ToSet
    <3>3. line \o f \in Seq(Int) /\ Places(line \o f) = Places(line) \cup Places(f)
      BY <1>0, <3>2, PlacesJoin
    <3>4. (line \o f) \o buf \in Seq(Int)
          /\ Places((line \o f) \o buf) = Places(line \o f) \cup Places(buf)
      BY <2>1, <3>3, PlacesJoin
    <3> QED BY <2>3, <3>1, <3>2, <3>3, <3>4
  <2>5. Held(p, Word, Places(out) \cup Places(l) \cup skipped)
    BY <2>2, <2>4 DEF Held, Rest
  <2>6. CASE state' = "overrun"
    BY <1>1, <2>1, <2>6 DEF Accounted
  <2>7. CASE AfterWord(l)
    <3>1. /\ Held(p', Word, Places(out') \cup Places(line') \cup skipped)
          /\ state' = "COMMENT" => Commented(text, p')
      BY <1>0, <2>1, <2>4, <2>5, <2>7, AfterWordHeld
    <3> QED BY <1>1, <2>1, <3>1
  <2> QED BY <2>3, <2>6, <2>7
<1>10. CASE WordEmpty
  BY <1>1, <1>10 DEF WordEmpty, Accounted
<1>11. CASE WordRefused
  <2>1. /\ reader = "FALSE" /\ ~Idle /\ reader' = "none" /\ skipped' = skipped \cup called..(p - 1)
        /\ AfterWord(line) /\ p \in 1..End
    BY <1>0, <1>11 DEF WordRefused, Idle
  <2>2. called \in Int /\ Held(called, Word, Rest)
    BY <2>1 DEF MakeHeld
  <2>3. Held(p, Word, Places(out) \cup Places(line) \cup skipped')
    <3> SUFFICES ASSUME NEW i \in 1..(p - 1), text[i] \in Word
                 PROVE  i \in Places(out) \cup Places(line) \cup skipped' \/ Commented(text, i)
      BY DEF Held
    <3>1. i \in 1..(called - 1) \/ i \in called..(p - 1)
      BY <1>0, <2>2
    <3> QED BY <2>1, <2>2, <3>1 DEF Held, Rest
  <2>4. /\ Held(p', Word, Places(out') \cup Places(line') \cup skipped')
        /\ state' = "COMMENT" => Commented(text, p')
    BY <1>0, <2>1, <2>3, AfterWordHeld
  <2> QED BY <1>1, <2>1, <2>4
<1>12. CASE Other
  <2>1. /\ state = "OTHER" /\ Idle /\ p \in 1..End /\ p + 1 \in 1..End /\ UNCHANGED <<skipped, reader>>
        /\ WriteInLine(p, line) /\ p \in Nat \ {0}
    BY <1>0, <1>12 DEF Other, Stays, lexed, TextInv, PointerInv, BlockInv
  <2>2. Held(p, Word, Rest)
    BY <2>1 DEF MakeHeld, Accounted
  <2>3. Places(out') \cup Places(line') = Places(out) \cup Places(line) \cup {p}
    BY <1>0, <2>1, WriteInLinePlaces
  <2>4. PICK S : S = Places(out') \cup Places(line') \cup skipped'
    OBVIOUS
  <2>5. Held(p, Word, S) /\ p \in S
    BY <2>1, <2>2, <2>3, <2>4 DEF Held, Rest
  <2>6. Held(p + 1, Word, S)
    BY <2>1, <2>5, HeldNext
  <2>7. \/ p + 1 = End /\ p' = End /\ state' = "END"
        \/ p + 1 # End /\ GoesOn(p + 1, {"backslash", "comment"})
    BY <1>12 DEF Other
  <2>8. Held(p', Word, S) /\ (state' = "COMMENT" => Commented(text, p'))
    BY <1>0, <2>1, <2>6, <2>7, GoesOnHeld
  <2> QED BY <1>1, <1>2, <2>1, <2>4, <2>8
<1>13. CASE Join
  <2>1. /\ state = "ESCAPE" /\ Idle /\ p \in 1..End /\ p + 1 \in 1..End /\ UNCHANGED <<skipped, reader>>
        /\ WriteInLine(Space, line) /\ text[p] = "newline"
    BY <1>0, <1>13 DEF Join, Stays, lexed, TextInv, PointerInv, BlockInv
  <2>2. Held(p, Word, Rest)
    BY <2>1 DEF MakeHeld, Accounted
  <2>3. Places(out') \cup Places(line') = Places(out) \cup Places(line)
    BY <1>0, <2>1, WriteInLinePlaces DEF Space
  <2>4. /\ PastAll(p + 1, Blank) \in (p + 1)..End
        /\ \A j \in p + 1..PastAll(p + 1, Blank) - 1 : text[j] \in Blank
    BY <1>0, <2>1, PastAllFacts
  <2>5. PICK q : q = PastAll(p + 1, Blank)
    OBVIOUS
  <2>6. q \in Int /\ q \in 1..End /\ \A j \in p..(q - 1) : j = p \/ j \in p + 1..q - 1
    BY <1>0, <2>1, <2>4, <2>5 DEF BlockInv
  <2>7. Held(q, Word, Rest)
    <3>1. \A j \in p..(q - 1) : text[j] \notin Word
      BY <2>1, <2>4, <2>5, <2>6 DEF Word, NameChar, Blank
    <3> QED BY <1>0, <2>2, <2>6, <3>1, HeldUpTo
  <2>8. \/ q = End /\ p' = End /\ state' = state
        \/ q # End /\ GoesOn(q, {})
    BY <1>13, <2>5 DEF Join
  <2>9. Held(p', Word, Rest) /\ (state' = "COMMENT" => Commented(text, p'))
    BY <1>0, <2>1, <2>6, <2>7, <2>8, GoesOnHeld
  <2> QED BY <1>1, <1>2, <2>1, <2>3, <2>9 DEF Rest
<1>14. CASE Escape
  <2>1. state = "ESCAPE" /\ Idle /\ UNCHANGED <<skipped, reader, out, line>>
    BY <1>0, <1>14 DEF Escape, Stays, lexed
  <2>2. state' = "ERROR" \/ (state' = "WORD" /\ p' = p - 1)
    BY <1>14 DEF Escape
  <2>3. Held(p, Word, Rest)
    BY <2>1 DEF MakeHeld, Accounted
  <2>4. Held(p - 1, Word, Rest)
    BY <1>0, <2>3, HeldBack
  <2> QED BY <1>1, <1>2, <2>1, <2>2, <2>4 DEF Rest, Accounted
<1>15. CASE Comment
  <2>1. state = "COMMENT" /\ Idle /\ p \in 1..End /\ p # End /\ UNCHANGED <<skipped, reader>>
    BY <1>0, <1>15 DEF Comment, Stays, lexed
  <2>2. Held(p, Word, Rest) /\ Commented(text, p)
    BY <2>1 DEF MakeHeld, Accounted
  <2>3. /\ PastAll(p, Class \ {"newline"}) \in p..End
        /\ PastAll(p, Class \ {"newline"}) = End \/ text[PastAll(p, Class \ {"newline"})] \notin Class \ {"newline"}
        /\ \A j \in p..PastAll(p, Class \ {"newline"}) - 1 : text[j] \in Class \ {"newline"}
    BY <1>0, <2>1, PastAllFacts
  <2>4. PICK q : q = PastAll(p, Class \ {"newline"})
    OBVIOUS
  <2>5. q \in Int /\ p <= q /\ q <= End /\ \A j \in p..(q - 1) : text[j] # "newline"
    <3>1. q \in p..End /\ End \in Int
      BY <1>0, <2>3, <2>4 DEF BlockInv
    <3>2. \A j \in p..q - 1 : text[j] \in Class \ {"newline"}
      BY <2>3, <2>4
    <3> QED BY <1>0, <3>1, <3>2
  <2>6. ASSUME NEW i \in p..q PROVE Commented(text, i)
    <3>1. PICK j \in 1..(p - 1) : text[j] = "comment" /\ \A k \in j..(p - 1) : text[k] # "newline"
      BY <2>2 DEF Commented
    <3>2. j \in 1..(i - 1) /\ \A k \in j..(i - 1) : k \in j..(p - 1) \/ k \in p..(q - 1)
      BY <1>0, <2>5
    <3> QED BY <2>5, <3>1, <3>2 DEF Commented
  <2>7. Held(q, Word, Rest)
    <3>1. \A j \in p..(q - 1) : Commented(text, j)
      BY <1>0, <2>5, <2>6
    <3> QED BY <1>0, <2>2, <2>5, <3>1, HeldUpTo
  <2>8. CASE q = End
    <3>1. p' = q /\ state' = state /\ UNCHANGED <<out, line>>
      BY <1>15, <2>4, <2>8 DEF Comment
    <3> QED BY <1>0, <1>1, <1>2, <2>1, <2>5, <2>6, <2>7, <3>1 DEF Rest
  <2>9. CASE q # End
    <3>1. /\ p' = q + 1 /\ state' = "BOL"
          /\ WriteInLine(NewLine, line) \/ UNCHANGED <<out, line>>
      BY <1>15, <2>4, <2>9 DEF Comment
    <3>2. Places(out') \cup Places(line') = Places(out) \cup Places(line)
      BY <1>0, <3>1, WriteInLinePlaces DEF NewLine
    <3>3. text[q] = "newline"
      <4>1. q \in 1..Len(text)
        BY <1>0, <2>5, <2>9 DEF BlockInv
      <4> QED BY <1>0, <2>3, <2>4, <2>9, <4>1 DEF BlockInv
    <3>4. Held(q + 1, Word, Rest)
      <4>1. \A j \in q..(q + 1 - 1) : text[j] \notin Word
        BY <2>5, <3>3 DEF Word, NameChar
      <4> QED BY <2>5, <2>7, <4>1, HeldUpTo
    <3> QED BY <1>1, <1>2, <2>1, <3>1, <3>2, <3>4 DEF Rest
  <2> QED BY <2>8, <2>9
<1>16. CASE Succeeds
  <2>1. /\ Idle /\ MakeNow = "END" /\ out' = out \o Append(line, NewLine) /\ line' = <<>>
        /\ state' = "finished" /\ UNCHANGED <<p, skipped, reader>>
    BY <1>16 DEF Succeeds, lexed
  <2>2. Held(p, Word, Rest)
    <3>1. state \in Accounted
      BY <1>0, <2>1 DEF MakeNow, Accounted
    <3> QED BY <2>1, <3>1 DEF MakeHeld
  <2>3. Places(out') \cup Places(line') = Places(out) \cup Places(line)
    <3>1. NewLine \in Int /\ {y \in {NewLine} : y > 0} = {}
      BY DEF NewLine
    <3>2. /\ Append(line, NewLine) \in Seq(Int)
          /\ Places(Append(line, NewLine)) = Places(line) \cup {y \in {NewLine} : y > 0}
      BY <1>0, <3>1, PlacesAppend
    <3>3. Places(out \o Append(line, NewLine)) = Places(out) \cup Places(Append(line, NewLine))
      BY <1>0, <3>2, PlacesJoin
    <3> QED BY <2>1, <3>1, <3>2, <3>3, PlacesOfNone
  <2> QED BY <1>1, <1>2, <2>1, <2>2, <2>3 DEF Rest
<1>17. CASE Fails
  BY <1>1, <1>2, <1>17 DEF Fails
<1> QED BY <1>3, <1>4, <1>5, <1>6, <1>7, <1>8, <1>9, <1>10, <1>11, <1>12, <1>13, <1>14, <1>15, <1>16, <1>17
        DEF MakeNext
-----------------------------------------------------------------------------
HeldInv == /\ ForDict => DictHeld
           /\ task = "make" => MakeHeld

LEMMA HeldStarts == ASSUME Init PROVE HeldInv
<1>1. Idle /\ p = 1 /\ state # "COMMENT"
  BY DEF Init, Idle
<1>2. \A chars, S : Held(p, chars, S)
  BY <1>1 DEF Held
<1> QED BY <1>1, <1>2 DEF HeldInv, DictHeld, MakeHeld, Idle

LEMMA HeldStep == ASSUME TextInv, OrderInv, HeldInv, [Next]_vars PROVE HeldInv'
<1>1. CASE UNCHANGED vars
  <2>1. UNCHANGED <<task, text, p, state, error, reader, buf, pattern, dict, line, out, called, skipped>>
    BY <1>1 DEF vars
  <2>2. DictHeld' <=> DictHeld
    BY <2>1 DEF DictHeld, Held, Idle, Waiting, DictPlaces, Carried, Kept, Places
  <2>3. MakeHeld' <=> MakeHeld
    BY <2>1 DEF MakeHeld, Held, Rest, Idle, Places
  <2> QED BY <2>1, <2>2, <2>3 DEF HeldInv, ForDict
<1>2. CASE ForDict /\ DictNext /\ UNCHANGED makeVars
  <2>1. DictHeld'
    BY <1>2, DictHeldStep DEF OrderInv, HeldInv
  <2>2. task' = task /\ task # "make"
    BY <1>2 DEF ForDict, DictNext, Calls, Reads, NoPattern, PatternOfDefdir, PatternOfNoextend,
                Prefix, Passes, Finishes, Returns
  <2> QED BY <2>1, <2>2 DEF HeldInv
<1>3. CASE ~ForDict /\ MakeNext /\ UNCHANGED dictVars
  <2>1. task' = task
    BY <1>3 DEF MakeNext, MarkReads, MarkReturns, Read, Bol, WordCalls, WordReads, WordFits,
                WordEmpty, WordRefused, Other, Join, Escape, Comment, Succeeds, Fails, Stays, lexed
  <2>2. task = "make" => MakeHeld'
    BY <1>3, MakeHeldStep DEF OrderInv, HeldInv
  <2> QED BY <1>3, <2>1, <2>2 DEF HeldInv, ForDict
<1> QED BY <1>1, <1>2, <1>3 DEF Next, Stopped

\* For every text: a character in front of p that carries meaning, when a dictionary task
\* or _make has finished without an error, is in the dictionary or the output, or in a
\* comment, the mark or a word name_reader refuses (context.cpp:565-731, 1183-1417).  What
\* is behind p, as the text behind a quote that is not closed, is not spoken of.
THEOREM DropsNothing == Spec => []NothingDropped
<1>1. TextInv /\ HeldInv => NothingDropped
  <2> SUFFICES ASSUME TextInv, HeldInv, task # "raw", state = "finished", ~error,
                      NEW i \in 1..(p - 1), text[i] \in Counted
               PROVE  i \in Taken \cup skipped \/ Commented(text, i)
    BY DEF NothingDropped
  <2>1. Taken = DictPlaces \cup Places(out) \cup Places(line)
    BY DEF Taken
  <2>2. CASE ForDict
    <3>1. Idle /\ Held(p, NameChar, DictPlaces \cup Places(Waiting) \cup Carried) /\ Waiting = <<>>
      BY <2>2 DEF HeldInv, DictHeld, Waiting, PatternStates
    <3> QED BY <2>1, <2>2, <3>1, PlacesOfNone DEF Held, Carried, Counted
  <2>3. CASE ~ForDict
    <3>1. task = "make" /\ Idle
      BY <2>3 DEF TextInv, PointerInv, BlockInv, ForDict, Task
    <3>2. Held(p, Word, Rest)
      BY <3>1 DEF HeldInv, MakeHeld
    <3> QED BY <2>1, <2>3, <3>2 DEF Held, Rest, Counted, Word
  <2> QED BY <2>2, <2>3
<1>2. TextInv /\ OrderInv /\ HeldInv /\ [Next]_vars => (TextInv /\ OrderInv /\ HeldInv)'
  BY TextStep, OrderStep, HeldStep
<1> QED BY <1>1, <1>2, TextStarts, OrderStarts, HeldStarts, PTL DEF Spec

(* _raw copies the lines. *)

\* A set of numbers that has a bound has a greatest one.
LEMMA Greatest ==
  ASSUME NEW T, T \subseteq Nat, T # {}, NEW n \in Nat, \A y \in T : y <= n
  PROVE  Max(T) \in T /\ \A y \in T : y <= Max(T)
<1> DEFINE R == {n - y : y \in T}
<1>1. R \subseteq Nat /\ R # {}
  <2>1. \A y \in T : n - y \in Nat
    OBVIOUS
  <2> QED BY <2>1
<1>2. Min(R) \in R /\ \A y \in R : Min(R) <= y
  <2> HIDE DEF R
  <2> QED BY <1>1, Least
<1>3. PICK x \in T : Min(R) = n - x
  BY <1>2
<1>4. ASSUME NEW y \in T PROVE y <= x
  <2>1. n - y \in R
    OBVIOUS
  <2>2. n - x <= n - y
    BY <1>2, <1>3, <2>1
  <2> QED BY <2>2
<1>5. \A y \in T : x >= y
  BY <1>4
<1>6. \E y \in T : \A z \in T : y >= z
  BY <1>5
<1>7. Max(T) \in T /\ \A z \in T : Max(T) >= z
  BY <1>6 DEF Max
<1> QED BY <1>7

\* Where a line is copied from: its beginning, or the mark.
LineFrom(b, i) == Max({LineStart(i), b})

LEMMA LineBegins ==
  ASSUME BlockInv, NEW b \in 1..End, NEW l \in b..End, l = b \/ text[l - 1] = "newline",
         NEW i \in l..Len(text), \A j \in l..(i - 1) : text[j] # "newline"
  PROVE  LineFrom(b, i) = l
<1> DEFINE T == {j \in 1..i : j = 1 \/ text[j - 1] = "newline"}
<1>1. b \in Nat /\ l \in Nat /\ i \in Nat /\ 1 <= b /\ b <= l /\ l <= i
  BY DEF BlockInv
<1>2. PICK s : s = LineStart(i)
  OBVIOUS
<1>3. s \in T /\ \A y \in T : y <= s
  <2>1. T \subseteq Nat /\ 1 \in T /\ \A y \in T : y <= i
    BY <1>1
  <2>2. s = Max(T)
    BY <1>2 DEF LineStart
  <2> HIDE DEF T
  <2> QED BY <1>1, <2>1, <2>2, Greatest
<1>4. s \in Nat /\ s <= l
  <2>1. s \in 1..i /\ (s = 1 \/ text[s - 1] = "newline")
    BY <1>3
  <2>2. s > l => s - 1 \in l..(i - 1)
    BY <1>1, <2>1
  <2> QED BY <1>1, <2>1, <2>2
<1>5. l = b \/ l <= s
  <2>1. text[l - 1] = "newline" => l \in T
    BY <1>1
  <2> QED BY <1>3, <2>1
<1>6. PICK S : S = {s, b}
  OBVIOUS
<1>7. Max(S) \in S /\ \A y \in S : y <= Max(S)
  <2>1. S \subseteq Nat /\ S # {} /\ \A y \in S : y <= l
    BY <1>1, <1>4, <1>6
  <2> QED BY <1>1, <2>1, Greatest
<1>8. PICK m : m = Max(S)
  OBVIOUS
<1>9. m \in {s, b} /\ s <= m /\ b <= m
  BY <1>6, <1>7, <1>8
<1>10. m = l
  BY <1>1, <1>4, <1>5, <1>9
<1> QED BY <1>2, <1>6, <1>8, <1>10 DEF LineFrom

\* The tabs that are cut off in front of i: see RawCopies.
Indents(b, i) == /\ \A j \in LineFrom(b, i)..i : text[j] = "tab"
                 /\ i - LineFrom(b, i) < indent

LEMMA TabsAreCut ==
  ASSUME BlockInv, indent \in Nat,
         NEW b \in 1..End, NEW l \in b..End, l = b \/ text[l - 1] = "newline",
         NEW i \in l..Len(text), \A j \in l..(i - 1) : text[j] # "newline"
  PROVE  Indents(b, i) <=> i < ReadTabs(l)
<1>1. LineFrom(b, i) = l
  BY LineBegins
<1>2. PICK q : q = ReadTabs(l)
  OBVIOUS
<1>3. /\ q \in l..End /\ q <= l + indent
      /\ \A j \in l..q - 1 : text[j] = "tab"
      /\ q < l + indent => q = End \/ text[q] # "tab"
  <2>1. l \in 1..End
    BY DEF BlockInv
  <2> QED BY <1>2, <2>1, ReadTabsFacts
<1>4. l \in Nat /\ i \in Nat /\ q \in Nat /\ End = Len(text) + 1 /\ Len(text) \in Nat /\ l <= i
  BY <1>3 DEF BlockInv
<1>5. CASE i < q
  <2>1. \A j \in l..i : j \in l..q - 1
    BY <1>4, <1>5
  <2>2. i - l < indent
    BY <1>3, <1>4, <1>5
  <2> QED BY <1>1, <1>2, <1>3, <1>5, <2>1, <2>2 DEF Indents
<1>6. CASE ~(i < q)
  <2>1. q \in l..i /\ q # End
    BY <1>3, <1>4, <1>6
  <2>2. i - l < indent => q < l + indent
    BY <1>3, <1>4, <1>6
  <2> QED BY <1>1, <1>2, <1>3, <1>6, <2>1, <2>2 DEF Indents
<1> QED BY <1>5, <1>6
-----------------------------------------------------------------------------
\* What _raw has to copy of the text from b up to n.
ToCopy(b, n) == {i \in b..(n - 1) : i <= Len(text) /\ text[i] # "newline" /\ ~Indents(b, i)}

\* A line of the output ends where one of the text does.
LineEnds(s) ==
  \A k \in 1..(Len(s) - 1) : s[k] > 0 =>
    (s[k + 1] = NewLine <=> s[k] = Len(text) \/ text[s[k] + 1] = "newline")

Copied(b) ==
  /\ skipped = 1..(b - 1)
  /\ p = b \/ p = End \/ text[p - 1] = "newline"
  /\ state # "READ" => p = End
  /\ Places(out) = ToCopy(b, p)
  /\ LineEnds(out)
  /\ out = <<>> \/ out[Len(out)] = NewLine

RawInv ==
  /\ state \notin {"BOL", "WORD", "ESCAPE", "COMMENT", "OTHER"}
  /\ line = <<>>
  /\ state \in {"READ", "END", "finished"} /\ ~error /\ indent >= 0 => \E b \in 1..p : Copied(b)

LEMMA MarkLeads ==
  \A row \in MarkTable : row.to \notin {"BOL", "WORD", "ESCAPE", "COMMENT", "OTHER",
                                        "READ", "END", "finished"}
BY DEF MarkTable, MarkRow, EmptyLine, MarkComments

\* What a turn of _raw makes of the output a and the line c, element by element.
WithLine(a, c) == a \o c \o <<NewLine>>

LEMMA WithLineFacts ==
  ASSUME NEW a \in Seq(Int), NEW c \in Seq(Int)
  PROVE  /\ WithLine(a, c) \in Seq(Int) /\ Len(WithLine(a, c)) = Len(a) + Len(c) + 1
         /\ \A k \in 1..Len(a) : WithLine(a, c)[k] = a[k]
         /\ \A k \in 1..Len(c) : WithLine(a, c)[Len(a) + k] = c[k]
         /\ WithLine(a, c)[Len(a) + Len(c) + 1] = NewLine
         /\ Places(WithLine(a, c)) = Places(a) \cup Places(c)
<1> DEFINE t == a \o c
<1>0. NewLine \in Int
  BY DEF NewLine
<1>1. /\ t \in Seq(Int) /\ Len(t) = Len(a) + Len(c)
      /\ \A k \in 1..Len(a) : t[k] = a[k]
      /\ \A k \in 1..Len(c) : t[Len(a) + k] = c[k]
  BY ConcatProperties
<1>2. Places(t) = Places(a) \cup Places(c)
  BY PlacesJoin
<1>3. PICK s : s = WithLine(a, c)
  OBVIOUS
<1>4. s = t \o <<NewLine>>
  BY <1>3 DEF WithLine
<1> HIDE DEF t
<1>5. s = Append(t, NewLine)
  BY <1>0, <1>1, <1>4
<1>6. /\ s \in Seq(Int) /\ Len(s) = Len(t) + 1 /\ s[Len(t) + 1] = NewLine
      /\ \A k \in 1..Len(t) : s[k] = t[k]
  <2>1. /\ Append(t, NewLine) \in Seq(Int) /\ Len(Append(t, NewLine)) = Len(t) + 1
        /\ \A k \in 1..Len(t) : Append(t, NewLine)[k] = t[k]
        /\ Append(t, NewLine)[Len(t) + 1] = NewLine
    BY <1>0, <1>1, AppendProperties
  <2> QED BY <1>5, <2>1
<1>7. Len(a) \in Nat /\ Len(c) \in Nat
  OBVIOUS
<1>8. /\ Len(s) = Len(a) + Len(c) + 1 /\ s[Len(a) + Len(c) + 1] = NewLine
      /\ \A k \in 1..(Len(a) + Len(c)) : s[k] = t[k]
  BY <1>1, <1>6
<1>9. ASSUME NEW k \in 1..Len(a) PROVE s[k] = a[k]
  <2>1. k \in 1..(Len(a) + Len(c))
    BY <1>7
  <2> QED BY <1>1, <1>8, <2>1
<1>10. ASSUME NEW k \in 1..Len(c) PROVE s[Len(a) + k] = c[k]
  <2>1. Len(a) + k \in 1..(Len(a) + Len(c))
    BY <1>7
  <2> QED BY <1>1, <1>8, <2>1
<1>11. Places(s) = Places(a) \cup Places(c)
  <2>1. {y \in {NewLine} : y > 0} = {}
    BY DEF NewLine
  <2>2. Places(Append(t, NewLine)) = Places(t) \cup {y \in {NewLine} : y > 0}
    BY <1>0, <1>1, PlacesAppend
  <2> QED BY <1>2, <1>5, <2>1, <2>2
<1> QED BY <1>3, <1>6, <1>8, <1>9, <1>10, <1>11

\* The positions of a line.
LEMMA LinePlaces ==
  ASSUME NEW q \in Nat \ {0}, NEW n \in Nat, NEW c, c = [i \in 1..n |-> q + i - 1]
  PROVE  /\ c \in Seq(Int) /\ Len(c) = n /\ \A i \in 1..n : c[i] = q + i - 1
         /\ Places(c) = q..(q + n - 1)
<1>1. c \in Seq(Int) /\ Len(c) = n /\ DOMAIN c = 1..n /\ \A i \in 1..n : c[i] = q + i - 1
  OBVIOUS
<1>2. ASSUME NEW x \in Places(c) PROVE x \in q..(q + n - 1)
  <2>1. PICK i \in 1..n : x = c[i]
    BY <1>1 DEF Places, ToSet
  <2> QED BY <1>1, <2>1
<1>3. ASSUME NEW x \in q..(q + n - 1) PROVE x \in Places(c)
  <2>1. x - q + 1 \in 1..n /\ q + (x - q + 1) - 1 = x /\ x > 0
    OBVIOUS
  <2>2. c[x - q + 1] = x
    BY <1>1, <2>1
  <2> QED BY <1>1, <2>1, <2>2 DEF Places, ToSet
<1> QED BY <1>1, <1>2, <1>3

\* A line and its newline behind what was written.
LEMMA CopyLine ==
  ASSUME BlockInv, out \in Seq(Int), out = <<>> \/ out[Len(out)] = NewLine, LineEnds(out),
         NEW q \in Nat \ {0}, NEW n \in Nat, q + n <= End, \A j \in q..(q + n - 1) : text[j] # "newline",
         q + n = End \/ text[q + n] = "newline",
         NEW c \in Seq(Int), Len(c) = n, \A i \in 1..n : c[i] = q + i - 1
  PROVE  LineEnds(WithLine(out, c))
         /\ WithLine(out, c)[Len(WithLine(out, c))] = NewLine
<1>1. PICK s : s = WithLine(out, c)
  OBVIOUS
<1>2. PICK m \in Nat : m = Len(out)
  OBVIOUS
<1>3. NewLine \in Int /\ ~(NewLine > 0) /\ Len(text) \in Nat /\ End = Len(text) + 1
  BY DEF NewLine, BlockInv
<1>4. /\ Len(s) = m + n + 1 /\ s[m + n + 1] = NewLine
      /\ \A k \in 1..m : s[k] = out[k]
      /\ \A k \in 1..n : s[m + k] = c[k]
  <2>1. /\ Len(s) = Len(out) + Len(c) + 1 /\ s[Len(out) + Len(c) + 1] = NewLine
        /\ \A k \in 1..Len(out) : s[k] = out[k]
        /\ \A k \in 1..Len(c) : s[Len(out) + k] = c[k]
    BY <1>1, <1>3, WithLineFacts
  <2> QED BY <1>2, <2>1
<1>5. ASSUME NEW k \in 1..m, s[k] > 0
      PROVE  s[k + 1] = NewLine <=> s[k] = Len(text) \/ text[s[k] + 1] = "newline"
  <2>1. s[k] = out[k] /\ k # m
    <3>1. m # 0 /\ out # <<>>
      BY <1>2
    <3>2. out[m] = NewLine
      BY <1>2, <3>1
    <3> QED BY <1>3, <1>4, <1>5, <3>2
  <2>2. k \in 1..(m - 1) /\ k + 1 \in 1..m
    BY <2>1
  <2>3. s[k + 1] = out[k + 1]
    BY <1>4, <2>2
  <2> QED BY <1>2, <1>5, <2>1, <2>2, <2>3 DEF LineEnds
<1>6. ASSUME NEW i \in 1..n
      PROVE  s[m + i + 1] = NewLine <=> s[m + i] = Len(text) \/ text[s[m + i] + 1] = "newline"
  <2>1. s[m + i] = q + i - 1 /\ s[m + i] + 1 = q + i
    <3>1. s[m + i] = c[i]
      BY <1>4
    <3>2. c[i] = q + i - 1
      OBVIOUS
    <3> QED BY <3>1, <3>2
  <2>2. CASE i = n
    <3>1. s[m + i + 1] = NewLine
      BY <1>4, <2>2
    <3>2. q + i = End => s[m + i] = Len(text)
      BY <1>3, <2>1
    <3> QED BY <2>1, <2>2, <3>1, <3>2
  <2>3. CASE i # n
    <3>1. i + 1 \in 1..n /\ q + i \in q..(q + n - 1) /\ q + i - 1 # Len(text)
      BY <1>3, <2>3
    <3>2. s[m + (i + 1)] = c[i + 1] /\ c[i + 1] = q + (i + 1) - 1
      BY <1>4, <3>1
    <3>3. m + (i + 1) = m + i + 1 /\ q + (i + 1) - 1 > 0
      OBVIOUS
    <3>4. s[m + i + 1] # NewLine
      BY <1>3, <3>2, <3>3
    <3> QED BY <2>1, <3>1, <3>4
  <2> QED BY <2>2, <2>3
<1>7. LineEnds(s)
  <2> SUFFICES ASSUME NEW k \in 1..(m + n), s[k] > 0
               PROVE  s[k + 1] = NewLine <=> s[k] = Len(text) \/ text[s[k] + 1] = "newline"
    <3>1. Len(s) - 1 = m + n
      BY <1>4
    <3> QED BY <3>1 DEF LineEnds
  <2>1. k \in 1..m \/ (k - m \in 1..n /\ m + (k - m) = k)
    OBVIOUS
  <2> QED BY <1>5, <1>6, <2>1
<1> QED BY <1>1, <1>4, <1>7

-----------------------------------------------------------------------------
\* The line from l to e, whose tabs end at q and behind which n lies, follows what was
\* copied.
LineFollows(b, l, q, e, n) ==
  /\ {b, l, q, e, n, Len(text)} \subseteq Nat
  /\ b <= l /\ l <= q /\ q <= e /\ e <= n /\ n <= e + 1 /\ e <= Len(text) + 1
  /\ text[e] = "newline" \/ e > Len(text)
  /\ \A j \in l..(e - 1) : text[j] # "newline"
  /\ \A i \in l..(e - 1) : Indents(b, i) <=> i < q

LEMMA CopyGrows ==
  ASSUME NEW b, NEW l, NEW q, NEW e, NEW n, LineFollows(b, l, q, e, n)
  PROVE  ToCopy(b, n) = ToCopy(b, l) \cup q..(e - 1)
<1> USE DEF LineFollows
<1>1. ASSUME NEW i \in ToCopy(b, n) PROVE i \in ToCopy(b, l) \cup q..(e - 1)
  <2>1. i \in b..(n - 1) /\ i <= Len(text) /\ text[i] # "newline" /\ ~Indents(b, i)
    BY DEF ToCopy
  <2>2. i # e
    BY <2>1
  <2>3. i \in b..(l - 1) \/ i \in l..(e - 1)
    BY <2>1, <2>2
  <2>4. i \in l..(e - 1) => i \in q..(e - 1)
    BY <2>1
  <2> QED BY <2>1, <2>3, <2>4 DEF ToCopy
<1>2. ASSUME NEW i \in ToCopy(b, l) PROVE i \in ToCopy(b, n)
  <2>1. i \in b..(l - 1) /\ i <= Len(text) /\ text[i] # "newline" /\ ~Indents(b, i)
    BY DEF ToCopy
  <2>2. i \in b..(n - 1)
    BY <2>1
  <2> QED BY <2>1, <2>2 DEF ToCopy
<1>3. ASSUME NEW i \in q..(e - 1) PROVE i \in ToCopy(b, n)
  <2>1. i \in l..(e - 1) /\ i \in b..(n - 1) /\ i <= Len(text) /\ ~(i < q)
    OBVIOUS
  <2> QED BY <2>1 DEF ToCopy
<1> QED BY <1>1, <1>2, <1>3

\* One turn of _raw.
LEMMA ReadCopies ==
  ASSUME TextInv, OrderInv, task = "raw", ~ForDict, Read, NEW b \in 1..p, Copied(b), state' # "ERROR"
  PROVE  Copied(b)' \/ state' = "past"
<1> DEFINE q == ReadTabs(p)
           e == PastAll(q, Class \ {"newline"})
           copy == [i \in 1..(e - q) |-> q + i - 1]
<1>1. /\ state = "READ" /\ indent \in Nat /\ p \in 1..End /\ p # End /\ b \in 1..End /\ p \in b..End
      /\ p \in Nat /\ b \in Nat /\ Len(text) \in Nat /\ End = Len(text) + 1 /\ out \in Seq(Int)
  BY DEF Read, TextInv, PointerInv, BlockInv, OrderInv, MakeOrder
<1>2. BlockInv /\ skipped = 1..(b - 1) /\ Places(out) = ToCopy(b, p) /\ LineEnds(out)
      /\ (out = <<>> \/ out[Len(out)] = NewLine) /\ (p = b \/ text[p - 1] = "newline")
  BY <1>1 DEF Copied, TextInv
<1>3. q \in p..End /\ q \in Nat
  BY <1>1, <1>2, ReadTabsFacts
<1>4. /\ e \in q..End /\ e \in Nat /\ (e = End \/ text[e] = "newline")
      /\ \A j \in q..(e - 1) : text[j] # "newline"
  <2>1. q \in 1..End
    BY <1>1, <1>3
  <2>2. /\ e \in q..End /\ (e = End \/ text[e] \notin Class \ {"newline"})
        /\ \A j \in q..(e - 1) : text[j] \in Class \ {"newline"}
    BY <1>2, <2>1, PastAllFacts
  <2> HIDE DEF q, e
  <2>3. e # End => e \in 1..Len(text)
    BY <1>1, <1>3, <2>2
  <2>4. e # End => text[e] \in Class
    BY <1>2, <2>3 DEF BlockInv
  <2> QED BY <1>3, <2>2, <2>4
<1>5. \A j \in p..(e - 1) : text[j] # "newline"
  <2>1. \A j \in p..q - 1 : text[j] = "tab"
    BY <1>1, <1>2, ReadTabsFacts
  <2> HIDE DEF q, e
  <2>2. \A j \in p..(e - 1) : j \in p..q - 1 \/ j \in q..(e - 1)
    BY <1>1, <1>3, <1>4
  <2> QED BY <1>4, <2>1, <2>2
<1>6. /\ out' = IF q < p + indent /\ e = q THEN out ELSE out \o copy \o <<NewLine>>
      /\ p' = PassNewline(e)
      /\ state' = IF p' = End THEN "END" ELSE IF p' > End THEN "past" ELSE "READ"
      /\ UNCHANGED <<text, stop, indent, skipped>>
  BY DEF Read, lexed
<1>7. ASSUME NEW i \in p..(e - 1) PROVE Indents(b, i) <=> i < q
  <2> HIDE DEF e
  <2>1. i \in p..Len(text) /\ \A j \in p..(i - 1) : text[j] # "newline"
    BY <1>1, <1>3, <1>4, <1>5
  <2> QED BY <1>1, <1>2, <2>1, TabsAreCut
<1> HIDE DEF q, e, copy
<1>8. p' \in {e, e + 1} /\ (p' # e => text[e] = "newline" \/ e = End) /\ (p' = e => e = End)
  BY <1>1, <1>3, <1>4, <1>6 DEF PassNewline
<1>9. ToCopy(b, p') = ToCopy(b, p) \cup q..(e - 1)
  <2>1. /\ p' \in Nat /\ b <= p /\ p <= q /\ q <= e /\ e <= p' /\ p' <= e + 1 /\ e <= Len(text) + 1
        /\ text[e] = "newline" \/ e > Len(text)
    BY <1>1, <1>3, <1>4, <1>8
  <2>2. LineFollows(b, p, q, e, p')
    BY <1>1, <1>3, <1>4, <1>5, <1>7, <2>1 DEF LineFollows
  <2>3. PICK n, l, from, to : n = p' /\ l = p /\ from = q /\ to = e
    OBVIOUS
  <2>4. LineFollows(b, l, from, to, n)
    BY <2>2, <2>3
  <2>5. ToCopy(b, n) = ToCopy(b, l) \cup from..(to - 1)
    BY <2>4, CopyGrows
  <2> QED BY <2>3, <2>5
<1>10. /\ Places(out') = ToCopy(b, p') /\ LineEnds(out')
       /\ (out' = <<>> \/ out'[Len(out')] = NewLine)
  <2>1. CASE out' = out /\ e = q
    <3>1. q..(e - 1) = {}
      BY <1>3, <2>1
    <3> QED BY <1>2, <1>9, <2>1, <3>1
  <2>2. CASE out' = out \o copy \o <<NewLine>>
    <3>1. PICK n \in Nat : n = e - q
      BY <1>3, <1>4
    <3>2. PICK c : c = [i \in 1..n |-> q + i - 1]
      OBVIOUS
    <3>3. q \in Nat \ {0} /\ q + n = e
      BY <1>1, <1>3, <1>4, <3>1
    <3>4. c \in Seq(Int) /\ Len(c) = n /\ (\A i \in 1..n : c[i] = q + i - 1)
          /\ Places(c) = q..(e - 1)
      BY <3>2, <3>3, LinePlaces
    <3>5. LineEnds(WithLine(out, c))
          /\ WithLine(out, c)[Len(WithLine(out, c))] = NewLine
      <4>1. q + n <= End /\ (q + n = End \/ text[q + n] = "newline")
            /\ \A j \in q..(q + n - 1) : text[j] # "newline"
        BY <1>1, <1>4, <3>3
      <4> QED BY <1>1, <1>2, <3>3, <3>4, <4>1, CopyLine
    <3>6. Places(WithLine(out, c)) = Places(out) \cup q..(e - 1)
      <4>1. Places(WithLine(out, c)) = Places(out) \cup Places(c)
        BY <1>1, <3>4, WithLineFacts
      <4> QED BY <3>4, <4>1
    <3>7. out' = WithLine(out, c)
      BY <2>2, <3>1, <3>2 DEF WithLine, copy
    <3> QED BY <1>2, <1>9, <3>5, <3>6, <3>7
  <2> QED BY <1>6, <2>1, <2>2
<1>11. CASE state' # "past"
  <2>1. p' <= End /\ p' \in Nat
    BY <1>1, <1>3, <1>4, <1>6, <1>8, <1>11
  <2>2. p' = End \/ text[p' - 1] = "newline"
    BY <1>1, <1>3, <1>4, <1>8, <2>1
  <2>3. state' # "READ" => p' = End
    BY <1>6, <1>11
  <2>4. Places(out)' = ToCopy(b, p)' /\ LineEnds(out)'
    <3>1. Places(out)' = Places(out')
      BY DEF Places
    <3>2. ToCopy(b, p)' = ToCopy(b, p')
      BY <1>6 DEF ToCopy, Indents, LineFrom, LineStart
    <3>3. LineEnds(out)' <=> LineEnds(out')
      BY <1>6 DEF LineEnds
    <3> QED BY <1>10, <3>1, <3>2, <3>3
  <2>5. End' = End /\ text' = text
    BY <1>6 DEF End
  <2> QED BY <1>2, <1>6, <1>10, <2>2, <2>3, <2>4, <2>5 DEF Copied
<1> QED BY <1>11

\* A turn of _raw does not step back.
LEMMA ReadGoesOn ==
  ASSUME TextInv, ~ForDict, Read
  PROVE  p <= p' /\ (state' = "READ" => p + 1 <= p')
<1>1. /\ indent \in Nat /\ p \in 1..End /\ p \in Nat /\ End \in Nat /\ BlockInv /\ LineSize \in Nat
  BY MakeAssumption DEF Read, TextInv, PointerInv, BlockInv
<1>2. PICK q : q = ReadTabs(p)
  OBVIOUS
<1>3. q \in p..End /\ q \in 1..End /\ q \in Nat
  <2>1. q \in p..End
    BY <1>1, <1>2, ReadTabsFacts
  <2> QED BY <1>1, <2>1
<1>4. PICK e : e = PastAll(q, Class \ {"newline"})
  OBVIOUS
<1>5. e \in q..End /\ e \in Nat
  <2>1. e \in q..End
    BY <1>1, <1>3, <1>4, PastAllFacts
  <2> QED BY <1>1, <1>3, <2>1
<1>6. p' \in {q + LineSize, e, e + 1}
  BY <1>2, <1>4 DEF Read, PassNewline
<1>7. state' = "READ" => p' = PassNewline(e) /\ p' # End /\ ~(p' > End)
  BY <1>2, <1>4 DEF Read
<1>8. state' = "READ" => p' = e + 1
  BY <1>1, <1>5, <1>7 DEF PassNewline
<1> QED BY <1>1, <1>3, <1>5, <1>6, <1>8

LEMMA AppendNone == out \in Seq(Int) => out \o Append(<<>>, NewLine) = Append(out, NewLine)
BY DEF NewLine

\* The newline behind the output.
LEMMA EndLine ==
  ASSUME out \in Seq(Int), LineEnds(out), out = <<>> \/ out[Len(out)] = NewLine,
         NEW s, s = Append(out, NewLine)
  PROVE  Places(s) = Places(out) /\ LineEnds(s) /\ s[Len(s)] = NewLine
<1>1. NewLine \in Int /\ ~(NewLine > 0)
  BY DEF NewLine
<1>2. /\ Len(s) = Len(out) + 1 /\ s[Len(out) + 1] = NewLine
      /\ \A k \in 1..Len(out) : s[k] = out[k]
  BY <1>1, AppendProperties
<1>3. Places(s) = Places(out)
  <2>1. {y \in {NewLine} : y > 0} = {}
    BY <1>1
  <2> QED BY <1>1, <2>1, PlacesAppend
<1>4. PICK m \in Nat : m = Len(out)
  OBVIOUS
<1>5. ASSUME NEW k \in 1..m, s[k] > 0 PROVE k \in 1..(m - 1) /\ k + 1 \in 1..m
  <2>1. k # m
    BY <1>1, <1>2, <1>4, <1>5
  <2> QED BY <2>1
<1>6. LineEnds(s)
  <2>1. Len(s) - 1 = m
    BY <1>2, <1>4
  <2> QED BY <1>2, <1>4, <1>5, <2>1 DEF LineEnds
<1> QED BY <1>2, <1>3, <1>6

LEMMA RawStep ==
  ASSUME TextInv, OrderInv, task = "raw", ~ForDict, RawInv, MakeNext, UNCHANGED dictVars
  PROVE  RawInv'
<1>0. /\ state \notin {"BOL", "WORD", "ESCAPE", "COMMENT", "OTHER"} /\ line = <<>> /\ Idle
      /\ out \in Seq(Int) /\ (state \in MarkAll => out = <<>>)
  BY DEF RawInv, TextInv, PointerInv, OrderInv, MakeOrder
<1>1. CASE MarkReads
  <2>1. line' = line /\ state' \notin {"BOL", "WORD", "ESCAPE", "COMMENT", "OTHER",
                                       "READ", "END", "finished"}
    BY <1>1, MarkLeads DEF MarkReads
  <2> QED BY <1>0, <2>1 DEF RawInv
<1>2. CASE MarkReturns
  <2>1. state \in MarkAll /\ line' = line /\ out' = <<>>
    BY <1>0, <1>2 DEF MarkReturns, MarkAll
  <2>2. state' \in {"END", "READ"} /\ skipped' = 1..(p' - 1) /\ error' = error
    BY <1>2 DEF MarkReturns, lexed
  <2>3. PICK b : b = p'
    OBVIOUS
  <2>4. b \in 1..p'
    <3>1. TextInv'
      BY MakeStep
    <3>2. state' # "past" /\ p' \in 1..(End' + 1) /\ End' \in Nat
      BY <2>2, <3>1 DEF TextInv, PointerInv, BlockInv
    <3> QED BY <2>3, <3>2
  <2>5. ASSUME ~error', indent' >= 0 PROVE Copied(b)'
    <3>1. state' = "READ"
      BY <1>2, <2>2, <2>5 DEF MarkReturns
    <3>2. ToCopy(b, p)' = {}
      BY <2>3, <2>4 DEF ToCopy
    <3>3. Places(out)' = {} /\ LineEnds(out)'
      BY <2>1, PlacesOfNone DEF LineEnds, Places
    <3> QED BY <2>1, <2>2, <2>3, <3>1, <3>2, <3>3 DEF Copied
  <2> QED BY <1>0, <2>1, <2>2, <2>4, <2>5 DEF RawInv
<1>3. CASE Read
  <2>1. /\ state = "READ" /\ line' = line /\ UNCHANGED <<error, indent>>
        /\ state' \in {"ERROR", "END", "past", "READ"}
    BY <1>3 DEF Read, lexed
  <2>2. ASSUME ~error', indent' >= 0, state' \in {"READ", "END", "finished"}
        PROVE  \E b \in 1..p' : Copied(b)'
    <3>1. PICK b \in 1..p : Copied(b)
      BY <2>1, <2>2 DEF RawInv
    <3>2. state' \notin {"ERROR", "past"}
      BY <2>2
    <3>3. Copied(b)'
      BY <1>3, <3>1, <3>2, ReadCopies
    <3>4. b \in 1..p'
      <4>1. p \in 1..End /\ End \in Nat
        BY <2>1 DEF TextInv, PointerInv, BlockInv
      <4>2. p <= p'
        BY <1>3, ReadGoesOn
      <4>3. TextInv'
        BY MakeStep
      <4>4. p' \in Nat
        BY <4>3 DEF TextInv, PointerInv, BlockInv
      <4> QED BY <4>1, <4>2, <4>4
    <3> QED BY <3>3, <3>4
  <2> QED BY <1>0, <2>1, <2>2 DEF RawInv
<1>4. CASE Succeeds
  <2>1. /\ MakeNow = "END" /\ out' = Append(out, NewLine) /\ line' = <<>> /\ state' = "finished"
        /\ UNCHANGED <<text, stop, error, p, indent, skipped>>
    BY <1>0, <1>4, AppendNone DEF Succeeds, lexed
  <2>2. ASSUME ~error', indent' >= 0 PROVE \E b \in 1..p' : Copied(b)'
    <3>1. state = "END" \/ (p = End /\ state = "READ")
      BY <1>0, <2>1 DEF MakeNow
    <3>2. PICK b \in 1..p : Copied(b)
      BY <2>1, <2>2, <3>1 DEF RawInv
    <3>3. /\ p = End /\ skipped = 1..(b - 1) /\ Places(out) = ToCopy(b, p) /\ LineEnds(out)
          /\ out = <<>> \/ out[Len(out)] = NewLine
      BY <3>1, <3>2 DEF Copied
    <3>4. PICK s : s = Append(out, NewLine)
      OBVIOUS
    <3>5. Places(s) = Places(out) /\ LineEnds(s) /\ s[Len(s)] = NewLine
      BY <1>0, <3>3, <3>4, EndLine
    <3>6. Places(out)' = Places(s) /\ (LineEnds(out)' <=> LineEnds(s)) /\ ToCopy(b, p)' = ToCopy(b, p)
          /\ End' = End
      BY <2>1, <3>4 DEF Places, LineEnds, ToCopy, Indents, LineFrom, LineStart, End
    <3>7. Copied(b)'
      BY <2>1, <3>3, <3>4, <3>5, <3>6 DEF Copied
    <3> QED BY <2>1, <3>7
  <2> QED BY <2>1, <2>2 DEF RawInv
<1>5. CASE Fails
  BY <1>0, <1>5 DEF Fails, RawInv
<1>6. ~(Bol \/ WordCalls \/ WordReads \/ WordFits \/ WordEmpty \/ WordRefused \/ Other \/ Join
        \/ Escape \/ Comment)
  BY <1>0 DEF Idle, Bol, WordCalls, WordReads, Turn, Reading, WordFits, WordEmpty, WordRefused,
              Other, Join, Escape, Comment
<1> QED BY <1>1, <1>2, <1>3, <1>4, <1>5, <1>6 DEF MakeNext
-----------------------------------------------------------------------------
CopyInv == task = "raw" => RawInv

LEMMA CopyStarts == ASSUME Init PROVE CopyInv
<1>1. task = "raw" => state = "AHEADMARK" /\ line = <<>>
  BY DEF Init, ForDict
<1> QED BY <1>1 DEF CopyInv, RawInv

LEMMA CopyStep == ASSUME TextInv, OrderInv, CopyInv, [Next]_vars PROVE CopyInv'
<1>1. CASE UNCHANGED vars
  <2>1. UNCHANGED <<task, text, p, state, error, indent, line, out, skipped>>
    BY <1>1 DEF vars
  <2>2. \A b : Copied(b)' <=> Copied(b)
    BY <2>1 DEF Copied, Places, LineEnds, ToCopy, Indents, LineFrom, LineStart, End
  <2>3. RawInv' <=> RawInv
    BY <2>1, <2>2 DEF RawInv
  <2> QED BY <2>1, <2>3 DEF CopyInv
<1>2. CASE ForDict /\ DictNext /\ UNCHANGED makeVars
  <2>1. task' = task /\ task # "raw"
    BY <1>2 DEF ForDict, DictNext, Calls, Reads, NoPattern, PatternOfDefdir, PatternOfNoextend,
                Prefix, Passes, Finishes, Returns
  <2> QED BY <2>1 DEF CopyInv
<1>3. CASE ~ForDict /\ MakeNext /\ UNCHANGED dictVars
  <2>1. task' = task
    BY <1>3 DEF MakeNext, MarkReads, MarkReturns, Read, Bol, WordCalls, WordReads, WordFits,
                WordEmpty, WordRefused, Other, Join, Escape, Comment, Succeeds, Fails, Stays, lexed
  <2>2. task = "raw" => RawInv'
    BY <1>3, RawStep DEF CopyInv
  <2> QED BY <2>1, <2>2 DEF CopyInv
<1> QED BY <1>1, <1>2, <1>3 DEF Next, Stopped

\* For every text: _raw copies each line whole and once, without the tabs read_mark
\* counted in front of the first (context.cpp:1067-1140): see RawCopies.
THEOREM CopiesTheLines == Spec => []RawCopies
<1>1. TextInv /\ OrderInv /\ CopyInv => RawCopies
  <2> SUFFICES ASSUME TextInv, OrderInv, RawInv, task = "raw", state = "finished", ~error, indent >= 0
               PROVE  RawCopies
    BY DEF CopyInv, RawCopies
  <2>1. PICK b \in 1..p : Copied(b)
    BY DEF RawInv
  <2>2. /\ p = End /\ skipped = 1..(b - 1) /\ Places(out) = ToCopy(b, p) /\ LineEnds(out)
    BY <2>1 DEF Copied
  <2>3. b \in Nat /\ p \in Nat /\ p = Len(text) + 1 /\ Len(text) \in Nat /\ 1 <= b
    BY <2>2 DEF TextInv, BlockInv
  <2>4. Cardinality(skipped) + 1 = b
    <3>1. Cardinality(1..(b - 1)) = b - 1
      BY <2>3, FS_Interval
    <3> QED BY <2>2, <2>3, <3>1
  <2>5. Taken = ToCopy(b, p)
    <3>1. dict = <<>> /\ line = <<>>
      BY DEF OrderInv, RawInv, ForDict
    <3>2. DictPlaces = {} /\ Places(line) = {}
      BY <3>1, PlacesOfNone DEF DictPlaces
    <3> QED BY <2>2, <3>2 DEF Taken
  <2>6. ToCopy(b, p) = {i \in b..Len(text) : text[i] # "newline" /\ ~Indents(b, i)}
    <3>1. b..(p - 1) = b..Len(text)
      BY <2>3
    <3> QED BY <2>3, <3>1 DEF ToCopy
  <2>7. \A k \in 1..(Len(out) - 1) : out[k] > 0 =>
            (out[k + 1] = NewLine <=> out[k] = Len(text) \/ text[out[k] + 1] = "newline")
    BY <2>2 DEF LineEnds
  <2> QED BY <2>4, <2>5, <2>6, <2>7 DEF RawCopies, Indents, LineFrom
<1>2. TextInv /\ OrderInv /\ CopyInv /\ [Next]_vars => (TextInv /\ OrderInv /\ CopyInv)'
  BY TextStep, OrderStep, CopyStep
<1> QED BY <1>1, <1>2, TextStarts, OrderStarts, CopyStarts, PTL DEF Spec

(* The tabs read_mark counts. *)

\* Where a line begins, from any position of it.
LEMMA LineStartIs ==
  ASSUME NEW i \in Nat, NEW l \in 1..i, l = 1 \/ text[l - 1] = "newline",
         \A j \in l..(i - 1) : text[j] # "newline"
  PROVE  LineStart(i) = l
<1> DEFINE T == {j \in 1..i : j = 1 \/ text[j - 1] = "newline"}
<1>1. T \subseteq Nat /\ l \in T /\ \A y \in T : y <= i
  OBVIOUS
<1>2. Max(T) \in T /\ \A y \in T : y <= Max(T)
  <2> HIDE DEF T
  <2> QED BY <1>1, Greatest
<1>3. PICK s : s = LineStart(i)
  OBVIOUS
<1>4. s \in T /\ l <= s
  BY <1>1, <1>2, <1>3 DEF LineStart
<1>5. s > l => s - 1 \in l..(i - 1)
  BY <1>4
<1> QED BY <1>3, <1>4, <1>5

\* Nothing but tabs, newlines and comments before n.
BlankUpTo(n) ==
  \A j \in 1..(n - 1) : text[j] \in {"tab", "newline", "comment"} \/ Commented(text, j)

\* The first character that counts, with the tabs before it.
FirstAt(i) == /\ i \in 1..Len(text) /\ FirstChar(i)
              /\ indent = Cardinality({j \in LineStart(i)..i : text[j] = "tab"})

LEMMA OneFirst ==
  ASSUME NEW i \in Nat \ {0}, NEW k \in Nat \ {0}, FirstChar(i), FirstChar(k)
  PROVE  i = k
<1>1. i < k => i \in 1..(k - 1)
  OBVIOUS
<1>2. k < i => k \in 1..(i - 1)
  OBVIOUS
<1>3. ~(i < k) /\ ~(k < i)
  BY <1>1, <1>2 DEF FirstChar
<1> QED BY <1>3

\* The mark is at i, and no line ends before n.
HasMark(i, n) == /\ FirstAt(i) /\ text[i] = "mark" /\ i < n
                 /\ \A j \in i..(n - 1) : text[j] # "newline"

Plain == \A i \in DOMAIN text : text[i] \notin {"space", "backslash"}

TabsUpTo(l) == /\ l = 1 \/ text[l - 1] = "newline"
               /\ indent = p - l
               /\ \A j \in l..(p - 1) : text[j] = "tab"

Ahead == /\ tip = 0 /\ BlankUpTo(p)
         /\ state = "AHEADMARK" => \E l \in 1..p : TabsUpTo(l)
         /\ state = "COMMENT_AHEADMARK" => Commented(text, p)

Marked == \/ FirstAt(tip)
          \/ tip = p /\ text[p - 1] = "newline" /\ \E i \in 1..(p - 1) : HasMark(i, p - 1)

\* What read_mark has to have found: see MarkTabs.
Told ==
  Plain => \A i \in 1..Len(text) : FirstChar(i) =>
    /\ indent = Cardinality({j \in LineStart(i)..i : text[j] = "tab"})
    /\ \/ p = i
       \/ /\ text[i] = "mark" /\ text[p - 1] = "newline"
          /\ i < p /\ \A j \in i..(p - 2) : text[j] # "newline"

MarkInv ==
  /\ Plain /\ state \in MarkAll =>
       \/ state \in {"AHEADMARK", "COMMENT_AHEADMARK"} /\ Ahead
       \/ state \in {"MARKHANDLE", "COMMENT_MARKHANDLE"} /\ HasMark(tip, p)
       \/ state = "MARKED" /\ Marked
  /\ \A x \in skipped : x \in Int /\ x < Bound
  /\ called \in Int
  /\ state \in {"READ", "BOL"} => Told \/ (p >= 2 /\ p - 1 \notin skipped)

LEMMA AheadRows ==
  \A row \in MarkTable : \A c \in row.on : row.from = "AHEADMARK" /\ c \notin {"space", "backslash"} =>
    \/ c = "tab" /\ row.to = "AHEADMARK" /\ row.tabs = "add" /\ row.tip = "keep"
    \/ c = "newline" /\ row.to = "AHEADMARK" /\ row.tabs = "zero" /\ row.tip = "keep"
    \/ c = "comment" /\ row.to = "COMMENT_AHEADMARK" /\ row.tabs = "keep" /\ row.tip = "keep"
    \/ c = "mark" /\ row.to = "MARKHANDLE" /\ row.tabs = "keep" /\ row.tip = "here"
    \/ c \notin {"tab", "newline", "comment"} /\ row.to = "MARKED" /\ row.tabs = "keep" /\ row.tip = "here"
BY SMTT(60) DEF MarkTable, MarkRow, EmptyLine, MarkComments, NameChar, Blank, Class

LEMMA CommentRows ==
  \A row \in MarkTable : \A c \in row.on : row.from = "COMMENT_AHEADMARK" =>
    /\ row.tip = "keep"
    /\ \/ c = "newline" /\ row.to = "AHEADMARK" /\ row.tabs = "zero"
       \/ c # "newline" /\ row.to = "COMMENT_AHEADMARK"
BY SMTT(60) DEF MarkTable, MarkRow, EmptyLine, MarkComments, NameChar, Blank, Class

LEMMA HandleRows ==
  \A row \in MarkTable : \A c \in row.on :
    row.from \in {"MARKHANDLE", "COMMENT_MARKHANDLE"} /\ c # "backslash" =>
    /\ row.tabs = "keep"
    /\ \/ c = "newline" /\ row.to = "MARKED" /\ row.tip = "next"
       \/ c # "newline" /\ row.tip = "keep" /\ row.to \in {"MARKHANDLE", "COMMENT_MARKHANDLE", "MARKED"}
BY SMTT(60) DEF MarkTable, MarkRow, EmptyLine, MarkComments, NameChar, Blank, Class

LEMMA MarkedRows == \A row \in MarkTable : row.from # "MARKED"
BY DEF MarkTable, MarkRow, EmptyLine, MarkComments

-----------------------------------------------------------------------------
\* The character where AHEADMARK finds the mark, or text.
LEMMA FirstFound ==
  ASSUME BlockInv, p \in 1..Len(text), BlankUpTo(p), NEW l \in 1..p, TabsUpTo(l),
         text[p] \notin {"tab", "newline", "comment"}
  PROVE  FirstAt(p)
<1>1. p \in Nat /\ l \in Nat /\ 1 <= l /\ l <= p /\ \A j \in l..(p - 1) : text[j] # "newline"
  BY DEF BlockInv, TabsUpTo
<1>2. LineStart(p) = l
  BY <1>1, LineStartIs DEF TabsUpTo
<1>3. ~Commented(text, p)
  <2> SUFFICES ASSUME NEW j \in 1..(p - 1), text[j] = "comment", \A k \in j..(p - 1) : text[k] # "newline"
               PROVE  FALSE
    BY DEF Commented
  <2>1. j \notin l..(p - 1)
    BY DEF TabsUpTo
  <2>2. l - 1 \in j..(p - 1) /\ l # 1
    BY <1>1, <2>1
  <2> QED BY <2>2 DEF TabsUpTo
<1>4. FirstChar(p)
  BY <1>3 DEF FirstChar, BlankUpTo
<1>5. indent = Cardinality({j \in l..p : text[j] = "tab"})
  <2>1. {j \in l..p : text[j] = "tab"} = l..(p - 1)
    <3>1. \A j \in l..p : j = p \/ j \in l..(p - 1)
      BY <1>1
    <3>2. \A j \in l..(p - 1) : j \in l..p /\ text[j] = "tab"
      BY <1>1 DEF TabsUpTo
    <3> QED BY <3>1, <3>2
  <2>2. Cardinality(l..(p - 1)) = p - l
    <3>1. Cardinality(l..(p - 1)) = IF l > p - 1 THEN 0 ELSE (p - 1) - l + 1
      BY <1>1, FS_Interval
    <3> QED BY <1>1, <3>1
  <2> QED BY <2>1, <2>2 DEF TabsUpTo
<1> QED BY <1>2, <1>4, <1>5 DEF FirstAt

\* One more character that is blank, or in a comment.
LEMMA BlankGoesOn ==
  ASSUME BlockInv, p \in 1..Len(text), BlankUpTo(p),
         text[p] \in {"tab", "newline", "comment"} \/ Commented(text, p), p' = p + 1, text' = text
  PROVE  BlankUpTo(p)'
<1>1. \A j \in 1..(p + 1 - 1) : j = p \/ j \in 1..(p - 1)
  BY DEF BlockInv
<1> QED BY <1>1 DEF BlankUpTo

LEMMA MarkReadsStep ==
  ASSUME TextInv, ~ForDict, MarkInv, MarkReads, Plain, state \in MarkAll
  PROVE  \/ state' \in {"AHEADMARK", "COMMENT_AHEADMARK"} /\ Ahead'
         \/ state' \in {"MARKHANDLE", "COMMENT_MARKHANDLE"} /\ HasMark(tip, p)'
         \/ state' = "MARKED" /\ Marked'
<1>1. /\ BlockInv /\ p \in 1..Len(text) /\ p \in Nat /\ Len(text) \in Nat /\ indent \in Nat
      /\ text[p] \in Class /\ text[p] \notin {"space", "backslash"} /\ text' = text /\ p' = p + 1
  <2>1. state # "past"
    BY LoopStates
  <2>2. p \in 1..Len(text)
    BY <2>1 DEF MarkReads, TextInv, PointerInv, BlockInv
  <2>3. state \notin {"END", "finished"}
    BY LoopStates
  <2> QED BY <2>2, <2>3 DEF MarkReads, TextInv, PointerInv, BlockInv, lexed, Plain
<1>2. PICK row \in MarkTable :
          /\ row.from = state /\ text[p] \in row.on /\ state' = row.to
          /\ indent' = CASE row.tabs = "add" -> indent + 1
                         [] row.tabs = "zero" -> 0
                         [] OTHER -> indent
          /\ tip' = CASE row.tip = "here" -> p [] row.tip = "next" -> p + 1 [] OTHER -> tip
  BY DEF MarkReads
<1>3. /\ row.tabs = "keep" => indent' = indent
      /\ row.tabs = "add" => indent' = indent + 1
      /\ row.tabs = "zero" => indent' = 0
      /\ row.tip = "keep" => tip' = tip
      /\ row.tip = "here" => tip' = p
      /\ row.tip = "next" => tip' = p + 1
  BY <1>2
<1>4. ASSUME NEW i, FirstAt(i), indent' = indent PROVE FirstAt(i)'
  BY <1>1, <1>4 DEF FirstAt, FirstChar, LineStart
<1>5. CASE state = "AHEADMARK" /\ Ahead
  <2>1. PICK l \in 1..p : TabsUpTo(l)
    BY <1>5 DEF Ahead
  <2>2. BlankUpTo(p) /\ tip = 0 /\ indent = p - l /\ (l = 1 \/ text[l - 1] = "newline")
        /\ \A j \in l..(p - 1) : text[j] = "tab"
    BY <1>5, <2>1 DEF Ahead, TabsUpTo
  <2>3. CASE text[p] = "tab" /\ state' = "AHEADMARK" /\ indent' = indent + 1 /\ tip' = tip
    <3>1. l \in 1..p' /\ indent' = p' - l /\ \A j \in l..(p' - 1) : j = p \/ j \in l..(p - 1)
      BY <1>1, <2>2, <2>3
    <3>2. TabsUpTo(l)'
      BY <1>1, <2>2, <2>3, <3>1 DEF TabsUpTo
    <3> QED BY <1>1, <2>2, <2>3, <3>1, <3>2, BlankGoesOn DEF Ahead
  <2>4. CASE text[p] = "newline" /\ state' = "AHEADMARK" /\ indent' = 0 /\ tip' = tip
    <3>1. PICK m : m = p + 1
      OBVIOUS
    <3>2. m \in 1..p' /\ indent' = p' - m /\ m..(p' - 1) = {} /\ m - 1 = p
      BY <1>1, <2>4, <3>1
    <3>3. TabsUpTo(m)'
      BY <1>1, <2>4, <3>2 DEF TabsUpTo
    <3> QED BY <1>1, <2>2, <2>4, <3>2, <3>3, BlankGoesOn DEF Ahead
  <2>5. CASE text[p] = "comment" /\ state' = "COMMENT_AHEADMARK" /\ tip' = tip
    <3>1. Commented(text, p + 1)
      <4>1. p \in 1..(p + 1 - 1) /\ \A k \in p..(p + 1 - 1) : k = p
        BY <1>1
      <4> QED BY <2>5, <4>1 DEF Commented
    <3> QED BY <1>1, <2>2, <2>5, <3>1, BlankGoesOn DEF Ahead
  <2>6. CASE /\ text[p] \notin {"tab", "newline", "comment"} /\ indent' = indent /\ tip' = p
             /\ state' = "MARKED" \/ (text[p] = "mark" /\ state' = "MARKHANDLE")
    <3>1. PICK i : i = p
      OBVIOUS
    <3>2. FirstAt(i)' /\ tip' = i
      <4>1. FirstAt(i)
        BY <1>1, <2>1, <2>2, <2>6, <3>1, FirstFound
      <4> QED BY <1>4, <2>6, <3>1, <4>1
    <3>3. FirstAt(tip)'
      BY <3>2
    <3>4. i < p' /\ \A j \in i..(p' - 1) : j = p
      BY <1>1, <3>1
    <3> QED BY <1>1, <2>6, <3>1, <3>2, <3>3, <3>4 DEF HasMark, Marked
  <2> QED BY <1>1, <1>2, <1>3, <1>5, <2>3, <2>4, <2>5, <2>6, AheadRows
<1>6. CASE state = "COMMENT_AHEADMARK" /\ Ahead
  <2>1. BlankUpTo(p) /\ tip = 0 /\ Commented(text, p) /\ tip' = tip
    BY <1>2, <1>3, <1>6, CommentRows DEF Ahead
  <2>2. BlankUpTo(p)'
    BY <1>1, <2>1, BlankGoesOn
  <2>3. CASE text[p] = "newline" /\ state' = "AHEADMARK" /\ indent' = 0
    <3>1. PICK m : m = p + 1
      OBVIOUS
    <3>2. m \in 1..p' /\ indent' = p' - m /\ m..(p' - 1) = {} /\ m - 1 = p
      BY <1>1, <2>3, <3>1
    <3>3. TabsUpTo(m)'
      BY <1>1, <2>3, <3>2 DEF TabsUpTo
    <3> QED BY <2>1, <2>2, <2>3, <3>2, <3>3 DEF Ahead
  <2>4. CASE text[p] # "newline" /\ state' = "COMMENT_AHEADMARK"
    <3>1. PICK j \in 1..(p - 1) : text[j] = "comment" /\ \A k \in j..(p - 1) : text[k] # "newline"
      BY <2>1 DEF Commented
    <3>2. PICK n : n = p + 1
      OBVIOUS
    <3>3. Commented(text, n)
      <4>1. n - 1 = p /\ j \in 1..(n - 1) /\ \A k \in j..(n - 1) : k = p \/ k \in j..(p - 1)
        BY <1>1, <3>2
      <4> QED BY <2>4, <3>1, <4>1 DEF Commented
    <3> QED BY <1>1, <2>1, <2>2, <2>4, <3>2, <3>3 DEF Ahead
  <2> QED BY <1>2, <1>3, <1>6, <2>3, <2>4, CommentRows
<1>7. CASE state \in {"MARKHANDLE", "COMMENT_MARKHANDLE"} /\ HasMark(tip, p)
  <2>1. PICK i : i = tip
    OBVIOUS
  <2>2. /\ FirstAt(i) /\ text[i] = "mark" /\ i < p /\ i \in Nat /\ 1 <= i
        /\ \A j \in i..(p - 1) : text[j] # "newline"
    BY <1>7, <2>1 DEF HasMark, FirstAt
  <2>3. indent' = indent /\ FirstAt(i)'
    BY <1>1, <1>2, <1>3, <1>4, <1>7, <2>2, HandleRows
  <2>4. CASE text[p] = "newline" /\ state' = "MARKED" /\ tip' = p + 1
    <3>1. i \in 1..(p' - 1) /\ HasMark(i, p - 1)'
      <4>1. p' - 1 = p /\ i \in 1..p
        BY <1>1, <2>2
      <4> QED BY <1>1, <2>2, <2>3, <4>1 DEF HasMark
    <3> QED BY <1>1, <2>4, <3>1 DEF Marked
  <2>5. CASE text[p] # "newline" /\ tip' = tip /\ state' \in {"MARKHANDLE", "COMMENT_MARKHANDLE", "MARKED"}
    <3>1. i < p' /\ \A j \in i..(p' - 1) : j = p \/ j \in i..(p - 1)
      BY <1>1, <2>2
    <3>2. FirstAt(tip)' /\ HasMark(tip, p)'
      BY <1>1, <2>1, <2>2, <2>3, <2>5, <3>1 DEF HasMark
    <3> QED BY <2>5, <3>2 DEF Marked
  <2> QED BY <1>1, <1>2, <1>3, <1>7, <2>4, <2>5, HandleRows
<1>8. state # "MARKED"
  BY <1>2, MarkedRows
<1> QED BY <1>5, <1>6, <1>7, <1>8 DEF MarkInv

LEMMA MarkTells ==
  ASSUME TextInv, ~ForDict, MarkInv, MarkReturns, state' \in {"READ", "BOL"}
  PROVE  Told'
<1>1. /\ BlockInv /\ p \in 1..End /\ p \in Nat /\ End = Len(text) + 1 /\ Len(text) \in Nat /\ text' = text
      /\ state \in MarkAll
  <2>1. state \in MarkAll
    BY DEF MarkReturns, MarkAll
  <2>2. state # "past"
    BY <2>1, LoopStates
  <2> QED BY <2>1, <2>2 DEF MarkReturns, TextInv, PointerInv, BlockInv, lexed
<1>2. /\ indent' = indent /\ p' = IF tip # 0 THEN tip ELSE p
      /\ state = "MARKED" \/ (p = End /\ state \in MarkMayEnd)
  BY DEF MarkReturns
<1> SUFFICES ASSUME Plain, NEW i \in 1..Len(text), FirstChar(i)
             PROVE  /\ indent = Cardinality({j \in LineStart(i)..i : text[j] = "tab"})
                    /\ \/ p' = i
                       \/ /\ text[i] = "mark" /\ text[p' - 1] = "newline"
                          /\ i < p' /\ \A j \in i..(p' - 2) : text[j] # "newline"
  BY <1>1, <1>2 DEF Told, Plain, FirstChar, LineStart
<1>3. i \in Nat \ {0}
  OBVIOUS
<1>4. CASE FirstAt(tip)
  <2>1. tip \in 1..Len(text) /\ FirstChar(tip) /\ tip # 0 /\ tip \in Nat \ {0}
    BY <1>1, <1>4 DEF FirstAt
  <2>2. PICK k \in Nat \ {0} : k = tip
    BY <2>1
  <2>3. k = i
    BY <1>3, <2>1, <2>2, OneFirst
  <2> QED BY <1>2, <1>4, <2>1, <2>2, <2>3 DEF FirstAt
<1>5. CASE state = "MARKED" /\ ~FirstAt(tip)
  <2>1. PICK k \in 1..(p - 1) : tip = p /\ text[p - 1] = "newline" /\ HasMark(k, p - 1)
    BY <1>1, <1>5 DEF MarkInv, Marked
  <2>2. FirstChar(k) /\ text[k] = "mark" /\ k < p - 1 /\ (\A j \in k..(p - 1 - 1) : text[j] # "newline")
        /\ indent = Cardinality({j \in LineStart(k)..k : text[j] = "tab"})
    BY <2>1 DEF HasMark, FirstAt
  <2>3. k = i
    <3>1. k \in Nat \ {0}
      BY <1>1
    <3> QED BY <1>3, <2>2, <3>1, OneFirst
  <2>4. p' = p /\ i < p /\ \A j \in i..(p - 2) : j \in i..(p - 1 - 1)
    BY <1>1, <1>2, <2>1, <2>2, <2>3
  <2> QED BY <2>1, <2>2, <2>3, <2>4
<1>6. CASE state # "MARKED" /\ ~FirstAt(tip)
  <2>1. p = End /\ Ahead
    BY <1>1, <1>2, <1>6 DEF MarkInv, HasMark, MarkMayEnd
  <2>2. i \in 1..(p - 1)
    BY <1>1, <2>1
  <2> QED BY <2>1, <2>2 DEF Ahead, BlankUpTo, FirstChar
<1> QED BY <1>4, <1>5, <1>6

\* Behind read_mark: what was skipped lies before b, and where a line begins so does
\* the newline before it.
LEMMA Leaves ==
  ASSUME state' \notin MarkAll, NEW b \in Int, Bound' \in Int, b <= Bound', p' \in Int,
         \A x \in skipped' : x \in Int /\ x < b,
         state' \in {"READ", "BOL"} => p' >= 2 /\ b <= p' - 1, called' \in Int
  PROVE  MarkInv'
<1>1. MarkAll' = MarkAll
  BY DEF MarkAll, MarkStates
<1>2. \A x \in skipped' : x \in Int /\ x < Bound'
  OBVIOUS
<1>3. ASSUME state' \in {"READ", "BOL"} PROVE p' >= 2 /\ p' - 1 \notin skipped'
  <2>1. PICK n \in Int : n = p'
    OBVIOUS
  <2>2. n >= 2 /\ b <= n - 1
    BY <1>3, <2>1
  <2>3. n - 1 \notin skipped'
    BY <2>2
  <2> QED BY <2>1, <2>2, <2>3
<1> QED BY <1>1, <1>2, <1>3 DEF MarkInv

LEMMA GoesOnLeaves ==
  ASSUME BlockInv, NEW i \in 1..End, i # End, NEW notes, GoesOn(i, notes), reader' = "none",
         \A x \in skipped' : x \in Int /\ x < i, called' \in Int
  PROVE  MarkInv'
<1>1. Bound' \in Int /\ i <= Bound' /\ state' \notin MarkAll /\ state' # "READ"
  BY GoesOnBound
<1>2. i \in Int /\ 1 <= i /\ p' \in Int
  BY GoesOnFacts DEF BlockInv
<1>3. state' = "BOL" => text[i] = "newline"
  BY DEF GoesOn, StateFor
<1>4. state' = "BOL" => p' = i + 1
  BY <1>3 DEF GoesOn
<1>5. state' \in {"READ", "BOL"} => p' >= 2 /\ i <= p' - 1
  <2>1. PICK n \in Int : n = p'
    BY <1>2
  <2>2. state' \in {"READ", "BOL"} => n = i + 1
    BY <1>1, <1>4, <2>1
  <2>3. n = i + 1 => n >= 2 /\ i <= n - 1
    BY <1>2
  <2> QED BY <2>1, <2>2, <2>3
<1> QED BY <1>1, <1>2, <1>5, Leaves

LEMMA AfterWordLeaves ==
  ASSUME BlockInv, p \in 1..End, NEW l, AfterWord(l), reader' = "none",
         \A x \in skipped' : x \in Int /\ x < p, called' \in Int
  PROVE  MarkInv'
<1>1. CASE p = End
  <2>1. state' = "END" /\ p' = p /\ p \in Int
    BY <1>1 DEF AfterWord, BlockInv
  <2>2. Bound' = p /\ state' \notin MarkAll
    BY <2>1, LoopStates DEF Bound
  <2> QED BY <2>1, <2>2, Leaves
<1>2. CASE p # End
  <2>1. GoesOn(p, {"backslash", "comment"})
    BY <1>2 DEF AfterWord
  <2>2. PICK i \in 1..End : i = p
    OBVIOUS
  <2>3. GoesOn(i, {"backslash", "comment"}) /\ i # End /\ \A x \in skipped' : x \in Int /\ x < i
    BY <1>2, <2>1, <2>2
  <2> QED BY <2>3, GoesOnLeaves
<1> QED BY <1>1, <1>2

LEMMA MarkStep ==
  ASSUME TextInv, ~ForDict, MakeOrder, MarkInv, MakeNext, UNCHANGED dictVars
  PROVE  MarkInv'
<1>0. /\ BlockInv /\ BufferInv /\ p \in Int /\ Bound \in Int /\ Bound <= p /\ (state = "past" \/ p \in 1..End)
      /\ End \in Nat /\ called \in Int /\ \A x \in skipped : x \in Int /\ x < Bound
  BY DEF TextInv, PointerInv, BlockInv, Bound, MarkInv
<1>1. \A x \in skipped : x \in Int /\ x < p
  BY <1>0
<1>20. called' \in Int
  <2>1. called' \in {called, p}
    BY DEF MakeNext, MarkReads, MarkReturns, Read, Bol, WordCalls, WordReads, WordFits, WordEmpty,
           WordRefused, Other, Join, Escape, Comment, Succeeds, Fails, Stays, lexed
  <2> QED BY <1>0, <2>1
<1>2. MarkAll' = MarkAll
  BY DEF MarkAll, MarkStates
<1>3. CASE MarkReads
  <2>1. state \in MarkAll /\ skipped' = skipped /\ reader' = reader /\ p' = p + 1
    BY <1>3 DEF MarkReads, MarkAll, lexed
  <2>2. state' \notin {"READ", "BOL", "ESCAPE"}
    BY <1>3, MarkLeads DEF MarkReads
  <2>3. Plain' => Plain
    BY <1>3 DEF MarkReads, lexed, Plain
  <2>4. Bound' = p + 1
    <3>1. reader' = "none"
      BY <2>1, LoopStates DEF TextInv, PointerInv, Idle
    <3> QED BY <2>1, <2>2, <3>1 DEF Bound
  <2>5. \A x \in skipped' : x \in Int /\ x < Bound'
    BY <1>0, <1>1, <2>1, <2>4
  <2>6. Plain' =>
          \/ state' \in {"AHEADMARK", "COMMENT_AHEADMARK"} /\ Ahead'
          \/ state' \in {"MARKHANDLE", "COMMENT_MARKHANDLE"} /\ HasMark(tip, p)'
          \/ state' = "MARKED" /\ Marked'
    BY <1>3, <2>1, <2>3, MarkReadsStep
  <2> QED BY <2>2, <2>5, <2>6, <1>20 DEF MarkInv
<1>4. CASE MarkReturns
  <2>1. state' \in {"END", "READ", "BOL"} /\ skipped' = 1..(p' - 1) /\ reader' = reader /\ state \in MarkAll
    BY <1>4 DEF MarkReturns, MarkAll, lexed
  <2>2. state' \notin MarkAll
    BY <2>1, LoopStates
  <2>3. state' \in {"READ", "BOL"} => Told'
    BY <1>4, MarkTells
  <2>4. Bound' = p' /\ p' \in Int
    <3>1. reader' = "none"
      BY <2>1, LoopStates DEF TextInv, PointerInv, Idle
    <3>2. tip \in Int /\ p' \in {tip, p}
      BY <1>0, <1>4 DEF MarkReturns, TextInv, PointerInv, BlockInv
    <3> QED BY <1>0, <2>1, <3>1, <3>2 DEF Bound
  <2>5. \A x \in skipped' : x \in Int /\ x < Bound'
    <3>1. PICK n \in Int : n = p'
      BY <2>4
    <3>2. \A x \in 1..(n - 1) : x \in Int /\ x < n
      OBVIOUS
    <3> QED BY <2>1, <2>4, <3>1, <3>2
  <2> QED BY <1>2, <2>2, <2>3, <2>5, <1>20 DEF MarkInv
<1>5. CASE Read
  <2>1. /\ state = "READ" /\ reader' = "none" /\ skipped' = skipped /\ state' \in {"ERROR", "END", "past", "READ"}
        /\ p' \in Int /\ p <= p' /\ Bound <= p
    <3>1. TextInv'
      BY MakeStep
    <3>2. p' \in Int
      BY <3>1 DEF TextInv, PointerInv, BlockInv
    <3>3. state = "READ" /\ reader' = "none" /\ skipped' = skipped
      BY <1>5 DEF Read, lexed, TextInv, PointerInv, Idle
    <3>4. state' \in {"ERROR", "END", "past", "READ"}
      BY <1>5 DEF Read
    <3> QED BY <1>0, <1>5, <3>2, <3>3, <3>4, ReadGoesOn
  <2>2. state' = "READ" => p + 1 <= p'
    BY <1>5, ReadGoesOn DEF TextInv
  <2>3. Bound' = p' /\ state' \notin MarkAll /\ state' # "BOL"
    BY <2>1, LoopStates DEF Bound
  <2>4. p \in 1..End
    BY <1>0, <2>1
  <2>5. p \in Int /\ 1 <= p
    BY <1>0, <2>4
  <2>6. state' \in {"READ", "BOL"} => p' >= 2 /\ p <= p' - 1
    <3>1. PICK n \in Int : n = p'
      BY <2>1
    <3>2. state' \in {"READ", "BOL"} => p + 1 <= n
      BY <2>2, <2>3, <3>1
    <3>3. p + 1 <= n => n >= 2 /\ p <= n - 1
      BY <2>5
    <3> QED BY <3>1, <3>2, <3>3
  <2> QED BY <1>1, <2>1, <2>3, <2>5, <2>6, Leaves, <1>20
<1>6. CASE Bol
  <2>1. state = "BOL" /\ Idle /\ indent \in Nat /\ p \in 1..End /\ reader' = "none" /\ skipped' = skipped
    BY <1>0, <1>6, LoopStates DEF Bol, Stays, lexed, TextInv, PointerInv, Idle
  <2>2. PICK q : q = ReadTabs(p)
    OBVIOUS
  <2>3. q \in 1..End /\ q \in Int /\ p <= q
    <3>1. q \in p..End
      BY <1>0, <2>1, <2>2, ReadTabsFacts
    <3> QED BY <1>0, <2>1, <3>1
  <2>4. \A x \in skipped' : x \in Int /\ x < q
    BY <1>0, <1>1, <2>1, <2>3
  <2>5. CASE q = End /\ p' = q /\ state' = "END"
    <3>1. Bound' = q /\ state' \notin MarkAll
      BY <2>1, <2>5, LoopStates DEF Bound
    <3> QED BY <2>3, <2>4, <2>5, <3>1, Leaves, <1>20
  <2>6. CASE q # End /\ GoesOn(q, {"backslash"})
    BY <1>0, <2>1, <2>3, <2>4, <2>6, GoesOnLeaves, <1>20
  <2> QED BY <1>6, <2>2, <2>5, <2>6 DEF Bol
<1>7. CASE WordCalls
  <2>1. /\ state = "WORD" /\ state' = "WORD" /\ reader' = "AHEAD" /\ p' = p /\ skipped' = skipped
    BY <1>7 DEF WordCalls, Call
  <2>2. Bound' = p /\ state' \notin MarkAll
    BY <2>1, LoopStates DEF Bound
  <2> QED BY <1>0, <1>1, <2>1, <2>2, Leaves, <1>20
<1>8. CASE WordReads
  <2>1. /\ ~Idle /\ state = "WORD" /\ p \in 1..End /\ state' = state /\ skipped' = skipped
        /\ Turn(NameTable, NameLast)
    BY <1>0, <1>8 DEF WordReads, Turn, Reading, Idle, TextInv, PointerInv
  <2>2. Rising(buf) /\ Behind(Places(buf))
    BY <2>1 DEF MakeOrder
  <2>3. Bound' \in Int /\ Bound <= Bound'
    BY <1>0, <2>1, <2>2, TurnOrder, NameRows
  <2>4. state' \notin MarkAll /\ p' \in Int
    <3>1. p' \in 1..End
      BY <1>0, <2>1, TurnStep, NameRows
    <3> QED BY <1>0, <2>1, <3>1, LoopStates
  <2> QED BY <1>0, <2>1, <2>3, <2>4, Leaves, <1>20
<1>9. CASE WordFits
  <2>1. reader' = "none" /\ skipped' = skipped /\ p \in 1..End /\ ~Idle
    BY <1>0, <1>9 DEF WordFits, TextInv, PointerInv, Idle
  <2>2. PICK l : (state' = "overrun" /\ p' = p) \/ AfterWord(l)
    BY <1>9 DEF WordFits
  <2>3. CASE state' = "overrun" /\ p' = p
    <3>1. Bound' = p /\ state' \notin MarkAll
      BY <2>1, <2>3, LoopStates DEF Bound
    <3> QED BY <1>0, <1>1, <2>1, <2>3, <3>1, Leaves, <1>20
  <2>4. CASE AfterWord(l)
    BY <1>0, <1>1, <2>1, <2>4, AfterWordLeaves, <1>20
  <2> QED BY <2>2, <2>3, <2>4
<1>10. CASE WordEmpty
  <2>1. state' = "abort" /\ reader' = "none" /\ p' = p /\ skipped' = skipped
    BY <1>10 DEF WordEmpty
  <2>2. Bound' = p /\ state' \notin MarkAll
    BY <2>1, LoopStates DEF Bound
  <2> QED BY <1>0, <1>1, <2>1, <2>2, Leaves, <1>20
<1>11. CASE WordRefused
  <2>1. /\ reader' = "none" /\ skipped' = skipped \cup called..(p - 1) /\ AfterWord(line) /\ ~Idle
        /\ called \in Int
    BY <1>11 DEF WordRefused, Idle, MarkInv
  <2>2. p \in 1..End
    BY <1>0, <2>1 DEF TextInv, PointerInv
  <2>3. \A x \in skipped' : x \in Int /\ x < p
    BY <1>0, <1>1, <2>1
  <2> QED BY <1>0, <2>1, <2>2, <2>3, AfterWordLeaves, <1>20
<1>12. CASE Other
  <2>1. /\ state = "OTHER" /\ Idle /\ p \in 1..End /\ p # End /\ reader' = "none" /\ skipped' = skipped
    BY <1>0, <1>12 DEF Other, Stays, lexed, TextInv, PointerInv, Idle
  <2>2. PICK q : q = p + 1
    OBVIOUS
  <2>3. q \in 1..End /\ q \in Int /\ \A x \in skipped' : x \in Int /\ x < q
    BY <1>0, <1>1, <2>1, <2>2
  <2>4. CASE q = End /\ p' = q /\ state' = "END"
    <3>1. Bound' = q /\ state' \notin MarkAll
      BY <2>1, <2>4, LoopStates DEF Bound
    <3> QED BY <2>3, <2>4, <3>1, Leaves, <1>20
  <2>5. CASE q # End /\ GoesOn(q, {"backslash", "comment"})
    BY <1>0, <2>1, <2>3, <2>5, GoesOnLeaves, <1>20
  <2> QED BY <1>12, <2>2, <2>4, <2>5 DEF Other
<1>13. CASE Join
  <2>1. /\ state = "ESCAPE" /\ Idle /\ p \in 1..End /\ p # End /\ reader' = "none" /\ skipped' = skipped
    BY <1>0, <1>13 DEF Join, Stays, lexed, TextInv, PointerInv, Idle
  <2>2. PICK q : q = PastAll(p + 1, Blank)
    OBVIOUS
  <2>3. q \in 1..End /\ q \in Int /\ p + 1 <= q
    <3>1. p + 1 \in 1..End
      BY <1>0, <2>1
    <3>2. q \in (p + 1)..End
      BY <1>0, <2>2, <3>1, PastAllFacts
    <3> QED BY <1>0, <2>1, <3>2
  <2>4. \A x \in skipped' : x \in Int /\ x < q
    BY <1>0, <1>1, <2>1, <2>3
  <2>5. CASE q = End /\ p' = q /\ state' = state
    <3>1. Bound' = q - 1 /\ state' \notin MarkAll
      BY <2>1, <2>5, LoopStates DEF Bound
    <3>2. \A x \in skipped' : x \in Int /\ x < p
      BY <1>1, <2>1
    <3> QED BY <1>0, <2>1, <2>3, <2>5, <3>1, <3>2, Leaves, <1>20
  <2>6. CASE q # End /\ GoesOn(q, {})
    BY <1>0, <2>1, <2>3, <2>4, <2>6, GoesOnLeaves, <1>20
  <2> QED BY <1>13, <2>2, <2>5, <2>6 DEF Join
<1>14. CASE Escape
  <2>1. /\ state = "ESCAPE" /\ Idle /\ reader' = "none" /\ skipped' = skipped /\ Bound = p - 1
        /\ (state' = "ERROR" /\ p' = p) \/ (state' = "WORD" /\ p' = p - 1)
    <3>1. state = "ESCAPE" /\ Idle /\ reader' = "none" /\ skipped' = skipped /\ Bound = p - 1
      BY <1>14, LoopStates DEF Escape, Stays, lexed, Idle, Bound, TextInv, PointerInv
    <3>2. (state' = "ERROR" /\ p' = p) \/ (state' = "WORD" /\ p' = p - 1)
      BY <1>14 DEF Escape
    <3> QED BY <3>1, <3>2
  <2>2. Bound' = p' /\ state' \notin MarkAll
    BY <2>1, LoopStates DEF Bound
  <2> QED BY <1>0, <2>1, <2>2, Leaves, <1>20
<1>15. CASE Comment
  <2>1. /\ state = "COMMENT" /\ Idle /\ p \in 1..End /\ p # End /\ reader' = "none" /\ skipped' = skipped
    BY <1>0, <1>15 DEF Comment, Stays, lexed, TextInv, PointerInv, Idle
  <2>2. PICK q : q = PastAll(p, Class \ {"newline"})
    OBVIOUS
  <2>3. q \in Int /\ p <= q /\ q <= End
    <3>1. q \in p..End
      BY <1>0, <2>1, <2>2, PastAllFacts
    <3> QED BY <1>0, <2>1, <3>1
  <2>4. /\ (p' = q /\ state' = state) \/ (p' = q + 1 /\ state' = "BOL")
    BY <1>15, <2>2 DEF Comment
  <2>5. Bound' = p' /\ state' \notin MarkAll /\ 1 <= p
    BY <1>0, <2>1, <2>4, LoopStates DEF Bound
  <2> QED BY <1>0, <1>1, <2>1, <2>3, <2>4, <2>5, Leaves, <1>20
<1>16. CASE Succeeds \/ Fails
  <2>1. /\ Idle /\ reader' = "none" /\ skipped' = skipped /\ p' = p /\ state' = "finished"
    BY <1>16 DEF Succeeds, Fails, lexed, Idle
  <2>2. Bound' = p /\ state' \notin MarkAll
    BY <2>1, LoopStates DEF Bound
  <2> QED BY <1>0, <1>1, <2>1, <2>2, Leaves, <1>20
<1> QED BY <1>3, <1>4, <1>5, <1>6, <1>7, <1>8, <1>9, <1>10, <1>11, <1>12, <1>13, <1>14, <1>15, <1>16
        DEF MakeNext

\* No task on a dictionary comes to a state that MarkTabs is about.
TabsInv == /\ ~ForDict => MarkInv
           /\ ForDict => state \notin {"READ", "BOL"}

LEMMA DefdirLeads == \A row \in DefdirTable : row.to \notin {"READ", "BOL"}
BY DEF DefdirTable, Row

LEMMA TabsStart == ASSUME Init PROVE TabsInv
<1> SUFFICES ASSUME ~ForDict PROVE MarkInv
  BY DEF TabsInv, Init
<1>1. state = "AHEADMARK" /\ p = 1 /\ tip = 0 /\ indent = 0 /\ skipped = {} /\ called = 0
  BY DEF Init
<1>2. BlankUpTo(p) /\ TabsUpTo(1)
  BY <1>1 DEF BlankUpTo, TabsUpTo
<1>3. Ahead
  BY <1>1, <1>2 DEF Ahead
<1> QED BY <1>1, <1>3 DEF MarkInv

LEMMA TabsStep == ASSUME TextInv, OrderInv, TabsInv, [Next]_vars PROVE TabsInv'
<1>1. CASE UNCHANGED vars
  <2>1. UNCHANGED <<task, text, p, state, reader, tip, indent, called, skipped>>
    BY <1>1 DEF vars
  <2>2. /\ Told' <=> Told
        /\ Ahead' <=> Ahead
        /\ Marked' <=> Marked
        /\ HasMark(tip, p)' <=> HasMark(tip, p)
        /\ Plain' <=> Plain
        /\ Bound' = Bound /\ MarkAll' = MarkAll
    BY <2>1 DEF Told, Ahead, Marked, HasMark, Plain, Bound, MarkAll, MarkStates, FirstAt, FirstChar,
                LineStart, BlankUpTo, TabsUpTo
  <2>3. MarkInv' <=> MarkInv
    BY <2>1, <2>2 DEF MarkInv
  <2> QED BY <2>1, <2>3 DEF TabsInv, ForDict
<1>2. CASE ForDict /\ DictNext /\ UNCHANGED makeVars
  <2>1. task' = task
    BY <1>2 DEF DictNext, Calls, Reads, NoPattern, PatternOfDefdir, PatternOfNoextend,
                Prefix, Passes, Finishes, Returns
  <2>2. state' \notin {"READ", "BOL"}
    BY <1>2, DefdirLeads DEF TabsInv, DictNext, Calls, Reads, NoPattern, PatternOfDefdir, PatternOfNoextend,
                             AddItem, Prefix, Passes, Finishes
  <2> QED BY <1>2, <2>1, <2>2 DEF TabsInv, ForDict
<1>3. CASE ~ForDict /\ MakeNext /\ UNCHANGED dictVars
  <2>1. task' = task
    BY <1>3 DEF MakeNext, MarkReads, MarkReturns, Read, Bol, WordCalls, WordReads, WordFits,
                WordEmpty, WordRefused, Other, Join, Escape, Comment, Succeeds, Fails, Stays, lexed
  <2>2. MarkInv'
    BY <1>3, MarkStep DEF TabsInv, OrderInv
  <2> QED BY <1>3, <2>1, <2>2 DEF TabsInv, ForDict
<1> QED BY <1>1, <1>2, <1>3 DEF Next, Stopped

\* For every text without spaces and escapes: read_mark counts the tabs of the first line
\* that has another character, and the task goes on there or behind the mark
\* (context.cpp:872-1064): see MarkTabs.
THEOREM CountsTheTabs == Spec => []MarkTabs
<1>1. TextInv /\ OrderInv /\ TabsInv => MarkTabs
  <2> SUFFICES ASSUME TextInv, OrderInv, TabsInv, MarkFound, Plain, NEW i \in DOMAIN text, FirstChar(i)
               PROVE  /\ indent = Cardinality({j \in LineStart(i)..i : text[j] = "tab"})
                      /\ \/ p = i
                         \/ /\ text[i] = "mark" /\ text[p - 1] = "newline"
                            /\ i < p /\ \A j \in i..(p - 2) : text[j] # "newline"
    BY DEF MarkTabs, Plain
  <2>1. state \in {"READ", "BOL"} /\ skipped = 1..(p - 1) /\ p \in Int /\ i \in 1..Len(text)
    BY DEF MarkFound, TextInv, PointerInv, BlockInv
  <2>2. ~ForDict
    BY <2>1 DEF TabsInv
  <2>3. Told
    BY <2>1, <2>2 DEF TabsInv, MarkInv
  <2> QED BY <2>1, <2>3 DEF Told
<1>2. TextInv /\ OrderInv /\ TabsInv /\ [Next]_vars => (TextInv /\ OrderInv /\ TabsInv)'
  BY TextStep, OrderStep, TabsStep
<1> QED BY <1>1, <1>2, TextStarts, OrderStarts, TabsStart, PTL DEF Spec
-----------------------------------------------------------------------------
(* Two pairs never share a logical line. *)

\* Where the backslashes in front of i begin, less one.
NoSlash(t, i) == Max({j \in 0..(i - 1) : j = 0 \/ t[j] # "backslash"})

\* A character is escaped if the number of backslashes in front of it is odd: this
\* solves the recursion of Escapes.
LEMMA EscapesUnfold ==
  ASSUME NEW t \in Seq(Class)
  PROVE  \A i \in 1..Len(t) + 1 :
           Escapes(t)[i] = (i > 1 /\ t[i - 1] = "backslash" /\ ~Escapes(t)[i - 1])
<1> DEFINE Step(g) == [i \in 0..(Len(t) + 1) |-> i > 1 /\ t[i - 1] = "backslash" /\ ~g[i - 1]]
           e == CHOOSE g : g = Step(g)
           o == [i \in 0..(Len(t) + 1) |-> i > 1 /\ (i - 1 - NoSlash(t, i)) % 2 = 1]
<1>1. Len(t) \in Nat
  OBVIOUS
<1>2. ASSUME NEW i \in 1..Len(t) + 1
      PROVE  /\ NoSlash(t, i) \in 0..(i - 1)
             /\ NoSlash(t, i) = 0 \/ t[NoSlash(t, i)] # "backslash"
             /\ \A j \in 0..(i - 1) : j > NoSlash(t, i) => t[j] = "backslash"
  <2> DEFINE T == {j \in 0..(i - 1) : j = 0 \/ t[j] # "backslash"}
  <2>1. T \subseteq Nat /\ 0 \in T /\ \A y \in T : y <= i - 1 /\ i - 1 \in Nat
    BY <1>1
  <2>2. Max(T) \in T /\ \A y \in T : y <= Max(T)
    <3> HIDE DEF T
    <3> QED BY <2>1, Greatest
  <2>3. PICK m : m = NoSlash(t, i)
    OBVIOUS
  <2>4. m \in T /\ \A y \in T : y <= m
    BY <2>2, <2>3 DEF NoSlash
  <2>5. ASSUME NEW j \in 0..(i - 1), j > m PROVE t[j] = "backslash"
    BY <2>4, <2>5
  <2> QED BY <2>3, <2>4, <2>5
<1>3. ASSUME NEW i \in 2..Len(t) + 1
      PROVE  ((i - 1 - NoSlash(t, i)) % 2 = 1) =
               (t[i - 1] = "backslash" /\ ~(i - 1 > 1 /\ (i - 2 - NoSlash(t, i - 1)) % 2 = 1))
  <2>1. PICK m, n : m = NoSlash(t, i) /\ n = NoSlash(t, i - 1)
    OBVIOUS
  <2>2. /\ i \in 1..Len(t) + 1 /\ m \in 0..(i - 1) /\ (m = 0 \/ t[m] # "backslash")
        /\ \A j \in 0..(i - 1) : j > m => t[j] = "backslash"
    BY <1>1, <1>2, <2>1
  <2>3. /\ i - 1 \in 1..Len(t) + 1 /\ n \in 0..(i - 2) /\ (n = 0 \/ t[n] # "backslash")
        /\ \A j \in 0..(i - 2) : j > n => t[j] = "backslash"
    BY <1>1, <1>2, <2>1
  <2>4. CASE t[i - 1] # "backslash"
    <3>1. m = i - 1
      BY <2>2, <2>4
    <3> QED BY <2>1, <2>2, <2>4, <3>1
  <2>5. CASE t[i - 1] = "backslash"
    <3>1. m # i - 1
      BY <2>2, <2>5
    <3>2. m = n
      BY <2>2, <2>3, <3>1
    <3>3. (i - 1 - n) % 2 = 1 <=> ~((i - 2 - n) % 2 = 1)
      BY <2>3
    <3>4. (i - 2 - n) % 2 = 1 => i - 1 > 1
      BY <2>3
    <3> QED BY <2>1, <2>5, <3>2, <3>3, <3>4
  <2> QED BY <2>4, <2>5
<1>4. \A i \in 0..(Len(t) + 1) : o[i] = (i > 1 /\ t[i - 1] = "backslash" /\ ~o[i - 1])
  <2> SUFFICES ASSUME NEW i \in 0..(Len(t) + 1), i > 1
               PROVE  o[i] = (t[i - 1] = "backslash" /\ ~o[i - 1])
    OBVIOUS
  <2>1. i \in 2..Len(t) + 1 /\ i - 1 \in 0..(Len(t) + 1) /\ i - 1 - 1 = i - 2
    BY <1>1
  <2> QED BY <1>3, <2>1
<1>5. o = Step(o)
  <2>1. \A i \in 0..(Len(t) + 1) : o[i] = Step(o)[i]
    <3> HIDE DEF o
    <3> QED BY <1>4
  <2> QED BY <2>1
<1>6. e = Step(e)
  <2> HIDE DEF o
  <2> QED BY <1>5
<1>7. Escapes(t) = e
  BY DEF Escapes
<1>8. \A i \in 0..(Len(t) + 1) : e[i] = (i > 1 /\ t[i - 1] = "backslash" /\ ~e[i - 1])
  <2> HIDE DEF e, o
  <2> QED BY <1>6
<1> HIDE DEF e, o
<1>9. \A i \in 1..Len(t) + 1 : i \in 0..(Len(t) + 1)
  OBVIOUS
<1> QED BY <1>7, <1>8, <1>9

\* Whether a backslash escapes the character at p.
Escaped(i) == Escapes(text)[i]

\* The character behind another one, and the one a reader steps back to.
LEMMA EscapedNext ==
  ASSUME BlockInv, NEW i \in 1..Len(text)
  PROVE  /\ Escaped(i + 1) = (text[i] = "backslash" /\ ~Escaped(i))
         /\ Escaped(i) /\ i > 1 => text[i - 1] = "backslash" /\ ~Escaped(i - 1)
<1>1. text \in Seq(Class) /\ i + 1 \in 1..Len(text) + 1 /\ i \in 1..Len(text) + 1 /\ i + 1 > 1 /\ i + 1 - 1 = i
  BY DEF BlockInv
<1>2. \A k \in 1..Len(text) + 1 :
        Escapes(text)[k] = (k > 1 /\ text[k - 1] = "backslash" /\ ~Escapes(text)[k - 1])
  BY <1>1, EscapesUnfold
<1>3. Escapes(text)[i + 1] = (i + 1 > 1 /\ text[i + 1 - 1] = "backslash" /\ ~Escapes(text)[i + 1 - 1])
  BY <1>1, <1>2
<1>4. Escapes(text)[i] = (i > 1 /\ text[i - 1] = "backslash" /\ ~Escapes(text)[i - 1])
  BY <1>1, <1>2
<1> QED BY <1>1, <1>3, <1>4 DEF Escaped

\* What name_reader knows of the character at p.
NameEscapes(r, i) ==
  /\ r \in {"AHEAD", "NAME", "END", "TRUE"} => ~Escaped(i)
  /\ r \in {"ESCAPE_AHEAD", "ESCAPE_NAME"} => Escaped(i)

\* What _defdir knows of it, behind a colon and behind a prefix.
EscapeInv ==
  /\ Idle /\ state \in {"AHEADPREFIX", "PREFIXEND"} => ~Escaped(p)
  /\ Idle /\ state = "ESCAPE_PREFIXEND" => Escaped(p)
  /\ ~Idle /\ state = "AHEADPREFIX" => NameEscapes(reader, p)

LEMMA NameEscapeRows ==
  \A row \in NameTable : \A c \in row.on :
    /\ row.to \in {"AHEAD", "NAME", "END"} =>
         \/ row.back = 0 /\ (c # "backslash" \/ row.from = "ESCAPE_AHEAD" \/ row.from = "ESCAPE_NAME")
         \/ row.back = 1 /\ row.from = "NAME"
         \/ row.back = 2 /\ row.from = "ESCAPE_NAME"
    /\ row.to \in {"ESCAPE_AHEAD", "ESCAPE_NAME"} =>
         row.back = 0 /\ c = "backslash" /\ row.from \in {"AHEAD", "NAME"}
    /\ row.to # "TRUE"
BY SMTT(60) DEF NameTable, NameLineEnd, Row, NameChar, Blank, Class

LEMMA DefdirEscapeRows ==
  \A row \in DefdirTable : \A c \in row.on :
    /\ row.to \in {"AHEADPREFIX", "PREFIXEND"} => c # "backslash"
    /\ row.to = "ESCAPE_PREFIXEND" => c = "backslash" /\ row.from = "PREFIXEND"
BY DEF DefdirTable, Row, Blank, Class

LEMMA EscapeStep ==
  ASSUME TextInv, task = "defdir", EscapeInv, DictNext, UNCHANGED makeVars
  PROVE  EscapeInv'
<1>0. /\ text' = text /\ p \in 1..End /\ BlockInv /\ BufferInv /\ End = Len(text) + 1 /\ Len(text) \in Nat
      /\ ForDict /\ p \in Int
  BY DEF DictNext, Calls, Reads, NoPattern, PatternOfDefdir, PatternOfNoextend, Prefix, Passes, Finishes,
         Returns, Turn, TextInv, PointerInv, BlockInv, ForDict
<1>1. ASSUME NEW n \in 1..End, p' = n,
             Idle' /\ state' \in {"AHEADPREFIX", "PREFIXEND"} => ~Escaped(n),
             Idle' /\ state' = "ESCAPE_PREFIXEND" => Escaped(n),
             ~Idle' /\ state' = "AHEADPREFIX" => NameEscapes(reader', n)
      PROVE  EscapeInv'
  BY <1>0, <1>1 DEF EscapeInv, Escaped, NameEscapes
<1>2. CASE Calls
  <2>1. p' = p /\ state' = state /\ reader' = "AHEAD" /\ Idle /\ ~Idle'
    BY <1>2 DEF Calls, Call, Idle
  <2>2. state = "AHEADPREFIX" => NameEscapes("AHEAD", p)
    BY <2>1 DEF EscapeInv, NameEscapes
  <2> QED BY <1>0, <1>1, <2>1, <2>2
<1>3. CASE Reads
  <2>1. state' = state /\ ~Idle
    BY <1>3 DEF Reads, Turn, Reading, Idle
  <2>2. p' \in 1..End
    BY <1>0, <1>3, TurnStep, RegexRows, NameRows DEF Reads
  <2>3. CASE state # "AHEADPREFIX"
    <3>1. ~Idle'
      BY <1>3, RegexRows, NameRows DEF Reads, Turn, Idle, Sound
    <3> QED BY <1>1, <2>1, <2>2, <2>3, <3>1
  <2>4. CASE state = "AHEADPREFIX"
    <3>1. Turn(NameTable, NameLast) /\ NameEscapes(reader, p)
      BY <1>3, <2>1, <2>4 DEF Reads, EscapeInv
    <3>2. CASE Checked(NameLast) = "ERROR" /\ reader' = "FALSE" /\ p' = p
      <4>1. NameEscapes("FALSE", p)
        BY DEF NameEscapes
      <4> QED BY <1>0, <1>1, <2>1, <2>4, <3>2, <4>1 DEF Idle
    <3>3. CASE Checked(NameLast) = "END" /\ reader' = "TRUE" /\ p' = p
      <4>1. reader \in {"NAME", "END"}
        BY <3>3 DEF Checked, NameLast
      <4>2. NameEscapes("TRUE", p)
        BY <3>1, <4>1 DEF NameEscapes
      <4> QED BY <1>0, <1>1, <2>1, <2>4, <3>3, <4>2 DEF Idle
    <3>4. ASSUME Checked(NameLast) \notin {"ERROR", "END"}, NEW row \in NameTable,
                 row.from = Checked(NameLast), text[p] \in row.on, reader' = row.to, p' = p + 1 - row.back
          PROVE  EscapeInv'
      <4>1. row.from = reader /\ p \in 1..Len(text) /\ Sound(row)
        BY <1>0, <3>4, NameRows DEF Checked
      <4>2. PICK c : c = text[p] /\ c \in row.on
        BY <3>4
      <4>3. /\ row.to \in {"AHEAD", "NAME", "END"} =>
                 \/ row.back = 0 /\ (c # "backslash" \/ reader = "ESCAPE_AHEAD" \/ reader = "ESCAPE_NAME")
                 \/ row.back = 1 /\ reader = "NAME"
                 \/ row.back = 2 /\ reader = "ESCAPE_NAME"
            /\ row.to \in {"ESCAPE_AHEAD", "ESCAPE_NAME"} =>
                 row.back = 0 /\ c = "backslash" /\ reader \in {"AHEAD", "NAME"}
            /\ row.to # "TRUE"
        BY <4>1, <4>2, NameEscapeRows
      <4>4. /\ Escaped(p + 1) = (c = "backslash" /\ ~Escaped(p))
            /\ Escaped(p) /\ p > 1 => ~Escaped(p - 1)
        BY <1>0, <4>1, <4>2, EscapedNext
      <4>5. /\ reader \in {"AHEAD", "NAME"} => ~Escaped(p)
            /\ reader \in {"ESCAPE_AHEAD", "ESCAPE_NAME"} => Escaped(p)
        BY <3>1 DEF NameEscapes
      <4>6. PICK n \in Int : n = p'
        BY <1>0, <3>4, <4>1 DEF Sound
      <4>7. n \in 1..End /\ n = p + 1 - row.back /\ (reader = "ESCAPE_NAME" => p > 1)
        BY <1>0, <2>2, <3>4, <4>6 DEF BufferInv
      <4>8. row.to \in {"AHEAD", "NAME", "END"} => ~Escaped(n)
        <5>1. row.back = 0 => n = p + 1
          BY <4>7, <1>0
        <5>2. row.back = 1 => n = p
          BY <4>7, <1>0
        <5>3. row.back = 2 => n = p - 1
          BY <4>7, <1>0
        <5> QED BY <4>3, <4>4, <4>5, <4>7, <5>1, <5>2, <5>3
      <4>9. row.to \in {"ESCAPE_AHEAD", "ESCAPE_NAME"} => Escaped(n)
        <5>1. row.back = 0 => n = p + 1
          BY <4>7, <1>0
        <5> QED BY <4>3, <4>4, <4>5, <5>1
      <4>10. NameEscapes(reader', n) /\ ~Idle'
        BY <3>4, <4>1, <4>3, <4>8, <4>9 DEF NameEscapes, Idle, Sound
      <4> QED BY <1>1, <2>1, <2>4, <4>6, <4>7, <4>10
    <3> QED BY <3>1, <3>2, <3>3, <3>4 DEF Turn
  <2> QED BY <2>3, <2>4
<1>4. CASE NoPattern
  <2>1. p' = p /\ state' \in {"END", "ERROR"} /\ Idle'
    BY <1>4 DEF NoPattern, Returns, Idle
  <2> QED BY <1>0, <1>1, <2>1
<1>5. CASE PatternOfDefdir
  <2>1. p' = p /\ state' = "PATTERNEND" /\ Idle'
    BY <1>5 DEF PatternOfDefdir, Returns, Idle
  <2> QED BY <1>0, <1>1, <2>1
<1>6. CASE Prefix
  <2>1. /\ p' = p /\ Idle' /\ ~Idle /\ state = "AHEADPREFIX"
        /\ state' \in {"ERROR", "abort"} \/ (state' = "PREFIXEND" /\ reader = "TRUE")
    BY <1>6 DEF Prefix, Returns, Idle, AddItem
  <2>2. state' = "PREFIXEND" => ~Escaped(p)
    BY <2>1 DEF EscapeInv, NameEscapes
  <2> QED BY <1>0, <1>1, <2>1, <2>2
<1>7. CASE Passes
  <2>1. PICK row \in DefdirTable : row.from = DictNow /\ text[p] \in row.on /\ state' = row.to
    BY <1>7 DEF Passes
  <2>2. row.from \notin {"END", "ERROR", "finished", "abort"}
    BY DefdirRows
  <2>3. DictNow = state /\ p \in 1..Len(text) /\ Idle /\ Idle' /\ p' = p + 1
    BY <1>0, <1>7, <2>1, <2>2 DEF DictNow, Passes, Idle
  <2>4. PICK c : c = text[p] /\ c \in row.on
    BY <2>1
  <2>5. /\ row.to \in {"AHEADPREFIX", "PREFIXEND"} => c # "backslash"
        /\ row.to = "ESCAPE_PREFIXEND" => c = "backslash" /\ row.from = "PREFIXEND"
    BY <2>4, DefdirEscapeRows
  <2>6. Escaped(p + 1) = (c = "backslash" /\ ~Escaped(p))
    BY <1>0, <2>3, <2>4, EscapedNext
  <2>7. state = "PREFIXEND" => ~Escaped(p)
    BY <2>3 DEF EscapeInv
  <2>8. p + 1 \in 1..End
    BY <1>0, <2>3
  <2> QED BY <1>1, <2>1, <2>3, <2>5, <2>6, <2>7, <2>8
<1>8. CASE Finishes
  <2>1. p' = p /\ state' = "finished" /\ Idle'
    BY <1>8 DEF Finishes, Idle
  <2> QED BY <1>0, <1>1, <2>1
<1> QED BY <1>2, <1>3, <1>4, <1>5, <1>6, <1>7, <1>8 DEF DictNext, PatternOfNoextend

\* A pattern has a character of the text, so each pair has a place in it.
FullInv ==
  /\ \A k \in DOMAIN dict : Kept(dict[k]) # {}
  /\ Waiting # <<>> => Places(Waiting) # {}
  /\ ~Idle /\ state = "AHEADPATTERN" /\ buf # <<>> => Places(buf) # {}

LEMMA RegexPuts == \A row \in RegexTable : row.put \in {No, Char, SlashChar}
BY SMTT(60) DEF RegexTable, RegexEnds, Row

LEMMA FullStep ==
  ASSUME TextInv, DictOrder, task = "defdir", FullInv, DictNext, UNCHANGED makeVars
  PROVE  FullInv'
<1>0. /\ p \in 1..End /\ p \in Int /\ p > 0 /\ BlockInv /\ BufferInv /\ ForDict /\ buf \in Seq(Int)
      /\ dict \in Seq(PairType)
  BY BufferType DEF TextInv, PointerInv, BlockInv, ForDict, DictOrder
<1>1. ASSUME dict' = dict, Waiting' # <<>> => Waiting' = Waiting, Idle' \/ state' # "AHEADPATTERN" \/ buf' = <<>>
      PROVE  FullInv'
  BY <1>1 DEF FullInv, Kept, Places
<1>2. CASE Calls
  BY <1>1, <1>2 DEF Calls, Call, Waiting
<1>3. CASE Reads
  <2>1. state' = state /\ dict' = dict /\ Waiting' = Waiting /\ ~Idle
    BY <1>3 DEF Reads, Turn, Reading, Idle, Waiting
  <2>2. CASE state # "AHEADPATTERN"
    BY <1>1, <2>1, <2>2
  <2>3. CASE state = "AHEADPATTERN"
    <3>1. Turn(RegexTable, RegexLast)
      BY <1>3, <2>3 DEF Reads
    <3>2. CASE buf' = buf
      BY <2>1, <3>2 DEF FullInv, Kept, Places
    <3>3. ASSUME NEW row \in RegexTable, buf' = buf \o Written(row.put)
          PROVE  buf' # <<>> => Places(buf') # {}
      <4>1. PICK t : t = Written(row.put)
        OBVIOUS
      <4>2. row.put \in {No, Char, SlashChar} /\ row.put \in Puts
        BY RegexPuts DEF Puts
      <4>3. t \in Seq(Int) /\ (row.put \in {Char, SlashChar} => Places(t) = {p})
        BY <1>0, <4>1, <4>2, WrittenPlaces
      <4>4. row.put = No => t = <<>>
        BY <4>1 DEF Written, No
      <4>5. buf' = buf \o t
        BY <3>3, <4>1
      <4>6. CASE row.put = No
        <5>1. buf' = buf
          BY <1>0, <4>4, <4>5, <4>6
        <5> QED BY <2>1, <2>3, <5>1 DEF FullInv
      <4>7. CASE row.put # No
        <5>1. PICK k \in DOMAIN t : t[k] = p
          BY <4>2, <4>3, <4>7 DEF Places, ToSet
        <5>2. Len(buf) + k \in DOMAIN buf' /\ buf'[Len(buf) + k] = p
          BY <1>0, <4>3, <4>5, <5>1
        <5>3. p \in Places(buf')
          BY <1>0, <5>2 DEF Places, ToSet
        <5> QED BY <5>3
      <4> QED BY <4>6, <4>7
    <3>4. buf' # <<>> => Places(buf') # {}
      BY <3>1, <3>3, <2>1, <2>3, <3>2 DEF Turn, FullInv
    <3> QED BY <2>1, <3>4 DEF FullInv, Kept, Places
  <2> QED BY <2>2, <2>3
<1>4. CASE NoPattern
  BY <1>1, <1>4 DEF NoPattern, Returns, Idle, Waiting, PatternStates
<1>5. CASE PatternOfDefdir
  <2>1. /\ Idle' /\ dict' = dict /\ pattern' = buf /\ Waiting' = buf /\ ~Idle /\ state = "AHEADPATTERN"
    BY <1>5 DEF PatternOfDefdir, Returns, Idle, Waiting, PatternStates
  <2> QED BY <2>1 DEF FullInv, Kept, Places
<1>6. CASE Prefix
  <2>1. Idle' /\ Waiting' = <<>> /\ Waiting = pattern
    BY <1>6 DEF Prefix, Returns, Idle, AddItem, Waiting, PatternStates
  <2>2. CASE dict' = dict
    BY <1>1, <2>1, <2>2
  <2>3. CASE dict' # dict
    <3> DEFINE pair == [pattern |-> pattern, prefix |-> buf]
    <3>1. dict' = Append(dict, pair) /\ pattern # <<>>
      BY <1>6, <2>3 DEF Prefix, AddItem
    <3>2. Kept(pair) # {}
      BY <2>1, <3>1 DEF Kept, FullInv
    <3> HIDE DEF pair
    <3>3. \A k \in DOMAIN dict' : (k \in DOMAIN dict /\ dict'[k] = dict[k]) \/ dict'[k] = pair
      BY <1>0, <3>1
    <3>4. \A k \in DOMAIN dict' : Kept(dict'[k]) # {}
      BY <3>2, <3>3 DEF FullInv
    <3>6. (\A k \in DOMAIN dict : Kept(dict[k]) # {})'
      BY <3>4 DEF Kept, Places
    <3> QED BY <2>1, <3>6 DEF FullInv
  <2> QED BY <2>2, <2>3
<1>7. CASE Passes
  <2>1. PICK row \in DefdirTable : row.from = DictNow /\ state' = row.to
    BY <1>7 DEF Passes
  <2>2. DictNow = state /\ (state' \in PatternStates => state \in PatternStates)
    BY <2>1, DefdirRows DEF DictNow
  <2> QED BY <1>1, <1>7, <2>2 DEF Passes, Waiting, Idle
<1>8. CASE Finishes
  BY <1>1, <1>8 DEF Finishes, Waiting, Idle, PatternStates
<1> QED BY <1>2, <1>3, <1>4, <1>5, <1>6, <1>7, <1>8 DEF DictNext, PatternOfNoextend

\* The end of a logical line that S lies before and T behind.
Parts(i, S, T) == i \in 1..Len(text) /\ EndsLine(i) /\ (\A x \in S : x < i) /\ (\A y \in T : i < y)

\* Where the next pair is read: the last one is on a line that has ended.
NextPair == {"AHEADPATTERN"} \cup PatternStates

LineInv ==
  /\ \A k \in 1..(Len(dict) - 1) : \E i : Parts(i, Kept(dict[k]), Kept(dict[k + 1]))
  /\ dict # <<>> /\ state \in NextPair =>
       \E i : Parts(i, DictPlaces, Places(Waiting) \cup Carried) /\ i < Bound

LEMMA NextPairRows ==
  \A row \in DefdirTable : \A c \in row.on :
    row.to \in NextPair /\ row.from \notin PatternStates =>
      row.to = "AHEADPATTERN" /\ c = "newline" /\ row.from \in {"PREFIXEND", "COMMENT"}
BY DEF DefdirTable, Row, NextPair, PatternStates

LEMMA LineStep ==
  ASSUME TextInv, DictOrder, DictHeld, EscapeInv, LineInv, state # "ESCAPE", task = "defdir",
         DictNext, UNCHANGED makeVars
  PROVE  LineInv'
<1>0. /\ p \in 1..End /\ p \in Int /\ BlockInv /\ BufferInv /\ ForDict /\ buf \in Seq(Int)
      /\ dict \in Seq(PairType) /\ text' = text /\ Bound \in Int /\ Bound <= p
  BY BufferType DEF DictNext, Calls, Reads, NoPattern, PatternOfDefdir, PatternOfNoextend, Prefix, Passes, Finishes,
         Returns, Turn, TextInv, PointerInv, BlockInv, ForDict, DictOrder, Bound
<1>1. ASSUME \A k \in 1..(Len(dict') - 1) : \E i : Parts(i, Kept(dict'[k]), Kept(dict'[k + 1])),
             dict' # <<>> /\ state' \in NextPair =>
               \E i : Parts(i, DictPlaces', Places(Waiting') \cup Carried') /\ i < Bound'
      PROVE  LineInv'
  <2>1. (\A k \in 1..(Len(dict) - 1) : \E i : Parts(i, Kept(dict[k]), Kept(dict[k + 1])))'
    BY <1>0, <1>1 DEF Parts, EndsLine, Kept, Places, Commented
  <2>2. (dict # <<>> /\ state \in NextPair =>
          \E i : Parts(i, DictPlaces, Places(Waiting) \cup Carried) /\ i < Bound)'
    BY <1>0, <1>1 DEF Parts, EndsLine, Places, Commented
  <2> QED BY <2>1, <2>2 DEF LineInv
<1>2. ASSUME dict' = dict
      PROVE  /\ \A k \in 1..(Len(dict') - 1) : \E i : Parts(i, Kept(dict'[k]), Kept(dict'[k + 1]))
             /\ DictPlaces' = DictPlaces
  BY <1>2 DEF LineInv, DictPlaces, Kept, Places
<1>3. ASSUME dict' = dict, state' \in NextPair => state \in NextPair,
             Bound' \in Int, Bound <= Bound',
             \A y \in Places(Waiting') \cup Carried' :
               y \in Places(Waiting) \cup Carried \/ (y \in Int /\ y >= Bound)
      PROVE  LineInv'
  <2>1. ASSUME dict' # <<>>, state' \in NextPair
        PROVE  \E i : Parts(i, DictPlaces', Places(Waiting') \cup Carried') /\ i < Bound'
    <3>1. PICK i : Parts(i, DictPlaces, Places(Waiting) \cup Carried) /\ i < Bound
      BY <1>3, <2>1 DEF LineInv
    <3>2. i \in Int /\ i < Bound'
      BY <1>0, <1>3, <3>1 DEF Parts
    <3>3. \A y \in Places(Waiting') \cup Carried' : i < y
      BY <1>0, <1>3, <3>1, <3>2 DEF Parts
    <3> QED BY <1>2, <1>3, <3>1, <3>2, <3>3 DEF Parts
  <2> QED BY <1>1, <1>2, <1>3, <2>1
<1>4. ASSUME dict' = dict, state' \notin NextPair
      PROVE  LineInv'
  BY <1>1, <1>2, <1>4
<1>5. CASE Calls
  <2>1. p' = p /\ state' = state /\ reader' = "AHEAD" /\ Idle /\ buf' = <<>> /\ dict' = dict /\ Waiting' = Waiting
    BY <1>5 DEF Calls, Call, Idle, Waiting
  <2>2. Bound' = Bound /\ Carried' = {}
    BY <2>1, PlacesOfNone DEF Bound, Carried, Idle, Places
  <2> QED BY <1>0, <1>3, <2>1, <2>2
<1>6. CASE Reads
  <2>1. state' = state /\ dict' = dict /\ Waiting' = Waiting /\ ~Idle
    BY <1>6 DEF Reads, Turn, Reading, Idle, Waiting
  <2>2. Rising(buf) /\ Behind(Places(buf)) /\ Carried = Places(buf)
    BY <2>1 DEF DictOrder, Carried
  <2>3. /\ Bound \in Int /\ Bound' \in Int /\ Bound <= Bound'
        /\ \A x \in Places(buf') : x < Bound' /\ (x \in Places(buf) \/ x >= Bound)
    BY <1>0, <1>6, <2>1, <2>2, TurnOrder, RegexRows, NameRows DEF Reads
  <2>4. buf' \in Seq(Int)
    <3>1. TextInv'
      BY <1>0, DictStep
    <3>2. (BlockInv /\ BufferInv => buf \in Seq(Int))'
      BY BufferType, PTL
    <3> QED BY <3>1, <3>2 DEF TextInv
  <2>5. \A x \in Places(buf') : x \in Int
    BY <2>4 DEF Places, ToSet
  <2>6. \A y \in Places(Waiting') \cup Carried' :
          y \in Places(Waiting) \cup Carried \/ (y \in Int /\ y >= Bound)
    BY <2>1, <2>2, <2>3, <2>5 DEF Carried, Places
  <2> QED BY <1>3, <2>1, <2>3, <2>6
<1>7. CASE NoPattern
  BY <1>4, <1>7 DEF NoPattern, NextPair, PatternStates
<1>8. CASE PatternOfDefdir
  <2>1. /\ p' = p /\ Idle' /\ dict' = dict /\ Waiting' = buf /\ ~Idle /\ state = "AHEADPATTERN"
        /\ reader = "TRUE" /\ reader' = "none" /\ state' = "PATTERNEND"
    BY <1>8 DEF PatternOfDefdir, Returns, Idle, Waiting, PatternStates
  <2>2. Carried' = {} /\ Carried = Places(buf) /\ Bound = p /\ Bound' = p
    BY <2>1 DEF Carried, Bound
  <2> QED BY <1>0, <1>3, <2>1, <2>2 DEF NextPair
<1>9. CASE Prefix
  <2>1. /\ Waiting = pattern /\ Carried = Places(buf) /\ state = "AHEADPREFIX" /\ state' \notin NextPair
    BY <1>9 DEF Prefix, Returns, Idle, AddItem, Waiting, PatternStates, Carried, NextPair
  <2>2. CASE dict' = dict
    BY <1>4, <2>1, <2>2
  <2>3. CASE dict' # dict
    <3> DEFINE pair == [pattern |-> pattern, prefix |-> buf]
    <3>1. dict' = Append(dict, pair) /\ pattern \in Seq(Int) /\ pair \in PairType
      BY <1>0, <1>9, <2>3 DEF Prefix, AddItem, DictOrder, PairType
    <3>2. Kept(pair) = Places(Waiting) \cup Carried
      BY <2>1 DEF Kept
    <3> HIDE DEF pair
    <3>3. /\ Len(dict) \in Nat /\ Len(dict') = Len(dict) + 1 /\ dict'[Len(dict) + 1] = pair
          /\ \A k \in 1..Len(dict) : dict'[k] = dict[k] /\ k \in DOMAIN dict
      BY <1>0, <3>1
    <3>4. ASSUME NEW k \in 1..(Len(dict') - 1)
          PROVE  \E i : Parts(i, Kept(dict'[k]), Kept(dict'[k + 1]))
      <4>1. k \in 1..Len(dict) /\ dict'[k] = dict[k]
        BY <3>3
      <4>2. CASE k = Len(dict)
        <5>1. dict # <<>> /\ dict'[k + 1] = pair
          BY <3>3, <4>1, <4>2
        <5>2. PICK i : Parts(i, DictPlaces, Places(Waiting) \cup Carried)
          BY <2>1, <5>1 DEF LineInv, NextPair, PatternStates
        <5>3. Kept(dict[k]) \subseteq DictPlaces
          BY <3>3, <4>1 DEF DictPlaces
        <5>4. Parts(i, Kept(dict'[k]), Kept(dict'[k + 1]))
          BY <3>2, <4>1, <5>1, <5>2, <5>3 DEF Parts
        <5> QED BY <5>4
      <4>3. CASE k # Len(dict)
        <5>1. k \in 1..(Len(dict) - 1) /\ k + 1 \in 1..Len(dict)
          BY <3>3, <4>1, <4>3
        <5>2. dict'[k + 1] = dict[k + 1]
          BY <3>3, <5>1
        <5> QED BY <4>1, <5>1, <5>2 DEF LineInv
      <4> QED BY <4>2, <4>3
    <3> QED BY <1>1, <2>1, <3>4
  <2> QED BY <2>2, <2>3
<1>10. CASE Passes
  <2>1. PICK row \in DefdirTable : row.from = DictNow /\ text[p] \in row.on /\ state' = row.to
    BY <1>10 DEF Passes
  <2>2. row.from \notin {"END", "ERROR", "finished", "abort"} /\ row.to # "ESCAPE"
    BY DefdirRows
  <2>3. /\ DictNow = state /\ p \in 1..Len(text) /\ p' = p + 1 /\ Idle /\ Idle' /\ reader = "none"
        /\ reader' = "none" /\ dict' = dict /\ pattern' = pattern
    <3>1. Idle /\ reader' = reader /\ p' = p + 1 /\ dict' = dict /\ pattern' = pattern
      BY <1>10 DEF Passes
    <3>2. DictNow = state /\ p # End
      BY <2>1, <2>2, <3>1 DEF DictNow
    <3>3. p \in 1..Len(text)
      BY <1>0, <3>2 DEF BlockInv
    <3> QED BY <3>1, <3>2, <3>3 DEF Idle
  <2>4. Bound = p /\ Bound' = p + 1 /\ Carried = {} /\ Carried' = {}
    BY <2>1, <2>2, <2>3 DEF Bound, Carried
  <2>5. CASE state \in PatternStates
    <3>1. Waiting' = Waiting \/ Waiting' = <<>>
      BY <2>3, <2>5 DEF Waiting
    <3> QED BY <1>0, <1>3, <2>3, <2>4, <2>5, <3>1, PlacesOfNone DEF NextPair
  <2>6. CASE state \notin PatternStates /\ state' \notin NextPair
    BY <1>4, <2>3, <2>6
  <2>7. CASE state \notin PatternStates /\ state' \in NextPair
    <3>1. PICK c : c = text[p] /\ c \in row.on
      BY <2>1
    <3>2. state' = "AHEADPATTERN" /\ c = "newline" /\ state \in {"PREFIXEND", "COMMENT"}
      BY <2>1, <2>3, <2>7, <3>1, NextPairRows
    <3>3. EndsLine(p)
      <4>1. CASE state = "PREFIXEND"
        BY <2>3, <3>1, <3>2, <4>1 DEF EndsLine, EscapeInv, Escaped
      <4>2. CASE state = "COMMENT"
        BY <2>3, <3>1, <3>2, <4>2 DEF EndsLine, DictHeld
      <4> QED BY <3>2, <4>1, <4>2
    <3>4. \A x \in DictPlaces : x < p
      BY <2>4 DEF DictOrder, Behind
    <3>5. Places(Waiting') = {}
      BY <3>2, PlacesOfNone DEF Waiting, PatternStates
    <3>6. Parts(p, DictPlaces', Places(Waiting') \cup Carried') /\ p < Bound'
      BY <1>2, <2>3, <2>4, <3>3, <3>4, <3>5 DEF Parts
    <3> QED BY <1>1, <1>2, <2>3, <3>6
  <2> QED BY <2>5, <2>6, <2>7
<1>11. CASE Finishes
  BY <1>4, <1>11 DEF Finishes, NextPair, PatternStates
<1> QED BY <1>5, <1>6, <1>7, <1>8, <1>9, <1>10, <1>11 DEF DictNext, PatternOfNoextend

OwnInv == task = "defdir" => EscapeInv /\ FullInv /\ LineInv

LEMMA OwnStarts == ASSUME Init PROVE OwnInv
<1> SUFFICES ASSUME task = "defdir" PROVE EscapeInv /\ FullInv /\ LineInv
  BY DEF OwnInv
<1>1. Idle /\ dict = <<>> /\ state \in {"END", "AHEADPATTERN"}
  BY DEF Init, Idle, ForDict
<1> QED BY <1>1 DEF EscapeInv, FullInv, LineInv, Waiting, PatternStates

LEMMA OwnStep == ASSUME TextInv, OrderInv, HeldInv, OwnInv, [Next]_vars PROVE OwnInv'
<1>1. CASE UNCHANGED vars
  <2>1. UNCHANGED <<task, text, p, state, reader, buf, pattern, dict>>
    BY <1>1 DEF vars
  <2>2. EscapeInv' <=> EscapeInv
    BY <2>1 DEF EscapeInv, NameEscapes, Escaped, Idle
  <2>3. FullInv' <=> FullInv
    BY <2>1 DEF FullInv, Kept, Places, Waiting, Idle
  <2>4. LineInv' <=> LineInv
    BY <2>1 DEF LineInv, Parts, EndsLine, Commented, DictPlaces, Kept, Places, Waiting, Carried, Idle, Bound
  <2> QED BY <2>1, <2>2, <2>3, <2>4 DEF OwnInv
<1>2. CASE ForDict /\ DictNext /\ UNCHANGED makeVars
  <2>1. task' = task
    BY <1>2 DEF DictNext, Calls, Reads, NoPattern, PatternOfDefdir, PatternOfNoextend,
                Prefix, Passes, Finishes, Returns
  <2>2. task = "defdir" => EscapeInv' /\ FullInv' /\ LineInv'
    BY <1>2, EscapeStep, FullStep, LineStep DEF OwnInv, OrderInv, HeldInv
  <2> QED BY <2>1, <2>2 DEF OwnInv
<1>3. CASE ~ForDict /\ MakeNext
  <2>1. task' = task
    BY <1>3 DEF MakeNext, MarkReads, MarkReturns, Read, Bol, WordCalls, WordReads, WordFits,
                WordEmpty, WordRefused, Other, Join, Escape, Comment, Succeeds, Fails, Stays, lexed
  <2> QED BY <1>3, <2>1 DEF OwnInv, ForDict
<1> QED BY <1>1, <1>2, <1>3 DEF Next, Stopped

\* For every text: behind a pair _defdir takes the next one only when the logical line
\* has ended, at a newline that is not escaped or behind a comment (context.cpp:
\* 537-544, 639-682): see OwnLines.
THEOREM PairsHaveOwnLines == Spec => []OwnLines
<1>1. DictOrder /\ OwnInv => OwnLines
  <2> SUFFICES ASSUME DictOrder, FullInv, LineInv, NEW k \in 1..(Len(dict) - 1)
               PROVE  \E i \in Max(Kept(dict[k]))..Min(Kept(dict[k + 1])) : EndsLine(i)
    BY DEF OwnInv, OwnLines
  <2>1. /\ k \in DOMAIN dict /\ k + 1 \in DOMAIN dict
        /\ Kept(dict[k]) \subseteq DictPlaces /\ Kept(dict[k + 1]) \subseteq DictPlaces
    BY DEF DictOrder, DictPlaces
  <2>2. /\ Kept(dict[k]) # {} /\ Kept(dict[k + 1]) # {}
        /\ Kept(dict[k]) \subseteq Nat /\ Kept(dict[k + 1]) \subseteq Nat
    BY <2>1, DictPlacesType DEF FullInv, Kept, Places
  <2>3. PICK i : Parts(i, Kept(dict[k]), Kept(dict[k + 1]))
    BY DEF LineInv
  <2>4. i \in Nat /\ \A y \in Kept(dict[k]) : y <= i
    BY <2>2, <2>3 DEF Parts
  <2>5. Max(Kept(dict[k])) \in Kept(dict[k])
    BY <2>2, <2>4, Greatest
  <2>6. Min(Kept(dict[k + 1])) \in Kept(dict[k + 1])
    BY <2>2, Least
  <2>7. i \in Max(Kept(dict[k]))..Min(Kept(dict[k + 1]))
    BY <2>2, <2>3, <2>4, <2>5, <2>6 DEF Parts
  <2> QED BY <2>3, <2>7 DEF Parts
<1>2. Init => TextInv /\ OrderInv /\ HeldInv /\ OwnInv
  BY TextStarts, OrderStarts, HeldStarts, OwnStarts
<1>3. TextInv /\ OrderInv /\ HeldInv /\ OwnInv /\ [Next]_vars => (TextInv /\ OrderInv /\ HeldInv /\ OwnInv)'
  BY TextStep, OrderStep, HeldStep, OwnStep
<1>4. OrderInv /\ OwnInv => OwnLines
  BY <1>1 DEF OrderInv, OwnLines, ForDict
<1> QED BY <1>2, <1>3, <1>4, PTL DEF Spec
=============================================================================
