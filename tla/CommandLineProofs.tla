------------------------- MODULE CommandLineProofs -------------------------
(***************************************************************************)
(* The options and the files of main, for any words and any contents.      *)
(***************************************************************************)
EXTENDS CommandLine, TLAPS

Working == {"read", "open", "run"}

\* Where an option stands among the words before n: names are at the odd positions.
At(option, n) == {k \in 1..(Len(argv) - 1) : k % 2 = 1 /\ argv[k] = option /\ k < n}

\* k is the last of them.
LastAt(k, option, n) == k \in At(option, n) /\ \A m \in At(option, n) : m <= k

\* v is the last value given for an option, or its default.
IsValue(v, option, default, n) ==
  \/ At(option, n) = {} /\ v = default
  \/ \E k \in Int : LastAt(k, option, n) /\ v = argv[k + 1]

IsThreads(n) ==
  \/ At("-j", n) = {} /\ threads = DefaultThreads
  \/ \E k \in Int : /\ LastAt(k, "-j", n)
                    /\ Number(argv[k + 1]) > 0 /\ threads = Clamp(Number(argv[k + 1]))

\* The loop over the words: i is at a name, the names before it are dealt with.
ParseInv ==
  /\ argv \in Seq(Word) /\ i \in Nat /\ i >= 1 /\ i % 2 = 1
  /\ abbr \in Word /\ dependence \in Word
  /\ pc \in {"parse", "read", "open", "run", "exit"}
  /\ pc # "exit" => /\ IsValue(abbr, "-i", DefaultAbbr, i)
                    /\ IsValue(dependence, "-o", DefaultDependence, i)
                    /\ IsThreads(i)
  /\ pc \in Working => ~More /\ pool = threads

\* The files: what was read is kept, and only the output is touched, behind it.
FilesInv ==
  /\ DOMAIN disk = Word /\ DOMAIN before = Word
  /\ pc \in {"parse", "read", "open"} => disk = before
  /\ pc \in {"open", "run"} => content = before[abbr] /\ content # None
  /\ pc = "run" => disk = [before EXCEPT ![dependence] = Empty]
  /\ pc = "exit" => OnlyTheResult

Inv == ParseInv /\ FilesInv
-----------------------------------------------------------------------------
LEMMA Starts == ASSUME Init PROVE Inv
<1>1. PICK n \in 0..MaxWords : argv \in [1..n -> Word]
  BY WordAssumption DEF Init
<1>2. argv \in Seq(Word)
  <2>1. n \in Nat
    BY WordAssumption
  <2> QED BY <1>1, <2>1
<1>3. At("-i", i) = {} /\ At("-o", i) = {} /\ At("-j", i) = {}
  BY DEF Init, At
<1>4. ParseInv
  BY <1>2, <1>3, WordAssumption DEF Init, ParseInv, IsValue, IsThreads, Working
<1>5. FilesInv
  BY DEF Init, FilesInv
<1> QED BY <1>4, <1>5 DEF Inv

\* One more name and its value.
LEMMA MoreAt ==
  ASSUME ParseInv, More, NEW option
  PROVE  /\ argv[i] # option => At(option, i + 2) = At(option, i)
         /\ argv[i] = option => LastAt(i, option, i + 2)
         /\ argv[i + 1] \in Word /\ i + 2 \in Nat /\ i + 2 >= 1 /\ (i + 2) % 2 = 1
<1>1. Len(argv) \in Nat /\ i \in 1..(Len(argv) - 1) /\ i + 1 \in 1..Len(argv)
  BY DEF ParseInv, More, argc
<1>2. (i + 2) % 2 = 1 /\ \A k \in Nat : k % 2 = 1 /\ k < i + 2 => k <= i
  BY DEF ParseInv
<1>3. \A k \in 1..(Len(argv) - 1) : k \in Nat /\ (k < i + 2 => k < i \/ k >= i)
  BY <1>1 DEF ParseInv
<1>4. ASSUME argv[i] # option PROVE At(option, i + 2) = At(option, i)
  BY <1>1, <1>2, <1>4 DEF At
<1>5. ASSUME argv[i] = option PROVE LastAt(i, option, i + 2)
  BY <1>1, <1>2, <1>5 DEF At, LastAt, ParseInv
<1>6. argv[i + 1] \in Word
  BY <1>1 DEF ParseInv
<1> QED BY <1>2, <1>4, <1>5, <1>6 DEF ParseInv

LEMMA ValueKept ==
  ASSUME ParseInv, More, NEW v, NEW option, NEW default, argv[i] # option,
         IsValue(v, option, default, i)
  PROVE  IsValue(v, option, default, i + 2)
BY MoreAt DEF IsValue, LastAt

LEMMA ThreadsKept ==
  ASSUME ParseInv, More, argv[i] # "-j", IsThreads(i)
  PROVE  IsThreads(i + 2)
BY MoreAt DEF IsThreads, LastAt

LEMMA ParseStep == ASSUME Inv, [Next]_vars PROVE ParseInv'
<1> USE DEF Inv
<1>1. CASE ThreadsOption
  <2>1. /\ argv[i] # "-i" /\ argv[i] # "-o" /\ argv[i] = "-j" /\ More /\ pc = "parse"
        /\ i' = i + 2 /\ UNCHANGED <<argv, abbr, dependence, pool>>
    BY <1>1 DEF ThreadsOption
  <2>2. /\ IsValue(abbr, "-i", DefaultAbbr, i + 2)
        /\ IsValue(dependence, "-o", DefaultDependence, i + 2)
    BY <2>1, ValueKept DEF ParseInv
  <2>3. (IsValue(abbr, "-i", DefaultAbbr, i) /\ IsValue(dependence, "-o", DefaultDependence, i))'
    BY <2>1, <2>2 DEF IsValue, LastAt, At
  <2>4. ASSUME pc' # "exit" PROVE IsThreads(i)'
    <3>1. /\ LastAt(i, "-j", i + 2) /\ i \in Int
      BY <2>1, MoreAt DEF ParseInv
    <3>2. ~(Number(argv[i + 1]) <= 0) /\ threads' = Clamp(Number(argv[i + 1]))
      BY <1>1, <2>4 DEF ThreadsOption
    <3>3. Number(argv[i + 1]) > 0
      BY <2>1, <3>2, MoreAt, WordAssumption
    <3>4. \E k \in Int : LastAt(k, "-j", i)' /\ Number(argv'[k + 1]) > 0
                          /\ threads' = Clamp(Number(argv'[k + 1]))
      BY <2>1, <3>1, <3>2, <3>3 DEF LastAt, At
    <3> QED BY <3>4 DEF IsThreads
  <2>5. i + 2 \in Nat /\ i + 2 >= 1 /\ (i + 2) % 2 = 1
    BY <2>1, MoreAt
  <2>6. pc' \in {"parse", "exit"}
    BY <1>1 DEF ThreadsOption
  <2> QED BY <2>1, <2>3, <2>4, <2>5, <2>6 DEF ParseInv, Working
<1>2. CASE PathOption
  <2>1. /\ argv[i] \in {"-i", "-o"} /\ argv[i] # "-j" /\ More /\ pc = "parse"
        /\ i' = i + 2 /\ UNCHANGED <<argv, threads, pool, pc>>
    BY <1>2 DEF PathOption
  <2>2. i + 2 \in Nat /\ i + 2 >= 1 /\ (i + 2) % 2 = 1 /\ argv[i + 1] \in Word
    BY <2>1, MoreAt
  <2>3. IsThreads(i)'
    <3>1. IsThreads(i + 2)
      BY <2>1, ThreadsKept DEF ParseInv
    <3> QED BY <2>1, <3>1 DEF IsThreads, LastAt, At
  <2>4. CASE argv[i] = "-i"
    <3>1. LastAt(i, "-i", i + 2) /\ abbr' = argv[i + 1] /\ dependence' = dependence
      BY <1>2, <2>1, <2>4, MoreAt DEF PathOption
    <3>2. IsValue(dependence, "-o", DefaultDependence, i + 2)
      BY <2>1, <2>4, ValueKept DEF ParseInv
    <3>3. IsValue(abbr, "-i", DefaultAbbr, i)'
      BY <2>1, <3>1 DEF IsValue, LastAt, At, ParseInv
    <3>4. IsValue(dependence, "-o", DefaultDependence, i)'
      BY <2>1, <3>1, <3>2 DEF IsValue, LastAt, At
    <3> QED BY <2>1, <2>2, <2>3, <3>1, <3>3, <3>4 DEF ParseInv, Working
  <2>5. CASE argv[i] = "-o"
    <3>1. LastAt(i, "-o", i + 2) /\ dependence' = argv[i + 1] /\ abbr' = abbr
      BY <1>2, <2>1, <2>5, MoreAt DEF PathOption
    <3>2. IsValue(abbr, "-i", DefaultAbbr, i + 2)
      BY <2>1, <2>5, ValueKept DEF ParseInv
    <3>3. IsValue(dependence, "-o", DefaultDependence, i)'
      BY <2>1, <3>1 DEF IsValue, LastAt, At, ParseInv
    <3>4. IsValue(abbr, "-i", DefaultAbbr, i)'
      BY <2>1, <3>1, <3>2 DEF IsValue, LastAt, At
    <3> QED BY <2>1, <2>2, <2>3, <3>1, <3>3, <3>4 DEF ParseInv, Working
  <2> QED BY <2>1, <2>4, <2>5
<1>3. ASSUME UNCHANGED parsed, pc' = "exit" \/ (pc' = pc /\ pool' = pool)
             \/ (~More /\ pc' \in Working /\ pool' = threads /\ pc # "exit")
      PROVE  ParseInv'
  <2>1. \A option : At(option, i)' = At(option, i)
    BY <1>3 DEF At, parsed
  <2>2. IsThreads(i)' = IsThreads(i)
    BY <1>3 DEF IsThreads, LastAt, At, parsed
  <2>3. /\ IsValue(abbr, "-i", DefaultAbbr, i)' = IsValue(abbr, "-i", DefaultAbbr, i)
        /\ IsValue(dependence, "-o", DefaultDependence, i)' = IsValue(dependence, "-o", DefaultDependence, i)
    BY <1>3 DEF IsValue, LastAt, At, parsed
  <2> QED BY <1>3, <2>2, <2>3 DEF ParseInv, parsed, Working, More, argc
<1>4. CASE Unknown
  BY <1>3, <1>4 DEF Unknown
<1>5. CASE StartPool
  BY <1>3, <1>5 DEF StartPool, Working
<1>6. CASE OpenInput
  BY <1>3, <1>6 DEF OpenInput, ParseInv, Working, parsed
<1>7. CASE OpenOutput
  BY <1>3, <1>7 DEF OpenOutput, ParseInv, Working, parsed
<1>8. CASE Write
  BY <1>3, <1>8 DEF Write
<1>9. CASE UNCHANGED vars
  BY <1>3, <1>9 DEF vars, parsed
<1> QED BY <1>1, <1>2, <1>4, <1>5, <1>6, <1>7, <1>8, <1>9 DEF Next, Exited

LEMMA FilesStep == ASSUME Inv, [Next]_vars PROVE FilesInv'
<1> USE DEF Inv
<1>1. ASSUME disk = before PROVE OnlyTheResult
  BY <1>1 DEF OnlyTheResult
<1>2. CASE ThreadsOption \/ PathOption \/ Unknown \/ StartPool
  <2>1. /\ pc = "parse" /\ pc' \in {"parse", "read", "exit"}
        /\ UNCHANGED <<disk, before>>
    BY <1>2 DEF ThreadsOption, PathOption, Unknown, StartPool, parsed
  <2>2. disk' = before' /\ DOMAIN disk' = Word /\ DOMAIN before' = Word
    BY <2>1 DEF FilesInv
  <2>3. OnlyTheResult'
    BY <2>2 DEF OnlyTheResult
  <2> QED BY <2>1, <2>2, <2>3 DEF FilesInv
<1>3. CASE OpenInput
  <2>1. /\ pc = "read" /\ UNCHANGED <<disk, before, abbr, dependence>>
        /\ \/ pc' = "exit"
           \/ pc' = "open" /\ disk[abbr] # None /\ content' = disk[abbr]
    BY <1>3 DEF OpenInput, parsed
  <2>2. disk' = before' /\ disk = before /\ DOMAIN disk' = Word /\ DOMAIN before' = Word
    BY <2>1 DEF FilesInv
  <2>3. OnlyTheResult'
    BY <2>2 DEF OnlyTheResult
  <2> QED BY <2>1, <2>2, <2>3 DEF FilesInv
<1>4. CASE OpenOutput
  <2>1. /\ pc = "open" /\ UNCHANGED <<before, abbr, dependence, content>>
        /\ \/ pc' = "exit" /\ disk' = disk
           \/ pc' = "run" /\ disk' = [disk EXCEPT ![dependence] = Empty]
    BY <1>4 DEF OpenOutput, parsed
  <2>2. disk = before /\ content = before[abbr] /\ content # None /\ DOMAIN disk = Word /\ DOMAIN before = Word
    BY <2>1 DEF FilesInv
  <2>3. CASE pc' = "exit"
    <3>1. disk' = before' /\ DOMAIN disk' = Word /\ DOMAIN before' = Word
      BY <2>1, <2>2, <2>3
    <3>2. OnlyTheResult'
      BY <3>1 DEF OnlyTheResult
    <3> QED BY <2>3, <3>1, <3>2 DEF FilesInv
  <2>4. CASE pc' = "run"
    BY <2>1, <2>2, <2>4 DEF FilesInv
  <2> QED BY <2>1, <2>3, <2>4
<1>5. CASE Write
  <2>1. /\ pc = "run" /\ pc' = "exit" /\ UNCHANGED <<before, abbr, dependence, content>>
        /\ \/ disk' = disk
           \/ /\ Result(content) # Error
              /\ disk' = [disk EXCEPT ![dependence] = Result(content)]
    BY <1>5 DEF Write, parsed
  <2>2. /\ disk = [before EXCEPT ![dependence] = Empty] /\ dependence \in Word
        /\ content = before[abbr] /\ content # None /\ DOMAIN disk = Word /\ DOMAIN before = Word
    BY <2>1 DEF FilesInv, ParseInv
  <2>3. DOMAIN disk' = Word /\ DOMAIN before' = Word
    BY <2>1, <2>2
  <2>4. ASSUME NEW w \in Word, disk'[w] # before'[w]
        PROVE  /\ w = dependence' /\ before'[abbr'] # None
               /\ disk'[w] = Empty \/ (disk'[w] = Result(before'[abbr']) /\ disk'[w] # Error)
    <3>1. w = dependence
      BY <2>1, <2>2, <2>4
    <3>2. disk[w] = Empty
      BY <2>2, <3>1
    <3>3. disk'[w] = Empty \/ (disk'[w] = Result(content) /\ disk'[w] # Error)
      BY <2>1, <2>2, <3>1, <3>2
    <3> QED BY <2>1, <2>2, <3>1, <3>3
  <2>5. OnlyTheResult'
    BY <2>4 DEF OnlyTheResult
  <2> QED BY <2>1, <2>3, <2>5 DEF FilesInv
<1>6. CASE UNCHANGED vars
  BY <1>6 DEF FilesInv, OnlyTheResult, vars
<1> QED BY <1>2, <1>3, <1>4, <1>5, <1>6 DEF Next, Exited

LEMMA InvAlways == Spec => []Inv
<1>1. Inv /\ [Next]_vars => Inv'
  BY ParseStep, FilesStep DEF Inv
<1> QED BY <1>1, Starts, PTL DEF Spec
-----------------------------------------------------------------------------
\* Given, which chooses a last position, is what IsValue says.
LEMMA GivenIs ==
  ASSUME ParseInv, ~More, NEW v, NEW option, NEW default, IsValue(v, option, default, i)
  PROVE  v = Given(option, default)
<1> DEFINE at == {k \in 1..(Len(argv) - 1) : k % 2 = 1 /\ argv[k] = option}
<1>1. at = At(option, i)
  BY DEF At, ParseInv, More, argc
<1>2. Given(option, default) =
        IF at = {} THEN default ELSE argv[(CHOOSE k \in at : \A m \in at : m <= k) + 1]
  BY DEF Given
<1>3. \A k \in at : k \in Int
  OBVIOUS
<1> HIDE DEF at
<1>4. CASE at = {}
  BY <1>1, <1>2, <1>4 DEF IsValue, LastAt
<1>5. CASE at # {}
  <2>1. PICK k \in at : (\A m \in at : m <= k) /\ v = argv[k + 1]
    BY <1>1, <1>5 DEF IsValue, LastAt
  <2>2. PICK c : c = CHOOSE j \in at : \A m \in at : m <= j
    OBVIOUS
  <2>3. c \in at /\ \A m \in at : m <= c
    BY <2>1, <2>2
  <2>4. c = k
    BY <1>3, <2>1, <2>3
  <2> QED BY <1>2, <1>5, <2>1, <2>2, <2>4
<1> QED BY <1>4, <1>5

LEMMA OptionsFollow == ASSUME Inv PROVE OptionsTaken
<1> DEFINE last == Given("-j", None)
<1> SUFFICES ASSUME pc \in Working
             PROVE  /\ abbr = Given("-i", DefaultAbbr)
                    /\ dependence = Given("-o", DefaultDependence)
                    /\ pool = (IF last = None THEN DefaultThreads ELSE Clamp(Number(last)))
                    /\ pool \in 1..Threshold
  BY DEF OptionsTaken, Working
<1>1. ParseInv /\ ~More /\ pool = threads /\ IsThreads(i)
      /\ IsValue(abbr, "-i", DefaultAbbr, i) /\ IsValue(dependence, "-o", DefaultDependence, i)
  BY DEF Inv, ParseInv, Working
<1>2. abbr = Given("-i", DefaultAbbr) /\ dependence = Given("-o", DefaultDependence)
  BY <1>1, GivenIs
<1>3. CASE At("-j", i) = {} /\ threads = DefaultThreads
  <2>1. IsValue(None, "-j", None, i)
    BY <1>3 DEF IsValue
  <2>2. last = None
    BY <1>1, <2>1, GivenIs
  <2> QED BY <1>1, <1>2, <1>3, <2>2, WordAssumption
<1>4. ASSUME NEW k \in Int, LastAt(k, "-j", i), Number(argv[k + 1]) > 0,
             threads = Clamp(Number(argv[k + 1]))
      PROVE  /\ pool = (IF last = None THEN DefaultThreads ELSE Clamp(Number(last)))
             /\ pool \in 1..Threshold
  <2>1. IsValue(argv[k + 1], "-j", None, i)
    BY <1>4 DEF IsValue
  <2>2. last = argv[k + 1]
    BY <1>1, <2>1, GivenIs
  <2>3. argv[k + 1] \in Word
    BY <1>1, <1>4 DEF LastAt, At, ParseInv
  <2>4. last # None
    BY <2>2, <2>3, WordAssumption
  <2>5. PICK n \in Int : n = Number(argv[k + 1])
    BY <2>3, WordAssumption
  <2>6. n > 0 /\ Threshold \in Nat \ {0}
    BY <1>4, <2>5, WordAssumption
  <2>7. Clamp(n) \in 1..Threshold
    BY <2>6 DEF Clamp
  <2> QED BY <1>1, <1>4, <2>2, <2>4, <2>5, <2>7
<1> QED BY <1>1, <1>2, <1>3, <1>4 DEF IsThreads

\* When the program goes to work every option has its last value, or its default,
\* whatever words stand for names and values; the pool gets the last number given with
\* -j, cut to thread_threshold, and is not empty (main.cpp:25-50).
THEOREM OptionsAreTaken == Spec => []OptionsTaken
BY InvAlways, OptionsFollow, PTL

\* Whatever the files hold and whichever of them are the same, no file changes but the
\* output, and only once the input has been read; the output is as it was, or it has been
\* emptied, which it stays after an error, or it holds what the reader makes of the input
\* as that was (main.cpp:51-61).
THEOREM OnlyTheResultIsWritten == Spec => []OnlyTheResult
<1>1. Inv => OnlyTheResult
  <2> SUFFICES ASSUME Inv PROVE OnlyTheResult
    OBVIOUS
  <2>1. CASE disk = before
    BY <2>1 DEF OnlyTheResult
  <2>2. CASE pc = "run"
    <3>1. /\ disk = [before EXCEPT ![dependence] = Empty] /\ dependence \in Word
          /\ before[abbr] # None /\ DOMAIN before = Word
      BY <2>2 DEF Inv, FilesInv, ParseInv
    <3> QED BY <3>1 DEF OnlyTheResult
  <2>3. CASE pc = "exit"
    BY <2>3 DEF Inv, FilesInv
  <2> QED BY <2>1, <2>2, <2>3 DEF Inv, FilesInv, ParseInv
<1> QED BY <1>1, InvAlways, PTL
=============================================================================
