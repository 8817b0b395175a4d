---------------------------- MODULE CommandLine ----------------------------
(***************************************************************************)
(* main of src/main.cpp around the reader: the loop over the arguments and *)
(* the files.  A word of the command line is an option, a path or a        *)
(* number; the same word may serve as any of them.                         *)
(***************************************************************************)
EXTENDS Integers, Sequences

CONSTANTS Word,       \* argv[i]
          Path,       \* the words there may be a file for
          Number(_),  \* atoi
          MaxWords,   \* bound on argc - 1
          DefaultAbbr, DefaultDependence, DefaultThreads,
          Threshold,  \* thread_threshold
          Contents,   \* of a file
          Result(_)   \* what the reader makes of a content

None == "none"
Empty == "empty"
Error == "error"  \* Result of a content with an error

ASSUME WordAssumption ==
  /\ Path \subseteq Word /\ None \notin Word /\ {None, Empty, Error} \cap Contents = {}
  /\ {"-j", "-i", "-o", DefaultAbbr, DefaultDependence} \subseteq Word
  /\ \A w \in Word : Number(w) \in Int
  /\ Threshold \in Nat \ {0} /\ DefaultThreads \in 1..Threshold /\ MaxWords \in Nat

VARIABLES argv,     \* argv[1..argc-1]
          disk,     \* the content of each path, None if it cannot be opened
          i,
          abbr, dependence, threads,
          pool,     \* how many workers the pool was given
          content,  \* of the reader
          pc,
          before    \* history: the disk when the program starts

vars == <<argv, disk, i, abbr, dependence, threads, pool, content, pc, before>>
parsed == <<argv, i, abbr, dependence, threads, before>>

argc == Len(argv) + 1

Init ==
  /\ argv \in UNION {[1..n -> Word] : n \in 0..MaxWords}
  /\ disk \in {d \in [Word -> Contents \cup {None}] : \A w \in Word \ Path : d[w] = None}
  /\ before = disk
  /\ i = 1 /\ abbr = DefaultAbbr /\ dependence = DefaultDependence /\ threads = DefaultThreads
  /\ pool = 0 /\ content = None /\ pc = "parse"

Clamp(n) == IF n > Threshold THEN Threshold ELSE n

\* The last word is read only as the value of an option.
More == i < argc - 1

\* (mutant) a number above the threshold is passed over, not cut to it
ThreadsOptionSkips ==
  /\ pc = "parse" /\ More /\ argv[i] = "-j"
  /\ LET n == Number(argv[i + 1])
     IN IF n <= 0 THEN pc' = "exit" /\ UNCHANGED threads
                  ELSE threads' = (IF n > Threshold THEN threads ELSE n) /\ UNCHANGED pc
  /\ i' = i + 2
  /\ UNCHANGED <<argv, disk, before, abbr, dependence, pool, content>>

ThreadsOption ==
  /\ pc = "parse" /\ More /\ argv[i] = "-j"
  /\ IF Number(argv[i + 1]) <= 0
     THEN pc' = "exit" /\ UNCHANGED threads
     ELSE threads' = Clamp(Number(argv[i + 1])) /\ UNCHANGED pc
  /\ i' = i + 2
  /\ UNCHANGED <<argv, disk, before, abbr, dependence, pool, content>>

PathOption ==
  /\ pc = "parse" /\ More /\ argv[i] \in {"-i", "-o"}
  /\ IF argv[i] = "-i" THEN abbr' = argv[i + 1] /\ UNCHANGED dependence
                       ELSE dependence' = argv[i + 1] /\ UNCHANGED abbr
  /\ i' = i + 2
  /\ UNCHANGED <<argv, disk, before, threads, pool, content, pc>>

Unknown ==
  /\ pc = "parse" /\ More /\ argv[i] \notin {"-j", "-i", "-o"}
  /\ pc' = "exit"
  /\ UNCHANGED <<parsed, disk, pool, content>>

StartPool ==
  /\ pc = "parse" /\ ~More
  /\ pool' = threads
  /\ pc' = "read"
  /\ UNCHANGED <<parsed, disk, content>>

\* (mutant) the output stream is opened before the reader reads
OutputFirst ==
  /\ pc = "read"
  /\ disk' = [disk EXCEPT ![dependence] = Empty]
  /\ IF disk'[abbr] = None THEN pc' = "exit" /\ UNCHANGED content
                          ELSE pc' = "open" /\ content' = disk'[abbr]
  /\ UNCHANGED <<parsed, pool>>

\* The constructor of Reader reads the whole file, or throws exception_with_code 0.
OpenInput ==
  /\ pc = "read"
  /\ IF disk[abbr] = None THEN pc' = "exit" /\ UNCHANGED content
                          ELSE pc' = "open" /\ content' = disk[abbr]
  /\ UNCHANGED <<parsed, disk, pool>>

\* The stream truncates the file, or main throws exception_with_code 1.  That a path
\* cannot be written is up to the system.
OpenOutput ==
  /\ pc = "open"
  /\ \/ pc' = "exit" /\ UNCHANGED disk
     \/ pc' = "run" /\ disk' = [disk EXCEPT ![dependence] = Empty]
  /\ UNCHANGED <<parsed, pool, content>>

\* start() and check_error().
Write ==
  /\ pc = "run"
  /\ disk' = IF Result(content) = Error THEN disk
             ELSE [disk EXCEPT ![dependence] = Result(content)]
  /\ pc' = "exit"
  /\ UNCHANGED <<parsed, pool, content>>

\* main has returned 0, or called exit.
Exited == pc = "exit" /\ UNCHANGED vars

Next == \/ ThreadsOption \/ PathOption \/ Unknown \/ StartPool
        \/ OpenInput \/ OpenOutput \/ Write \/ Exited

Spec == Init /\ [][Next]_vars

-----------------------------------------------------------------------------
\* The last value given for an option, or its default.
Given(option, default) ==
  LET at == {k \in 1..(Len(argv) - 1) : k % 2 = 1 /\ argv[k] = option}
  IN IF at = {} THEN default ELSE argv[(CHOOSE k \in at : \A m \in at : m <= k) + 1]

\* When the program goes to work every option has its last value, or its default,
\* whatever words stand for names and values; of -j it is the last number, cut to the
\* threshold, and the pool has a worker.
OptionsTaken ==
  pc \in {"read", "open", "run"} =>
    /\ abbr = Given("-i", DefaultAbbr)
    /\ dependence = Given("-o", DefaultDependence)
    /\ pool = LET last == Given("-j", None)
              IN IF last = None THEN DefaultThreads ELSE Clamp(Number(last))
    /\ pool \in 1..Threshold

\* Whatever happens, no file but the output changes; the output is what the reader
\* makes of the input as it was, even when both are one file, and it is emptied
\* only after the input was read.  After an error it never holds a result.
OnlyTheResult ==
  \A w \in Word : disk[w] # before[w] =>
    /\ w = dependence /\ before[abbr] # None
    /\ disk[w] = Empty \/ (disk[w] = Result(before[abbr]) /\ disk[w] # Error)
=============================================================================
