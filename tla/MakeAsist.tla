----------------------------- MODULE MakeAsist -----------------------------
(***************************************************************************)
(* One run of make_asist: the main thread reads a rule file (Reader),      *)
(* keeps the tree of contexts and their dictionary shelves (Context,       *)
(* src/dicts.cpp) and enqueues a task for each block; the workers of the   *)
(* pool build dictionaries, extend texts and join the texts of a context;  *)
(* the main thread then deletes the contexts and writes the output.        *)
(*                                                                         *)
(* A directive is named by its position k in the file, and k also names    *)
(* the dictionary, the context, the snapshot or the output string that the *)
(* directive creates; 0 is the root context.  The mutex, condition         *)
(* variable pairs of the pool, of a context and of a dictionary appear as  *)
(* guards: ThreadPool models the first, and every change that can make the *)
(* other two predicates true notifies all under the same mutex             *)
(* (context.cpp:81-83, dicts.cpp:127-129).                                 *)
(***************************************************************************)
EXTENDS TaskOrder, DictShelf, SequencesExt

CONSTANTS Worker,
          NoTask,
          Directive,      \* the directives a file is made of
          MaxDirectives,  \* bound: the length of a file
          Ending          \* how files end

ASSUME WorkerAssumption == IsFiniteSet(Worker) /\ Worker # {}
ASSUME MaxDirectivesAssumption == MaxDirectives \in Nat
\* at the top level, inside a context, at a directive with a syntax error, at a
\* character no directive starts with (or an unmatched '}')
ASSUME EndingAssumption == Ending \subseteq {"top", "unclosed", "syntax", "stray"}

(* A directive: op names it, name is its dictionary name, holds the words a  *)
(* dictionary matches, words what a make block extends, and fate what the    *)
(* block's text does to its task: "ok", "bad" (the task reports a syntax     *)
(* error) or "throw" (std::regex throws on an invalid pattern).              *)
ASSUME DirectiveAssumption ==
  \A d \in Directive :
    /\ d.op \in {"defdir", "noextend", "undefdir", "unnoextend", "raw", "make", "context"}
    /\ d.words \in Seq(UNION {{e.words[i] : i \in DOMAIN e.words} : e \in Directive})
    /\ d.fate \in {"ok", "bad", "throw"}
    /\ d.fate = "bad" => d.op \in {"defdir", "noextend", "raw", "make"}
    /\ d.fate = "throw" => d.op \in {"defdir", "noextend"}

VARIABLES
  \* the main thread
  script,   \* the directives read so far
  home,     \* home[k]: the context directive k was read in
  pc,       \* where main is
  signal,   \* of Reader::start: what the test of the flag says, then why it ended
  current, s, order,      \* members of Reader
  held,     \* the task between jobs_inc and pool.enqueue
  dtor,     \* the ~Context calls in progress, outermost first
  output,   \* the contents of the output file
  \* the heap
  error,    \* Reader::error
  live,     \* the contexts that exist
  jobs,     \* jobs[c]: Context::jobs
  rpd, rnd, \* the reference shelves of context k, or make k's copies
  content,  \* content[k]: the words dictionary k matches
  ready,    \* the dictionaries that are ready
  text,     \* text[k]: the output string of raw, make or context k
  \* the pool
  queue, slot,
  step,     \* step[w]: where worker w is in its task
  word, at, \* word[w]: the word of the block, at[w]: the shelf position under test
  line,     \* line[w]: line_buf, what the block wrote so far
  lost      \* tasks ended by an exception that packaged_task keeps

mainVars == <<script, home, pc, signal, current, s, order, held, dtor, output>>
heapVars == <<error, live, jobs, rpd, rnd, content, ready, text>>
poolVars == <<queue, slot, step, word, at, line, lost>>
vars == <<mainVars, heapVars, poolVars>>

Rule == INSTANCE RuleMeaning

Id == 0..MaxDirectives
Root == 0

\* Context::Priority
FINISH == 0
USE_DICT == 1
MAKE_DICT == 2

Task == [priority : {FINISH, USE_DICT, MAKE_DICT}, order : Nat, id : Id]

ASSUME NoTaskAssumption == NoTask \notin Task

\* The context whose jobs counter counts a task.
Owner(t) == IF t.priority = FINISH THEN t.id ELSE home[t.id]

Read == 1..Len(script)
Children(c) == {k \in Read : home[k] = c}
Subcontexts(c) == {k \in Children(c) : script[k].op = "context"}
\* Context::input: its order, of the add_input calls, is that of the positions
Inputs(c) == {k \in Children(c) : script[k].op \in {"raw", "make", "context"}}
\* the dictionaries of lpd and lnd
Owned(c) == {k \in Children(c) : script[k].op \in {"defdir", "noextend"}}
----------------------------------------------------------------------------
\* main() up to the first pass of Reader::start, which creates the root context.
Init ==
  /\ script = <<>>
  /\ home = [k \in Id |-> Root]
  /\ pc = "read"
  /\ signal = "untested"
  /\ current = Root
  /\ s = <<>>
  /\ order = 0
  /\ held = NoTask
  /\ dtor = <<>>
  /\ output = <<>>
  /\ error = FALSE
  /\ live = {Root}
  /\ jobs = [c \in Id |-> 0]
  /\ rpd = [k \in Id |-> EmptyShelf]
  /\ rnd = [k \in Id |-> EmptyShelf]
  /\ content = [k \in Id |-> {}]
  /\ ready = {}
  /\ text = [k \in Id |-> <<>>]
  /\ queue = {}
  /\ slot = [w \in Worker |-> NoTask]
  /\ step = [w \in Worker |-> "idle"]
  /\ word = [w \in Worker |-> 0]
  /\ at = [w \in Worker |-> 0]
  /\ line = [w \in Worker |-> <<>>]
  /\ lost = {}
----------------------------------------------------------------------------
\* The reader.  Every pass of Reader::start, and block_handler before it acts,
\* tests the error flag.  The action that follows is a step of its own: a task may
\* set the flag in between, and the directive still takes effect.
Test ==
  /\ pc = "read" /\ held = NoTask /\ signal = "untested"
  /\ IF error THEN pc' = "unwind" /\ signal' = "error"
              ELSE signal' = "clear" /\ UNCHANGED pc
  /\ UNCHANGED <<script, home, current, s, order, held, dtor, output, heapVars, poolVars>>

\* The test has found the flag clear.
Reading == pc = "read" /\ held = NoTask /\ signal = "clear"

\* The position, and so the name, of the directive about to be read.
New == Len(script) + 1

\* Directive d is read in the current context.
Reads(d) ==
  /\ Reading
  /\ Len(script) < MaxDirectives
  /\ script' = Append(script, d)
  /\ home' = [home EXCEPT ![New] = current]
  /\ signal' = "untested"

\* jobs_inc, and the arguments of the pool.enqueue call that follows it.
Submits(priority, id, c) ==
  /\ jobs' = [jobs EXCEPT ![c] = @ + 1]
  /\ held' = [priority |-> priority, order |-> order, id |-> id]
  /\ order' = order + 1

Defdir(d) ==
  /\ d.op = "defdir"
  /\ Reads(d)
  /\ rpd' = [rpd EXCEPT ![current] = Put(@, New, d.name)]
  /\ Submits(MAKE_DICT, New, current)
  /\ UNCHANGED <<pc, current, s, dtor, output, error, live, rnd, content, ready, text, poolVars>>

Noextend(d) ==
  /\ d.op = "noextend"
  /\ Reads(d)
  /\ rnd' = [rnd EXCEPT ![current] = PutNoextend(@, New, d.name)]
  /\ Submits(MAKE_DICT, New, current)
  /\ UNCHANGED <<pc, current, s, dtor, output, error, live, rpd, content, ready, text, poolVars>>

\* Without a name nothing happens.
Undefdir(d) ==
  /\ d.op = "undefdir"
  /\ Reads(d)
  /\ rpd' = IF d.name = NoName THEN rpd
            ELSE [rpd EXCEPT ![current] = Drop(@, d.name)]
  /\ UNCHANGED <<pc, current, s, order, held, dtor, output, error, live, jobs, rnd,
                 content, ready, text, poolVars>>

Unnoextend(d) ==
  /\ d.op = "unnoextend"
  /\ Reads(d)
  /\ rnd' = IF d.name = NoName THEN rnd
            ELSE [rnd EXCEPT ![current] = DropNoextend(@, d.name)]
  /\ UNCHANGED <<pc, current, s, order, held, dtor, output, error, live, jobs, rpd,
                 content, ready, text, poolVars>>

Raw(d) ==
  /\ d.op = "raw"
  /\ Reads(d)
  /\ Submits(USE_DICT, New, current)
  /\ UNCHANGED <<pc, current, s, dtor, output, error, live, rpd, rnd, content, ready, text, poolVars>>

\* The block gets its own copies of the shelves: later directives do not reach it.
Make(d) ==
  /\ d.op = "make"
  /\ Reads(d)
  /\ rpd' = [rpd EXCEPT ![New] = Copy(rpd[current])]
  /\ rnd' = [rnd EXCEPT ![New] = CopyNoextend(rnd[current])]
  /\ Submits(USE_DICT, New, current)
  /\ UNCHANGED <<pc, current, s, dtor, output, error, live, content, ready, text, poolVars>>

\* (mutant) add_sub_context without jobs_inc
NewContextUncounted(d) ==
  /\ d.op = "context"
  /\ Reads(d)
  /\ live' = live \cup {New}
  /\ rpd' = [rpd EXCEPT ![New] = Copy(rpd[current])]
  /\ rnd' = [rnd EXCEPT ![New] = CopyNoextend(rnd[current])]
  /\ s' = Append(s, current)
  /\ current' = New
  /\ UNCHANGED <<pc, order, held, dtor, output, error, jobs, content, ready, text, poolVars>>

\* A context counts as a job of its parent until it is deleted.
NewContext(d) ==
  /\ d.op = "context"
  /\ Reads(d)
  /\ live' = live \cup {New}
  /\ jobs' = [jobs EXCEPT ![current] = @ + 1]
  /\ rpd' = [rpd EXCEPT ![New] = Copy(rpd[current])]
  /\ rnd' = [rnd EXCEPT ![New] = CopyNoextend(rnd[current])]
  /\ s' = Append(s, current)
  /\ current' = New
  /\ UNCHANGED <<pc, order, held, dtor, output, error, content, ready, text, poolVars>>

\* current->end(order++); current = s.top(); s.pop();
EndsCurrent ==
  /\ s # <<>>
  /\ Submits(FINISH, current, current)
  /\ current' = Last(s)
  /\ s' = Front(s)
  /\ UNCHANGED <<script, home, dtor, output, error, live, rpd, rnd, content, ready, text, poolVars>>

\* '}'
EndContext == Reading /\ EndsCurrent /\ signal' = "untested" /\ UNCHANGED pc

\* A directive with a syntax error: block_handler returns ERROR, the flag is set.
BadCommand ==
  /\ Reading
  /\ "syntax" \in Ending
  /\ error' = TRUE
  /\ pc' = "unwind" /\ signal' = "syntax"
  /\ UNCHANGED <<script, home, current, s, order, held, dtor, output,
                 live, jobs, rpd, rnd, content, ready, text, poolVars>>

\* A character no directive starts with, or an unmatched '}': the signal becomes
\* ERROR, but nobody calls send_error.
Stray ==
  /\ Reading
  /\ "stray" \in Ending
  /\ pc' = "unwind" /\ signal' = "stray"
  /\ UNCHANGED <<script, home, current, s, order, held, dtor, output, heapVars, poolVars>>

\* case ERROR: end the open contexts, innermost first.
Unwind == pc = "unwind" /\ held = NoTask /\ EndsCurrent /\ UNCHANGED <<pc, signal>>

\* case END: the root context ends, `delete current` begins.
EndsRoot ==
  /\ s = <<>>
  /\ Submits(FINISH, current, current)
  /\ dtor' = <<current>>
  /\ pc' = "delete"
  /\ UNCHANGED <<script, home, current, s, output, error, live, rpd, rnd, content, ready, text, poolVars>>

Unwound == pc = "unwind" /\ held = NoTask /\ EndsRoot /\ UNCHANGED signal

Eof == Reading /\ "top" \in Ending /\ EndsRoot /\ signal' = "end"

\* The end of the file inside a context: assert(s.empty()) aborts the program.
EofAborts ==
  /\ Reading
  /\ "unclosed" \in Ending
  /\ s # <<>>
  /\ pc' = "abort" /\ signal' = "end"
  /\ UNCHANGED <<script, home, current, s, order, held, dtor, output, heapVars, poolVars>>

\* pool.enqueue
Enqueue ==
  /\ held # NoTask
  /\ queue' = queue \cup {held}
  /\ held' = NoTask
  /\ UNCHANGED <<script, home, pc, signal, current, s, order, dtor, output, heapVars,
                 slot, step, word, at, line, lost>>
----------------------------------------------------------------------------
\* ~Context, of the context on top of the call stack.
LiveSubs(c) == Subcontexts(c) \cap live

Deleting == pc = "delete" /\ held = NoTask /\ dtor # <<>>

\* delete sub: the first subcontext left
DeleteSub ==
  /\ Deleting
  /\ \E c \in LiveSubs(Last(dtor)) : /\ \A k \in LiveSubs(Last(dtor)) : c <= k
                                     /\ dtor' = Append(dtor, c)
  /\ UNCHANGED <<script, home, pc, signal, current, s, order, held, output, heapVars, poolVars>>

\* (mutant) ~Context does not wait for its jobs
DestructUnwaited ==
  /\ Deleting
  /\ LET c == Last(dtor) IN
     /\ LiveSubs(c) = {}
     /\ live' = live \ {c}
     /\ jobs' = IF c = Root THEN jobs ELSE [jobs EXCEPT ![home[c]] = @ - 1]
     /\ pc' = IF c = Root THEN "deleted" ELSE pc
  /\ dtor' = Front(dtor)
  /\ UNCHANGED <<script, home, signal, current, s, order, held, output, error, rpd, rnd,
                 content, ready, text, poolVars>>

\* The subcontexts are gone and the jobs done: free the context, its inputs and
\* its dictionaries, and tell the parent.
Destruct ==
  /\ Deleting
  /\ LET c == Last(dtor) IN
     /\ LiveSubs(c) = {}
     /\ jobs[c] = 0
     /\ live' = live \ {c}
     /\ jobs' = IF c = Root THEN jobs ELSE [jobs EXCEPT ![home[c]] = @ - 1]
     /\ pc' = IF c = Root THEN "deleted" ELSE pc
  /\ dtor' = Front(dtor)
  /\ UNCHANGED <<script, home, signal, current, s, order, held, output, error, rpd, rnd,
                 content, ready, text, poolVars>>

\* (mutant) main writes without testing the flag
WritesAnyway ==
  /\ pc = "deleted"
  /\ output' = text[Root]
  /\ pc' = "done"
  /\ UNCHANGED <<script, home, signal, current, s, order, held, dtor, heapVars, poolVars>>

\* main writes the result, unless an error was detected; the file was truncated before.
WriteOutput ==
  /\ pc = "deleted"
  /\ output' = IF error THEN output ELSE text[Root]
  /\ pc' = "done"
  /\ UNCHANGED <<script, home, signal, current, s, order, held, dtor, heapVars, poolVars>>
----------------------------------------------------------------------------
\* (mutant) the worker copies the top task and does not pop it
TakeWithoutPop(w) ==
  /\ slot[w] = NoTask
  /\ \E t \in Tops(queue) : slot' = [slot EXCEPT ![w] = t]
  /\ step' = [step EXCEPT ![w] = "start"]
  /\ UNCHANGED <<mainVars, heapVars, queue, word, at, line, lost>>

\* The workers.
Take(w) ==
  /\ slot[w] = NoTask
  /\ \E t \in Tops(queue) : /\ slot' = [slot EXCEPT ![w] = t]
                            /\ queue' = queue \ {t}
  /\ step' = [step EXCEPT ![w] = "start"]
  /\ UNCHANGED <<mainVars, heapVars, word, at, line, lost>>

Goes(w, next) == step' = [step EXCEPT ![w] = next]

Starts(w, priority) == step[w] = "start" /\ slot[w].priority = priority

Block(w) == script[slot[w].id]

\* (mutant) after an error the task leaves without dict.finish()
BuildSkipsFinish(w) ==
  /\ Starts(w, MAKE_DICT)
  /\ error \/ Block(w).fate # "throw"
  /\ content' = [content EXCEPT ![slot[w].id] = IF error THEN {} ELSE Block(w).holds]
  /\ error' = (error \/ Block(w).fate = "bad")
  /\ Goes(w, IF error THEN "dec" ELSE "finish")
  /\ UNCHANGED <<mainVars, live, jobs, rpd, rnd, ready, text, queue, slot, word, at, line, lost>>

\* (mutant) the dictionary is declared ready before its patterns are read
BuildReadyFirst(w) ==
  /\ Starts(w, MAKE_DICT)
  /\ error \/ Block(w).fate # "throw"
  /\ ready' = ready \cup {slot[w].id}
  /\ IF slot[w].id \notin ready THEN UNCHANGED <<content, error, step>>
     ELSE /\ content' = [content EXCEPT ![slot[w].id] = IF error THEN {} ELSE Block(w).holds]
          /\ error' = (error \/ Block(w).fate = "bad")
          /\ Goes(w, "finish")
  /\ UNCHANGED <<mainVars, live, jobs, rpd, rnd, text, queue, slot, word, at, line, lost>>

\* _defdir and _noextend: after an error the dictionary stays empty.
BuildDict(w) ==
  /\ Starts(w, MAKE_DICT)
  /\ error \/ Block(w).fate # "throw"
  /\ content' = [content EXCEPT ![slot[w].id] = IF error THEN {} ELSE Block(w).holds]
  /\ error' = (error \/ Block(w).fate = "bad")
  /\ Goes(w, "finish")
  /\ UNCHANGED <<mainVars, live, jobs, rpd, rnd, ready, text, queue, slot, word, at, line, lost>>

\* std::regex throws out of add_item: finish and jobs_dec are skipped.
BuildThrows(w) ==
  /\ Starts(w, MAKE_DICT)
  /\ ~error /\ Block(w).fate = "throw"
  /\ lost' = lost \cup {slot[w]}
  /\ slot' = [slot EXCEPT ![w] = NoTask]
  /\ Goes(w, "idle")
  /\ UNCHANGED <<mainVars, heapVars, queue, word, at, line>>

\* dict.finish()
FinishDict(w) ==
  /\ step[w] = "finish"
  /\ ready' = ready \cup {slot[w].id}
  /\ Goes(w, "dec")
  /\ UNCHANGED <<mainVars, error, live, jobs, rpd, rnd, content, text,
                 queue, slot, word, at, line, lost>>

\* What a block writes: text of its own, or a word behind the prefix of a dictionary.
RawText(k) == [in |-> k, word |-> NoName, prefix |-> Root]
WordText(k, x, prefix) == [in |-> k, word |-> x, prefix |-> prefix]

\* (mutant) an error in a raw block is not reported
RunRawSilent(w) ==
  /\ Starts(w, USE_DICT) /\ Block(w).op = "raw"
  /\ LET k == slot[w].id IN
     text' = [text EXCEPT ![k] = IF error \/ Block(w).fate = "bad" THEN <<>> ELSE <<RawText(k)>>]
  /\ Goes(w, "dec")
  /\ UNCHANGED <<mainVars, error, live, jobs, rpd, rnd, content, ready,
                 queue, slot, word, at, line, lost>>

\* _raw, up to its jobs_dec.  What a block writes after an error, or before its
\* own, is left out here and in _make: main discards it.
RunRaw(w) ==
  /\ Starts(w, USE_DICT) /\ Block(w).op = "raw"
  /\ LET k == slot[w].id IN
     text' = [text EXCEPT ![k] = IF error \/ Block(w).fate = "bad" THEN <<>> ELSE <<RawText(k)>>]
  /\ error' = (error \/ Block(w).fate = "bad")
  /\ Goes(w, "dec")
  /\ UNCHANGED <<mainVars, live, jobs, rpd, rnd, content, ready, queue, slot, word, at, line, lost>>

\* _make: the error flag is tested once, before the first word.
StartMake(w) ==
  /\ Starts(w, USE_DICT) /\ Block(w).op = "make"
  /\ word' = [word EXCEPT ![w] = 1]
  /\ at' = [at EXCEPT ![w] = Len(rnd[slot[w].id].entry)]
  /\ line' = [line EXCEPT ![w] = <<>>]
  /\ Goes(w, IF error THEN "dec" ELSE "match")
  /\ UNCHANGED <<mainVars, heapVars, queue, slot, lost>>

HasWord(w) == word[w] <= Len(Block(w).words)
Word(w) == Block(w).words[word[w]]

\* The scans of match and full go from the last dictionary to the first.  At an
\* active one they wait until it is ready.
Accepts(w, sh) == LET e == sh.entry[at[w]] IN
  at[w] > 0 /\ e.state /\ e.dict \in ready /\ Word(w) \in content[e.dict]
Rejects(w, sh) == LET e == sh.entry[at[w]] IN
  at[w] > 0 /\ (e.state => e.dict \in ready /\ Word(w) \notin content[e.dict])

ScanOn(w) == at' = [at EXCEPT ![w] = @ - 1] /\ UNCHANGED <<step, word, line>>

\* The word is written with its prefix, the next one is matched from the start.
Writes(w, prefix) ==
  /\ line' = [line EXCEPT ![w] = Append(@, WordText(slot[w].id, Word(w), prefix))]
  /\ word' = [word EXCEPT ![w] = @ + 1]
  /\ at' = [at EXCEPT ![w] = Len(rnd[slot[w].id].entry)]
  /\ Goes(w, "match")

\* rnd->match(bareword): a word of a noextend dictionary is written bare.
MatchStep(w) ==
  /\ step[w] = "match" /\ HasWord(w)
  /\ LET sh == rnd[slot[w].id] IN
     \/ Accepts(w, sh) /\ Writes(w, Root)
     \/ Rejects(w, sh) /\ ScanOn(w)
     \/ /\ at[w] = 0
        /\ at' = [at EXCEPT ![w] = Len(rpd[slot[w].id].entry)]
        /\ Goes(w, "full")
        /\ UNCHANGED <<word, line>>
  /\ UNCHANGED <<mainVars, heapVars, queue, slot, lost>>

\* rpd->full(bareword): the first dictionary that accepts gives the prefix.
FullStep(w) ==
  /\ step[w] = "full"
  /\ LET sh == rpd[slot[w].id] IN
     \/ Accepts(w, sh) /\ Writes(w, sh.entry[at[w]].dict)
     \/ Rejects(w, sh) /\ ScanOn(w)
     \/ at[w] = 0 /\ Writes(w, Root)
  /\ UNCHANGED <<mainVars, heapVars, queue, slot, lost>>

\* The end of the block: *output += line_buf, or a syntax error and no output.
FinishMake(w) ==
  /\ step[w] = "match" /\ ~HasWord(w)
  /\ text' = [text EXCEPT ![slot[w].id] = IF Block(w).fate = "bad" THEN <<>> ELSE line[w]]
  /\ error' = (error \/ Block(w).fate = "bad")
  /\ Goes(w, "dec")
  /\ UNCHANGED <<mainVars, live, jobs, rpd, rnd, content, ready, queue, slot, word, at, line, lost>>

\* The texts of the inputs, one behind the other.
Joined(c) == FlattenSeq([k \in Read |-> IF k \in Inputs(c) THEN text[k] ELSE <<>>])

\* (mutant) _end joins the inputs without waiting
JoinUnwaited(w) ==
  /\ Starts(w, FINISH)
  /\ LET c == slot[w].id IN text' = [text EXCEPT ![c] = @ \o Joined(c)]
  /\ Goes(w, "dec")
  /\ UNCHANGED <<mainVars, error, live, jobs, rpd, rnd, content, ready,
                 queue, slot, word, at, line, lost>>

\* _end: when nothing but this task is left, join the inputs in order.
JoinInputs(w) ==
  /\ Starts(w, FINISH)
  /\ LET c == slot[w].id IN
     /\ jobs[c] = 1
     /\ text' = [text EXCEPT ![c] = @ \o Joined(c)]
  /\ Goes(w, "dec")
  /\ UNCHANGED <<mainVars, error, live, jobs, rpd, rnd, content, ready,
                 queue, slot, word, at, line, lost>>

\* context->jobs_dec(), and the task returns: its local variables are gone.
JobsDec(w) ==
  /\ step[w] = "dec"
  /\ jobs' = [jobs EXCEPT ![Owner(slot[w])] = @ - 1]
  /\ slot' = [slot EXCEPT ![w] = NoTask]
  /\ Goes(w, "idle")
  /\ word' = [word EXCEPT ![w] = 0]
  /\ at' = [at EXCEPT ![w] = 0]
  /\ line' = [line EXCEPT ![w] = <<>>]
  /\ UNCHANGED <<mainVars, error, live, rpd, rnd, content, ready, text, queue, lost>>
----------------------------------------------------------------------------
ReadDirective(d) == \/ Defdir(d) \/ Noextend(d) \/ Undefdir(d) \/ Unnoextend(d)
                    \/ Raw(d) \/ Make(d) \/ NewContext(d)

Main == \/ \E d \in Directive : ReadDirective(d)
        \/ Test \/ EndContext \/ BadCommand \/ Stray
        \/ Unwind \/ Unwound \/ Eof \/ EofAborts
        \/ Enqueue
        \/ DeleteSub \/ Destruct \/ WriteOutput

Work(w) == /\ pc # "abort"
           /\ \/ Take(w)
              \/ BuildDict(w) \/ BuildThrows(w) \/ FinishDict(w)
              \/ RunRaw(w)
              \/ StartMake(w) \/ MatchStep(w) \/ FullStep(w) \/ FinishMake(w)
              \/ JoinInputs(w)
              \/ JobsDec(w)

Terminated == pc \in {"done", "abort"} /\ UNCHANGED vars

Next == Main \/ (\E w \in Worker : Work(w)) \/ Terminated

\* Every thread that can run does; a file is finite, so main reads on to its end.
Fairness == WF_vars(Main) /\ \A w \in Worker : WF_vars(Work(w))

Spec == Init /\ [][Next]_vars /\ Fairness
----------------------------------------------------------------------------
\* Properties.

\* A worker is in a task exactly while it holds one; counters are never negative.
TypeOK ==
  /\ script \in Seq(Directive) /\ Len(script) <= MaxDirectives
  /\ home \in [Id -> Id]
  /\ pc \in {"read", "unwind", "delete", "deleted", "done", "abort"}
  /\ signal \in {"untested", "clear", "end", "syntax", "stray", "error"}
  /\ current \in Id /\ s \in Seq(Id) /\ dtor \in Seq(Id)
  /\ order \in Nat
  /\ held \in Task \cup {NoTask}
  /\ error \in BOOLEAN
  /\ live \subseteq Id /\ ready \subseteq Id
  /\ jobs \in [Id -> Nat]
  /\ queue \subseteq Task /\ lost \subseteq Task
  /\ slot \in [Worker -> Task \cup {NoTask}]
  /\ step \in [Worker -> {"idle", "start", "match", "full", "finish", "dec"}]
  /\ \A w \in Worker : step[w] = "idle" <=> slot[w] = NoTask
  /\ word \in [Worker -> Nat] /\ at \in [Worker -> Nat]

Running == {slot[w] : w \in {v \in Worker : slot[v] # NoTask}}
Pending == queue \cup Running \cup ({held} \ {NoTask})

\* jobs counts what it is waited for: the unfinished tasks of the context and its
\* undeleted subcontexts.  Too low and _end joins unfinished texts, or ~Context
\* frees what a task uses; too high and both wait forever (context.cpp:46-47, 1445).
JobsExact ==
  \A c \in live :
    jobs[c] = Cardinality({t \in Pending \cup lost : Owner(t) = c}) + Cardinality(LiveSubs(c))

\* No unfinished task's context has been deleted, nor the context that owns a
\* dictionary its copied shelves point at (context.cpp:40-51, 1433-1434).
NoDanglingUse ==
  \A t \in Pending :
    /\ Owner(t) \in live
    /\ t.priority = USE_DICT =>
         \A sh \in {rpd[t.id], rnd[t.id]} :
           \A i \in DOMAIN sh.entry : home[sh.entry[i].dict] \in live

\* assert(is_ready()) in ~prefix_dict and ~noextend_dict: a context about to free
\* its dictionaries has no unfinished one (dicts.cpp:94, 389).
FreedDictsReady ==
  pc = "delete" => \A c \in live : jobs[c] = 0 => Owned(c) \subseteq ready

\* assert(state == true), assert(first == get_name()): the index of every shelf a
\* directive or a copy uses is sound (dicts.cpp:278, 296, 562, 580).
ShelvesSound == \A k \in Id : IndexSound(rpd[k]) /\ IndexSound(rnd[k])

\* A task overtakes an earlier one only by its priority.
NoOvertaking ==
  \A t \in Running, u \in queue : u.order < t.order => u.priority < t.priority

\* Why the pool cannot deadlock whatever its size: what a running task may block
\* on is never still in the queue.  The dictionaries of a make block are being built
\* or built; every task of a context that ends, and of the contexts inside it, is
\* running or done (the priorities and orders of context.cpp:742, 1140, 1435, 1457).
WaitsOnlyOnRunning ==
  \A t \in Running, u \in queue :
    /\ t.priority = FINISH =>
         t.id # Owner(u) /\ t.id \notin Rule!Around(home, Owner(u))
    /\ t.priority = USE_DICT /\ u.priority = MAKE_DICT =>
         \A sh \in {rpd[t.id], rnd[t.id]} :
           \A i \in DOMAIN sh.entry : sh.entry[i].dict # u.id

\* The output is what the file means, whatever the threads did: the blocks in the
\* order of the file, each word with the prefix in force where it stands, nothing
\* after an error (context.cpp:1446-1448, main.cpp:56-59).
OutputIsMeaning ==
  pc = "done" => output = IF error THEN <<>> ELSE Rule!Meaning(script, home)

\* When main tests the flag, it is set exactly if a directive, or the text of some
\* block read, has a syntax error: a task that passes by after an error hides none,
\* none is made up, and main cannot test too early (main.cpp:56).  A stray character
\* sets no flag: main takes what was read up to it for the whole file.
ErrorExact ==
  pc \in {"deleted", "done"} =>
    (error <=> signal = "syntax" \/ \E k \in Read : script[k].fate = "bad")

\* Once ready, a dictionary never changes: get_prefix and match scan it after they
\* have released its mutex (dicts.cpp:148-151, 436-440).
ReadyFrozen ==
  [][\A k \in ready : k \in ready' /\ content'[k] = content[k]]_vars

\* The program ends: no file, error or schedule leaves a task or main waiting.
Terminates == <>(pc \in {"done", "abort"})

\* No task is left when main returns: the pool's destructor only has idle workers
\* to wake.
CleanExit == pc = "done" => Pending = {} /\ live = {}

\* The program uses the pool as specified, and each task taken completes: none
\* blocks forever on a dictionary or on the jobs of its context.
Pool == INSTANCE PriorityPool WITH
          Task <- [priority : {FINISH, USE_DICT, MAKE_DICT},
                   order : 0..2 * MaxDirectives, id : Id],
          open <- TRUE,
          staff <- Worker
PoolSpec == Pool!Spec
=============================================================================
