# A TLA+ verification of make_asist

`make_asist` reads a rule file and writes a makefile fragment.  The file is a
tree of *contexts*; a context holds dictionaries (`defdir`: pattern to prefix,
`noextend`: patterns to leave alone), directives that take them back
(`undefdir`, `unnoextend`) and blocks of text (`raw`, `make`).  A `make` block is
written with the prefix of a dictionary put before each word the dictionary
matches.  One thread reads the file; the blocks are worked on by a thread pool
while it reads on.  The result must be what the file says, whatever the threads
do.  That is what this project is about.

## 1. Inventory

| Part | State | Operations | Modelled in |
|---|---|---|---|
| `threadPool` (`include/threadPool.h`) | `tasks`, `stop`, `queue_mutex`, `condition`, `workers` | `init`, `enqueue`, destructor, the worker loop | `ThreadPool`, abstractly `PriorityPool`; order of tasks `TaskOrder` |
| shelves: `prefix_dicts`, `noextend_dicts`, `ref_*`, `loc_*` (`src/dicts.cpp`) | a vector of (dictionary, active?), a map from names to positions | `defdir`/`noextend`, `undefdir`/`unnoextend`, copy, `full`/`match` | `DictShelf` (operators), `RefDicts` (nested use), `DictScope` (abstract) |
| dictionaries: `prefix_dict`, `noextend_dict` | patterns, `ready`, `mut`, `spark` | `add_item`, `finish`, `wait_for_ready`, `get_prefix`/`match` | `MakeAsist`: `content`, `ready`; their mutex and `spark` in `Monitors`; what is added in `DictText` |
| `Context` (`src/context.cpp`) | shelves, `input`, `output`, `subcontexts`, `jobs` | one per directive, `_end`, `jobs_inc`/`jobs_dec`, destructor | `MakeAsist`; `jobs_guard` and `cv` in `Monitors`, abstractly `ContextGuards` |
| block tasks `_defdir`, `_noextend`, `_raw`, `_make` | local automata, `line_buf`, `pattern` | run by a worker | `BlockText` from `DictText` and `MakeText` (on the text); `MakeAsist` (among the other tasks) |
| lexers `regex_reader`, `name_reader`, `read_mark`, `read_tabs` (`src/context.cpp`) | `p`, `buffer`, `len` | called by the block tasks | `Lexers`, `MakeText` |
| `Reader` (`src/reader.cpp`) | `p`, `order`, `current`, `s`, static `error`, three tables | `start`, `block_handler`, `read_order`, `read_name` | `ReaderText` (characters); `MakeAsist` (whole directives) |
| `main` (`src/main.cpp`) | the options, the output file | options, files, run the reader, write the result | `CommandLine`; `MakeAsist`: `Init`, `WriteOutput` |

How they interact: `Reader::start` calls `Context`; `Context` updates its shelves
in the reading thread, counts a job and enqueues a task; a worker runs the task,
which fills a dictionary, waits for dictionaries, writes into a string the
context owns, sets `Reader::error`, counts the job down.  `~Context` (in the
reading thread, at the end) and `_end` (a task) wait on the job counter.  Shared
between threads: the queue, `jobs`, `ready`, the dictionaries, the output strings
and `error`.

What is hard here:

* a worker blocks inside a task, on a dictionary or on the jobs of a context; only
  the priorities and orders of the tasks keep the pool from deadlock;
* `~Context` frees what tasks use; the counter must be exact;
* a copied shelf is used while the original goes on changing;
* an error makes other tasks pass by, yet each must do its last steps;
* the pool's notifications are sent after the unlock, and a context's condition
  variable serves two predicates at once;
* the automata step back, look ahead and share buffers of fixed size, and the
  reader and the tasks each have their own idea of what ends a block.

What makes each part correct:

* pool: no wakeup lost, no task lost, drained before joined, top task first;
* shelves: the assertions hold, a copy answers like its source, names and
  positions implement scopes;
* contexts: `jobs` counts what is unfinished, nothing is used after it is freed,
  a task waits only on running tasks;
* reader: it reads a well-formed file as what was written, hands out texts its
  tasks may rely on, and reads no further directive after an error;
* block tasks: they stay within text and buffers, use each character once and in
  order, and end;
* program: it terminates, leaves nothing behind, and the output is the meaning of
  the file or nothing.

## 2. Modules

* `TaskOrder`: `operator<` of `Task` and what `top()` may return.  Tasks of
  equal rank are in no specified order.
* `PriorityPool`: the pool as a user sees it: a set of tasks, workers that take a
  top task and complete it.  Used as an abstract specification twice.
* `ThreadPool`: the pool as written.  A critical section of `queue_mutex` is one
  action; a notification is a step of its own because both are sent after the
  unlock.  The wait set of `condition` is `pc[w] = "waiting"`; `SpuriousWake`
  allows what the standard allows.  `init` is the initial state, since workers
  need the mutex `init` holds.
* `DictShelf`: a shelf is a record of a sequence and a function, the constructors
  and methods are operators on it.  The `noextend` classes are line for line
  twins and share the operators.
* `RefDicts`: the shelves of the open contexts as the reader drives them, with
  lookups through a copy as `make` does.  `DictScope` is the abstract machine: a
  sequence of dictionaries in force and a binding of names, no positions, no flags;
  a definition comes `With` a name, a removal leaves the scope `Without` it.
* `RuleMeaning`: the output as a function of the file: blocks in order, each word
  behind the prefix of the latest dictionary in scope that holds it.  It says
  "in scope" by the tree and the order of the file only, so it shares nothing with
  the shelves.
* `MakeAsist`: the program.  It composes the reader, the context tree, the
  shelves (`DictShelf`), the tasks and the pool's queue.
* `Monitors`: the mutexes, wait sets and notifications of one context and its
  dictionaries.  A critical section up to its unlock is one action, the unlock
  another, because what happens in between matters: `~Context` frees the mutex as
  soon as it can lock it.  `ContextGuards` is the abstraction `MakeAsist` uses:
  guards on `jobs` and `ready`, no mutex.
* `Blocks`: when a text is balanced, escaped or commented, which is what the
  reader guarantees and the tasks assume.
* `Lexers`: `regex_reader` and `name_reader` as tables, one row for each case of
  the `switch`: from, characters, to, what is written, how far `p` steps back.  A
  character is its class (`type_interpreter`); what is written is the *position*
  of the character, so that a property can say where it went.
* `DictText` (`_defdir`, `_noextend`) and `MakeText` (`read_mark`, `read_tabs`,
  `_raw`, `_make` with `line_buf`) drive them.  `BlockText` puts them together: the
  four tasks on the texts of their blocks, another task's error included.
* `FileLayout`: what a rule file is, said of its text alone: a directive (`IsMark`)
  with its name, its gaps of blanks and comments and its text, a file laid out as a
  sequence of them (`Layout`), contexts that are closed (`Nested`).  It knows no
  table and no state of the reader.
* `ReaderText`: `Reader::start`, `read_order`, `read_name` and the loops of
  `block_handler` over their three tables, copied from the source.  A directive's
  name is one symbol.  `faulty` says whether some task finds an error; it reports
  it at any time after its directive was called.  The flag is tested in one step and
  acted on in the next: `Test` is line 382, after which `tested` says that the signal
  may be handled; `Decides` is the test before a call (271, 313, 332, 340), after which
  `input` is `call` until `Call` makes the call.  `calls` has the call from the decision
  on, `CallsMade` counts those made, `reportedAt` keeps where `p` was at the report.
* `CommandLine`: `main` around the reader: arguments, opening and writing files.
* `MCThreadPool`, `MCMakeAsist`, `MCBlockText`, `MCReaderText`, `MCCommandLine`:
  instances for TLC.  `MCReaderText` also writes files as directives (`Written`), of
  which it is known how they are laid out.
* `ThreadPoolProofs`, `DictShelfProofs`, `RefDictsProofs`, `MakeAsistProofs`,
  `MonitorsProofs`, `BlockTextProofs`, `ReaderTextProofs`, `CommandLineProofs`: the
  theorems of section 4.  `DictShelfProofs` begins with the lemmas on stacks and sets
  of positions that the next two use.

### MakeAsist and the code

A file is a sequence of *directives*; the reader picks each when it gets there, so
one run covers all files up to `MaxDirectives`.  Directive k names what it
creates: the dictionary, context, copied shelves or output string k; the root
context is 0.

| Model | Code |
|---|---|
| `script`, `home` | what `p` has passed, and the context each directive was read in |
| `pc` | main: in the loop of `start`, in `case ERROR`, in `delete current`, after it, returned, aborted |
| `current`, `s`, `order` | members of `Reader` |
| `signal` | what `start` knows of its signal: not tested against `error` yet, clear to be handled, or what stops the reader: the end of the file, a syntax error of a directive, a stray character, an error seen |
| `held` | the arguments of `pool.enqueue` after `jobs_inc`: the counter goes up one step before the task is in the queue |
| `dtor` | the `~Context` calls on the stack |
| `live`, `jobs`, `rpd`, `rnd` | the contexts and their members; `rpd[k]`, `rnd[k]` of a make block k are its copies |
| `content`, `ready` | the words a dictionary matches; `ready` |
| `text` | the strings of `input` and the root's `result` |
| `queue`, `slot`, `step` | `tasks`, the task a worker runs and how far it is |
| `word`, `at`, `line` | where `_make` is: word, position in a shelf, `line_buf` |
| `lost` | tasks that ended by an exception, kept by `packaged_task` |

Workers step separately: take, build, finish, each shelf position of a lookup,
join, count down.  A lookup stands still at an active dictionary that is not
ready.  A context's and a dictionary's condition variable are guards: each change
that makes a predicate true notifies all under the same mutex.

A directive carries `op`, `name`, `holds` (words a dictionary matches), `words` (of
a make block) and `fate`: `ok`, `bad` (the text of the block has a syntax error, so
its task sets the flag) or `throw` (a pattern `std::regex` rejects).  The text a
block writes before its own error, or the newline it writes after another's, is
left out; the flag is then set and `main` discards the result.

`Reader::error` is a plain `bool` shared by threads.  A test of it and what is done
on it are two steps, in `MakeAsist` (`Test`, `Reading`) and in `ReaderText` (`Test`,
`Decides` and `Call`): a worker may set the flag in between, and the directive is then
started all the same.  A store that a test sees late is a report that comes after the
test.  `block_handler`'s own test before a call is in `ReaderText` only: in `MakeAsist`
a directive is one step, and an error seen there is an error seen by `Test`.  The test
in `main` comes after the mutexes of `~Context`.

## 3. Runs

| Run | Instance | Shows |
|---|---|---|
| `pool` | 3 workers, 3 tasks, 2 priorities, 2 orders | `NoLostWakeup`, `NoSleepAfterStop`, `NoTaskLost`, `JoinedMeansDrained`, refinement of `PriorityPool` with its fairness |
| `shelves` | 2 names, 3 dictionaries, 3 nested shelves | `AllIndexSound`, refinement of `DictScope` |
| `scope` | 2 workers, files of 4 directives | `NoDanglingUse`, `ShelvesSound`, `NoOvertaking`, `WaitsOnlyOnRunning`, `OutputIsMeaning` |
| `errors` | 2 workers, files of 3 directives, all errors and endings | `JobsExact`, `FreedDictsReady`, `ErrorExact`, `CleanExit`, `ReadyFrozen`, `OutputIsMeaning` |
| `progress` | 2 workers, files of 3 directives | `Terminates`, refinement of `PriorityPool` |
| `monitors` | 2 dictionaries, 2 users, `_end`, main, 1 subcontext | `NoLostWakeup`, `JoinsAlone`, `NoUseAfterFree`, refinement of `ContextGuards` with its fairness |
| `block_text` | every text of up to 5 (dictionaries) or 4 (raw, make) characters; longer ones over fewer classes | `WithinBounds`, `InOrder`, `NothingDropped`, `OwnLines`, `RawCopies`, `MarkTabs`, `Ends` |
| `reader_text` | every file of up to 3 symbols, 4 more behind a directive's head; every file of up to 3 of 11 pieces (a directive or a comment) | `SpansFit`, `AcceptsFiles`, `MeansFile`, `Ends`, `NothingReadAfterError` |
| `command_line` | 4 words, 3 paths | `OptionsTaken`, `OnlyTheResult` |
| `throw` | 1 worker, 1 directive | finding 1 |
| `line_fits`, `stops_at_end` | as `block_text` | findings 2, 3 |

Bounds.  Three workers are the least with a worker asleep, one on its way and one
running.  Three dictionaries are the least for define, redefine, define another
under removal and copying.  A deadlock between tasks needs as many blocked workers
as there are: two workers with more tasks than workers cover both waits (a
dictionary, a context's jobs) in one context and across two, and
`WaitsOnlyOnRunning` is the argument for any number of workers: what a task waits
for is never in the queue.  Four directives cover define, redefine, undefine and
use across an inner context.  In `monitors` two users may look into one dictionary
while the other is still built, and the subcontext and the tasks count down in any
order.  In `block_text` `BufferSize = 3` and `LineSize = 4` stand for 64 and 511,
`Redundancy` is 2 as in the code: a buffer and a line fill up within a text.  `DictShort` and
`MakeShort` give every sequence of two escapes, quotes or comments; `DictLong` is
the shortest with two pairs of a pattern and a prefix, on lines of their own,
`MakeLong` the shortest where a line fills up and goes on, `TwoPairs` has a prefix
that ends in an escaped backslash and a second pair on its line.  In `reader_text` four
symbols behind a head open, escape, close and comment in every order.

`errors` has `CHECK_DEADLOCK FALSE`, as has `throw`: after an exception the
program really stands still (finding 1).  In every other passing run a state
without successor is an error; the end of the program is an explicit stutter.

Fairness.  `WF` for the main thread and for each worker: the scheduler runs a
thread that can run.  No fairness is assumed of the caller's wish to enqueue or
stop (`ThreadPool`), of spurious wakeups, or between workers over a task.  In
`MakeAsist` the reader's steps are fair because the file is finite.  In `Monitors`
threads are strongly fair, because a mutex may be taken by others again and again
while a thread waits for it; spurious wakeups alone could otherwise starve one.
`BlockText` and `ReaderText` are sequential: `WF_vars(Next)`, the thread goes on.

Every property has a mutant, the definition it is the guard of with a plausible
slip (a dropped wait, a reversed comparison, a missing `pop`); they stand beside
the definitions, marked `(mutant)`.

## 4. Proofs

TLAPS checks every theorem below; none depends on a bound of section 3.  Where a
definition is a recursive function over the file or the text, a proof unfolds it
one step at a time; where an induction is needed, the proof takes the least element
of the set of counterexamples and contradicts it.

### The pool (`ThreadPoolProofs`)

For any finite, non-empty set of workers, any number of tasks, and integers for
priorities and orders.

| Theorem | States |
|---|---|
| `TypeCorrect` | `TypeOK` |
| `NoWakeupIsLost` | `NoLostWakeup` |
| `NoTaskIsLost` | `NoTaskLost` |
| `JoinDrains` | `JoinedMeansDrained` |
| `StopWakesAll` | `NoSleepAfterStop` |
| `PoolImplemented` | `PriorityPool` is implemented, its fairness left out |

`NoLostWakeup` is inductive together with `TypeOK` and the finiteness of the
queue: it counts the workers on their way and the notification still owed against
the queued tasks, so each step is an argument about cardinalities.
`NoTaskLost` and `JoinedMeansDrained` need to be proved together, with the ids of the
tasks in each place (`Placed`) and what a worker that has left says of the queue
(`Drained`).

### The shelves (`DictShelfProofs`, `RefDictsProofs`)

For any names, any nesting and any history.

| Theorem | States |
|---|---|
| `ShelfAssertions` | `AllIndexSound` |
| `ShelvesAreScopes` | `ScopeSpec`: `DictScope` is implemented |

`DictShelfProofs` shows that each operation keeps the index of a shelf sound
(`PutSound`, `DropSound`, `CopySound`).  The copy is the one that needs an
argument: `asist` numbers the active entries without gap or clash
(`RankNumbers`, by counting), so entry i of the source is entry `Rank(i)` of the
copy (`PackedAt`).  For the refinement the dictionaries in force are the active
entries in their order; a removal takes out one of them, wherever the vector has
it, and a copy maps to the same scope although every position has changed.  The
lookup needs `RisingInv`: a later entry is a later dictionary, so the first found
from the back is the largest.

### The program (`MakeAsistProofs`)

For any set of directives, any length of the file, any finite, non-empty set of
workers and any way to end: the named assumptions of `MakeAsist` only.

| Theorem | States |
|---|---|
| `TypeCorrect` | `TypeOK` |
| `JobsAreExact` | `JobsExact` |
| `NothingDangles` | `NoDanglingUse` |
| `ShelvesAreSound` | `ShelvesSound` |
| `DictsFreedReady` | `FreedDictsReady` |
| `ReadyStaysFrozen` | `ReadyFrozen` (an action property) |
| `LeavesNothing` | `CleanExit` |
| `NoTaskOvertakes` | `NoOvertaking` |
| `NothingQueuedIsAwaited` | `WaitsOnlyOnRunning` |
| `ErrorIsExact` | `ErrorExact` |
| `MeaningIsWritten` | `OutputIsMeaning` |
| `UsesThePool` | `PriorityPool` is implemented, its fairness left out |

None of these is inductive.  The invariant `Core` that is has layers,
preserved with the help of one another:

* `MainType`, `PoolType`: types.  `jobs` is only an integer here; that it is never
  negative follows from `CountInv`.
* `TreeInv`: the reader works in live contexts, a live context's parent is live,
  destructor calls go down the tree, a parent is older than its children.  This is
  why `~Context` never frees a context whose destructor is still running, and why
  deleting the root leaves nothing.
* `PlaceInv`: a task is in one place only (held, queued, run, lost), is about a
  directive that was read, and its owner is live.  A context is deleted only with
  its counter at zero, so by `CountInv` it then owns no task.
* `CountInv`: the counters.  A deleted context's counter is zero, so that a position
  in the file can be given to a new one.
* `ShelfInv`: a shelf is sound and has only dictionaries *visible* from its context,
  those of the context itself or of one around it.  Visible is said without
  recursion: a dictionary's context is in every set of contexts that has the
  context in question and is closed under parents.  The set of live contexts is
  closed, which gives `NoDanglingUse` without induction over the depth of the tree.
* `ReadyInv`: a dictionary is ready or a task will make it so; there is one task for
  each, and it is past `finish()` exactly if the dictionary is ready.

`StepKinds`, `MainKinds` and `WorkKinds` sort the actions by what they do to the
tree, the tasks and the dictionaries, so that each layer has one case for each kind.

`NothingQueuedIsAwaited` is the deadlock argument for any number of workers.  It
needs three more invariants: `OpenInv`, the contexts that have not ended are closed
under parents and none has its `FINISH` task; `OrderInv`, orders are distinct,
follow the file, and what is submitted after the end of a context is outside of it;
`CopyInv`, a block's copies hold earlier dictionaries only.  With `NoOvertaking`
a `FINISH` task that runs has nothing of its context queued behind it.

`ErrorIsExact` says that `main` finds the flag set exactly if a block read or a
directive has a syntax error; a stray character is no such error in the code and sets
none (section 5).  It needs `ErrorInv`: a bad block has its error in the flag, or a
task that has still to report it (`Unreported`), a flag that is set has a bad block or
directive; when the root is deleted no task is left.  `UsesThePool` needs `RoomInv`: at most one order for each directive, so the
orders stay in the range the abstract pool is given.

`MeaningIsWritten` is the functional correctness of the program: whatever the threads
do, the output is the one `RuleMeaning` gives the file.  `RuleMeaning` looks at the
whole file and says what is in force at a position; the program has shelves that
change while it reads, copies of them, dictionaries built in any order, and texts
joined as contexts end.  Six layers over `Core` and `OpenInv` close the gap:

* `NestInv`: the open contexts are the current one and those around it, and what was
  read since a context was opened stands in it, so what stands in a
  context, at any depth, is consecutive.
* `MeansInv`: a shelf says what the file says (`Means`): its entries are the
  definitions seen from the place it stands for, in their order; the active ones are
  those not taken back; an index leads to the last of its name.  It is not enough to
  say which dictionaries are in force: what a later `undefdir` finds depends on the
  index.  `MeansPut`, `MeansDrop` and `KeepsCopy` show this for each operation on a
  shelf, `SaysReads` for each directive.
* `ContentInv`: without an error, a ready dictionary matches the words of its block.
* `ScanInv`: what a make block wrote so far is the beginning of its piece, and no
  dictionary passed in the scan of its copies matches the present word (`NoneAbove`),
  so the first match is the last definition in force (`PrefixFound`).
* `TextInv`: a text on which no task works any more is whole, that is, the pieces of
  the directives in it in their order (`Whole`); the text of a context is empty until
  its `FINISH` task joins.  `JoinInputs` waits until that task is the context's last
  job; by `CountInv` every input is then whole (`InputsWhole`), and by `NestInv`
  joining them is joining consecutive ranges of pieces (`JoinedWhole`, `PartNested`).
* `OutInv`: the output is the text of the root, or empty after an error.

TLC checked these layers, too, on the instances of the runs `scope` and `errors`
(with one worker in the first) before they were proved.

### The monitors (`MonitorsProofs`)

For any finite sets of dictionaries and their users, and any number of subcontexts.

| Theorem | States |
|---|---|
| `NoWakeupIsLost` | `NoLostWakeup` |
| `EndJoinsAlone` | `JoinsAlone` |
| `NoneUsedAfterFree` | `NoUseAfterFree` |
| `GuardsImplemented` | `ContextGuards` is implemented, its fairness left out |

`MonitorsInv` is inductive: who holds which mutex follows from where each thread is
(`HolderInv`), `jobs` counts the tasks that have not counted down and the
subcontexts (`CountInv`), who has tested or sleeps has a false predicate
(`SleepInv`, which is why the notification may come after the count), and how far
`main` and `_end` are bounds what is left (`StageInv`).

### The text of blocks (`BlockTextProofs`)

For any text the reader may hand out, of any length, and any sizes of the buffers.
`WithinBounds` leaves out what goes wrong in findings 2 and 3: `line_buf`, and `p` in
the raw task on a block in line form.  `NothingDropped` is about the characters in front
of `p` when a task has finished without an error; what a task leaves behind `p`, as the
text behind a quote that is not closed (section 5), it does not speak of.

| Theorem | States |
|---|---|
| `StaysWithinBounds` | `WithinBounds` |
| `KeepsTheOrder` | `InOrder` |
| `DropsNothing` | `NothingDropped` |
| `CopiesTheLines` | `RawCopies` |
| `CountsTheTabs` | `MarkTabs` |
| `PairsHaveOwnLines` | `OwnLines` |

The tables are data, so a lemma says of all rows of a table what a turn of its loop
needs (`Sound`: how far a row steps back, what it writes, where it leads; `Drops`: what
it passes without writing it), and a turn is proved once for any such table.
`TextInv` bounds `p` and the buffers; a reader may step back by more than it read,
so `PointerInv` says by state how far `p` is from the start.  `OrderInv` has all that
is written behind what was written before and in front of `Bound`, the position p
may step back to.  `HeldInv` says that each character in front of p is written, in
a buffer, or accounted for (`Held`); a reader that fills its buffer or gives up
hands this on to its caller.

`CopyInv` says that `_raw` has copied the lines from the end of the mark up to p
without their tabs, and where the newlines of the output are (`Copied`); `CopyGrows`
adds one line.  `MarkInv` says what `read_mark` knows in each of its states: before
the first character the tabs are those of the line p is in (`Ahead`), on it `tip` is
its place (`HasMark`), behind it the count stands (`Told`); that what is passed lies
before `Bound` shows that the mark is found only once.

`OwnInv` has three parts: `EscapeInv`, whether a backslash escapes the character at p
when `_defdir` or `name_reader` has passed an even or odd number of them (also behind
a step back); `FullInv`, a pattern has a place in the text; `LineInv`, between two
pairs, and behind the last one when the next is read, a logical line ends.

### The text of the file (`ReaderTextProofs`)

For any file of any length.

| Theorem | States |
|---|---|
| `TasksGetTheirText` | `SpansFit` |
| `FilesAreRead` | `MeansFile` |
| `OnlyFilesAreAccepted` | `AcceptsFiles` |
| `ErrorEndsTheReading` | `NothingReadAfterError` (an action property) |

`SpansFit` says balanced in the braces that are not escaped: the reader knows neither
quotes nor, inside a block, comments.  `ReaderInv` has the types and `SpanInv`: the
reader's own state (depth and escape) is what the recursive functions of `Blocks` say
of the text it has passed.
`Along` and `Unfolds` unfold the recursive functions by one character, `Agrees` says
that they do not look beyond the part they are applied to.

`ErrorEndsTheReading` allows the call an error comes too late to stop: the one of the
directive, or the context, the reader was at the end of when the error came.
`StillThere` says that a decision or a tested signal from before the error is one from
where `p` was then.

`FilesAreRead` takes a text of which it is known that it is a sequence of directives
(`Layout`) and says what the reader makes of it.  `FollowInv`: the calls made are those
of the first directives, the open contexts are those of `Depth`, and what the reader
does now follows from where it is: in the gap in front of the next directive, or in a
part of that directive (`InMark`), which its automaton knows by its state (`NameStage`,
`BlockStage`, `LineStage`).  One lemma for each action shows that a turn leaves the
reader in the next place; that a directive ends neither too early nor too late is
`ForBlock`, `ForLine` and `Balanced` unfolded by one character.  TLC checked `FollowInv`
as an invariant before it was proved.

`OnlyFilesAreAccepted` is the converse: nothing is known of the text, and what the
reader accepts turns out to be laid out as the directives of its calls (`MarksOf`
finds them again by what the calls say), with blanks and comments between them and
their contexts nested.  `LaidInv`: the calls made are of directives that are laid out
(`LaidUpTo`), and the text from there to p is the beginning of the next one
(`TextBehind`: a gap, or by the state of the automaton its name, its block or its
line so far).  Each action either stays in that text or completes one directive
(`Moved`: `Stays` or `Grows`); that one more directive keeps the layout is
`LaidGrows`.  With `FilesAreRead`, the files the reader accepts when no task finds an
error are the nested files of directives and no others, and each is read as these
directives.  TLC checked `LaidInv` as an invariant before it was proved.

### The command line (`CommandLineProofs`)

For any words, any number of arguments (`MaxWords` is any natural number) and any
contents of the files.

| Theorem | States |
|---|---|
| `OptionsAreTaken` | `OptionsTaken` |
| `OnlyTheResultIsWritten` | `OnlyTheResult` |

`ParseInv`: each variable has the last valid value of the words already passed.
`FilesInv`: nothing is changed before the input is read, and then only the output,
which is emptied when it is opened: after an error it stays empty.

### What is model-checked only

* Liveness (`Terminates`, `Ends`) and the fairness parts of the refinements of
  `PriorityPool` and `ContextGuards`: out of the prover's reach.

## 5. Findings

1. `throw`: an invalid regular expression throws in `add_item`
   (`src/dicts.cpp:41`); the exception leaves `_defdir` before `finish` and
   `jobs_dec`, and the pool's `packaged_task` keeps it.  `delete current` waits
   forever.  `include/parser.h:261-263` promises that on an error "tasks just pass
   by".
2. `line_fits`: `line_size - line_ind - fullword->length() >= 0`
   (`src/context.cpp:1244`, `1263`) is unsigned, so it always holds and a word is
   appended to a line that has no room for it, against the assertion at 1173.
3. `stops_at_end`: a `raw` directive in line form ends before its newline, `*end` is
   this newline, and `if (*p == '\n') ++p` (`src/context.cpp:1114`) steps past `end`,
   which `p == end` never sees again: the task goes on through the file.

### Observations

Met while modelling; the models do what the code does, and no run is about them.

* The end of the file inside a context fails `assert(s.empty())`
  (`src/reader.cpp:453`), though line 474 means to print a message.
* A character no directive starts with, or an unmatched `}`, stops the reader
  without `send_error` (`src/reader.cpp:425`, `438`); `main` writes the partial
  result and says nothing.
* `name_reader` skips newlines before a name (`src/context.cpp:392`): a pattern and
  `:` at the end of a line take the first name of the next line as prefix, where
  lines 537-544 say a pair is one logical line.
* A quote that its line does not close, met before any character of a pattern,
  counts as the end of the block (`src/context.cpp:594`): what follows is dropped
  without an error.
* A pattern or word `""` has length 0 and fails an assertion (`src/dicts.cpp:40`,
  `334`, `455`, `608`).
* `read_mark` keeps the count of tabs over a line that has blanks only
  (`src/context.cpp:946`), and starts from 0 after an empty line or a comment.
  `MarkTabs` is stated without spaces and escapes for this reason.
* A `}` in a comment inside a block closes the block (`src/reader.cpp:171`), although
  the tasks take it for a comment (`src/context.cpp:541`).
* `_make` leaves out a word `name_reader` refuses, without an error, and writes no
  newline for one that follows a word or another character.  `NothingDropped`
  makes an exception of the first.

## 6. Not modelled

* Regular expressions: a dictionary is the set of words it matches.
* The branches of `_make` for a word that does not fit into a line at all
  (`src/context.cpp:1241`, `1260`): a word with its prefix has at most 126
  characters, a line 511 (`MakeAssumption`).
* A word that begins with the name of a directive: `read_order` takes it for the
  directive, and a directive's name is one symbol here.
* `exception_with_code`, which carries a number and a text to print: where it is thrown
  and caught is in `CommandLine` (`OpenInput`, `OpenOutput`).
* `add_pairs`, `add_list` and the constructors
  and overloads the program never calls.
* `abbr.py` (an older version of the tool), makefiles, tests.

## 7. Plan

1. Done: the pool, the shelves, the program, the monitors, the lexers, the text of
   blocks and of the file, the command line, with their runs.
2. Done: the theorems of section 4.
3. Done: every safety invariant of the passing runs is proved, and every action
   property.  Left to TLC: liveness and fairness (section 4, last part).
