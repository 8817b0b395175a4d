----------------------------- MODULE ThreadPool -----------------------------
(***************************************************************************)
(* threadPool (include/threadPool.h): one mutex, one condition variable, a *)
(* priority queue and a fixed set of workers.  A critical section of       *)
(* queue_mutex is one action; a notification is a step of its own because  *)
(* enqueue and the destructor notify after they release the mutex.  Only   *)
(* the main thread enqueues and destroys, so there is one caller.          *)
(***************************************************************************)
EXTENDS TaskOrder, FiniteSets

CONSTANTS Worker,    \* the threads init() starts
          NoTask,
          Priority,  \* values of the enqueue arguments
          Order,
          MaxTasks   \* bound: how many tasks the caller enqueues

ASSUME WorkerAssumption == IsFiniteSet(Worker) /\ Worker # {}
ASSUME RankAssumption == Priority \subseteq Int /\ Order \subseteq Int
ASSUME MaxTasksAssumption == MaxTasks \in Nat

\* A queued task; id tells tasks of equal rank apart (std::function identity).
Task == [priority : Priority, order : Order, id : 1..MaxTasks]

ASSUME NoTaskAssumption == NoTask \notin Task

VARIABLES tasks,      \* the priority queue, a set because ids are distinct
          stop,       \* set by the destructor
          pc,         \* pc[w]: where worker w is in its loop
          slot,       \* slot[w]: the task moved out of the queue, or NoTask
          caller,     \* where the calling thread is
          submitted,  \* how many tasks were enqueued
          done        \* history: the tasks whose call returned

vars == <<tasks, stop, pc, slot, caller, submitted, done>>

Waiting == {w \in Worker : pc[w] = "waiting"}  \* in the wait set of condition
Lockers == {w \in Worker : pc[w] = "lock"}     \* about to test the wait predicate

\* threadPool() and init(n): the workers block on queue_mutex until init returns.
Init == /\ tasks = {}
        /\ stop = FALSE
        /\ pc = [w \in Worker |-> "lock"]
        /\ slot = [w \in Worker |-> NoTask]
        /\ caller = "idle"
        /\ submitted = 0
        /\ done = {}
----------------------------------------------------------------------------
\* The caller.

\* enqueue, up to the release of queue_mutex.
Enqueue(p, o) ==
  /\ caller = "idle"
  /\ ~stop
  /\ submitted < MaxTasks
  /\ submitted' = submitted + 1
  /\ tasks' = tasks \cup {[priority |-> p, order |-> o, id |-> submitted + 1]}
  /\ caller' = "notify"
  /\ UNCHANGED <<stop, pc, slot, done>>

\* condition.notify_one(): wakes one waiter, or nobody when none waits.
NotifyOne ==
  /\ caller = "notify"
  /\ caller' = "idle"
  /\ IF Waiting = {} THEN pc' = pc
     ELSE \E w \in Waiting : pc' = [pc EXCEPT ![w] = "lock"]
  /\ UNCHANGED <<tasks, stop, slot, submitted, done>>

\* ~threadPool: its critical section, the notification, the joins.
Stop ==
  /\ caller = "idle"
  /\ stop' = TRUE
  /\ caller' = "stopping"
  /\ UNCHANGED <<tasks, pc, slot, submitted, done>>

\* (mutant) the destructor notifies one waiter only
NotifyAllWakesOne ==
  /\ caller = "stopping"
  /\ caller' = "joining"
  /\ IF Waiting = {} THEN pc' = pc
     ELSE \E w \in Waiting : pc' = [pc EXCEPT ![w] = "lock"]
  /\ UNCHANGED <<tasks, stop, slot, submitted, done>>

NotifyAll ==
  /\ caller = "stopping"
  /\ caller' = "joining"
  /\ pc' = [w \in Worker |-> IF w \in Waiting THEN "lock" ELSE pc[w]]
  /\ UNCHANGED <<tasks, stop, slot, submitted, done>>

Join ==
  /\ caller = "joining"
  /\ \A w \in Worker : pc[w] = "exited"
  /\ caller' = "joined"
  /\ UNCHANGED <<tasks, stop, pc, slot, submitted, done>>
----------------------------------------------------------------------------
\* A worker.

\* (mutant) condition.wait(lock) without its predicate
WaitUnchecked(w) ==
  /\ pc[w] = "lock"
  /\ ~stop
  /\ pc' = [pc EXCEPT ![w] = "waiting"]
  /\ UNCHANGED <<tasks, stop, slot, caller, submitted, done>>

\* The predicate is false: sleep.
WorkerWait(w) ==
  /\ pc[w] = "lock"
  /\ ~stop
  /\ tasks = {}
  /\ pc' = [pc EXCEPT ![w] = "waiting"]
  /\ UNCHANGED <<tasks, stop, slot, caller, submitted, done>>

\* condition_variable::wait may return without a notification.
SpuriousWake(w) ==
  /\ pc[w] = "waiting"
  /\ pc' = [pc EXCEPT ![w] = "lock"]
  /\ UNCHANGED <<tasks, stop, slot, caller, submitted, done>>

\* (mutant) a stopped worker leaves at once
ExitUndrained(w) ==
  /\ pc[w] = "lock"
  /\ stop
  /\ pc' = [pc EXCEPT ![w] = "exited"]
  /\ UNCHANGED <<tasks, stop, slot, caller, submitted, done>>

WorkerExit(w) ==
  /\ pc[w] = "lock"
  /\ stop
  /\ tasks = {}
  /\ pc' = [pc EXCEPT ![w] = "exited"]
  /\ UNCHANGED <<tasks, stop, slot, caller, submitted, done>>

\* (mutant) top() without pop()
TakeWithoutPop(w) ==
  /\ pc[w] = "lock"
  /\ \E t \in Tops(tasks) : slot' = [slot EXCEPT ![w] = t]
  /\ pc' = [pc EXCEPT ![w] = "running"]
  /\ UNCHANGED <<tasks, stop, caller, submitted, done>>

\* (mutant) a queue that is not a priority queue
TakeAny(w) ==
  /\ pc[w] = "lock"
  /\ \E t \in tasks : /\ slot' = [slot EXCEPT ![w] = t]
                      /\ tasks' = tasks \ {t}
  /\ pc' = [pc EXCEPT ![w] = "running"]
  /\ UNCHANGED <<stop, caller, submitted, done>>

WorkerTake(w) ==
  /\ pc[w] = "lock"
  /\ \E t \in Tops(tasks) : /\ slot' = [slot EXCEPT ![w] = t]
                            /\ tasks' = tasks \ {t}
  /\ pc' = [pc EXCEPT ![w] = "running"]
  /\ UNCHANGED <<stop, caller, submitted, done>>

\* (mutant) the moved-out task is not reset
RunKeepsSlot(w) ==
  /\ pc[w] = "running"
  /\ done' = done \cup {slot[w]}
  /\ pc' = [pc EXCEPT ![w] = "lock"]
  /\ UNCHANGED <<tasks, slot, stop, caller, submitted>>

\* task() returns; a task that throws returns too, packaged_task keeps the exception.
RunTask(w) ==
  /\ pc[w] = "running"
  /\ done' = done \cup {slot[w]}
  /\ slot' = [slot EXCEPT ![w] = NoTask]
  /\ pc' = [pc EXCEPT ![w] = "lock"]
  /\ UNCHANGED <<tasks, stop, caller, submitted>>
----------------------------------------------------------------------------
\* The program is over once the destructor has joined every worker.
Terminated == caller = "joined" /\ UNCHANGED vars

CallerStep == NotifyOne \/ NotifyAll \/ Join
WorkerStep(w) == WorkerExit(w) \/ WorkerTake(w) \/ RunTask(w)

Next ==
  \/ \E p \in Priority, o \in Order : Enqueue(p, o)
  \/ Stop
  \/ CallerStep
  \/ \E w \in Worker : WorkerStep(w) \/ WorkerWait(w) \/ SpuriousWake(w)
  \/ Terminated

\* Threads that can run do run; the caller need neither enqueue nor stop.
Fairness == WF_vars(CallerStep) /\ \A w \in Worker : WF_vars(WorkerStep(w))

Spec == Init /\ [][Next]_vars /\ Fairness
----------------------------------------------------------------------------
\* Properties.

\* A worker holds a task exactly while it runs one.
TypeOK ==
  /\ tasks \subseteq Task
  /\ stop \in BOOLEAN
  /\ pc \in [Worker -> {"lock", "waiting", "running", "exited"}]
  /\ slot \in [Worker -> Task \cup {NoTask}]
  /\ \A w \in Worker : slot[w] # NoTask <=> pc[w] = "running"
  /\ caller \in {"idle", "notify", "stopping", "joining", "joined"}
  /\ submitted \in 0..MaxTasks
  /\ done \subseteq Task

\* Notifying after the unlock loses no wakeup: while some worker sleeps, every
\* queued task has an awake worker on its way to the queue, or the notification
\* the caller still owes (threadPool.h:86-94).
NoLostWakeup ==
  Waiting # {} =>
    Cardinality(tasks) <= Cardinality(Lockers) + (IF caller = "notify" THEN 1 ELSE 0)

\* No worker falls asleep behind the destructor's notify_all (threadPool.h:101-107).
NoSleepAfterStop == caller \in {"joining", "joined"} => Waiting = {}

\* Every task enqueued is in exactly one place: queued, run by one worker, or
\* done; none is dropped by top()/pop() or run twice.
NoTaskLost ==
  LET ids(S) == {t.id : t \in S}
      running == {w \in Worker : slot[w] # NoTask}
  IN  /\ ids(tasks) \cup {slot[w].id : w \in running} \cup ids(done) = 1..submitted
      /\ Cardinality(tasks) + Cardinality(running) + Cardinality(done) = submitted

\* The destructor's joins return only when every task ever enqueued has been run,
\* because a stopped worker leaves an empty queue only (threadPool.h:61-62).
JoinedMeansDrained == caller = "joined" => Cardinality(done) = submitted

\* The pool implements the abstract one.
Abstract == INSTANCE PriorityPool WITH
              queue <- tasks,
              open <- ~stop,
              staff <- {w \in Worker : pc[w] # "exited"}
PoolSpec == Abstract!Spec
=============================================================================
