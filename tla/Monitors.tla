------------------------------ MODULE Monitors ------------------------------
(***************************************************************************)
(* The monitors of a context (jobs_guard, cv) and of its dictionaries      *)
(* (mut, spark): mutex, wait set, notification.  Two predicates share cv:  *)
(* _end waits until jobs is 1, ~Context until it is 0, and jobs_dec        *)
(* notifies at these two values only.  One context, from its first task to *)
(* its deletion; each task has a thread, the pool is the matter of         *)
(* ThreadPool and MakeAsist.                                               *)
(***************************************************************************)
EXTENDS Integers, FiniteSets

CONSTANTS Maker,     \* _defdir and _noextend tasks; m also names its dictionary
          User,      \* _make tasks
          Ender,     \* the _end task
          Main,      \* the main thread
          NoThread,
          Ctx,       \* the context's monitor
          Subs       \* how many subcontexts the context has

ASSUME ThreadAssumption ==
  /\ Maker \cap User = {}
  /\ Ender \notin Maker \cup User
  /\ Main \notin Maker \cup User \cup {Ender}
  /\ NoThread \notin Maker \cup User \cup {Ender, Main}
  /\ Ctx \notin Maker
ASSUME MakerAssumption == Maker # {}
ASSUME SubsAssumption == Subs \in Nat
\* A rule file is finite, and jobs counts its tasks.
ASSUME FiniteAssumption == IsFiniteSet(Maker \cup User)

Task == Maker \cup User \cup {Ender}
Thread == Task \cup {Main}
Monitor == Maker \cup {Ctx}

VARIABLES jobs,
          ready,   \* the dictionaries that are ready
          holder,  \* holder[m]: the thread that holds the mutex of m
          pc,
          uses,    \* uses[u]: the dictionary user u looks into
          left     \* subcontexts not deleted

vars == <<jobs, ready, holder, pc, uses, left>>

\* The subcontexts were counted when they were created (add_sub_context).
Init ==
  /\ jobs = Subs
  /\ ready = {}
  /\ holder = [m \in Monitor |-> NoThread]
  /\ pc = [t \in Thread |-> IF t = Main THEN "submit" ELSE "new"]
  /\ uses \in [User -> Maker]
  /\ left = Subs

Locks(m, t) == holder[m] = NoThread /\ holder' = [holder EXCEPT ![m] = t]

\* The condition variable a thread waits on, and its predicate.
Cv(t) == IF t \in User THEN uses[t] ELSE Ctx

Proceeds(t) == \/ t \in User /\ uses[t] \in ready
               \/ t = Ender /\ jobs = 1
               \/ t = Main /\ jobs = 0

\* (mutant) notify_one
NotifyOne(m, after) ==
  LET sleepers == {t \in Thread : pc[t] = "waiting" /\ Cv(t) = m} IN
  IF sleepers = {} THEN after ELSE [after EXCEPT ![CHOOSE t \in sleepers : TRUE] = "check"]

\* notify_all: the waiters of m have to lock it again and test their predicate.
NotifyAll(m, after) ==
  [t \in Thread |-> IF pc[t] = "waiting" /\ Cv(t) = m THEN "check" ELSE after[t]]
----------------------------------------------------------------------------
\* Main submits task t: jobs_inc, then pool.enqueue.  A block is read after the
\* dictionary it uses, and end() comes last.
Submit(t) ==
  /\ pc[t] = "new"
  /\ t \in User => pc[uses[t]] # "new"
  /\ t = Ender => \A u \in Task \ {Ender} : pc[u] # "new"
  /\ holder[Ctx] = NoThread
  /\ jobs' = jobs + 1
  /\ pc' = [pc EXCEPT ![t] = IF t \in Maker THEN "build" ELSE "check",
                      ![Main] = IF t = Ender THEN "delete" ELSE @]
  /\ UNCHANGED <<ready, holder, uses, left>>

\* finish(), up to its unlock
Finish(m) ==
  /\ pc[m] = "build"
  /\ Locks(m, m)
  /\ ready' = ready \cup {m}
  /\ pc' = NotifyAll(m, [pc EXCEPT ![m] = "inside"])
  /\ UNCHANGED <<jobs, uses, left>>

\* (mutant) wait without its predicate returns at the first wakeup
EnterUnchecked(t) ==
  /\ pc[t] = "check"
  /\ Locks(Cv(t), t)
  /\ pc' = [pc EXCEPT ![t] = "inside"]
  /\ UNCHANGED <<jobs, ready, uses, left>>

\* cv.wait(lock, predicate), spark.wait: the predicate is tested under the mutex...
Enter(t) ==
  /\ pc[t] = "check"
  /\ Locks(Cv(t), t)
  /\ pc' = [pc EXCEPT ![t] = IF Proceeds(t) THEN "inside" ELSE "tested"]
  /\ UNCHANGED <<jobs, ready, uses, left>>

Unlocks(t) == holder' = [m \in Monitor |-> IF holder[m] = t THEN NoThread ELSE holder[m]]

\* ...and if it is false, wait releases the mutex and sleeps in one step.
Sleep(t) ==
  /\ pc[t] = "tested"
  /\ Unlocks(t)
  /\ pc' = [pc EXCEPT ![t] = "waiting"]
  /\ UNCHANGED <<jobs, ready, uses, left>>

\* condition_variable::wait may return without a notification.
SpuriousWake(t) ==
  /\ pc[t] = "waiting"
  /\ pc' = [pc EXCEPT ![t] = "check"]
  /\ UNCHANGED <<jobs, ready, holder, uses, left>>

\* (mutant) the mutex is released before the notification
DecUnlocksFirst(t) ==
  /\ holder[Ctx] = NoThread
  /\ jobs' = jobs - 1
  /\ LET after == [pc EXCEPT ![t] = "counted"] IN
     pc' = IF jobs' \in {0, 1} THEN NotifyAll(Ctx, after) ELSE after
  /\ UNCHANGED holder

\* jobs_dec, up to its unlock
Dec(t) ==
  /\ Locks(Ctx, t)
  /\ jobs' = jobs - 1
  /\ LET after == [pc EXCEPT ![t] = "counted"] IN
     pc' = IF jobs' \in {0, 1} THEN NotifyAll(Ctx, after) ELSE after

JobsDec(t) ==
  /\ pc[t] = "dec"
  /\ Dec(t)
  /\ UNCHANGED <<ready, uses, left>>

\* ~Context: delete sub, which ends with parent->jobs_dec()
DeleteSub ==
  /\ pc[Main] = "delete"
  /\ left > 0
  /\ left' = left - 1
  /\ Dec(Main)
  /\ UNCHANGED <<ready, uses>>

\* the subcontexts are deleted, wait for the jobs
Destruct ==
  /\ pc[Main] = "delete"
  /\ left = 0
  /\ pc' = [pc EXCEPT ![Main] = "check"]
  /\ UNCHANGED <<jobs, ready, holder, uses, left>>

\* The destructors of the lock objects: jobs_dec, finish or a wait returns.
Leave(t) ==
  /\ pc[t] \in {"inside", "counted"}
  /\ Unlocks(t)
  /\ pc' = [pc EXCEPT ![t] = CASE t = Main /\ pc[t] = "counted" -> "delete"
                               [] t = Main /\ pc[t] = "inside"  -> "free"
                               [] t # Main /\ pc[t] = "counted" -> "done"
                               [] t # Main /\ pc[t] = "inside"  -> "dec"]
  /\ UNCHANGED <<jobs, ready, uses, left>>

\* The members go: ~prefix_dict takes the mutex of each dictionary once more.
Free ==
  /\ pc[Main] = "free"
  /\ \A m \in Maker : holder[m] = NoThread
  /\ pc' = [pc EXCEPT ![Main] = "freed"]
  /\ UNCHANGED <<jobs, ready, holder, uses, left>>

Terminated == pc[Main] = "freed" /\ UNCHANGED vars
----------------------------------------------------------------------------
Step(t) == \/ t \in Maker /\ Finish(t)
           \/ Enter(t) \/ Sleep(t) \/ JobsDec(t) \/ Leave(t)

MainStep == \/ \E t \in Task : Submit(t)
            \/ DeleteSub \/ Destruct \/ Free

Next == \/ \E t \in Thread : Step(t) \/ SpuriousWake(t)
        \/ MainStep
        \/ Terminated

\* Threads that can run do.  A mutex is strongly fair: waiters that wake spuriously
\* again and again do not keep a thread from locking it forever.
Fairness == SF_vars(MainStep) /\ \A t \in Thread : SF_vars(Step(t))

Spec == Init /\ [][Next]_vars /\ Fairness
----------------------------------------------------------------------------
\* Properties.

\* No wakeup is lost: a thread asleep has nothing to wake for.  It takes the test and
\* the sleep in one critical section, a change under the same mutex, notify_all for
\* the two predicates on cv, and a notification at both values that make one true
\* (context.cpp:47, 81-83, 1445, dicts.cpp:119, 127-129).
NoLostWakeup == \A t \in Thread : pc[t] = "waiting" => ~Proceeds(t)

\* _end joins the texts when it is alone: no other task of the context has anything
\* left to write, and no subcontext is left to write into its input (context.cpp:1445).
JoinsAlone ==
  pc[Ender] = "inside" =>
    /\ left = 0
    /\ \A t \in Task \ {Ender} : pc[t] \in {"counted", "done"}

\* When ~Context frees the mutexes and condition variables, no thread is between
\* the lock and the unlock of one, not even in the jobs_dec that let it go on.  The
\* pool, which notifies after the unlock, could not be freed like this.
NoUseAfterFree == pc[Main] = "freed" => \A t \in Task : pc[t] = "done"

\* How far each task is when the mutexes, the tests and the sleeps are left out.
Stages == [t \in Task |-> CASE pc[t] = "new" -> "new"
                            [] pc[t] \in {"build", "check", "tested", "waiting"} -> "submitted"
                            [] pc[t] \in {"inside", "dec"} -> "passed"
                            [] pc[t] \in {"counted", "done"} -> "done"]

\* The monitors implement the guards that MakeAsist uses in their place.
Guards == INSTANCE ContextGuards WITH stage <- Stages, freed <- pc[Main] = "freed"
GuardsSpec == Guards!Spec
=============================================================================
