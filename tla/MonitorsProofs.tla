---------------------------- MODULE MonitorsProofs ----------------------------
(***************************************************************************)
(* Safety of the monitors for any number of tasks and subcontexts: an      *)
(* exact account of who holds which mutex and of what jobs counts, from    *)
(* which the three safety properties and the refinement follow.            *)
(***************************************************************************)
EXTENDS Monitors, FiniteSetTheorems, TLAPS

MakerStage == {"new", "build", "inside", "dec", "counted", "done"}
WaiterStage == {"new", "check", "tested", "waiting", "inside", "dec", "counted", "done"}
MainStage == {"submit", "delete", "check", "tested", "waiting", "inside", "counted", "free",
              "freed"}

\* The type invariant, with the stages each kind of thread goes through.
MonitorsType ==
  /\ jobs \in Int /\ left \in Nat
  /\ ready \subseteq Maker
  /\ uses \in [User -> Maker]
  /\ holder \in [Monitor -> Thread \cup {NoThread}]
  /\ pc \in [Thread -> MakerStage \cup WaiterStage \cup MainStage]
  /\ \A m \in Maker : pc[m] \in MakerStage
  /\ \A t \in User \cup {Ender} : pc[t] \in WaiterStage
  /\ pc[Main] \in MainStage

\* The mutex of a thread's own critical section; jobs_dec takes that of the context.
Own(t) == IF t \in Maker THEN t ELSE Cv(t)

Holds(t, m) == \/ pc[t] \in {"tested", "inside"} /\ m = Own(t)
               \/ pc[t] = "counted" /\ m = Ctx

\* A mutex is held by the one thread that is inside its critical section.
HolderInv == \A t \in Thread, m \in Monitor : holder[m] = t <=> Holds(t, m)

\* A dictionary is ready from its finish() on.
ReadyInv == \A m \in Maker : m \in ready <=> pc[m] \notin {"new", "build"}

\* jobs counts the tasks submitted and not yet counted down, and the subcontexts.
Running == {t \in Task : pc[t] \notin {"new", "counted", "done"}}
CountInv == jobs = Cardinality(Running) + left

\* NoLostWakeup, and the same between the test and the sleep.
SleepInv == \A t \in Thread : pc[t] \in {"tested", "waiting"} => ~Proceeds(t)

\* How far Main and the end task have come bounds what is left to do.
StageInv ==
  /\ pc[Main] = "submit" <=> pc[Ender] = "new"
  /\ pc[Ender] # "new" => \A t \in Task : pc[t] # "new"
  /\ pc[Ender] = "inside" => jobs = 1
  /\ pc[Main] \in {"check", "tested", "waiting", "inside", "free", "freed"} => left = 0
  /\ pc[Main] \in {"inside", "free", "freed"} => jobs = 0 /\ \A t \in Task : pc[t] = "done"

MonitorsInv == MonitorsType /\ HolderInv /\ ReadyInv /\ CountInv /\ SleepInv /\ StageInv
----------------------------------------------------------------------------
\* The kinds of threads are disjoint.
LEMMA Kinds ==
  /\ Thread = Maker \cup User \cup {Ender, Main} /\ Task = Maker \cup User \cup {Ender}
  /\ Maker \cap User = {} /\ Ender \notin Maker \cup User
  /\ Main \notin Task /\ NoThread \notin Thread
  /\ Ctx \notin Maker /\ Monitor = Maker \cup {Ctx}
  BY ThreadAssumption DEF Thread, Task, Monitor

\* Each thread's own mutex and condition variable are those of a monitor.
LEMMA OwnMonitor ==
  ASSUME MonitorsType, NEW t \in Thread
  PROVE  Own(t) \in Monitor /\ (t \notin Maker => Cv(t) \in Monitor)
  BY Kinds DEF MonitorsType, Own, Cv

\* The type invariant is inductive.
LEMMA TypeStep ==
  ASSUME MonitorsType, [Next]_vars
  PROVE  MonitorsType'
<1> USE Kinds DEF MonitorsType, MakerStage, WaiterStage, MainStage
<1>1. ASSUME NEW t \in Task, Submit(t) PROVE MonitorsType'
  BY <1>1 DEF Submit
<1>2. ASSUME NEW m \in Maker, Finish(m) PROVE MonitorsType'
  BY <1>2 DEF Finish, Locks, NotifyAll
<1>3. ASSUME NEW t \in Thread, Enter(t) PROVE MonitorsType'
  BY <1>3 DEF Enter, Locks
<1>4. ASSUME NEW t \in Thread, Sleep(t) PROVE MonitorsType'
  BY <1>4 DEF Sleep, Unlocks
<1>5. ASSUME NEW t \in Thread, SpuriousWake(t) PROVE MonitorsType'
  BY <1>5 DEF SpuriousWake
<1>6. ASSUME NEW t \in Thread, JobsDec(t) PROVE MonitorsType'
  BY <1>6 DEF JobsDec, Dec, Locks, NotifyAll
<1>7. CASE DeleteSub
  BY <1>7 DEF DeleteSub, Dec, Locks, NotifyAll
<1>8. ASSUME NEW t \in Thread, Leave(t) PROVE MonitorsType'
  BY <1>8 DEF Leave, Unlocks
<1>9. CASE Destruct \/ Free \/ UNCHANGED vars
  BY <1>9 DEF Destruct, Free, vars
<1> QED BY <1>1, <1>2, <1>3, <1>4, <1>5, <1>6, <1>7, <1>8, <1>9
        DEF Next, Step, MainStep, Terminated

\* Mutual exclusion: a lock is taken when it is free, released by its holder, and the
\* threads notify_all wakes hold none.
LEMMA HolderStep ==
  ASSUME MonitorsType, HolderInv, [Next]_vars
  PROVE  HolderInv'
<1> USE Kinds, OwnMonitor DEF MonitorsType, MakerStage, WaiterStage, MainStage, HolderInv, Holds, Own, Cv
<1>1. ASSUME NEW t \in Task, Submit(t) PROVE HolderInv'
  BY <1>1 DEF Submit
<1>2. ASSUME NEW m \in Maker, Finish(m) PROVE HolderInv'
  BY <1>2 DEF Finish, Locks, NotifyAll
<1>3. ASSUME NEW t \in Thread, Enter(t) PROVE HolderInv'
  BY <1>3 DEF Enter, Locks
<1>4. ASSUME NEW t \in Thread, Sleep(t) PROVE HolderInv'
  BY <1>4 DEF Sleep, Unlocks
<1>5. ASSUME NEW t \in Thread, SpuriousWake(t) PROVE HolderInv'
  BY <1>5 DEF SpuriousWake
<1>6. ASSUME NEW t \in Thread, JobsDec(t) PROVE HolderInv'
  BY <1>6 DEF JobsDec, Dec, Locks, NotifyAll
<1>7. CASE DeleteSub
  BY <1>7 DEF DeleteSub, Dec, Locks, NotifyAll
<1>8. ASSUME NEW t \in Thread, Leave(t) PROVE HolderInv'
  BY <1>8 DEF Leave, Unlocks
<1>9. CASE Destruct \/ Free \/ UNCHANGED vars
  BY <1>9 DEF Destruct, Free, vars
<1> QED BY <1>1, <1>2, <1>3, <1>4, <1>5, <1>6, <1>7, <1>8, <1>9
        DEF Next, Step, MainStep, Terminated

\* A maker's finish() is the step that leaves "build".
LEMMA ReadyStep ==
  ASSUME MonitorsType, ReadyInv, [Next]_vars
  PROVE  ReadyInv'
<1> USE Kinds DEF MonitorsType, MakerStage, WaiterStage, MainStage, ReadyInv
<1>1. ASSUME NEW t \in Task, Submit(t) PROVE ReadyInv'
  BY <1>1 DEF Submit
<1>2. ASSUME NEW m \in Maker, Finish(m) PROVE ReadyInv'
  BY <1>2 DEF Finish, Locks, NotifyAll
<1>3. ASSUME NEW t \in Thread, Enter(t) PROVE ReadyInv'
  BY <1>3 DEF Enter, Locks
<1>4. ASSUME NEW t \in Thread, Sleep(t) PROVE ReadyInv'
  BY <1>4 DEF Sleep, Unlocks
<1>5. ASSUME NEW t \in Thread, SpuriousWake(t) PROVE ReadyInv'
  BY <1>5 DEF SpuriousWake
<1>6. ASSUME NEW t \in Thread, JobsDec(t) PROVE ReadyInv'
  BY <1>6 DEF JobsDec, Dec, Locks, NotifyAll
<1>7. CASE DeleteSub
  BY <1>7 DEF DeleteSub, Dec, Locks, NotifyAll
<1>8. ASSUME NEW t \in Thread, Leave(t) PROVE ReadyInv'
  BY <1>8 DEF Leave, Unlocks
<1>9. CASE Destruct \/ Free \/ UNCHANGED vars
  BY <1>9 DEF Destruct, Free, vars
<1> QED BY <1>1, <1>2, <1>3, <1>4, <1>5, <1>6, <1>7, <1>8, <1>9
        DEF Next, Step, MainStep, Terminated

\* The tasks that jobs counts are finitely many.
LEMMA RunningFinite ==
  /\ IsFiniteSet(Running) /\ Cardinality(Running) \in Nat
  /\ IsFiniteSet(Running') /\ Cardinality(Running') \in Nat
<1>1. IsFiniteSet(Task)
  BY FiniteAssumption, FS_AddElement DEF Task
<1>2. Running \subseteq Task /\ Running' \subseteq Task
  BY DEF Running
<1> QED BY <1>1, <1>2, FS_Subset, FS_CardinalityType

\* What the two values of jobs that are waited for say.
LEMMA CountFacts ==
  ASSUME MonitorsType, CountInv
  PROVE  /\ jobs = 0 => Running = {} /\ left = 0
         /\ jobs = 1 /\ Ender \in Running => Running = {Ender} /\ left = 0
<1>1. ASSUME jobs = 0 PROVE Running = {} /\ left = 0
  <2>1. Cardinality(Running) = 0 /\ left = 0
    BY <1>1, RunningFinite DEF CountInv, MonitorsType
  <2> QED BY <2>1, RunningFinite, FS_EmptySet
<1>2. ASSUME jobs = 1, Ender \in Running PROVE Running = {Ender} /\ left = 0
  <2>1. Cardinality(Running \ {Ender}) = Cardinality(Running) - 1
    BY <1>2, RunningFinite, FS_RemoveElement
  <2>2. IsFiniteSet(Running \ {Ender}) /\ Cardinality(Running \ {Ender}) \in Nat
    BY RunningFinite, FS_RemoveElement, FS_CardinalityType
  <2>3. left = 0 /\ Cardinality(Running \ {Ender}) = 0
    BY <1>2, <2>1, <2>2, RunningFinite DEF CountInv, MonitorsType
  <2> QED BY <1>2, <2>2, <2>3, FS_EmptySet
<1> QED BY <1>1, <1>2

\* The counter is exact: jobs_inc adds a task, jobs_dec takes one task or subcontext.
LEMMA CountStep ==
  ASSUME MonitorsType, CountInv, [Next]_vars
  PROVE  CountInv'
<1> USE Kinds, RunningFinite
        DEF MonitorsType, MakerStage, WaiterStage, MainStage, CountInv
<1>1. ASSUME NEW t \in Task, Submit(t) PROVE CountInv'
  <2>1. Running' = Running \cup {t} /\ t \notin Running
    BY <1>1 DEF Submit, Running
  <2>2. Cardinality(Running') = Cardinality(Running) + 1
    BY <2>1, FS_AddElement
  <2> QED BY <1>1, <2>2 DEF Submit
<1>2. ASSUME NEW m \in Maker, Finish(m) PROVE CountInv'
  <2>1. Running' = Running
    BY <1>2 DEF Finish, Locks, NotifyAll, Running
  <2> QED BY <1>2, <2>1 DEF Finish
<1>3. ASSUME NEW t \in Thread, Enter(t) \/ Sleep(t) \/ SpuriousWake(t) \/ Leave(t)
      PROVE  CountInv'
  <2>1. Running' = Running
    BY <1>3 DEF Enter, Sleep, SpuriousWake, Leave, Running
  <2> QED BY <1>3, <2>1 DEF Enter, Sleep, SpuriousWake, Leave
<1>4. ASSUME NEW t \in Thread, JobsDec(t) PROVE CountInv'
  <2>1. Running' = Running \ {t} /\ t \in Running
    BY <1>4 DEF JobsDec, Dec, NotifyAll, Running
  <2>2. Cardinality(Running') = Cardinality(Running) - 1
    BY <2>1, FS_RemoveElement
  <2> QED BY <1>4, <2>2 DEF JobsDec, Dec
<1>5. CASE DeleteSub
  <2>1. Running' = Running
    BY <1>5 DEF DeleteSub, Dec, NotifyAll, Running
  <2> QED BY <1>5, <2>1 DEF DeleteSub, Dec
<1>6. CASE Destruct \/ Free \/ UNCHANGED vars
  <2>1. Running' = Running
    BY <1>6 DEF Destruct, Free, vars, Running
  <2> QED BY <1>6, <2>1 DEF Destruct, Free, vars
<1> QED BY <1>1, <1>2, <1>3, <1>4, <1>5, <1>6 DEF Next, Step, MainStep, Terminated

\* No wakeup is lost: jobs and ready change under the mutex that a thread holds from
\* its test to its sleep, and each change that makes a predicate true wakes them all.
LEMMA SleepStep ==
  ASSUME MonitorsType, HolderInv, SleepInv, StageInv, [Next]_vars
  PROVE  SleepInv'
<1> USE Kinds DEF MonitorsType, MakerStage, WaiterStage, MainStage, SleepInv, Proceeds
<1>0. \A t \in Thread : pc[t] = "tested" => holder[Cv(t)] = t /\ Cv(t) \in Monitor
  BY OwnMonitor DEF HolderInv, Holds, Own
<1>1. ASSUME NEW t \in Task, Submit(t) PROVE SleepInv'
  <2>1. pc[Main] = "submit" /\ pc[Ender] = "new"
    BY <1>1 DEF Submit, StageInv
  <2> QED BY <1>1, <2>1 DEF Submit
<1>2. ASSUME NEW m \in Maker, Finish(m) PROVE SleepInv'
  <2>1. \A t \in User : uses[t] = m => pc[t] # "tested" /\ pc'[t] # "tested" /\ pc'[t] # "waiting"
    BY <1>0, <1>2 DEF Finish, Locks, NotifyAll, Cv
  <2> QED BY <1>2, <2>1 DEF Finish, NotifyAll
<1>3. ASSUME NEW t \in Thread, Enter(t) PROVE SleepInv'
  BY <1>3 DEF Enter
<1>4. ASSUME NEW t \in Thread, Sleep(t) \/ SpuriousWake(t) \/ Leave(t) PROVE SleepInv'
  BY <1>4 DEF Sleep, SpuriousWake, Leave
<1>5. ASSUME NEW t \in Thread, Dec(t), ready' = ready, uses' = uses, pc[t] \in {"dec", "delete"}
      PROVE SleepInv'
  <2>1. \A u \in {Ender, Main} : pc[u] # "tested" /\ pc'[u] # "tested"
    BY <1>0, <1>5 DEF Dec, Locks, NotifyAll, Cv
  <2>2. \A u \in {Ender, Main} : pc'[u] = "waiting" => jobs' \notin {0, 1}
    BY <1>5 DEF Dec, NotifyAll, Cv
  <2>3. \A u \in User : pc'[u] \in {"tested", "waiting"} => pc[u] = pc'[u]
    BY <1>5 DEF Dec, NotifyAll
  <2> QED BY <1>5, <2>1, <2>2, <2>3
<1>6. CASE Destruct \/ Free \/ UNCHANGED vars
  BY <1>6 DEF Destruct, Free, vars
<1> QED BY <1>1, <1>2, <1>3, <1>4, <1>5, <1>6
        DEF Next, Step, MainStep, Terminated, JobsDec, DeleteSub

\* The stages: jobs falls to 0 and 1 for good, with everything else done.
LEMMA StageStep ==
  ASSUME MonitorsInv, [Next]_vars
  PROVE  StageInv'
<1> USE Kinds DEF MonitorsInv, MonitorsType, MakerStage, WaiterStage, MainStage, StageInv
<1>1. ASSUME NEW t \in Task, Submit(t) PROVE StageInv'
  BY <1>1 DEF Submit
<1>2. ASSUME NEW m \in Maker, Finish(m) PROVE StageInv'
  BY <1>2 DEF Finish, NotifyAll
<1>3. ASSUME NEW t \in Thread, Enter(t) PROVE StageInv'
  <2>1. ASSUME t = Main, jobs = 0 PROVE \A u \in Task : pc[u] = "done"
    <3>1. Running = {}
      BY <2>1, CountFacts
    <3>2. \A u \in Task : pc[u] \in {"counted", "done"}
      BY <1>3, <2>1, <3>1 DEF Running, Enter
    <3>3. \A u \in Task : pc[u] # "counted"
      BY <1>3, <2>1 DEF Enter, Locks, Cv, HolderInv, Holds
    <3> QED BY <3>2, <3>3
  <2> QED BY <1>3, <2>1 DEF Enter, Proceeds
<1>4. ASSUME NEW t \in Thread, Sleep(t) \/ SpuriousWake(t) \/ Leave(t) PROVE StageInv'
  BY <1>4 DEF Sleep, SpuriousWake, Leave
<1>5. ASSUME NEW t \in Thread, Dec(t), pc[t] \in {"dec", "delete"},
             t \in Task => left' = left, t = Main => left > 0
      PROVE  StageInv'
  <2>1. holder[Ctx] = NoThread /\ pc[Ender] # "inside"
    BY <1>5 DEF Dec, Locks, HolderInv, Holds, Own, Cv
  <2> QED BY <1>5, <2>1 DEF Dec, NotifyAll
<1>6. CASE Destruct \/ Free \/ UNCHANGED vars
  BY <1>6 DEF Destruct, Free, vars
<1> QED BY <1>1, <1>2, <1>3, <1>4, <1>5, <1>6
        DEF Next, Step, MainStep, Terminated, JobsDec, DeleteSub

\* The account is inductive.
THEOREM MonitorsAlways == Spec => []MonitorsInv
<1>1. Init => MonitorsInv
  <2> SUFFICES ASSUME Init PROVE MonitorsInv
    OBVIOUS
  <2> USE Kinds, SubsAssumption DEF Init
  <2>1. MonitorsType
    BY DEF MonitorsType, MakerStage, WaiterStage, MainStage
  <2>2. HolderInv /\ ReadyInv /\ SleepInv /\ StageInv
    BY DEF HolderInv, Holds, ReadyInv, SleepInv, StageInv
  <2>3. Running = {}
    BY DEF Running
  <2>4. CountInv
    BY <2>3, FS_EmptySet DEF CountInv
  <2> QED BY <2>1, <2>2, <2>4 DEF MonitorsInv
<1>2. MonitorsInv /\ [Next]_vars => MonitorsInv'
  BY TypeStep, HolderStep, ReadyStep, CountStep, SleepStep, StageStep DEF MonitorsInv
<1> QED BY <1>1, <1>2, PTL DEF Spec
----------------------------------------------------------------------------
\* No wakeup is lost (context.cpp:47, 81-83, 1445, dicts.cpp:119): see NoLostWakeup.
THEOREM NoWakeupIsLost == Spec => []NoLostWakeup
<1>1. MonitorsInv => NoLostWakeup
  BY DEF MonitorsInv, SleepInv, NoLostWakeup
<1> QED BY <1>1, MonitorsAlways, PTL

\* _end joins the texts when nothing is left to write (context.cpp:1445): see JoinsAlone.
THEOREM EndJoinsAlone == Spec => []JoinsAlone
<1>1. MonitorsInv => JoinsAlone
  <2> SUFFICES ASSUME MonitorsInv, pc[Ender] = "inside"
               PROVE  left = 0 /\ \A t \in Task \ {Ender} : pc[t] \in {"counted", "done"}
    BY DEF JoinsAlone
  <2>1. Ender \in Running /\ jobs = 1
    BY Kinds DEF MonitorsInv, StageInv, Running
  <2>2. Running = {Ender} /\ left = 0
    BY <2>1, CountFacts DEF MonitorsInv
  <2> QED BY <2>2 DEF MonitorsInv, StageInv, Running
<1> QED BY <1>1, MonitorsAlways, PTL

\* The mutexes are freed after every thread has let go of them (context.cpp:41-55):
\* see NoUseAfterFree.
THEOREM NoneUsedAfterFree == Spec => []NoUseAfterFree
<1>1. MonitorsInv => NoUseAfterFree
  BY DEF MonitorsInv, StageInv, NoUseAfterFree
<1> QED BY <1>1, MonitorsAlways, PTL
----------------------------------------------------------------------------
\* The stage of a task, by its pc.
LEMMA StageFacts ==
  ASSUME MonitorsType
  PROVE  /\ Stages \in [Task -> {"new", "submitted", "passed", "done"}]
         /\ \A t \in Task :
              /\ Stages[t] = "new" <=> pc[t] = "new"
              /\ Stages[t] = "submitted" <=> pc[t] \in {"build", "check", "tested", "waiting"}
              /\ Stages[t] = "passed" <=> pc[t] \in {"inside", "dec"}
              /\ Stages[t] = "done" <=> pc[t] \in {"counted", "done"}
  BY Kinds DEF MonitorsType, MakerStage, WaiterStage, Stages

\* Each step of the monitors is a step of the guards, or none: a lock, a test, a sleep
\* or a wakeup is a stutter, and so is an unlock.
LEMMA GuardsStep ==
  ASSUME MonitorsInv, MonitorsInv', [Next]_vars
  PROVE  [Guards!Next]_(Guards!vars)
<1>t. MonitorsType /\ StageInv /\ MonitorsType'
  BY DEF MonitorsInv
<1> USE Kinds
<1>c. /\ Stages \in [Task -> {"new", "submitted", "passed", "done"}]
      /\ \A t \in Task :
           /\ Stages[t] = "new" <=> pc[t] = "new"
           /\ Stages[t] = "submitted" <=> pc[t] \in {"build", "check", "tested", "waiting"}
           /\ Stages[t] = "passed" <=> pc[t] \in {"inside", "dec"}
           /\ Stages[t] = "done" <=> pc[t] \in {"counted", "done"}
  BY <1>t, StageFacts
<1>0. /\ Stages' \in [Task -> {"new", "submitted", "passed", "done"}]
      /\ \A t \in Task :
           /\ Stages'[t] = "new" <=> pc'[t] = "new"
           /\ Stages'[t] = "submitted" <=> pc'[t] \in {"build", "check", "tested", "waiting"}
           /\ Stages'[t] = "passed" <=> pc'[t] \in {"inside", "dec"}
           /\ Stages'[t] = "done" <=> pc'[t] \in {"counted", "done"}
  BY <1>t DEF MonitorsType, MakerStage, WaiterStage, Stages
<1>a. \A t \in Task : pc'[t] = pc[t] \/ (pc[t] = "waiting" /\ pc'[t] = "check")
                        => Stages'[t] = Stages[t]
  BY <1>t, <1>0, <1>c DEF MonitorsType, MakerStage, WaiterStage
<1>b. ASSUME NEW t \in Task, NEW s, Stages'[t] = s,
             \A u \in Task \ {t} : pc'[u] = pc[u] \/ (pc[u] = "waiting" /\ pc'[u] = "check")
      PROVE  Stages' = [Stages EXCEPT ![t] = s]
  BY <1>0, <1>c, <1>a, <1>b
<1>1. ASSUME NEW t \in Task, Submit(t) PROVE Guards!Submit(t)
  BY <1>t, <1>0, <1>c, <1>1 DEF MonitorsType, Submit, StageInv, Guards!Submit, Guards!Moves, Guards!Task, Task
<1>2. ASSUME NEW m \in Maker, Finish(m) PROVE Guards!Finish(m)
  <2>1. /\ pc[m] = "build" /\ pc'[m] = "inside"
        /\ \A t \in Thread \ {m} : pc'[t] = pc[t] \/ (pc[t] = "waiting" /\ pc'[t] = "check")
    BY <1>2, <1>t DEF Finish, NotifyAll, MonitorsType, MakerStage
  <2>2. Guards!Moves(m, "submitted", "passed")
    BY <1>t, <1>0, <1>c, <1>b, <2>1 DEF Guards!Moves
  <2>3. pc'[Main] = "freed" <=> pc[Main] = "freed"
    BY <2>1
  <2> QED BY <1>2, <2>2, <2>3 DEF Finish, Guards!Finish
<1>3. ASSUME NEW u \in User, Enter(u) PROVE Guards!LookUp(u) \/ UNCHANGED Guards!vars
  BY <1>t, <1>0, <1>c, <1>3 DEF MonitorsType, Enter, Proceeds, Guards!LookUp, Guards!Moves, Guards!vars
<1>4. ASSUME Enter(Ender) PROVE Guards!Join \/ UNCHANGED Guards!vars
  BY <1>t, <1>0, <1>c, <1>4 DEF MonitorsType, Enter, Proceeds, Guards!Join, Guards!Moves, Guards!vars
<1>5. ASSUME NEW t \in Task, JobsDec(t) PROVE Guards!Complete(t)
  <2>1. /\ pc[t] = "dec" /\ pc'[t] = "counted"
        /\ \A u \in Thread \ {t} : pc'[u] = pc[u] \/ (pc[u] = "waiting" /\ pc'[u] = "check")
    BY <1>5, <1>t DEF MonitorsType, JobsDec, Dec, NotifyAll
  <2>2. Guards!Moves(t, "passed", "done")
    BY <1>t, <1>0, <1>c, <1>b, <2>1 DEF Guards!Moves
  <2>3. pc'[Main] = "freed" <=> pc[Main] = "freed"
    BY <2>1
  <2> QED BY <1>5, <2>2, <2>3 DEF JobsDec, Dec, Guards!Complete
<1>6. ASSUME DeleteSub PROVE Guards!DeleteSub
  <2>1. /\ pc[Main] = "delete" /\ pc'[Main] = "counted"
        /\ \A t \in Task : pc'[t] = pc[t] \/ (pc[t] = "waiting" /\ pc'[t] = "check")
    BY <1>6, <1>t DEF MonitorsType, DeleteSub, Dec, NotifyAll
  <2>2. Stages' = Stages /\ Stages[Ender] # "new"
    BY <1>t, <1>0, <1>c, <1>a, <2>1 DEF StageInv
  <2>3. pc'[Main] = "freed" <=> pc[Main] = "freed"
    BY <2>1
  <2> QED BY <1>6, <2>2, <2>3 DEF DeleteSub, Dec, Guards!DeleteSub
<1>7. ASSUME Free PROVE Guards!Free
  <2>1. /\ pc[Main] = "free" /\ pc'[Main] = "freed" /\ \A t \in Task : pc'[t] = pc[t]
    BY <1>7, <1>t DEF MonitorsType, Free
  <2>2. Stages' = Stages /\ \A t \in Task : Stages[t] = "done"
    BY <1>t, <1>0, <1>c, <1>a, <2>1 DEF StageInv
  <2>3. left = 0 /\ jobs = 0
    BY <1>t, <2>1 DEF StageInv
  <2>4. (pc'[Main] = "freed") = TRUE /\ ~(pc[Main] = "freed")
    BY <2>1
  <2> QED BY <1>7, <2>2, <2>3, <2>4 DEF Free, Guards!Free, Guards!Task, Task
<1>8. ASSUME NEW t \in Thread, Sleep(t) \/ SpuriousWake(t) \/ Leave(t) PROVE UNCHANGED Guards!vars
  BY <1>t, <1>0, <1>c, <1>8 DEF MonitorsType, Sleep, SpuriousWake, Leave, Guards!vars
<1>9. ASSUME Enter(Main) \/ Destruct \/ UNCHANGED vars PROVE UNCHANGED Guards!vars
  BY <1>t, <1>0, <1>c, <1>9 DEF MonitorsType, Enter, Proceeds, Destruct, vars, Guards!vars
<1>10. Guards!Task = Task
  BY DEF Guards!Task, Task
<1>11. (\A m \in Maker : ~Enter(m)) /\ ~JobsDec(Main)
  BY <1>t DEF MonitorsType, MakerStage, MainStage, Enter, JobsDec
<1> QED BY <1>1, <1>2, <1>3, <1>4, <1>5, <1>6, <1>7, <1>8, <1>9, <1>10, <1>11
        DEF Next, Step, MainStep, Terminated, Guards!Next

\* The monitors implement the guards (the safety part of GuardsSpec): where MakeAsist
\* has a guard on jobs or ready, the mutexes and condition variables allow no more.
THEOREM GuardsImplemented == Spec => Guards!Init /\ [][Guards!Next]_(Guards!vars)
<1>1. Init => Guards!Init
  BY Kinds DEF Init, Stages, Guards!Init, Guards!Task
<1>2. MonitorsInv /\ MonitorsInv' /\ [Next]_vars => [Guards!Next]_(Guards!vars)
  BY GuardsStep
<1> QED BY <1>1, <1>2, MonitorsAlways, PTL DEF Spec
=============================================================================
