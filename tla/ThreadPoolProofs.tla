--------------------------- MODULE ThreadPoolProofs ---------------------------
(***************************************************************************)
(* Safety of the pool for any number of workers and tasks.  Two invariants *)
(* carry it: the condition variable's accounting (NoLostWakeup), and where *)
(* each task is (Placed), from which the counts of NoTaskLost follow.      *)
(***************************************************************************)
EXTENDS ThreadPool, FiniteSetTheorems, TLAPS

\* The type invariant is inductive.
THEOREM TypeCorrect == Spec => []TypeOK
<1>1. Init => TypeOK
  <2>1. 0 \in 0..MaxTasks
    BY MaxTasksAssumption
  <2>2. [w \in Worker |-> NoTask] \in [Worker -> Task \cup {NoTask}]
    OBVIOUS
  <2> QED BY <2>1, <2>2 DEF Init, TypeOK
<1>2. TypeOK /\ [Next]_vars => TypeOK'
  <2> SUFFICES ASSUME TypeOK, [Next]_vars PROVE TypeOK'
    OBVIOUS
  <2> USE DEF TypeOK
  <2>1. ASSUME NEW p \in Priority, NEW o \in Order, Enqueue(p, o) PROVE TypeOK'
    <3>1. [priority |-> p, order |-> o, id |-> submitted + 1] \in Task
      BY <2>1, MaxTasksAssumption DEF Enqueue, Task
    <3>2. submitted' \in 0..MaxTasks
      BY <2>1, MaxTasksAssumption DEF Enqueue
    <3> QED BY <2>1, <3>1, <3>2 DEF Enqueue
  <2>2. CASE Stop BY <2>2 DEF Stop
  <2>3. CASE NotifyOne BY <2>3 DEF NotifyOne, Waiting
  <2>4. CASE NotifyAll BY <2>4 DEF NotifyAll, Waiting
  <2>5. CASE Join BY <2>5 DEF Join
  <2>6. ASSUME NEW w \in Worker, WorkerTake(w) PROVE TypeOK'
    <3>1. PICK t \in Tops(tasks) : slot' = [slot EXCEPT ![w] = t] /\ tasks' = tasks \ {t}
      BY <2>6 DEF WorkerTake
    <3>2. t \in Task /\ t # NoTask
      BY NoTaskAssumption DEF Tops
    <3> QED BY <2>6, <3>1, <3>2 DEF WorkerTake
  <2>7. ASSUME NEW w \in Worker, RunTask(w) PROVE TypeOK'
    BY <2>7 DEF RunTask
  <2>8. ASSUME NEW w \in Worker, WorkerExit(w) \/ WorkerWait(w) \/ SpuriousWake(w) PROVE TypeOK'
    BY <2>8 DEF WorkerExit, WorkerWait, SpuriousWake
  <2>9. CASE UNCHANGED vars BY <2>9 DEF vars
  <2> QED BY <2>1, <2>2, <2>3, <2>4, <2>5, <2>6, <2>7, <2>8, <2>9
          DEF Next, CallerStep, WorkerStep, Terminated
<1> QED BY <1>1, <1>2, PTL DEF Spec
----------------------------------------------------------------------------
\* The two sets of workers NoLostWakeup counts are finite.
LEMMA WorkersFinite ==
  /\ IsFiniteSet(Lockers) /\ Cardinality(Lockers) \in Nat
  /\ IsFiniteSet(Lockers') /\ Cardinality(Lockers') \in Nat
<1>1. Lockers \subseteq Worker /\ Lockers' \subseteq Worker
  BY DEF Lockers
<1> QED BY <1>1, WorkerAssumption, FS_Subset, FS_CardinalityType

\* What NoLostWakeup needs to be inductive: the queue is finite.
WakeupInv == IsFiniteSet(tasks) /\ NoLostWakeup

\* Waking a worker adds one to the workers on their way to the queue.
LEMMA WakeAddsLocker ==
  ASSUME TypeOK, NEW w \in Worker, pc[w] # "lock", pc' = [pc EXCEPT ![w] = "lock"]
  PROVE  Cardinality(Lockers') = Cardinality(Lockers) + 1 /\ Waiting' \subseteq Waiting
<1>1. Lockers' = Lockers \cup {w} /\ w \notin Lockers
  BY DEF TypeOK, Lockers
<1>2. Waiting' \subseteq Waiting
  BY DEF TypeOK, Waiting
<1> QED BY <1>1, <1>2, WorkersFinite, FS_AddElement

\* No wakeup is lost (threadPool.h:86-94): see NoLostWakeup.
THEOREM NoWakeupIsLost == Spec => []NoLostWakeup
<1>1. Init => WakeupInv
  BY FS_EmptySet DEF Init, WakeupInv, NoLostWakeup, Waiting
<1>2. TypeOK /\ WakeupInv /\ [Next]_vars => WakeupInv'
  <2> SUFFICES ASSUME TypeOK, WakeupInv, [Next]_vars PROVE WakeupInv'
    OBVIOUS
  <2> USE DEF WakeupInv
  <2> DEFINE owed == IF caller = "notify" THEN 1 ELSE 0
  <2>0. /\ Cardinality(tasks) \in Nat
        /\ Cardinality(Lockers) \in Nat /\ Cardinality(Lockers') \in Nat
    BY FS_CardinalityType, WorkersFinite
  <2>1. ASSUME NEW p \in Priority, NEW o \in Order, Enqueue(p, o) PROVE WakeupInv'
    <3>0. PICK n : tasks' = tasks \cup {n}
      BY <2>1 DEF Enqueue
    <3>1. IsFiniteSet(tasks') /\ Cardinality(tasks') <= Cardinality(tasks) + 1
      BY <2>0, <3>0, FS_AddElement
    <3>2. Cardinality(tasks') \in Nat
      BY <3>1, FS_CardinalityType
    <3>3. Waiting' = Waiting /\ Lockers' = Lockers /\ caller = "idle" /\ caller' = "notify"
      BY <2>1 DEF Enqueue, Waiting, Lockers
    <3> QED BY <2>0, <3>1, <3>2, <3>3 DEF NoLostWakeup
  <2>2. CASE Stop \/ Join \/ UNCHANGED vars
    BY <2>2 DEF Stop, Join, vars, NoLostWakeup, Waiting, Lockers
  <2>3. CASE NotifyOne
    <3>1. tasks' = tasks /\ caller = "notify" /\ caller' = "idle"
      BY <2>3 DEF NotifyOne
    <3>2. CASE Waiting = {}
      <4>1. Waiting' = {} BY <2>3, <3>2 DEF NotifyOne, Waiting
      <4> QED BY <3>1, <4>1 DEF NoLostWakeup
    <3>3. CASE Waiting # {}
      <4>1. PICK w \in Waiting : pc' = [pc EXCEPT ![w] = "lock"]
        BY <2>3, <3>3 DEF NotifyOne
      <4>2. w \in Worker /\ pc[w] # "lock"
        BY DEF Waiting
      <4>3. Cardinality(Lockers') = Cardinality(Lockers) + 1
        BY <4>1, <4>2, WakeAddsLocker
      <4> QED BY <2>0, <3>1, <3>3, <4>3 DEF NoLostWakeup
    <3> QED BY <3>2, <3>3
  <2>4. CASE NotifyAll
    <3>1. Waiting' = {}
      BY <2>4 DEF NotifyAll, Waiting, TypeOK
    <3> QED BY <2>4, <3>1 DEF NotifyAll, NoLostWakeup
  <2>5. ASSUME NEW w \in Worker, WorkerTake(w) PROVE WakeupInv'
    <3>1. PICK t \in tasks : tasks' = tasks \ {t}
      BY <2>5 DEF WorkerTake, Tops
    <3>2. IsFiniteSet(tasks') /\ Cardinality(tasks') = Cardinality(tasks) - 1
      BY <3>1, FS_RemoveElement
    <3>3. Lockers' = Lockers \ {w} /\ w \in Lockers
      BY <2>5 DEF WorkerTake, Lockers, TypeOK
    <3>4. Cardinality(Lockers') = Cardinality(Lockers) - 1
      BY <3>3, WorkersFinite, FS_RemoveElement
    <3>5. Waiting' = Waiting /\ caller' = caller
      BY <2>5 DEF WorkerTake, Waiting, TypeOK
    <3> QED BY <2>0, <3>2, <3>4, <3>5 DEF NoLostWakeup
  <2>6. ASSUME NEW w \in Worker, RunTask(w) \/ SpuriousWake(w) PROVE WakeupInv'
    <3>1. /\ pc[w] # "lock" /\ pc' = [pc EXCEPT ![w] = "lock"]
          /\ tasks' = tasks /\ caller' = caller
      BY <2>6 DEF RunTask, SpuriousWake
    <3>2. Cardinality(Lockers') = Cardinality(Lockers) + 1 /\ Waiting' \subseteq Waiting
      BY <3>1, WakeAddsLocker
    <3> QED BY <2>0, <3>1, <3>2 DEF NoLostWakeup
  <2>7. ASSUME NEW w \in Worker, WorkerWait(w) \/ WorkerExit(w) PROVE WakeupInv'
    <3>1. tasks = {} /\ tasks' = {}
      BY <2>7 DEF WorkerWait, WorkerExit
    <3> QED BY <2>0, <3>1, FS_EmptySet DEF NoLostWakeup
  <2> QED BY <2>1, <2>2, <2>3, <2>4, <2>5, <2>6, <2>7
          DEF Next, CallerStep, WorkerStep, Terminated
<1>3. WakeupInv => NoLostWakeup
  BY DEF WakeupInv
<1> QED BY <1>1, <1>2, <1>3, TypeCorrect, PTL DEF Spec
----------------------------------------------------------------------------
\* The workers that run a task.
Busy == {w \in Worker : slot[w] # NoTask}
Ids(S) == {t.id : t \in S}

\* Every task is in one place: ids are unique, and queue, slots and history disjoint.
Placed ==
  /\ \A t \in tasks \cup done : t.id \in 1..submitted
  /\ \A w \in Busy : slot[w].id \in 1..submitted
  /\ tasks \cap done = {}
  /\ \A w \in Busy : slot[w] \notin tasks \cup done
  /\ \A v, w \in Busy : slot[v] = slot[w] => v = w

\* The sets whose sizes NoTaskLost adds up are finite.
Finite == IsFiniteSet(tasks) /\ IsFiniteSet(done)

\* A stopped queue that has let a worker go stays empty; stop is set once.
Drained == /\ stop <=> caller \in {"stopping", "joining", "joined"}
           /\ \A w \in Worker : pc[w] = "exited" => stop /\ tasks = {}
           /\ caller = "joined" => \A w \in Worker : pc[w] = "exited"

PlaceInv == Placed /\ Finite /\ NoTaskLost /\ Drained

LEMMA BusyFinite == IsFiniteSet(Busy) /\ Cardinality(Busy) \in Nat
<1>1. Busy \subseteq Worker
  BY DEF Busy
<1> QED BY <1>1, WorkerAssumption, FS_Subset, FS_CardinalityType

\* A step that moves no task keeps the places and the counts.
LEMMA UnmovedPlaces ==
  ASSUME Placed, Finite, NoTaskLost, UNCHANGED <<tasks, slot, submitted, done>>
  PROVE  Placed' /\ Finite' /\ NoTaskLost'
BY DEF Placed, Finite, NoTaskLost, Busy

\* enqueue puts a task with a new id into the queue.
LEMMA EnqueuePlaces ==
  ASSUME TypeOK, PlaceInv, NEW p \in Priority, NEW o \in Order, Enqueue(p, o)
  PROVE  Placed' /\ Finite' /\ NoTaskLost'
<1> DEFINE n == [priority |-> p, order |-> o, id |-> submitted + 1]
<1> USE DEF PlaceInv
<1>1. /\ tasks' = tasks \cup {n} /\ n.id = submitted + 1
      /\ submitted \in Nat /\ submitted' = submitted + 1
      /\ done' = done /\ slot' = slot
  BY MaxTasksAssumption DEF Enqueue, TypeOK
<1>2. n \notin tasks \cup done /\ \A w \in Busy : slot[w] # n
  BY <1>1 DEF Placed
<1>3. Busy' = Busy
  BY <1>1 DEF Busy
<1> HIDE DEF n
<1>4. Placed'
  BY <1>1, <1>2, <1>3 DEF Placed
<1>5. Finite' /\ Cardinality(tasks') = Cardinality(tasks) + 1
  BY <1>1, <1>2, FS_AddElement DEF Finite
<1>6. Ids(tasks') \cup {slot[w].id : w \in Busy} \cup Ids(done) = 1..submitted'
  <2>1. Ids(tasks') = Ids(tasks) \cup {submitted + 1}
    BY <1>1 DEF Ids
  <2>2. Ids(tasks) \cup {slot[w].id : w \in Busy} \cup Ids(done) = 1..submitted
    BY DEF NoTaskLost, Busy, Ids
  <2>3. 1..submitted' = (1..submitted) \cup {submitted + 1}
    BY <1>1
  <2> QED BY <2>1, <2>2, <2>3
<1>7. Cardinality(tasks') + Cardinality(Busy') + Cardinality(done') = submitted'
  <2>1. Cardinality(tasks) \in Nat /\ Cardinality(done) \in Nat
    BY FS_CardinalityType DEF Finite
  <2>2. Cardinality(tasks) + Cardinality(Busy) + Cardinality(done) = submitted
    BY DEF NoTaskLost, Busy
  <2> QED BY <1>1, <1>3, <1>5, <2>1, <2>2, BusyFinite
<1> QED BY <1>1, <1>3, <1>4, <1>5, <1>6, <1>7 DEF NoTaskLost, Busy, Ids

\* A worker takes a task: it moves from the queue to a free slot.
LEMMA TakePlaces ==
  ASSUME TypeOK, PlaceInv, NEW w \in Worker, WorkerTake(w)
  PROVE  Placed' /\ Finite' /\ NoTaskLost'
<1> USE DEF PlaceInv
<1>1. PICK t \in tasks : slot' = [slot EXCEPT ![w] = t] /\ tasks' = tasks \ {t}
  BY DEF WorkerTake, Tops
<1>2. /\ w \notin Busy /\ t # NoTask /\ submitted' = submitted /\ done' = done
      /\ submitted \in Nat
  BY NoTaskAssumption, MaxTasksAssumption DEF WorkerTake, TypeOK, Busy
<1>3. /\ Busy' = Busy \cup {w} /\ slot'[w] = t
      /\ \A v \in Busy : v # w /\ slot'[v] = slot[v]
  BY <1>1, <1>2 DEF Busy, TypeOK
<1>4. Placed'
  BY <1>1, <1>2, <1>3 DEF Placed
<1>5. Finite' /\ Cardinality(tasks') = Cardinality(tasks) - 1
  BY <1>1, <1>2, FS_RemoveElement DEF Finite
<1>6. Cardinality(Busy') = Cardinality(Busy) + 1
  BY <1>2, <1>3, BusyFinite, FS_AddElement
<1>7. Ids(tasks') \cup {slot'[v].id : v \in Busy'} \cup Ids(done) = 1..submitted
  <2>1. Ids(tasks') \cup {t.id} = Ids(tasks)
    BY <1>1 DEF Ids
  <2>2. {slot'[v].id : v \in Busy'} = {slot[v].id : v \in Busy} \cup {t.id}
    BY <1>3
  <2>3. Ids(tasks) \cup {slot[v].id : v \in Busy} \cup Ids(done) = 1..submitted
    BY DEF NoTaskLost, Busy, Ids
  <2> QED BY <2>1, <2>2, <2>3
<1>8. Cardinality(tasks') + Cardinality(Busy') + Cardinality(done') = submitted'
  <2>1. Cardinality(tasks) \in Nat /\ Cardinality(done) \in Nat
    BY FS_CardinalityType DEF Finite
  <2>2. Cardinality(tasks) + Cardinality(Busy) + Cardinality(done) = submitted
    BY DEF NoTaskLost, Busy
  <2> QED BY <1>2, <1>5, <1>6, <2>1, <2>2, BusyFinite
<1> QED BY <1>2, <1>4, <1>5, <1>7, <1>8 DEF NoTaskLost, Busy, Ids

\* A task returns: it moves from its slot to the history.
LEMMA RunPlaces ==
  ASSUME TypeOK, PlaceInv, NEW w \in Worker, RunTask(w)
  PROVE  Placed' /\ Finite' /\ NoTaskLost'
<1> USE DEF PlaceInv
<1> DEFINE t == slot[w]
<1>1. /\ w \in Busy /\ done' = done \cup {t} /\ tasks' = tasks /\ submitted' = submitted
      /\ submitted \in Nat
  BY MaxTasksAssumption DEF RunTask, TypeOK, Busy
<1>2. Busy' = Busy \ {w} /\ \A v \in Busy' : slot'[v] = slot[v] /\ slot[v] # t
  BY <1>1 DEF RunTask, Busy, TypeOK, Placed
<1>3. t \notin done /\ t \notin tasks /\ t.id \in 1..submitted
  BY <1>1 DEF Placed
<1>4. Placed'
  BY <1>1, <1>2, <1>3 DEF Placed
<1>5. Finite' /\ Cardinality(done') = Cardinality(done) + 1
  BY <1>1, <1>3, FS_AddElement DEF Finite
<1>6. Cardinality(Busy') = Cardinality(Busy) - 1
  BY <1>1, <1>2, BusyFinite, FS_RemoveElement
<1>7. Ids(tasks) \cup {slot'[v].id : v \in Busy'} \cup Ids(done') = 1..submitted
  <2>1. Ids(done') = Ids(done) \cup {t.id}
    BY <1>1 DEF Ids
  <2>2. {slot'[v].id : v \in Busy'} \cup {t.id} = {slot[v].id : v \in Busy}
    BY <1>1, <1>2
  <2>3. Ids(tasks) \cup {slot[v].id : v \in Busy} \cup Ids(done) = 1..submitted
    BY DEF NoTaskLost, Busy, Ids
  <2> QED BY <2>1, <2>2, <2>3
<1>8. Cardinality(tasks') + Cardinality(Busy') + Cardinality(done') = submitted'
  <2>1. Cardinality(tasks) \in Nat /\ Cardinality(done) \in Nat
    BY FS_CardinalityType DEF Finite
  <2>2. Cardinality(tasks) + Cardinality(Busy) + Cardinality(done) = submitted
    BY DEF NoTaskLost, Busy
  <2> QED BY <1>1, <1>5, <1>6, <2>1, <2>2, BusyFinite
<1> QED BY <1>1, <1>4, <1>5, <1>7, <1>8 DEF NoTaskLost, Busy, Ids

\* The places hold initially and every step keeps them.
LEMMA PlaceInvariant == Spec => []PlaceInv
<1>1. Init => PlaceInv
  <2> SUFFICES ASSUME Init PROVE PlaceInv
    OBVIOUS
  <2> USE DEF Init
  <2>1. Busy = {} /\ tasks = {} /\ done = {} /\ submitted = 0
    BY DEF Busy
  <2>2. Placed /\ Drained
    BY <2>1 DEF Placed, Drained
  <2>3. Finite /\ Cardinality(tasks) = 0 /\ Cardinality(Busy) = 0 /\ Cardinality(done) = 0
    BY <2>1, FS_EmptySet DEF Finite
  <2>4. Ids(tasks) \cup {slot[w].id : w \in Busy} \cup Ids(done) = 1..submitted
    BY <2>1 DEF Ids
  <2> QED BY <2>1, <2>2, <2>3, <2>4 DEF PlaceInv, NoTaskLost, Busy, Ids
<1>2. TypeOK /\ PlaceInv /\ [Next]_vars => PlaceInv'
  <2> SUFFICES ASSUME TypeOK, PlaceInv, [Next]_vars PROVE PlaceInv'
    OBVIOUS
  <2>1. Drained'
    <3> USE DEF PlaceInv, Drained, TypeOK
    <3>1. ASSUME NEW p \in Priority, NEW o \in Order, Enqueue(p, o) PROVE Drained'
      BY <3>1 DEF Enqueue
    <3>2. CASE Stop BY <3>2 DEF Stop
    <3>3. CASE NotifyOne BY <3>3 DEF NotifyOne, Waiting
    <3>4. CASE NotifyAll BY <3>4 DEF NotifyAll, Waiting
    <3>5. CASE Join BY <3>5 DEF Join
    <3>6. ASSUME NEW w \in Worker, WorkerTake(w) PROVE Drained'
      BY <3>6 DEF WorkerTake, Tops
    <3>7. ASSUME NEW w \in Worker, RunTask(w) PROVE Drained'
      BY <3>7 DEF RunTask
    <3>8. ASSUME NEW w \in Worker, WorkerExit(w) \/ WorkerWait(w) \/ SpuriousWake(w)
          PROVE Drained'
      BY <3>8 DEF WorkerExit, WorkerWait, SpuriousWake
    <3>9. CASE UNCHANGED vars BY <3>9 DEF vars
    <3> QED BY <3>1, <3>2, <3>3, <3>4, <3>5, <3>6, <3>7, <3>8, <3>9
            DEF Next, CallerStep, WorkerStep, Terminated
  <2>2. Placed' /\ Finite' /\ NoTaskLost'
    <3>1. ASSUME NEW p \in Priority, NEW o \in Order, Enqueue(p, o)
          PROVE Placed' /\ Finite' /\ NoTaskLost'
      BY <3>1, EnqueuePlaces
    <3>2. ASSUME NEW w \in Worker, WorkerTake(w)
          PROVE Placed' /\ Finite' /\ NoTaskLost'
      BY <3>2, TakePlaces
    <3>3. ASSUME NEW w \in Worker, RunTask(w)
          PROVE Placed' /\ Finite' /\ NoTaskLost'
      BY <3>3, RunPlaces
    <3>4. ASSUME \/ Stop \/ NotifyOne \/ NotifyAll \/ Join \/ UNCHANGED vars
                 \/ \E w \in Worker : WorkerExit(w) \/ WorkerWait(w) \/ SpuriousWake(w)
          PROVE Placed' /\ Finite' /\ NoTaskLost'
      <4>1. UNCHANGED <<tasks, slot, submitted, done>>
        BY <3>4 DEF Stop, NotifyOne, NotifyAll, Join, vars, WorkerExit, WorkerWait, SpuriousWake
      <4> QED BY <4>1, UnmovedPlaces DEF PlaceInv
    <3> QED BY <3>1, <3>2, <3>3, <3>4 DEF Next, CallerStep, WorkerStep, Terminated
  <2> QED BY <2>1, <2>2 DEF PlaceInv
<1> QED BY <1>1, <1>2, TypeCorrect, PTL DEF Spec

\* Each task enqueued is queued, run by one worker, or done: see NoTaskLost.
THEOREM NoTaskIsLost == Spec => []NoTaskLost
BY PlaceInvariant, PTL DEF PlaceInv

\* ~threadPool returns only when every task has been run (threadPool.h:61-62, 106-107).
THEOREM JoinDrains == Spec => []JoinedMeansDrained
<1>1. TypeOK /\ PlaceInv => JoinedMeansDrained
  <2> SUFFICES ASSUME TypeOK, PlaceInv, caller = "joined"
               PROVE  Cardinality(done) = submitted
    BY DEF JoinedMeansDrained
  <2>1. tasks = {} /\ Busy = {}
    BY WorkerAssumption DEF PlaceInv, Drained, TypeOK, Busy
  <2>2. Cardinality(tasks) = 0 /\ Cardinality(Busy) = 0 /\ Cardinality(done) \in Nat
    BY <2>1, FS_EmptySet, FS_CardinalityType DEF PlaceInv, Finite
  <2> QED BY <2>2 DEF PlaceInv, NoTaskLost, Busy
<1> QED BY <1>1, PlaceInvariant, TypeCorrect, PTL

\* No worker sleeps behind the destructor's notification: see NoSleepAfterStop.
THEOREM StopWakesAll == Spec => []NoSleepAfterStop
<1>1. Init => NoSleepAfterStop
  BY DEF Init, NoSleepAfterStop
<1>2. TypeOK /\ PlaceInv /\ NoSleepAfterStop /\ [Next]_vars => NoSleepAfterStop'
  <2> SUFFICES ASSUME TypeOK, Drained, NoSleepAfterStop, [Next]_vars,
                      caller' \in {"joining", "joined"}, NEW v \in Worker
               PROVE  pc'[v] # "waiting"
    BY DEF PlaceInv, NoSleepAfterStop, Waiting
  <2> USE DEF NoSleepAfterStop, Drained, TypeOK, Waiting
  <2>1. ASSUME NEW p \in Priority, NEW o \in Order, Enqueue(p, o) PROVE pc'[v] # "waiting"
    BY <2>1 DEF Enqueue
  <2>2. CASE Stop \/ NotifyOne BY <2>2 DEF Stop, NotifyOne
  <2>3. CASE NotifyAll BY <2>3 DEF NotifyAll
  <2>4. CASE Join BY <2>4 DEF Join
  <2>5. ASSUME NEW w \in Worker, WorkerStep(w) \/ WorkerWait(w) \/ SpuriousWake(w)
        PROVE pc'[v] # "waiting"
    BY <2>5 DEF WorkerStep, WorkerTake, WorkerExit, RunTask, WorkerWait, SpuriousWake
  <2>6. CASE UNCHANGED vars BY <2>6 DEF vars
  <2> QED BY <2>1, <2>2, <2>3, <2>4, <2>5, <2>6 DEF Next, CallerStep, Terminated
<1> QED BY <1>1, <1>2, PlaceInvariant, TypeCorrect, PTL DEF Spec
----------------------------------------------------------------------------
\* The states of the pool are states of the abstract pool.
LEMMA InitAbstract == Init => Abstract!Init
BY DEF Init, Abstract!Init

\* enqueue submits a task that is not queued yet; the destructor closes the pool.
LEMMA CallerRefines ==
  ASSUME TypeOK, PlaceInv,
         Stop \/ \E p \in Priority, o \in Order : Enqueue(p, o)
  PROVE  Abstract!Next
<1>1. CASE Stop
  <2>1. ~stop /\ stop'
    BY <1>1 DEF Stop, PlaceInv, Drained, TypeOK
  <2>2. {w \in Worker : pc'[w] # "exited"} = {w \in Worker : pc[w] # "exited"}
    BY <1>1 DEF Stop
  <2>3. Abstract!Close
    BY <1>1, <2>1, <2>2 DEF Stop, Abstract!Close
  <2> QED BY <2>3 DEF Abstract!Next
<1>2. ASSUME NEW p \in Priority, NEW o \in Order, Enqueue(p, o) PROVE Abstract!Next
  <2> DEFINE n == [priority |-> p, order |-> o, id |-> submitted + 1]
  <2>1. n \in Task
    BY <1>2, MaxTasksAssumption DEF Enqueue, TypeOK, Task
  <2>2. n \notin tasks
    BY <1>2, MaxTasksAssumption DEF Enqueue, TypeOK, PlaceInv, Placed
  <2>3. Abstract!Submit(n)
    BY <1>2, <2>2 DEF Enqueue, Abstract!Submit
  <2> QED BY <2>1, <2>3 DEF Abstract!Next
<1> QED BY <1>1, <1>2

\* A worker's step that takes, returns from a task or leaves is the abstract one.
LEMMA WorkerRefines ==
  ASSUME TypeOK, NEW w \in Worker, WorkerStep(w)
  PROVE  Abstract!Next
<1> DEFINE staff == {v \in Worker : pc[v] # "exited"}
<1>1. CASE WorkerTake(w)
  <2>1. w \in staff /\ slot[w] = NoTask
    BY <1>1 DEF WorkerTake, TypeOK
  <2>2. staff' = staff
    BY <1>1 DEF WorkerTake, TypeOK
  <2>3. Abstract!Take(w)
    BY <1>1, <2>1, <2>2
       DEF WorkerTake, Abstract!Take, Tops, Lower, Abstract!Tops, Abstract!Lower
  <2> QED BY <2>3 DEF Abstract!Next
<1>2. CASE RunTask(w)
  <2>1. slot[w] # NoTask
    BY <1>2 DEF RunTask, TypeOK
  <2>2. staff' = staff
    BY <1>2 DEF RunTask, TypeOK
  <2>3. Abstract!Complete(w)
    BY <1>2, <2>1, <2>2 DEF RunTask, Abstract!Complete
  <2> QED BY <2>3 DEF Abstract!Next
<1>3. CASE WorkerExit(w)
  <2>1. w \in staff /\ slot[w] = NoTask
    BY <1>3 DEF WorkerExit, TypeOK
  <2>2. staff' = staff \ {w}
    BY <1>3 DEF WorkerExit, TypeOK
  <2>3. Abstract!Leave(w)
    BY <1>3, <2>1, <2>2 DEF WorkerExit, Abstract!Leave
  <2> QED BY <2>3 DEF Abstract!Next
<1> QED BY <1>1, <1>2, <1>3 DEF WorkerStep

\* Notifications, sleeping and waking up change nothing the abstract pool shows.
LEMMA RestStutters ==
  ASSUME TypeOK,
         \/ NotifyOne \/ NotifyAll \/ Join \/ UNCHANGED vars
         \/ \E w \in Worker : WorkerWait(w) \/ SpuriousWake(w)
  PROVE  UNCHANGED Abstract!vars
<1> DEFINE staff == {v \in Worker : pc[v] # "exited"}
<1>1. UNCHANGED <<tasks, stop, slot>>
  BY DEF NotifyOne, NotifyAll, Join, vars, WorkerWait, SpuriousWake
<1>2. staff' = staff
  <2>1. CASE NotifyOne
    BY <2>1 DEF NotifyOne, Waiting, TypeOK
  <2>2. CASE NotifyAll
    BY <2>2 DEF NotifyAll, Waiting, TypeOK
  <2>3. CASE Join \/ UNCHANGED vars
    BY <2>3 DEF Join, vars
  <2>4. ASSUME NEW w \in Worker, WorkerWait(w) \/ SpuriousWake(w) PROVE staff' = staff
    BY <2>4 DEF WorkerWait, SpuriousWake, TypeOK
  <2> QED BY <2>1, <2>2, <2>3, <2>4
<1> QED BY <1>1, <1>2 DEF Abstract!vars

\* The pool, with its mutex and its late notifications, is the abstract pool: the
\* steps of PoolSpec, without its fairness.
THEOREM PoolImplemented == Spec => Abstract!Init /\ [][Abstract!Next]_(Abstract!vars)
<1>1. TypeOK /\ PlaceInv /\ [Next]_vars => [Abstract!Next]_(Abstract!vars)
  BY CallerRefines, WorkerRefines, RestStutters DEF Next, CallerStep, WorkerStep, Terminated
<1> QED BY <1>1, InitAbstract, TypeCorrect, PlaceInvariant, PTL DEF Spec
=============================================================================
