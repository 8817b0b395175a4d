-------------------------- MODULE MakeAsistProofs --------------------------
(***************************************************************************)
(* For any directives, any length of the file and any number of workers.   *)
(* The invariant, Core, is built in layers: types; the tree of contexts;   *)
(* where each task is; the job counters; the shelves; which dictionaries   *)
(* are ready.  The layers are preserved with the help of one another.      *)
(* What tasks wait for, and what the output says, take further layers on   *)
(* top of Core, one section each; the last one is that every shelf, every  *)
(* line of a make block and every text is what the file read so far means. *)
(***************************************************************************)
EXTENDS MakeAsist, DictShelfProofs

Names == {d.name : d \in Directive} \ {NoName}

\* The tasks that still have, or will forever have, a job counted.
All == Pending \cup lost
Of(c) == {t \in All : Owner(t) = c}

\* A set of contexts with the parent of each.
Closed(S) == \A j \in S : j # Root => home[j] \in S

\* The dictionaries defined in context c or around it.
Visible(c) == {d \in Read : \A S \in SUBSET Id : c \in S /\ Closed(S) => home[d] \in S}

\* The context a shelf belongs to: its own, or that of the make block.
Place(k) == IF k \in Read /\ script[k].op # "context" THEN home[k] ELSE k
----------------------------------------------------------------------------
\* Types.  TypeOK says more: a counter is not negative.
MainType ==
  /\ script \in Seq(Directive) /\ Len(script) <= MaxDirectives
  /\ home \in [Id -> Id]
  /\ pc \in {"read", "unwind", "delete", "deleted", "done", "abort"}
  /\ signal \in {"untested", "clear", "end", "syntax", "stray", "error"}
  /\ current \in Id /\ s \in Seq(Id) /\ dtor \in Seq(Id)
  /\ order \in Nat
  /\ held \in Task \cup {NoTask}
  /\ error \in BOOLEAN
  /\ live \subseteq Id /\ ready \subseteq Id
  /\ jobs \in [Id -> Int]
  /\ DOMAIN rpd = Id /\ DOMAIN rnd = Id

PoolType ==
  /\ queue \subseteq Task /\ lost \subseteq Task
  /\ slot \in [Worker -> Task \cup {NoTask}]
  /\ step \in [Worker -> {"idle", "start", "match", "full", "finish", "dec"}]
  /\ \A w \in Worker : step[w] = "idle" <=> slot[w] = NoTask
  /\ word \in [Worker -> Nat] /\ at \in [Worker -> Nat]

\* The shelves, and the positions a scan can start at.
ShelfType == \A k \in Id : Len(rpd[k].entry) \in Nat /\ Len(rnd[k].entry) \in Nat

LEMMA IdFacts ==
  /\ Root \in Id /\ IsFiniteSet(Id) /\ Id \subseteq Nat
  /\ \A n \in Nat : n <= MaxDirectives => n \in Id
  /\ {FINISH, USE_DICT, MAKE_DICT} = {0, 1, 2}
BY MaxDirectivesAssumption, FS_Interval DEF Id, Root, FINISH, USE_DICT, MAKE_DICT

\* The directive about to be read has a name of its own.
LEMMA NewFacts ==
  ASSUME MainType, NEW d \in Directive, Reads(d)
  PROVE  /\ New \in Id /\ New = Len(script) + 1 /\ Len(script) \in Nat /\ New # Root
         /\ script' \in Seq(Directive) /\ Len(script') = New /\ Len(script') <= MaxDirectives
         /\ \A k \in Read : script'[k] = script[k]
         /\ script'[New] = d
         /\ home' \in [Id -> Id] /\ home'[New] = current
         /\ \A k \in Id : k # New => home'[k] = home[k]
         /\ held = NoTask /\ pc = "read" /\ signal' = "untested"
<1>1. Len(script) \in Nat /\ Len(script) < MaxDirectives /\ script' = Append(script, d)
      /\ home' = [home EXCEPT ![New] = current] /\ held = NoTask /\ pc = "read"
      /\ signal' = "untested"
  BY DEF MainType, Reads, Reading
<1>2. New \in Id /\ New = Len(script) + 1 /\ New # Root
  BY <1>1, MaxDirectivesAssumption DEF New, Id, Root
<1>3. /\ script' \in Seq(Directive) /\ Len(script') = New
      /\ \A k \in Read : script'[k] = script[k]
      /\ script'[New] = d
  BY <1>1, <1>2, PushFacts DEF MainType, Read
<1>4. home' \in [Id -> Id] /\ home'[New] = current /\ \A k \in Id : k # New => home'[k] = home[k]
  BY <1>1, <1>2 DEF MainType
<1>5. New <= MaxDirectives
  BY <1>1, <1>2, MaxDirectivesAssumption
<1> QED BY <1>1, <1>2, <1>3, <1>4, <1>5

LEMMA ReadFacts ==
  ASSUME MainType, NEW d \in Directive, Reads(d)
  PROVE  Read' = Read \cup {New} /\ New \notin Read /\ Read \subseteq Id /\ Root \notin Read
<1> DEFINE n == Len(script)
<1>1. n \in Nat /\ New = n + 1 /\ Len(script') = n + 1 /\ n <= MaxDirectives
  BY NewFacts DEF MainType
<1>2. Read = 1..n /\ Read' = 1..n + 1
  BY <1>1 DEF Read
<1> HIDE DEF n
<1>3. 1..n + 1 = (1..n) \cup {n + 1} /\ n + 1 \notin 1..n /\ 0 \notin 1..n
  BY <1>1
<1>4. 1..n \subseteq 0..MaxDirectives
  BY <1>1, MaxDirectivesAssumption
<1> QED BY <1>1, <1>2, <1>3, <1>4 DEF Id, Root

LEMMA SubmitsFacts ==
  ASSUME MainType, NEW p \in {FINISH, USE_DICT, MAKE_DICT}, NEW k \in Id, NEW c \in Id,
         Submits(p, k, c)
  PROVE  /\ held' \in Task /\ held'.priority = p /\ held'.id = k /\ held'.order = order
         /\ order' = order + 1 /\ order' \in Nat
         /\ jobs' \in [Id -> Int] /\ jobs'[c] = jobs[c] + 1
         /\ \A e \in Id : e # c => jobs'[e] = jobs[e]
BY DEF MainType, Submits, Task

LEMMA DecFacts ==
  ASSUME NEW f \in [Id -> Int], NEW c
  PROVE  /\ [f EXCEPT ![c] = @ - 1] \in [Id -> Int]
         /\ c \in Id => [f EXCEPT ![c] = @ - 1][c] = f[c] - 1
         /\ \A e \in Id : e # c => [f EXCEPT ![c] = @ - 1][e] = f[e]
<1>1. CASE c \in Id
  BY <1>1
<1>2. CASE c \notin Id
  <2>1. [f EXCEPT ![c] = @ - 1] = f
    BY <1>2
  <2> QED BY <1>2, <2>1
<1> QED BY <1>1, <1>2

LEMMA ReadStep ==
  ASSUME MainType, NEW d \in Directive, ReadDirective(d)
  PROVE  MainType' /\ Reads(d)
<1> USE NewFacts, IdFacts DEF MainType
<1>0. ASSUME NEW p \in {FINISH, USE_DICT, MAKE_DICT}, Reads(d), Submits(p, New, current),
             UNCHANGED <<pc, current, s, dtor, error, live, ready>>, DOMAIN rpd' = Id, DOMAIN rnd' = Id
      PROVE  MainType'
  <2>1. held' \in Task /\ order' \in Nat /\ jobs' \in [Id -> Int]
    BY <1>0, SubmitsFacts
  <2> QED BY <1>0, <2>1
<1>1. CASE Defdir(d) BY <1>0, <1>1 DEF Defdir
<1>2. CASE Noextend(d) BY <1>0, <1>2 DEF Noextend
<1>3. CASE Raw(d) BY <1>0, <1>3 DEF Raw
<1>4. CASE Make(d) BY <1>0, <1>4 DEF Make
<1>5. CASE Undefdir(d) BY <1>5 DEF Undefdir
<1>6. CASE Unnoextend(d) BY <1>6 DEF Unnoextend
<1>7. CASE NewContext(d)
  <2>1. Reads(d) /\ s' = Append(s, current) /\ current' = New /\ live' = live \cup {New}
    BY <1>7 DEF NewContext
  <2>2. s' \in Seq(Id)
    BY <2>1
  <2>3. jobs' \in [Id -> Int] /\ DOMAIN rpd' = Id /\ DOMAIN rnd' = Id
    BY <1>7 DEF NewContext
  <2> QED BY <1>7, <2>1, <2>2, <2>3 DEF NewContext
<1> QED BY <1>1, <1>2, <1>3, <1>4, <1>5, <1>6, <1>7 DEF ReadDirective

LEMMA MainTypeStep ==
  ASSUME MainType, PoolType, [Next]_vars
  PROVE  MainType'
<1> USE DEF MainType
<1>1. CASE \E d \in Directive : ReadDirective(d)
  BY <1>1, ReadStep
<1>2. ASSUME EndsCurrent, UNCHANGED pc, signal' \in {signal, "untested"} PROVE MainType'
  <2>1. Last(s) \in Id /\ Front(s) \in Seq(Id)
    BY <1>2, TopFacts, FrontFacts DEF EndsCurrent
  <2>2. held' \in Task /\ order' \in Nat /\ jobs' \in [Id -> Int]
    BY <1>2, SubmitsFacts, IdFacts DEF EndsCurrent
  <2> QED BY <1>2, <2>1, <2>2 DEF EndsCurrent
<1>3. CASE EndContext \/ Unwind
  BY <1>2, <1>3 DEF EndContext, Unwind
<1>4. CASE Test \/ BadCommand \/ Stray \/ EofAborts
  BY <1>4 DEF Test, BadCommand, Stray, EofAborts, heapVars
<1>5. CASE Unwound \/ Eof
  <2>1. EndsRoot /\ signal' \in {signal, "end"}
    BY <1>5 DEF Unwound, Eof
  <2>2. held' \in Task /\ order' \in Nat /\ jobs' \in [Id -> Int]
    BY <2>1, SubmitsFacts, IdFacts DEF EndsRoot
  <2>3. dtor' \in Seq(Id)
    BY <2>1 DEF EndsRoot
  <2> QED BY <2>1, <2>2, <2>3 DEF EndsRoot
<1>6. CASE Enqueue
  BY <1>6 DEF Enqueue, heapVars
<1>7. CASE DeleteSub
  <2>1. PICK c \in LiveSubs(Last(dtor)) : dtor' = Append(dtor, c)
    BY <1>7 DEF DeleteSub
  <2>2. c \in Id
    BY <2>1 DEF LiveSubs
  <2>3. dtor' \in Seq(Id)
    BY <2>1, <2>2
  <2> QED BY <1>7, <2>3 DEF DeleteSub, heapVars
<1>8. CASE Destruct
  <2>1. dtor' \in Seq(Id)
    BY <1>8, TopFacts, FrontFacts DEF Destruct, Deleting
  <2>2. jobs' \in [Id -> Int]
    BY <1>8, DecFacts DEF Destruct
  <2>3. live' \subseteq Id /\ pc' \in {"deleted", pc}
    BY <1>8 DEF Destruct
  <2> QED BY <1>8, <2>1, <2>2, <2>3 DEF Destruct
<1>9. CASE WriteOutput
  BY <1>9 DEF WriteOutput, heapVars
<1>10. ASSUME NEW w \in Worker, Work(w) PROVE MainType'
  <2> USE DEF mainVars, heapVars
  <2>1. CASE Take(w) BY <2>1 DEF Take
  <2>2. CASE BuildDict(w) BY <2>2 DEF BuildDict
  <2>3. CASE BuildThrows(w) BY <2>3 DEF BuildThrows
  <2>4. CASE FinishDict(w)
    <3>1. slot[w].id \in Id
      BY <2>4 DEF FinishDict, PoolType, Task
    <3> QED BY <2>4, <3>1 DEF FinishDict
  <2>5. CASE RunRaw(w) BY <2>5 DEF RunRaw
  <2>6. CASE StartMake(w) BY <2>6 DEF StartMake
  <2>7. CASE MatchStep(w) BY <2>7 DEF MatchStep
  <2>8. CASE FullStep(w) BY <2>8 DEF FullStep
  <2>9. CASE FinishMake(w) BY <2>9 DEF FinishMake
  <2>10. CASE JoinInputs(w) BY <2>10 DEF JoinInputs
  <2>11. CASE JobsDec(w)
    <3>1. jobs' \in [Id -> Int]
      BY <2>11, DecFacts DEF JobsDec
    <3> QED BY <2>11, <3>1 DEF JobsDec
  <2> QED BY <1>10, <2>1, <2>2, <2>3, <2>4, <2>5, <2>6, <2>7, <2>8, <2>9, <2>10, <2>11 DEF Work
<1>11. CASE UNCHANGED vars
  BY <1>11 DEF vars, mainVars, heapVars
<1> QED BY <1>1, <1>3, <1>4, <1>5, <1>6, <1>7, <1>8, <1>9, <1>10, <1>11 DEF Next, Main, Terminated

\* Which steps of the main thread touch the pool.
LEMMA MainPool ==
  ASSUME Main
  PROVE  Enqueue \/ UNCHANGED poolVars
<1>1. ASSUME NEW d \in Directive, ReadDirective(d) PROVE UNCHANGED poolVars
  <2>1. CASE Defdir(d) BY <2>1 DEF Defdir
  <2>2. CASE Noextend(d) BY <2>2 DEF Noextend
  <2>3. CASE Undefdir(d) BY <2>3 DEF Undefdir
  <2>4. CASE Unnoextend(d) BY <2>4 DEF Unnoextend
  <2>5. CASE Raw(d) BY <2>5 DEF Raw
  <2>6. CASE Make(d) BY <2>6 DEF Make
  <2>7. CASE NewContext(d) BY <2>7 DEF NewContext
  <2> QED BY <1>1, <2>1, <2>2, <2>3, <2>4, <2>5, <2>6, <2>7 DEF ReadDirective
<1>2. CASE EndContext \/ Unwind
  BY <1>2 DEF EndContext, Unwind, EndsCurrent
<1>3. CASE Unwound \/ Eof
  BY <1>3 DEF Unwound, Eof, EndsRoot
<1>4. CASE Test \/ BadCommand \/ Stray \/ EofAborts
  BY <1>4 DEF Test, BadCommand, Stray, EofAborts
<1>5. CASE DeleteSub \/ Destruct \/ WriteOutput
  BY <1>5 DEF DeleteSub, Destruct, WriteOutput
<1> QED BY <1>1, <1>2, <1>3, <1>4, <1>5 DEF Main

LEMMA PoolTypeStep ==
  ASSUME MainType, PoolType, ShelfType, [Next]_vars
  PROVE  PoolType'
<1> USE NoTaskAssumption DEF PoolType
<1>1. CASE Main
  <2>1. CASE Enqueue
    BY <2>1 DEF Enqueue, MainType
  <2>2. CASE UNCHANGED poolVars
    BY <2>2 DEF poolVars
  <2> QED BY <1>1, <2>1, <2>2, MainPool
<1>2. ASSUME NEW w \in Worker, Work(w) PROVE PoolType'
  <2> USE DEF Goes, Starts
  <2>1. CASE Take(w)
    <3>1. PICK t \in Tops(queue) : slot' = [slot EXCEPT ![w] = t] /\ queue' = queue \ {t}
      BY <2>1 DEF Take
    <3>2. t \in Task /\ t # NoTask
      BY <3>1 DEF Tops
    <3> QED BY <2>1, <3>1, <3>2 DEF Take
  <2>2. CASE BuildDict(w) BY <2>2 DEF BuildDict
  <2>3. CASE BuildThrows(w)
    <3>1. slot[w] \in Task
      BY <2>3 DEF BuildThrows
    <3> QED BY <2>3, <3>1 DEF BuildThrows
  <2>4. CASE FinishDict(w) BY <2>4 DEF FinishDict
  <2>5. CASE RunRaw(w) BY <2>5 DEF RunRaw
  <2>6. CASE StartMake(w)
    <3>1. Len(rnd[slot[w].id].entry) \in Nat
      BY <2>6 DEF StartMake, Task, ShelfType
    <3> QED BY <2>6, <3>1 DEF StartMake
  <2>7. ASSUME step[w] \in {"match", "full"}, NEW prefix, Writes(w, prefix),
               UNCHANGED <<queue, slot, lost>>
        PROVE  PoolType'
    <3>1. Len(rnd[slot[w].id].entry) \in Nat
      BY <2>7 DEF Task, ShelfType
    <3>2. word[w] + 1 \in Nat
      OBVIOUS
    <3>3. at' \in [Worker -> Nat] /\ word' \in [Worker -> Nat]
      BY <2>7, <3>1, <3>2 DEF Writes
    <3> QED BY <2>7, <3>3 DEF Writes
  <2>8. ASSUME at[w] > 0, ScanOn(w), UNCHANGED <<queue, slot, lost>> PROVE PoolType'
    <3>1. at[w] - 1 \in Nat
      BY <2>8
    <3> QED BY <2>8, <3>1 DEF ScanOn
  <2>9. CASE MatchStep(w)
    <3>1. ASSUME at' = [at EXCEPT ![w] = Len(rpd[slot[w].id].entry)], Goes(w, "full"),
                 UNCHANGED <<word, line, queue, slot, lost>>, step[w] = "match"
          PROVE  PoolType'
      <4>1. Len(rpd[slot[w].id].entry) \in Nat
        BY <3>1 DEF Task, ShelfType
      <4> QED BY <3>1, <4>1
    <3> QED BY <2>9, <2>7, <2>8, <3>1 DEF MatchStep, Rejects
  <2>10. CASE FullStep(w)
    BY <2>10, <2>7, <2>8 DEF FullStep, Rejects
  <2>11. CASE FinishMake(w) BY <2>11 DEF FinishMake
  <2>12. CASE JoinInputs(w) BY <2>12 DEF JoinInputs
  <2>13. CASE JobsDec(w) BY <2>13 DEF JobsDec
  <2> QED BY <1>2, <2>1, <2>2, <2>3, <2>4, <2>5, <2>6, <2>9, <2>10, <2>11, <2>12, <2>13 DEF Work
<1>3. CASE UNCHANGED vars
  BY <1>3 DEF vars, poolVars
<1> QED BY <1>1, <1>2, <1>3 DEF Next, Terminated
----------------------------------------------------------------------------
\* What a step does to the contexts, the tasks and the counters.
treeVars == <<script, home, pc, current, s, order, held, dtor, live, jobs, queue, slot, lost>>

\* A directive that becomes a task.
ReadTask(d, p) ==
  /\ Reads(d)
  /\ Submits(p, New, current)
  /\ d.op # "context"
  /\ p = USE_DICT => d.op \in {"raw", "make"}
  /\ p = MAKE_DICT => d.op \in {"defdir", "noextend"}
  /\ UNCHANGED <<pc, current, s, dtor, live, queue, slot, lost>>

\* A directive that does not.
ReadOnly(d) ==
  /\ Reads(d)
  /\ d.op \in {"undefdir", "unnoextend"}
  /\ UNCHANGED <<pc, current, s, order, held, dtor, live, jobs, queue, slot, lost>>

EndsInner ==
  /\ EndsCurrent
  /\ pc \in {"read", "unwind"} /\ pc' = pc
  /\ held = NoTask

EndsOuter ==
  /\ EndsRoot
  /\ pc \in {"read", "unwind"}
  /\ held = NoTask

PcMoves ==
  /\ \/ pc = "read" /\ pc' \in {"read", "unwind"}
     \/ pc = "read" /\ pc' = "abort"
     \/ pc = "deleted" /\ pc' = "done"
  /\ UNCHANGED <<script, home, current, s, order, held, dtor, live, jobs, queue, slot, lost>>

LEMMA MainKinds ==
  ASSUME Main
  PROVE  /\ \/ \E d \in Directive, p \in {USE_DICT, MAKE_DICT} : ReadTask(d, p)
            \/ \E d \in Directive : ReadOnly(d) \/ NewContext(d)
            \/ EndsInner \/ EndsOuter \/ PcMoves
            \/ Enqueue \/ DeleteSub \/ Destruct
         /\ UNCHANGED <<content, ready, step>>
<1> USE DEF poolVars
<1>1. ASSUME NEW d \in Directive, ReadDirective(d)
      PROVE  /\ \/ \E p \in {USE_DICT, MAKE_DICT} : ReadTask(d, p)
                \/ ReadOnly(d) \/ NewContext(d)
             /\ UNCHANGED <<content, ready, step>>
  <2> USE DEF ReadTask, USE_DICT, MAKE_DICT
  <2>1. CASE Defdir(d)
    <3>1. ReadTask(d, MAKE_DICT) /\ UNCHANGED <<content, ready, step>>
      BY <2>1 DEF Defdir
    <3> QED BY <3>1
  <2>2. CASE Noextend(d)
    <3>1. ReadTask(d, MAKE_DICT) /\ UNCHANGED <<content, ready, step>>
      BY <2>2 DEF Noextend
    <3> QED BY <3>1
  <2>3. CASE Raw(d)
    <3>1. ReadTask(d, USE_DICT) /\ UNCHANGED <<content, ready, step>>
      BY <2>3 DEF Raw
    <3> QED BY <3>1
  <2>4. CASE Make(d)
    <3>1. ReadTask(d, USE_DICT) /\ UNCHANGED <<content, ready, step>>
      BY <2>4 DEF Make
    <3> QED BY <3>1
  <2>5. CASE Undefdir(d) BY <2>5 DEF Undefdir, ReadOnly
  <2>6. CASE Unnoextend(d) BY <2>6 DEF Unnoextend, ReadOnly
  <2>7. CASE NewContext(d) BY <2>7 DEF NewContext
  <2> QED BY <1>1, <2>1, <2>2, <2>3, <2>4, <2>5, <2>6, <2>7 DEF ReadDirective
<1>2. CASE EndContext \/ Unwind
  BY <1>2 DEF EndContext, Unwind, EndsInner, EndsCurrent, Reading
<1>3. CASE Unwound \/ Eof
  BY <1>3 DEF Unwound, Eof, EndsOuter, EndsRoot, Reading
<1>4. CASE Test \/ BadCommand \/ Stray \/ EofAborts
  BY <1>4 DEF Test, BadCommand, Stray, EofAborts, PcMoves, Reading, heapVars
<1>5. CASE WriteOutput
  BY <1>5 DEF WriteOutput, PcMoves, heapVars
<1>6. CASE Enqueue \/ DeleteSub \/ Destruct
  BY <1>6 DEF Enqueue, DeleteSub, Destruct, heapVars
<1> QED BY <1>1, <1>2, <1>3, <1>4, <1>5, <1>6 DEF Main

LEMMA StepKinds ==
  ASSUME [Next]_vars
  PROVE  \/ \E d \in Directive, p \in {USE_DICT, MAKE_DICT} : ReadTask(d, p)
         \/ \E d \in Directive : ReadOnly(d) \/ NewContext(d)
         \/ EndsInner \/ EndsOuter \/ PcMoves
         \/ Enqueue \/ DeleteSub \/ Destruct
         \/ \E w \in Worker : Take(w) \/ BuildThrows(w) \/ JobsDec(w)
         \/ UNCHANGED treeVars
<1>1. ASSUME NEW w \in Worker, Work(w)
      PROVE  Take(w) \/ BuildThrows(w) \/ JobsDec(w) \/ UNCHANGED treeVars
  <2> USE DEF treeVars, mainVars, heapVars
  <2>1. CASE BuildDict(w) BY <2>1 DEF BuildDict
  <2>2. CASE FinishDict(w) BY <2>2 DEF FinishDict
  <2>3. CASE RunRaw(w) BY <2>3 DEF RunRaw
  <2>4. CASE StartMake(w) BY <2>4 DEF StartMake
  <2>5. CASE MatchStep(w) BY <2>5 DEF MatchStep
  <2>6. CASE FullStep(w) BY <2>6 DEF FullStep
  <2>7. CASE FinishMake(w) BY <2>7 DEF FinishMake
  <2>8. CASE JoinInputs(w) BY <2>8 DEF JoinInputs
  <2> QED BY <1>1, <2>1, <2>2, <2>3, <2>4, <2>5, <2>6, <2>7, <2>8 DEF Work
<1>2. CASE UNCHANGED vars
  BY <1>2 DEF vars, mainVars, heapVars, poolVars, treeVars
<1> QED BY <1>1, <1>2, MainKinds DEF Next, Terminated
----------------------------------------------------------------------------
\* The layers of the invariant.

\* Contexts: the reader works in live ones, a live context has a live parent, the
\* destructor calls go down the tree, and nothing is left after them.
TreeInv ==
  /\ live \subseteq 0..Len(script)
  /\ \A k \in Id : home[k] \in 0..Len(script)
  /\ \A k \in Read : home[k] < k
  /\ \A c \in live : c # Root => script[c].op = "context" /\ home[c] \in live
  /\ pc \in {"read", "unwind"} => current \in live /\ \A i \in 1..Len(s) : s[i] \in live
  /\ \A i \in 1..Len(dtor) : dtor[i] \in live
  /\ \A i, j \in 1..Len(dtor) : i < j => dtor[i] < dtor[j]
  /\ pc \in {"deleted", "done"} => live = {}

\* Tasks: each in one place, older than the next to come, about a directive that
\* was read, counted by a live context.
Genuine(t) ==
  /\ t.order < order
  /\ t.id \in 0..Len(script)
  /\ t.priority # FINISH => t.id \in Read
  /\ t.priority = USE_DICT => script[t.id].op \in {"raw", "make"}
  /\ t.priority = MAKE_DICT => script[t.id].op \in {"defdir", "noextend"}
  /\ Owner(t) \in live

PlaceInv ==
  /\ IsFiniteSet(queue) /\ IsFiniteSet(lost)
  /\ \A t \in All : Genuine(t)
  /\ held # NoTask => \A t \in queue \cup Running \cup lost : t.order < held.order
  /\ queue \cap lost = {}
  /\ \A w \in Worker : slot[w] \notin queue \cup lost
  /\ \A v, w \in Worker : slot[v] = slot[w] /\ slot[v] # NoTask => v = w

\* Counters: exact for live contexts, zero for all others.
CountInv ==
  /\ \A c \in live : jobs[c] = Cardinality(Of(c)) + Cardinality(LiveSubs(c))
  /\ \A c \in Id \ live : jobs[c] = 0

\* Shelves: sound, and of visible dictionaries only.
Sound(sh, k) == IsShelf(sh, Visible(Place(k)), Names) /\ IndexSound(sh)

ShelfInv ==
  \A k \in Id : /\ Sound(rpd[k], k) /\ Sound(rnd[k], k)
                /\ k > Len(script) => rpd[k] = EmptyShelf /\ rnd[k] = EmptyShelf

\* Dictionaries: each is ready or its task will make it so; one task for each.
ReadyInv ==
  /\ \A k \in Read : script[k].op \in {"defdir", "noextend"} =>
       \/ k \in ready
       \/ \E t \in All : t.priority = MAKE_DICT /\ t.id = k
  /\ \A t \in All : t.priority = MAKE_DICT =>
       (t.id \in ready <=> \E w \in Worker : slot[w] = t /\ step[w] = "dec")
  /\ \A t, u \in All : t.priority = MAKE_DICT /\ u.priority = MAKE_DICT /\ t.id = u.id => t = u
  /\ \A w \in Worker : /\ step[w] \in {"match", "full"} => slot[w].priority = USE_DICT
                       /\ step[w] = "finish" => slot[w].priority = MAKE_DICT
  /\ ready \subseteq Read
----------------------------------------------------------------------------
\* Every live context but the root hangs from the root: without subcontexts the
\* root is alone.
LEMMA OnlyRoot ==
  ASSUME MainType, TreeInv, LiveSubs(Root) = {}
  PROVE  live \subseteq {Root}
<1> SUFFICES ASSUME live \ {Root} # {} PROVE FALSE
  OBVIOUS
<1>1. live \ {Root} \subseteq Nat
  BY IdFacts DEF MainType
<1>2. PICK k \in live \ {Root} : \A j \in live \ {Root} : k <= j
  BY <1>1, Least
<1>3. k \in Nat /\ k # 0 /\ k <= Len(script) /\ Len(script) \in Nat
  BY <1>1, <1>2 DEF MainType, TreeInv, Root
<1>4. k \in Read /\ home[k] \in live /\ home[k] < k /\ script[k].op = "context"
  BY <1>2, <1>3 DEF TreeInv, Read
<1>5. home[k] = Root
  <2>1. home[k] \in Nat /\ k \in Nat
    BY <1>1, <1>3, <1>4, IdFacts DEF MainType
  <2> QED BY <1>2, <1>4, <2>1
<1>6. k \in LiveSubs(Root)
  BY <1>2, <1>4, <1>5 DEF LiveSubs, Subcontexts, Children
<1> QED BY <1>6

\* Reading a directive that opens no context.
LEMMA TreeReads ==
  ASSUME MainType, TreeInv, NEW d \in Directive, Reads(d), UNCHANGED <<pc, current, s, dtor, live>>
  PROVE  TreeInv'
<1>1. /\ Len(script) \in Nat /\ Len(script') = Len(script) + 1 /\ New = Len(script) + 1
      /\ home'[New] = current /\ \A k \in Id : k # New => home'[k] = home[k]
      /\ pc = "read" /\ New \in Id
      /\ \A k \in Read : script'[k] = script[k]
  BY NewFacts
<1>2. current \in live /\ current \in 0..Len(script)
  BY <1>1 DEF TreeInv
<1>3. Read' = Read \cup {New} /\ New \notin Read /\ Read \subseteq Id
  BY ReadFacts
<1>4. 0..Len(script) \subseteq 0..Len(script')
  BY <1>1
<1>5. live' \subseteq 0..Len(script')
  BY <1>4 DEF TreeInv
<1>6. \A k \in Id : home'[k] \in 0..Len(script')
  BY <1>1, <1>2, <1>4 DEF TreeInv
<1>7. \A k \in Read' : home'[k] < k
  <2>1. current < New
    BY <1>1, <1>2
  <2> QED BY <1>1, <1>3, <2>1 DEF TreeInv
<1>8. ASSUME NEW c \in live', c # Root PROVE script'[c].op = "context" /\ home'[c] \in live'
  <2>1. c \in Read
    BY <1>1, <1>8 DEF TreeInv, Read, Root
  <2> QED BY <1>1, <1>3, <1>8, <2>1 DEF TreeInv
<1> QED BY <1>1, <1>5, <1>6, <1>7, <1>8 DEF TreeInv

LEMMA TreeNewContext ==
  ASSUME MainType, TreeInv, NEW d \in Directive, NewContext(d)
  PROVE  TreeInv'
<1>0. /\ Reads(d) /\ d.op = "context" /\ live' = live \cup {New} /\ current' = New
      /\ s' = Append(s, current) /\ pc' = pc /\ dtor' = dtor
  BY DEF NewContext
<1>1. /\ Len(script) \in Nat /\ Len(script') = Len(script) + 1 /\ New = Len(script) + 1
      /\ home'[New] = current /\ \A k \in Id : k # New => home'[k] = home[k]
      /\ pc = "read" /\ New \in Id
      /\ script'[New] = d
      /\ \A k \in Read : script'[k] = script[k]
  BY <1>0, NewFacts
<1>2. current \in live /\ current \in 0..Len(script)
  BY <1>1 DEF TreeInv
<1>3. Read' = Read \cup {New} /\ New \notin Read /\ Read \subseteq Id
  BY <1>0, ReadFacts
<1>4. 0..Len(script) \subseteq 0..Len(script') /\ New \in 0..Len(script')
  BY <1>1
<1>5. live' \subseteq 0..Len(script')
  BY <1>0, <1>4 DEF TreeInv
<1>6. \A k \in Id : home'[k] \in 0..Len(script')
  BY <1>1, <1>2, <1>4 DEF TreeInv
<1>7. \A k \in Read' : home'[k] < k
  <2>1. current < New
    BY <1>1, <1>2
  <2> QED BY <1>1, <1>3, <2>1 DEF TreeInv
<1>8. ASSUME NEW c \in live', c # Root PROVE script'[c].op = "context" /\ home'[c] \in live'
  <2>1. CASE c = New
    BY <1>0, <1>1, <1>2, <2>1
  <2>2. CASE c # New
    <3>1. c \in live /\ c \in Read
      BY <1>0, <1>1, <1>8, <2>2 DEF TreeInv, Read, Root
    <3> QED BY <1>0, <1>1, <1>3, <1>8, <2>2, <3>1 DEF TreeInv
  <2> QED BY <2>1, <2>2
<1>9. ASSUME NEW i \in 1..Len(s') PROVE s'[i] \in live'
  <2>1. /\ Len(s') = Len(s) + 1 /\ Len(s) \in Nat /\ s'[Len(s) + 1] = current
        /\ \A j \in 1..Len(s) : s'[j] = s[j]
    BY <1>0, PushFacts DEF MainType
  <2>2. i \in 1..Len(s) \/ i = Len(s) + 1
    BY <2>1
  <2> QED BY <1>0, <1>1, <1>2, <2>1, <2>2 DEF TreeInv
<1>10. \A i \in 1..Len(dtor') : dtor'[i] \in live'
  BY <1>0 DEF TreeInv
<1> QED BY <1>0, <1>1, <1>5, <1>6, <1>7, <1>8, <1>9, <1>10 DEF TreeInv

LEMMA DtorNat ==
  ASSUME MainType
  PROVE  \A i \in 1..Len(dtor) : dtor[i] \in Nat
<1>1. ASSUME NEW q \in Seq(Id), NEW i \in 1..Len(q) PROVE q[i] \in Id
  BY <1>1
<1> QED BY <1>1, IdFacts DEF MainType

\* delete sub: one level down the tree.
LEMMA TreeDeleteSub ==
  ASSUME MainType, TreeInv, DeleteSub
  PROVE  TreeInv'
<1>1. /\ dtor # <<>> /\ UNCHANGED <<script, home, pc, current, s, live>>
      /\ pc = "delete"
  BY DEF DeleteSub, Deleting, heapVars
<1>2. PICK c \in LiveSubs(Last(dtor)) : dtor' = Append(dtor, c)
  BY DEF DeleteSub
<1>3. c \in live /\ home[c] = Last(dtor) /\ c \in Read /\ c \in Id
  BY <1>2 DEF LiveSubs, Subcontexts, Children, MainType
<1>4. Len(dtor) \in Nat /\ Len(dtor) >= 1 /\ Last(dtor) = dtor[Len(dtor)]
  BY <1>1, TopFacts DEF MainType
<1>5. dtor[Len(dtor)] < c
  BY <1>3, <1>4 DEF TreeInv
<1>6. /\ Len(dtor') = Len(dtor) + 1 /\ dtor'[Len(dtor) + 1] = c
      /\ \A i \in 1..Len(dtor) : dtor'[i] = dtor[i]
  BY <1>2, <1>3, PushFacts DEF MainType
<1>7. ASSUME NEW i \in 1..Len(dtor') PROVE dtor'[i] \in live'
  <2>1. i \in 1..Len(dtor) \/ i = Len(dtor) + 1
    BY <1>4, <1>6
  <2> QED BY <1>1, <1>3, <1>6, <2>1 DEF TreeInv
<1>8. ASSUME NEW i \in 1..Len(dtor'), NEW j \in 1..Len(dtor'), i < j
      PROVE  dtor'[i] < dtor'[j]
  <2>1. i \in 1..Len(dtor) /\ dtor'[i] = dtor[i] /\ dtor[i] \in Nat
    <3>1. i \in 1..Len(dtor)
      BY <1>4, <1>6, <1>8
    <3> QED BY <1>6, <3>1, DtorNat
  <2>2. CASE j \in 1..Len(dtor)
    BY <1>6, <1>8, <2>1, <2>2 DEF TreeInv
  <2>3. CASE j = Len(dtor) + 1
    <3>1. i = Len(dtor) \/ i < Len(dtor)
      BY <1>4, <2>1
    <3>2. dtor[i] <= dtor[Len(dtor)] /\ dtor[Len(dtor)] \in Nat
      <4>1. dtor[Len(dtor)] \in Nat
        BY <1>4, DtorNat
      <4>2. CASE i < Len(dtor)
        <5>1. Len(dtor) \in 1..Len(dtor)
          BY <1>4
        <5>2. dtor[i] < dtor[Len(dtor)]
          BY <2>1, <4>2, <5>1 DEF TreeInv
        <5> QED BY <2>1, <4>1, <5>2
      <4> QED BY <2>1, <3>1, <4>1, <4>2
    <3>3. c \in Nat /\ dtor'[j] = c
      BY <1>3, <1>6, <2>3, IdFacts
    <3> QED BY <1>5, <2>1, <3>2, <3>3
  <2> QED BY <1>4, <1>6, <2>2, <2>3
<1> QED BY <1>1, <1>7, <1>8 DEF TreeInv, Read

\* ~Context of a context without subcontexts: its parent, and the contexts whose
\* destructors are still running, are others.
LEMMA TreeDestruct ==
  ASSUME MainType, TreeInv, Destruct
  PROVE  TreeInv'
<1> DEFINE c == Last(dtor)
<1>1. /\ dtor # <<>> /\ UNCHANGED <<script, home, current, s>>
      /\ pc = "delete" /\ LiveSubs(c) = {}
      /\ live' = live \ {c} /\ dtor' = Front(dtor)
      /\ pc' = IF c = Root THEN "deleted" ELSE pc
  BY DEF Destruct, Deleting
<1>2. /\ Len(dtor) \in Nat /\ Len(dtor) >= 1 /\ c = dtor[Len(dtor)]
      /\ Len(dtor') = Len(dtor) - 1
      /\ \A i \in 1..Len(dtor') : dtor'[i] = dtor[i]
  BY <1>1, TopFacts, FrontFacts DEF MainType
<1> HIDE DEF c
<1>3. c \in Nat
  <2>1. Len(dtor) \in 1..Len(dtor)
    BY <1>2
  <2> QED BY <1>2, <2>1, DtorNat
<1>4. ASSUME NEW k \in live', k # Root
      PROVE  script'[k].op = "context" /\ home'[k] \in live'
  <2>1. k \in live /\ script[k].op = "context" /\ home[k] \in live /\ k \in Read
    BY <1>1, <1>4 DEF TreeInv, Read, Root
  <2>2. home[k] # c
    BY <1>1, <2>1 DEF LiveSubs, Subcontexts, Children
  <2> QED BY <1>1, <2>1, <2>2
<1>5. ASSUME NEW i \in 1..Len(dtor') PROVE dtor'[i] \in live'
  <2>1. i \in 1..Len(dtor) /\ i < Len(dtor) /\ Len(dtor) \in 1..Len(dtor)
    BY <1>2
  <2>2. dtor[i] < c /\ dtor[i] \in live /\ dtor[i] \in Nat
    BY <1>2, <2>1, IdFacts DEF TreeInv, MainType
  <2>3. dtor[i] # c
    BY <1>3, <2>2
  <2> QED BY <1>1, <1>2, <2>2, <2>3
<1>6. ASSUME NEW i \in 1..Len(dtor'), NEW j \in 1..Len(dtor'), i < j
      PROVE  dtor'[i] < dtor'[j]
  <2>1. i \in 1..Len(dtor) /\ j \in 1..Len(dtor)
    BY <1>2
  <2> QED BY <1>2, <1>6, <2>1 DEF TreeInv
<1>7. pc' \in {"deleted", "done"} => live' = {}
  BY <1>1, OnlyRoot
<1>8. pc' \notin {"read", "unwind"}
  BY <1>1
<1> QED BY <1>1, <1>4, <1>5, <1>6, <1>7, <1>8 DEF TreeInv, Read

LEMMA TreeStep ==
  ASSUME MainType, TreeInv, [Next]_vars
  PROVE  TreeInv'
<1>1. ASSUME NEW d \in Directive, NEW p, ReadTask(d, p) PROVE TreeInv'
  BY <1>1, TreeReads DEF ReadTask
<1>2. ASSUME NEW d \in Directive, ReadOnly(d) PROVE TreeInv'
  BY <1>2, TreeReads DEF ReadOnly
<1>3. ASSUME NEW d \in Directive, NewContext(d) PROVE TreeInv'
  BY <1>3, TreeNewContext
<1>4. CASE EndsInner
  <2>1. /\ s # <<>> /\ current' = Last(s) /\ s' = Front(s)
        /\ UNCHANGED <<script, home, dtor, live, pc>> /\ pc \in {"read", "unwind"}
    BY <1>4 DEF EndsInner, EndsCurrent
  <2>2. /\ Len(s) \in Nat /\ Len(s) >= 1 /\ Last(s) = s[Len(s)]
        /\ Len(s') = Len(s) - 1
        /\ \A i \in 1..Len(s') : s'[i] = s[i]
    BY <2>1, TopFacts, FrontFacts DEF MainType
  <2>3. Len(s) \in 1..Len(s) /\ \A i \in 1..Len(s') : i \in 1..Len(s)
    BY <2>2
  <2>4. current' \in live /\ \A i \in 1..Len(s') : s'[i] \in live
    BY <2>1, <2>2, <2>3 DEF TreeInv
  <2> QED BY <2>1, <2>4 DEF TreeInv, Read
<1>5. CASE EndsOuter
  <2>1. /\ dtor' = <<current>> /\ current \in live /\ pc' = "delete"
        /\ UNCHANGED <<script, home, live, current, s>>
    BY <1>5 DEF EndsOuter, EndsRoot, TreeInv
  <2>2. Len(dtor') = 1 /\ dtor'[1] = current
    BY <2>1
  <2>3. \A i \in 1..Len(dtor') : i = 1
    BY <2>2
  <2> QED BY <2>1, <2>2, <2>3 DEF TreeInv, Read
<1>6. CASE PcMoves
  BY <1>6 DEF PcMoves, TreeInv, Read
<1>7. CASE Enqueue
  BY <1>7 DEF Enqueue, heapVars, TreeInv, Read
<1>8. CASE DeleteSub
  BY <1>8, TreeDeleteSub
<1>9. CASE Destruct
  BY <1>9, TreeDestruct
<1>10. ASSUME NEW w \in Worker, Take(w) \/ BuildThrows(w) \/ JobsDec(w) PROVE TreeInv'
  <2>1. UNCHANGED <<script, home, pc, current, s, dtor, live>>
    BY <1>10 DEF Take, BuildThrows, JobsDec, mainVars, heapVars
  <2> QED BY <2>1 DEF TreeInv, Read
<1>11. CASE UNCHANGED treeVars
  BY <1>11 DEF treeVars, TreeInv, Read
<1> QED BY <1>1, <1>2, <1>3, <1>4, <1>5, <1>6, <1>7, <1>8, <1>9, <1>10, <1>11, StepKinds
----------------------------------------------------------------------------
\* Where the tasks are.

LEMMA AllFacts ==
  ASSUME MainType, PoolType
  PROVE  /\ All \subseteq Task /\ NoTask \notin All
         /\ \A w \in Worker : slot[w] # NoTask => slot[w] \in Running
         /\ \A t \in Running : \E w \in Worker : slot[w] = t /\ t # NoTask
         /\ \A t \in All : t.order \in Nat /\ t.id \in Id
<1>1. /\ queue \subseteq Task /\ lost \subseteq Task /\ held \in Task \cup {NoTask}
      /\ slot \in [Worker -> Task \cup {NoTask}]
  BY DEF MainType, PoolType
<1>2. Running \subseteq Task
  BY <1>1 DEF Running
<1>3. All \subseteq Task
  BY <1>1, <1>2 DEF All, Pending
<1>4. \A t \in Task : t.order \in Nat /\ t.id \in Id
  BY DEF Task
<1>5. \A w \in Worker : slot[w] # NoTask => slot[w] \in Running
  BY DEF Running
<1>6. \A t \in Running : \E w \in Worker : slot[w] = t /\ t # NoTask
  BY DEF Running
<1> QED BY <1>3, <1>4, <1>5, <1>6, NoTaskAssumption

LEMMA AllFinite ==
  ASSUME PlaceInv
  PROVE  IsFiniteSet(All)
<1> DEFINE S == {v \in Worker : slot[v] # NoTask}
           f == [v \in S |-> slot[v]]
<1>1. IsFiniteSet(S)
  BY WorkerAssumption, FS_Subset
<1>2. f \in Surjection(S, Running)
  BY DEF Surjection, Running
<1>3. IsFiniteSet(Running)
  BY <1>1, <1>2, FS_Surjection
<1>4. IsFiniteSet({held} \ {NoTask})
  BY FS_Singleton, FS_RemoveElement
<1>5. IsFiniteSet(queue) /\ IsFiniteSet(lost)
  BY DEF PlaceInv
<1>6. IsFiniteSet(Pending)
  BY <1>3, <1>4, <1>5, FS_Union DEF Pending
<1> QED BY <1>5, <1>6, FS_Union DEF All

\* How a step changes the set of the tasks.
LEMMA AllSubmits ==
  ASSUME held = NoTask, held' # NoTask, UNCHANGED <<queue, slot, lost>>
  PROVE  All' = All \cup {held'} /\ Running' = Running
<1>1. Running' = Running
  BY DEF Running
<1> QED BY <1>1 DEF All, Pending

LEMMA AllMoves ==
  ASSUME MainType, PoolType, PlaceInv, NEW w \in Worker, Enqueue \/ Take(w) \/ BuildThrows(w)
  PROVE  All' = All
<1>1. CASE Enqueue
  <2>1. Running' = Running
    BY <1>1 DEF Enqueue, Running
  <2> QED BY <1>1, <2>1 DEF Enqueue, All, Pending
<1>2. CASE Take(w)
  <2>1. PICK t \in Tops(queue) : slot' = [slot EXCEPT ![w] = t] /\ queue' = queue \ {t}
    BY <1>2 DEF Take
  <2>2. t \in queue /\ t # NoTask /\ slot[w] = NoTask
    BY <1>2, <2>1, NoTaskAssumption DEF Tops, PoolType, Take
  <2>3. Running' = Running \cup {t}
    <3>1. slot'[w] = t /\ \A v \in Worker : v # w => slot'[v] = slot[v]
      BY <2>1 DEF PoolType
    <3> QED BY <2>2, <3>1 DEF Running
  <2>4. held' = held /\ lost' = lost
    BY <1>2 DEF Take, mainVars
  <2> QED BY <2>1, <2>2, <2>3, <2>4 DEF All, Pending
<1>3. CASE BuildThrows(w)
  <2>1. /\ slot' = [slot EXCEPT ![w] = NoTask] /\ lost' = lost \cup {slot[w]}
        /\ UNCHANGED <<held, queue>> /\ slot[w] # NoTask
    BY <1>3 DEF BuildThrows, mainVars, Starts, PoolType
  <2>2. slot'[w] = NoTask /\ \A v \in Worker : v # w => slot'[v] = slot[v]
    BY <2>1 DEF PoolType
  <2>3. Running' \cup {slot[w]} = Running
    BY <2>1, <2>2 DEF Running
  <2> QED BY <2>1, <2>3 DEF All, Pending
<1> QED BY <1>1, <1>2, <1>3

LEMMA AllDec ==
  ASSUME MainType, PoolType, PlaceInv, NEW w \in Worker, JobsDec(w)
  PROVE  /\ slot[w] \in All /\ All' = All \ {slot[w]}
         /\ slot' = [slot EXCEPT ![w] = NoTask] /\ Running' = Running \ {slot[w]}
<1>1. /\ slot' = [slot EXCEPT ![w] = NoTask] /\ slot[w] # NoTask
      /\ UNCHANGED <<held, queue, lost>>
  BY DEF JobsDec, mainVars, PoolType
<1>2. slot'[w] = NoTask /\ \A v \in Worker : v # w => slot'[v] = slot[v]
  BY <1>1 DEF PoolType
<1>3. \A v \in Worker : v # w /\ slot[v] # NoTask => slot[v] # slot[w]
  BY DEF PlaceInv
<1>4. Running' = Running \ {slot[w]}
  BY <1>1, <1>2, <1>3 DEF Running
<1>5. slot[w] \notin queue \cup lost
  BY DEF PlaceInv
<1>6. slot[w] # held
  BY <1>1, <1>3, AllFacts DEF PlaceInv, All, Pending
<1>7. slot[w] \in Running
  BY <1>1, AllFacts
<1> QED BY <1>1, <1>4, <1>5, <1>6, <1>7 DEF All, Pending

\* Reading a directive changes nothing about the tasks there are.
LEMMA GenuineReads ==
  ASSUME MainType, NEW d \in Directive, Reads(d), order' \in Nat, order' >= order, live \subseteq live',
         NEW t \in Task, Genuine(t)
  PROVE  Genuine(t)' /\ Owner(t)' = Owner(t) /\ t.id # New
<1>1. /\ Len(script) \in Nat /\ Len(script') = Len(script) + 1 /\ New = Len(script) + 1
      /\ \A k \in Id : k # New => home'[k] = home[k]
      /\ \A k \in Read : script'[k] = script[k] /\ k \in Read'
  BY NewFacts, ReadFacts
<1>2. t.id \in 0..Len(script) /\ t.order < order /\ t.order \in Nat /\ t.id \in Id
  BY DEF Genuine, Task
<1>3. t.id # New /\ t.id \in 0..Len(script')
  BY <1>1, <1>2
<1>4. home'[t.id] = home[t.id]
  BY <1>1, <1>2, <1>3
<1>5. Owner(t)' = Owner(t)
  BY <1>4 DEF Owner
<1>6. t.order < order'
  BY <1>2 DEF MainType
<1>7. t.priority # FINISH => t.id \in Read' /\ script'[t.id] = script[t.id]
  BY <1>1 DEF Genuine
<1>8. t.priority = USE_DICT => t.priority # FINISH
  BY DEF USE_DICT, FINISH
<1>9. t.priority = MAKE_DICT => t.priority # FINISH
  BY DEF MAKE_DICT, FINISH
<1> QED BY <1>3, <1>5, <1>6, <1>7, <1>8, <1>9 DEF Genuine

\* A new task is the youngest of all.
LEMMA PlaceSubmits ==
  ASSUME MainType, PoolType, PlaceInv, held = NoTask, NEW h \in Task, held' = h, h.order = order,
         UNCHANGED <<queue, slot, lost>>, Genuine(h)', \A t \in All : Genuine(t)'
  PROVE  PlaceInv'
<1>1. held' # NoTask
  BY NoTaskAssumption
<1>2. All' = All \cup {h} /\ Running' = Running
  BY <1>1, AllSubmits
<1>3. \A t \in All' : Genuine(t)'
  BY <1>2
<1>4. \A t \in queue' \cup Running' \cup lost' : t.order < held'.order
  BY <1>2 DEF PlaceInv, Genuine, All, Pending
<1> QED BY <1>3, <1>4 DEF PlaceInv

LEMMA PlaceReadTask ==
  ASSUME MainType, PoolType, TreeInv, PlaceInv, NEW d \in Directive,
         NEW p \in {USE_DICT, MAKE_DICT}, ReadTask(d, p)
  PROVE  /\ PlaceInv'
         /\ \E h \in Task : /\ held' = h /\ All' = All \cup {h} /\ h.order = order
                          /\ h.priority = p /\ h.id = New /\ Owner(h)' = current
         /\ \A t \in All : Owner(t)' = Owner(t) /\ t.id # New
<1>0. /\ Reads(d) /\ Submits(p, New, current) /\ UNCHANGED <<live, queue, slot, lost>>
      /\ p = USE_DICT => d.op \in {"raw", "make"}
      /\ p = MAKE_DICT => d.op \in {"defdir", "noextend"}
  BY DEF ReadTask
<1>1. /\ New \in Id /\ Len(script) \in Nat /\ New = Len(script) + 1 /\ Len(script') = New
      /\ script'[New] = d /\ home'[New] = current /\ held = NoTask /\ pc = "read" /\ New \in Read'
  BY <1>0, NewFacts, ReadFacts
<1>2. /\ held' \in Task /\ held'.priority = p /\ held'.id = New /\ held'.order = order
      /\ order' = order + 1 /\ order' \in Nat
  BY <1>0, <1>1, SubmitsFacts DEF MainType
<1>3. \A t \in All : Genuine(t)' /\ Owner(t)' = Owner(t) /\ t.id # New
  BY <1>0, <1>2, GenuineReads, AllFacts DEF PlaceInv, MainType
<1>4. PICK h \in Task : h = held'
  BY <1>2
<1>5. h.priority # FINISH
  BY <1>2, <1>4 DEF FINISH, USE_DICT, MAKE_DICT
<1>6. Owner(h)' = current /\ current \in live
  BY <1>1, <1>2, <1>4, <1>5 DEF Owner, TreeInv
<1>7. h.order < order' /\ h.id \in 0..Len(script')
  BY <1>1, <1>2, <1>4 DEF MainType
<1>8. Genuine(h)'
  BY <1>0, <1>1, <1>2, <1>4, <1>6, <1>7 DEF Genuine
<1>9. PlaceInv'
  BY <1>0, <1>1, <1>2, <1>3, <1>4, <1>8, PlaceSubmits
<1>10. All' = All \cup {held'}
  BY <1>0, <1>1, <1>2, NoTaskAssumption, AllSubmits
<1> QED BY <1>2, <1>3, <1>4, <1>6, <1>9, <1>10

\* A context ends: its FINISH task is counted by itself.
LEMMA PlaceEnds ==
  ASSUME MainType, PoolType, TreeInv, PlaceInv, held = NoTask, pc \in {"read", "unwind"},
         Submits(FINISH, current, current), UNCHANGED <<script, home, live, queue, slot, lost>>
  PROVE  /\ PlaceInv'
         /\ \E h \in Task : /\ held' = h /\ All' = All \cup {h} /\ h.order = order
                          /\ h.priority = FINISH /\ h.id = current /\ Owner(h)' = current
         /\ \A t \in All : Owner(t)' = Owner(t)
<1>1. /\ held' \in Task /\ held'.priority = FINISH /\ held'.id = current /\ held'.order = order
      /\ order' = order + 1 /\ order' \in Nat
  BY SubmitsFacts DEF MainType
<1>2. Read' = Read
  BY DEF Read
<1>3. ASSUME NEW t \in All PROVE Genuine(t)' /\ Owner(t)' = Owner(t)
  <2>1. Genuine(t) /\ t.order \in Nat
    BY AllFacts DEF PlaceInv
  <2>2. t.order < order'
    BY <1>1, <2>1 DEF Genuine, MainType
  <2> QED BY <1>2, <2>1, <2>2 DEF Genuine, Owner
<1>4. PICK h \in Task : h = held'
  BY <1>1
<1>5. Owner(h)' = current /\ current \in live
  BY <1>1, <1>4 DEF Owner, TreeInv
<1>6. h.order < order' /\ h.id \in 0..Len(script')
  BY <1>1, <1>4, <1>5 DEF MainType, TreeInv
<1>7. h.priority = FINISH /\ FINISH # USE_DICT /\ FINISH # MAKE_DICT
  BY <1>1, <1>4 DEF FINISH, USE_DICT, MAKE_DICT
<1>8. Genuine(h)'
  BY <1>5, <1>6, <1>7 DEF Genuine
<1>9. PlaceInv'
  BY <1>1, <1>3, <1>4, <1>8, PlaceSubmits
<1>10. All' = All \cup {held'}
  BY <1>1, NoTaskAssumption, AllSubmits
<1> QED BY <1>1, <1>3, <1>4, <1>5, <1>9, <1>10

\* A context is deleted: with its counter at zero it owns no task.
LEMMA NoneOwned ==
  ASSUME MainType, PlaceInv, CountInv, NEW c \in live, jobs[c] = 0
  PROVE  Of(c) = {} /\ LiveSubs(c) = {}
<1>1. IsFiniteSet(Of(c)) /\ IsFiniteSet(LiveSubs(c))
  <2>1. LiveSubs(c) \subseteq Id
    BY DEF LiveSubs, MainType
  <2> QED BY <2>1, AllFinite, IdFacts, FS_Subset DEF Of
<1>2. Cardinality(Of(c)) \in Nat /\ Cardinality(LiveSubs(c)) \in Nat
  BY <1>1, FS_CardinalityType
<1>3. Cardinality(Of(c)) + Cardinality(LiveSubs(c)) = 0
  BY DEF CountInv
<1>4. Cardinality(Of(c)) = 0 /\ Cardinality(LiveSubs(c)) = 0
  BY <1>2, <1>3
<1> QED BY <1>1, <1>4, FS_EmptySet

LEMMA PlaceStep ==
  ASSUME MainType, PoolType, TreeInv, PlaceInv, CountInv, [Next]_vars
  PROVE  PlaceInv'
<1>1. ASSUME NEW d \in Directive, NEW p \in {USE_DICT, MAKE_DICT}, ReadTask(d, p) PROVE PlaceInv'
  BY <1>1, PlaceReadTask
<1>2. ASSUME NEW d \in Directive, ReadOnly(d) \/ NewContext(d) PROVE PlaceInv'
  <2>1. /\ Reads(d) /\ order' = order /\ order \in Nat /\ live \subseteq live'
        /\ UNCHANGED <<held, queue, slot, lost>>
    BY <1>2 DEF ReadOnly, NewContext, poolVars, MainType
  <2>2. All' = All /\ Running' = Running
    BY <2>1 DEF All, Pending, Running
  <2>3. order' \in Nat /\ order' >= order
    BY <2>1
  <2>4. \A t \in All : Genuine(t)'
    BY <2>1, <2>3, GenuineReads, AllFacts DEF PlaceInv
  <2> QED BY <2>1, <2>2, <2>4 DEF PlaceInv
<1>3. CASE EndsInner \/ EndsOuter
  <2>1. /\ Submits(FINISH, current, current) /\ held = NoTask /\ pc \in {"read", "unwind"}
        /\ UNCHANGED <<script, home, live, queue, slot, lost>>
    BY <1>3 DEF EndsInner, EndsCurrent, EndsOuter, EndsRoot, poolVars
  <2> QED BY <2>1, PlaceEnds
<1>4. ASSUME UNCHANGED <<script, home, order, held, live, queue, slot, lost>> PROVE PlaceInv'
  <2>1. All' = All /\ Running' = Running /\ Read' = Read
    BY <1>4 DEF All, Pending, Running, Read
  <2> QED BY <1>4, <2>1 DEF PlaceInv, Genuine, Owner
<1>5. CASE PcMoves \/ DeleteSub \/ UNCHANGED treeVars
  BY <1>4, <1>5 DEF PcMoves, DeleteSub, treeVars, heapVars, poolVars
<1>6. CASE Destruct
  <2> DEFINE c == Last(dtor)
  <2>1. /\ dtor # <<>> /\ jobs[c] = 0 /\ live' = live \ {c}
        /\ UNCHANGED <<script, home, order, held, queue, slot, lost>>
    BY <1>6 DEF Destruct, Deleting, poolVars
  <2>2. c \in live
    <3>1. Len(dtor) \in 1..Len(dtor) /\ c = dtor[Len(dtor)]
      BY <2>1, TopFacts DEF MainType
    <3> QED BY <3>1 DEF TreeInv
  <2> HIDE DEF c
  <2>3. \A t \in All : Owner(t) # c
    BY <2>1, <2>2, NoneOwned DEF Of
  <2>4. All' = All /\ Running' = Running /\ Read' = Read
    BY <2>1 DEF All, Pending, Running, Read
  <2> QED BY <2>1, <2>3, <2>4 DEF PlaceInv, Genuine, Owner
<1>7. ASSUME All' = All, UNCHANGED <<script, home, order, live>> PROVE \A t \in All' : Genuine(t)'
  BY <1>7 DEF PlaceInv, Genuine, Owner, Read
<1>8. CASE Enqueue
  <2>1. /\ held # NoTask /\ queue' = queue \cup {held} /\ held' = NoTask
        /\ UNCHANGED <<script, home, order, live, slot, lost>>
    BY <1>8 DEF Enqueue, heapVars
  <2>2. \A t \in All' : Genuine(t)'
    BY <1>7, <1>8, <2>1, AllMoves, WorkerAssumption
  <2>3. IsFiniteSet(queue')
    BY <2>1, FS_AddElement DEF PlaceInv
  <2>4. held \notin Running \cup lost
    <3>1. held \in Task /\ \A t \in Running \cup lost : t.order < held.order
      BY <2>1 DEF PlaceInv, MainType
    <3>2. ~(held.order < held.order)
      BY <3>1 DEF Task
    <3> QED BY <3>1, <3>2
  <2>5. \A w \in Worker : slot'[w] \notin queue' \cup lost'
    BY <2>1, <2>4, AllFacts DEF PlaceInv
  <2> QED BY <2>1, <2>2, <2>3, <2>4, <2>5 DEF PlaceInv
<1>9. ASSUME NEW w \in Worker, Take(w) PROVE PlaceInv'
  <2>1. /\ slot[w] = NoTask
        /\ UNCHANGED <<script, home, order, live, held, lost>>
    BY <1>9 DEF Take, mainVars, heapVars
  <2>2. PICK t \in Tops(queue) : slot' = [slot EXCEPT ![w] = t] /\ queue' = queue \ {t}
    BY <1>9 DEF Take
  <2>3. t \in queue /\ slot'[w] = t /\ \A v \in Worker : v # w => slot'[v] = slot[v]
    BY <2>2 DEF Tops, PoolType
  <2>4. \A u \in All' : Genuine(u)'
    BY <1>7, <1>9, <2>1, AllMoves
  <2>5. Running' \subseteq queue \cup Running
    BY <2>3 DEF Running
  <2>6. held' # NoTask => \A u \in queue' \cup Running' \cup lost' : u.order < held'.order
    BY <2>1, <2>2, <2>5 DEF PlaceInv
  <2>7. IsFiniteSet(queue')
    BY <2>2, FS_RemoveElement DEF PlaceInv
  <2> QED BY <2>1, <2>2, <2>3, <2>4, <2>6, <2>7 DEF PlaceInv
<1>10. ASSUME NEW w \in Worker, BuildThrows(w) PROVE PlaceInv'
  <2>1. /\ slot[w] # NoTask /\ slot' = [slot EXCEPT ![w] = NoTask] /\ lost' = lost \cup {slot[w]}
        /\ UNCHANGED <<script, home, order, live, held, queue>>
    BY <1>10 DEF BuildThrows, mainVars, heapVars, Starts, PoolType
  <2>2. slot'[w] = NoTask /\ \A v \in Worker : v # w => slot'[v] = slot[v]
    BY <2>1 DEF PoolType
  <2>3. \A u \in All' : Genuine(u)'
    BY <1>7, <1>10, <2>1, AllMoves
  <2>4. Running' \cup lost' \subseteq Running \cup lost
    BY <2>1, <2>2 DEF Running
  <2>5. held' # NoTask => \A u \in queue' \cup Running' \cup lost' : u.order < held'.order
    BY <2>1, <2>4 DEF PlaceInv
  <2>6. IsFiniteSet(lost')
    BY <2>1, FS_AddElement DEF PlaceInv
  <2>7. NoTask \notin queue \cup lost \cup {slot[w]}
    BY <2>1, NoTaskAssumption DEF PoolType
  <2> QED BY <2>1, <2>2, <2>3, <2>5, <2>6, <2>7 DEF PlaceInv
<1>11. ASSUME NEW w \in Worker, JobsDec(w) PROVE PlaceInv'
  <2>1. /\ slot' = [slot EXCEPT ![w] = NoTask] /\ All' = All \ {slot[w]} /\ Running' \subseteq Running
        /\ UNCHANGED <<script, home, order, live, held, queue, lost>>
    BY <1>11, AllDec DEF JobsDec, mainVars
  <2>2. slot'[w] = NoTask /\ \A v \in Worker : v # w => slot'[v] = slot[v]
    BY <2>1 DEF PoolType
  <2>3. \A u \in All' : Genuine(u)'
    BY <2>1 DEF PlaceInv, Genuine, Owner, Read
  <2>4. NoTask \notin queue \cup lost
    BY NoTaskAssumption DEF PoolType
  <2> QED BY <2>1, <2>2, <2>3, <2>4 DEF PlaceInv
<1> QED BY <1>1, <1>2, <1>3, <1>5, <1>6, <1>8, <1>9, <1>10, <1>11, StepKinds
----------------------------------------------------------------------------
\* The counters of the jobs.

LEMMA OfFinite ==
  ASSUME MainType, PlaceInv, NEW c
  PROVE  /\ IsFiniteSet(Of(c)) /\ Cardinality(Of(c)) \in Nat
         /\ IsFiniteSet(LiveSubs(c)) /\ Cardinality(LiveSubs(c)) \in Nat
<1>1. LiveSubs(c) \subseteq Id
  BY DEF LiveSubs, MainType
<1>2. IsFiniteSet(Of(c)) /\ IsFiniteSet(LiveSubs(c))
  BY <1>1, AllFinite, IdFacts, FS_Subset DEF Of
<1> QED BY <1>2, FS_CardinalityType

\* One more task, counted by context c.
LEMMA CountGains ==
  ASSUME MainType, PlaceInv, CountInv, NEW h, h \notin All, All' = All \cup {h},
         \A t \in All : Owner(t)' = Owner(t), NEW c \in live, Owner(h)' = c,
         jobs'[c] = jobs[c] + 1, \A e \in Id : e # c => jobs'[e] = jobs[e],
         live' = live, \A e \in live : LiveSubs(e)' = LiveSubs(e)
  PROVE  CountInv'
<1>1. ASSUME NEW e \in live PROVE jobs'[e] = Cardinality(Of(e)') + Cardinality(LiveSubs(e)')
  <2>1. CASE e = c
    <3>1. Of(e)' = Of(e) \cup {h} /\ h \notin Of(e)
      BY <2>1 DEF Of
    <3>2. Cardinality(Of(e)') = Cardinality(Of(e)) + 1
      BY <3>1, OfFinite, FS_AddElement
    <3>3. jobs[e] = Cardinality(Of(e)) + Cardinality(LiveSubs(e))
      BY DEF CountInv
    <3> QED BY <2>1, <3>2, <3>3, OfFinite
  <2>2. CASE e # c
    <3>1. Of(e)' = Of(e) /\ e \in Id
      BY <2>2 DEF Of, MainType
    <3> QED BY <2>2, <3>1 DEF CountInv
  <2> QED BY <2>1, <2>2
<1>2. \A e \in Id \ live' : jobs'[e] = 0
  BY DEF CountInv
<1> QED BY <1>1, <1>2 DEF CountInv

\* The task to come is not one of those there are.
LEMMA Youngest ==
  ASSUME MainType, PoolType, PlaceInv, NEW h, h.order = order
  PROVE  h \notin All
<1>1. \A t \in All : t.order < order /\ t.order \in Nat
  BY AllFacts DEF PlaceInv, Genuine
<1>2. ~(order < order)
  BY DEF MainType
<1> QED BY <1>1, <1>2

\* A directive that is no context leaves the tree alone.
LEMMA SubsReads ==
  ASSUME MainType, NEW d \in Directive, Reads(d), d.op # "context", live' = live, NEW c
  PROVE  LiveSubs(c)' = LiveSubs(c)
<1>1. /\ script'[New] = d /\ Read' = Read \cup {New} /\ New \notin Read /\ Read \subseteq Id
      /\ \A k \in Read : script'[k] = script[k] /\ home'[k] = home[k]
  BY NewFacts, ReadFacts
<1>2. Subcontexts(c)' = Subcontexts(c)
  BY <1>1 DEF Subcontexts, Children
<1> QED BY <1>2 DEF LiveSubs

\* add_sub_context: one more subcontext, which has nothing to wait for.
LEMMA CountNewContext ==
  ASSUME MainType, PoolType, TreeInv, PlaceInv, CountInv, NEW d \in Directive, NewContext(d)
  PROVE  CountInv'
<1>1. /\ Reads(d) /\ d.op = "context" /\ live' = live \cup {New}
      /\ jobs' = [jobs EXCEPT ![current] = @ + 1]
      /\ UNCHANGED <<order, held, queue, slot, lost>>
  BY DEF NewContext, poolVars
<1>2. /\ New \in Id /\ Len(script) \in Nat /\ New = Len(script) + 1 /\ pc = "read"
      /\ script'[New] = d /\ home'[New] = current
      /\ Read' = Read \cup {New} /\ New \notin Read /\ Read \subseteq Id
      /\ \A k \in Read : script'[k] = script[k] /\ home'[k] = home[k]
  BY <1>1, NewFacts, ReadFacts
<1>3. New \notin 0..Len(script)
  BY <1>2
<1>4. current \in live /\ New \notin live /\ current # New
  BY <1>2, <1>3 DEF TreeInv
<1>5. All' = All /\ \A t \in All : Owner(t)' = Owner(t) /\ Owner(t) \in live
  <2>1. order' \in Nat /\ order' >= order /\ live \subseteq live'
    BY <1>1 DEF MainType
  <2>2. All' = All
    BY <1>1 DEF All, Pending, Running
  <2>3. \A t \in All : Owner(t)' = Owner(t)
    BY <1>1, <2>1, GenuineReads, AllFacts DEF PlaceInv
  <2> QED BY <2>2, <2>3 DEF PlaceInv, Genuine
<1>6. \A e : Of(e)' = Of(e)
  BY <1>5 DEF Of
<1>7. Of(New) = {}
  BY <1>4, <1>5 DEF Of
<1>8. \A k \in Read : home[k] \in 0..Len(script)
  BY <1>2 DEF TreeInv
<1>p. PICK n, c : n = New /\ c = current
  OBVIOUS
<1>9. LiveSubs(n)' = {}
  <2>1. \A k \in Read' : home'[k] # n
    BY <1>p, <1>2, <1>3, <1>4, <1>8
  <2> QED BY <2>1 DEF LiveSubs, Subcontexts, Children
<1>10. LiveSubs(c)' = LiveSubs(c) \cup {n} /\ n \notin LiveSubs(c)
  BY <1>p, <1>1, <1>2, <1>4 DEF LiveSubs, Subcontexts, Children
<1>11. \A e \in live : e # c => LiveSubs(e)' = LiveSubs(e)
  BY <1>p, <1>1, <1>2, <1>4 DEF LiveSubs, Subcontexts, Children
<1>12. jobs[n] = 0 /\ jobs'[c] = jobs[c] + 1
       /\ \A e \in Id : e # c => jobs'[e] = jobs[e]
  BY <1>p, <1>1, <1>2, <1>4 DEF CountInv, MainType
<1>13. ASSUME NEW e \in live' PROVE jobs'[e] = Cardinality(Of(e)') + Cardinality(LiveSubs(e)')
  <2>1. CASE e = n
    <3>1. Of(n)' = {}
      BY <1>p, <1>6, <1>7
    <3>2. Cardinality({}) = 0
      BY FS_EmptySet
    <3>3. Cardinality(Of(e)') = 0 /\ Cardinality(LiveSubs(e)') = 0
      BY <1>9, <2>1, <3>1, <3>2
    <3> QED BY <1>p, <1>2, <1>4, <1>12, <2>1, <3>3
  <2>2. CASE e = c
    <3>1. Cardinality(LiveSubs(e)') = Cardinality(LiveSubs(e)) + 1
      BY <1>10, <2>2, OfFinite, FS_AddElement
    <3>2. jobs[e] = Cardinality(Of(e)) + Cardinality(LiveSubs(e))
      BY <1>p, <1>4, <2>2 DEF CountInv
    <3> QED BY <1>6, <1>12, <2>2, <3>1, <3>2, OfFinite
  <2>3. CASE e # n /\ e # c
    <3>1. e \in live /\ e \in Id
      BY <1>p, <1>1, <2>3 DEF MainType
    <3> QED BY <1>6, <1>11, <1>12, <2>3, <3>1 DEF CountInv
  <2> QED BY <2>1, <2>2, <2>3
<1>14. \A e \in Id \ live' : jobs'[e] = 0
  BY <1>p, <1>1, <1>4, <1>12 DEF CountInv
<1> QED BY <1>13, <1>14 DEF CountInv

\* ~Context: the context goes, and tells its parent.
LEMMA CountDestruct ==
  ASSUME MainType, TreeInv, PlaceInv, CountInv, Destruct
  PROVE  CountInv'
<1> DEFINE c == Last(dtor)
<1>1. /\ dtor # <<>> /\ jobs[c] = 0 /\ live' = live \ {c}
      /\ jobs' = IF c = Root THEN jobs ELSE [jobs EXCEPT ![home[c]] = @ - 1]
      /\ UNCHANGED <<script, home, held, queue, slot, lost>>
  BY DEF Destruct, Deleting, poolVars
<1>2. c \in live
  <2>1. Len(dtor) \in 1..Len(dtor) /\ c = dtor[Len(dtor)]
    BY <1>1, TopFacts DEF MainType
  <2> QED BY <2>1 DEF TreeInv
<1> HIDE DEF c
<1>3. Of(c) = {} /\ LiveSubs(c) = {}
  BY <1>1, <1>2, NoneOwned
<1>4. All' = All /\ Read' = Read
  BY <1>1 DEF All, Pending, Running, Read
<1>5. \A e : Of(e)' = Of(e) /\ LiveSubs(e)' = LiveSubs(e) \ {c}
  BY <1>1, <1>4 DEF Of, Owner, LiveSubs, Subcontexts, Children
<1>6. CASE c = Root
  <2>1. \A e : Root \notin LiveSubs(e)
    <3>1. Root \notin Read
      BY DEF Root, Read, MainType
    <3> QED BY <3>1 DEF LiveSubs, Subcontexts, Children
  <2>2. \A e : LiveSubs(e)' = LiveSubs(e)
    BY <1>5, <1>6, <2>1
  <2> QED BY <1>1, <1>5, <1>6, <2>2 DEF CountInv
<1>7. CASE c # Root
  <2>1. /\ c \in Id /\ c \in Read /\ script[c].op = "context" /\ home[c] \in live /\ home[c] < c
        /\ c \in Nat
    <3>1. c \in Id /\ c \in Nat /\ c \in 0..Len(script) /\ Len(script) \in Nat
      BY <1>2, IdFacts DEF MainType, TreeInv
    <3>2. c \in Read
      BY <1>7, <3>1 DEF Read, Root
    <3> QED BY <1>2, <1>7, <3>1, <3>2 DEF TreeInv
  <2>2. home[c] # c /\ home[c] \in Id
    BY <2>1 DEF MainType
  <2>3. c \in LiveSubs(home[c])
    BY <1>2, <2>1 DEF LiveSubs, Subcontexts, Children
  <2>4. \A e : e # home[c] => LiveSubs(e)' = LiveSubs(e)
    BY <1>5 DEF LiveSubs, Subcontexts, Children
  <2>5. jobs'[home[c]] = jobs[home[c]] - 1 /\ \A e \in Id : e # home[c] => jobs'[e] = jobs[e]
    BY <1>1, <1>7, <2>2 DEF MainType
  <2>6. ASSUME NEW e \in live' PROVE jobs'[e] = Cardinality(Of(e)') + Cardinality(LiveSubs(e)')
    <3>1. e \in live /\ e \in Id /\ jobs[e] = Cardinality(Of(e)) + Cardinality(LiveSubs(e))
      BY <1>1, <2>6 DEF CountInv, MainType
    <3>2. CASE e = home[c]
      <4>1. Cardinality(LiveSubs(e)') = Cardinality(LiveSubs(e)) - 1
        BY <1>5, <2>3, <3>2, OfFinite, FS_RemoveElement
      <4> QED BY <1>5, <2>5, <3>1, <3>2, <4>1, OfFinite
    <3>3. CASE e # home[c]
      BY <1>5, <2>4, <2>5, <3>1, <3>3
    <3> QED BY <3>2, <3>3
  <2>7. \A e \in Id \ live' : jobs'[e] = 0
    BY <1>1, <2>1, <2>2, <2>5 DEF CountInv
  <2> QED BY <2>6, <2>7 DEF CountInv
<1> QED BY <1>6, <1>7

\* jobs_dec: the task that leaves is the one no longer counted.
LEMMA CountDec ==
  ASSUME MainType, PoolType, PlaceInv, CountInv, NEW w \in Worker, JobsDec(w)
  PROVE  CountInv'
<1>1. /\ slot[w] \in All /\ All' = All \ {slot[w]}
      /\ jobs' = [jobs EXCEPT ![Owner(slot[w])] = @ - 1] /\ UNCHANGED <<script, home, live>>
  BY AllDec DEF JobsDec, mainVars
<1> DEFINE c == Owner(slot[w])
<1>2. c \in live /\ c \in Id
  BY <1>1 DEF PlaceInv, Genuine, MainType
<1>3. /\ \A e : Of(e)' = Of(e) \ {slot[w]} /\ LiveSubs(e)' = LiveSubs(e)
      /\ slot[w] \in Of(c) /\ \A e : e # c => slot[w] \notin Of(e)
  BY <1>1 DEF Of, Owner, LiveSubs, Subcontexts, Children, Read
<1>4. jobs'[c] = jobs[c] - 1 /\ \A e \in Id : e # c => jobs'[e] = jobs[e]
  BY <1>1, <1>2 DEF MainType
<1> HIDE DEF c
<1>5. ASSUME NEW e \in live PROVE jobs'[e] = Cardinality(Of(e)') + Cardinality(LiveSubs(e)')
  <2>1. e \in Id /\ jobs[e] = Cardinality(Of(e)) + Cardinality(LiveSubs(e))
    BY DEF CountInv, MainType
  <2>2. CASE e = c
    <3>1. Cardinality(Of(e)') = Cardinality(Of(e)) - 1
      BY <1>3, <2>2, OfFinite, FS_RemoveElement
    <3> QED BY <1>3, <1>4, <2>1, <2>2, <3>1, OfFinite
  <2>3. CASE e # c
    <3>1. Of(e)' = Of(e)
      BY <1>3, <2>3
    <3> QED BY <1>3, <1>4, <2>1, <2>3, <3>1
  <2> QED BY <2>2, <2>3
<1>6. \A e \in Id \ live' : jobs'[e] = 0
  BY <1>1, <1>2, <1>4 DEF CountInv
<1> QED BY <1>1, <1>5, <1>6 DEF CountInv

LEMMA CountStep ==
  ASSUME MainType, PoolType, TreeInv, PlaceInv, CountInv, [Next]_vars
  PROVE  CountInv'
<1>1. ASSUME NEW d \in Directive, NEW p \in {USE_DICT, MAKE_DICT}, ReadTask(d, p) PROVE CountInv'
  <2>1. /\ Reads(d) /\ d.op # "context" /\ Submits(p, New, current) /\ live' = live
    BY <1>1 DEF ReadTask
  <2>2. PICK h \in Task : /\ held' = h /\ All' = All \cup {h} /\ h.order = order
                          /\ Owner(h)' = current
    BY <1>1, PlaceReadTask
  <2>3. \A t \in All : Owner(t)' = Owner(t)
    BY <1>1, PlaceReadTask
  <2>4. current \in live /\ New \in Id
    BY <2>1, NewFacts DEF TreeInv
  <2>5. jobs'[current] = jobs[current] + 1 /\ \A e \in Id : e # current => jobs'[e] = jobs[e]
    BY <2>1, <2>4, SubmitsFacts DEF MainType
  <2>6. \A e \in live : LiveSubs(e)' = LiveSubs(e)
    BY <2>1, SubsReads
  <2>7. h \notin All
    BY <2>2, Youngest
  <2> QED BY <2>1, <2>2, <2>3, <2>4, <2>5, <2>6, <2>7, CountGains
<1>2. ASSUME UNCHANGED <<jobs, live>>, All' = All, \A t \in All : Owner(t)' = Owner(t),
             \A e \in live : LiveSubs(e)' = LiveSubs(e)
      PROVE  CountInv'
  <2>1. \A e : Of(e)' = Of(e)
    BY <1>2 DEF Of
  <2> QED BY <1>2, <2>1 DEF CountInv
<1>3. ASSUME NEW d \in Directive, ReadOnly(d) PROVE CountInv'
  <2>1. /\ Reads(d) /\ d.op # "context" /\ UNCHANGED <<live, jobs, order, held, queue, slot, lost>>
    BY <1>3 DEF ReadOnly
  <2>2. All' = All
    BY <2>1 DEF All, Pending, Running
  <2>3. order' \in Nat /\ order' >= order /\ live \subseteq live'
    BY <2>1 DEF MainType
  <2>4. \A t \in All : Owner(t)' = Owner(t)
    BY <2>1, <2>3, GenuineReads, AllFacts DEF PlaceInv
  <2>5. \A e \in live : LiveSubs(e)' = LiveSubs(e)
    BY <2>1, SubsReads
  <2> QED BY <1>2, <2>1, <2>2, <2>4, <2>5
<1>4. ASSUME NEW d \in Directive, NewContext(d) PROVE CountInv'
  BY <1>4, CountNewContext
<1>5. ASSUME UNCHANGED <<script, home, live, jobs>>, All' = All PROVE CountInv'
  BY <1>2, <1>5 DEF Owner, LiveSubs, Subcontexts, Children, Read
<1>6. CASE EndsInner \/ EndsOuter
  <2>1. /\ Submits(FINISH, current, current) /\ held = NoTask /\ pc \in {"read", "unwind"}
        /\ UNCHANGED <<script, home, live, queue, slot, lost>>
    BY <1>6 DEF EndsInner, EndsCurrent, EndsOuter, EndsRoot, poolVars
  <2>2. PICK h \in Task : /\ held' = h /\ All' = All \cup {h} /\ h.order = order
                          /\ Owner(h)' = current
    BY <2>1, PlaceEnds
  <2>3. \A t \in All : Owner(t)' = Owner(t)
    BY <2>1, PlaceEnds
  <2>4. current \in live
    BY <2>1 DEF TreeInv
  <2>5. jobs'[current] = jobs[current] + 1 /\ \A e \in Id : e # current => jobs'[e] = jobs[e]
    BY <2>1, SubmitsFacts DEF MainType
  <2>6. \A e \in live : LiveSubs(e)' = LiveSubs(e)
    BY <2>1 DEF LiveSubs, Subcontexts, Children, Read
  <2>7. h \notin All
    BY <2>2, Youngest
  <2> QED BY <2>1, <2>2, <2>3, <2>4, <2>5, <2>6, <2>7, CountGains
<1>7. CASE PcMoves \/ DeleteSub \/ UNCHANGED treeVars
  <2>1. UNCHANGED <<script, home, held, live, jobs, queue, slot, lost>>
    BY <1>7 DEF PcMoves, DeleteSub, treeVars, heapVars, poolVars
  <2>2. All' = All
    BY <2>1 DEF All, Pending, Running
  <2> QED BY <1>5, <2>1, <2>2
<1>8. CASE Destruct
  BY <1>8, CountDestruct
<1>9. ASSUME NEW w \in Worker, Enqueue \/ Take(w) \/ BuildThrows(w) PROVE CountInv'
  <2>1. UNCHANGED <<script, home, live, jobs>>
    BY <1>9 DEF Enqueue, Take, BuildThrows, mainVars, heapVars
  <2> QED BY <1>5, <1>9, <2>1, AllMoves
<1>10. ASSUME NEW w \in Worker, JobsDec(w) PROVE CountInv'
  BY <1>10, CountDec
<1> QED BY <1>1, <1>3, <1>4, <1>6, <1>7, <1>8, <1>9, <1>10, StepKinds, WorkerAssumption
----------------------------------------------------------------------------
\* The shelves.

\* A dictionary visible from a context stays so.
LEMMA VisibleReads ==
  ASSUME MainType, TreeInv, NEW d \in Directive, Reads(d), NEW c \in 0..Len(script)
  PROVE  Visible(c) \subseteq Visible(c)'
<1>1. /\ Len(script) \in Nat /\ New = Len(script) + 1
      /\ \A k \in Id : k # New => home'[k] = home[k]
      /\ Read \subseteq Id /\ \A k \in Read : k # New /\ k \in Read'
  BY NewFacts, ReadFacts
<1>2. SUFFICES ASSUME NEW e \in Visible(c), NEW S \in SUBSET Id, c \in S, Closed(S)'
               PROVE  home'[e] \in S
  BY <1>1 DEF Visible
<1> DEFINE T == S \cap (0..Len(script))
<1>3. ASSUME NEW j \in T, j # Root PROVE home[j] \in T
  <2>1. j \in Id /\ j # New /\ j \in S
    BY <1>1
  <2>2. home'[j] \in S
    BY <1>2, <1>3, <2>1 DEF Closed
  <2> QED BY <1>1, <2>1, <2>2 DEF TreeInv
<1>4. T \in SUBSET Id /\ c \in T /\ Closed(T)
  BY <1>2, <1>3 DEF Closed
<1>5. home[e] \in T /\ e \in Read
  BY <1>4 DEF Visible
<1> QED BY <1>1, <1>5

\* What directive d may do to one of the two families of shelves, f.
ShelfMoves(d, f, g) ==
  \/ /\ d.op # "make"
     /\ \/ g = f
        \/ g = [f EXCEPT ![current] = Put(@, New, d.name)]
        \/ g = [f EXCEPT ![current] = Drop(@, d.name)]
  \/ /\ d.op \in {"make", "context"}
     /\ g = [f EXCEPT ![New] = Copy(f[current])]

\* Only the reader changes a shelf.
LEMMA ShelfKinds ==
  ASSUME [Next]_vars
  PROVE  \/ \E d \in Directive : Reads(d) /\ ShelfMoves(d, rpd, rpd') /\ ShelfMoves(d, rnd, rnd')
         \/ UNCHANGED <<script, home, rpd, rnd>>
<1>1. ASSUME NEW d \in Directive, ReadDirective(d)
      PROVE  Reads(d) /\ ShelfMoves(d, rpd, rpd') /\ ShelfMoves(d, rnd, rnd')
  <2> USE DEF ShelfMoves
  <2>1. CASE Defdir(d) BY <2>1 DEF Defdir
  <2>2. CASE Noextend(d) BY <2>2 DEF Noextend, PutNoextend
  <2>3. CASE Undefdir(d) BY <2>3 DEF Undefdir
  <2>4. CASE Unnoextend(d) BY <2>4 DEF Unnoextend, DropNoextend
  <2>5. CASE Raw(d) BY <2>5 DEF Raw
  <2>6. CASE Make(d) BY <2>6 DEF Make, CopyNoextend
  <2>7. CASE NewContext(d) BY <2>7 DEF NewContext, CopyNoextend
  <2> QED BY <1>1, <2>1, <2>2, <2>3, <2>4, <2>5, <2>6, <2>7 DEF ReadDirective
<1>2. CASE EndContext \/ Unwind \/ Unwound \/ Eof
  BY <1>2 DEF EndContext, Unwind, Unwound, Eof, EndsCurrent, EndsRoot
<1>3. CASE Test \/ BadCommand \/ Stray \/ EofAborts
  BY <1>3 DEF Test, BadCommand, Stray, EofAborts, heapVars
<1>4. CASE Enqueue \/ DeleteSub \/ Destruct \/ WriteOutput
  BY <1>4 DEF Enqueue, DeleteSub, Destruct, WriteOutput, heapVars
<1>5. ASSUME NEW w \in Worker, Work(w) PROVE UNCHANGED <<script, home, rpd, rnd>>
  <2> USE DEF mainVars, heapVars
  <2>1. CASE Take(w) BY <2>1 DEF Take
  <2>2. CASE BuildDict(w) BY <2>2 DEF BuildDict
  <2>3. CASE BuildThrows(w) BY <2>3 DEF BuildThrows
  <2>4. CASE FinishDict(w) BY <2>4 DEF FinishDict
  <2>5. CASE RunRaw(w) BY <2>5 DEF RunRaw
  <2>6. CASE StartMake(w) BY <2>6 DEF StartMake
  <2>7. CASE MatchStep(w) BY <2>7 DEF MatchStep
  <2>8. CASE FullStep(w) BY <2>8 DEF FullStep
  <2>9. CASE FinishMake(w) BY <2>9 DEF FinishMake
  <2>10. CASE JoinInputs(w) BY <2>10 DEF JoinInputs
  <2>11. CASE JobsDec(w) BY <2>11 DEF JobsDec
  <2> QED BY <1>5, <2>1, <2>2, <2>3, <2>4, <2>5, <2>6, <2>7, <2>8, <2>9, <2>10, <2>11 DEF Work
<1>6. CASE UNCHANGED vars
  BY <1>6 DEF vars, mainVars, heapVars
<1> QED BY <1>1, <1>2, <1>3, <1>4, <1>5, <1>6 DEF Next, Main, Terminated

\* What a directive does to a family of shelves keeps it sound.
LEMMA SoundReads ==
  ASSUME MainType, TreeInv, NEW d \in Directive, Reads(d), NEW f, NEW g, DOMAIN f = Id,
         \A k \in Id : Sound(f[k], k) /\ (k > Len(script) => f[k] = EmptyShelf),
         ShelfMoves(d, f, g)
  PROVE  /\ DOMAIN g = Id
         /\ \A k \in Id : Sound(g[k], k)' /\ (k > Len(script') => g[k] = EmptyShelf)
<1> USE DEF ShelfMoves
<1>1. PICK n, c : n = New /\ c = current
  OBVIOUS
<1>2. /\ n \in Id /\ Len(script) \in Nat /\ n = Len(script) + 1 /\ Len(script') = n
      /\ pc = "read" /\ script'[n] = d /\ home'[n] = c /\ n # Root
      /\ n \in Read' /\ Read \subseteq Id /\ Read' = Read \cup {n} /\ n \notin Read
      /\ \A k \in Read : script'[k] = script[k] /\ home'[k] = home[k]
  BY <1>1, NewFacts, ReadFacts
<1>3. c \in live /\ c \in 0..Len(script) /\ c \in Id /\ c # n /\ n \notin 0..Len(script)
  BY <1>1, <1>2 DEF TreeInv, MainType
<1>4. ASSUME NEW k \in 0..Len(script), k \in Id
      PROVE  /\ Place(k)' = Place(k) /\ Place(k) \in 0..Len(script)
             /\ IsShelf(f[k], Visible(Place(k))', Names) /\ IndexSound(f[k])
  <2>1. k # n /\ (k \in Read' <=> k \in Read)
    BY <1>2, <1>3, <1>4
  <2>2. Place(k)' = Place(k) /\ Place(k) \in 0..Len(script)
    BY <1>2, <1>4, <2>1 DEF Place, TreeInv
  <2>3. PICK q : q = Place(k)
    OBVIOUS
  <2>4. Visible(q) \subseteq Visible(q)'
    BY <2>2, <2>3, VisibleReads
  <2>5. IsShelf(f[k], Visible(q), Names) /\ IndexSound(f[k])
    BY <1>4, <2>3 DEF Sound
  <2>6. IsShelf(f[k], Visible(q)', Names)
    BY <2>4, <2>5, ShelfWidens
  <2> QED BY <2>2, <2>3, <2>5, <2>6
<1>5. Place(c) = c
  <2>1. c \in Read => c # Root
    BY <1>2 DEF Read, Root
  <2> QED BY <1>3, <2>1 DEF Place, TreeInv
<1>6. IsShelf(f[c], Visible(c)', Names) /\ IndexSound(f[c]) /\ Place(c)' = c
  BY <1>3, <1>4, <1>5
<1>7. n \in Visible(c)' /\ Visible(c)' \subseteq Visible(n)'
  BY <1>2 DEF Visible, Closed
<1>8. NoName \notin Names /\ d.name \in Names \cup {NoName}
  BY DEF Names
<1>9. /\ IsShelf(Put(f[c], n, d.name), Visible(c)', Names) /\ IndexSound(Put(f[c], n, d.name))
      /\ IsShelf(Drop(f[c], d.name), Visible(c)', Names) /\ IndexSound(Drop(f[c], d.name))
      /\ IsShelf(Copy(f[c]), Visible(c)', Names) /\ IndexSound(Copy(f[c]))
  BY <1>6, <1>7, <1>8, PutSound, DropSound, CopySound
<1>10. IsShelf(Copy(f[c]), Visible(n)', Names)
  BY <1>7, <1>9, ShelfWidens
<1>11. DOMAIN g = Id /\ \A k \in Id : k # c /\ k # n => g[k] = f[k]
  BY <1>1
<1>12. IsShelf(g[c], Visible(c)', Names) /\ IndexSound(g[c])
  BY <1>1, <1>3, <1>6, <1>9
<1>13. f[n] = EmptyShelf
  BY <1>2
<1>14. ASSUME NEW k \in Id PROVE Sound(g[k], k)'
  <2>1. CASE k = c
    BY <1>6, <1>12, <2>1 DEF Sound
  <2>2. CASE k = n
    <3>1. CASE g[n] = EmptyShelf
      BY <2>2, <3>1, EmptySound DEF Sound
    <3>2. CASE g = [f EXCEPT ![n] = Copy(f[c])] /\ d.op \in {"make", "context"}
      <4>1. Place(n)' = c \/ Place(n)' = n
        BY <1>2 DEF Place
      <4>2. g[n] = Copy(f[c])
        BY <1>2, <3>2
      <4> QED BY <1>9, <1>10, <2>2, <4>1, <4>2 DEF Sound
    <3> QED BY <1>1, <1>2, <1>3, <1>13, <3>1, <3>2
  <2>3. CASE k # c /\ k # n /\ k \in 0..Len(script)
    BY <1>4, <1>11, <2>3 DEF Sound
  <2>4. CASE k # c /\ k # n /\ k \notin 0..Len(script)
    <3>1. k > Len(script)
      BY <1>2, <2>4, IdFacts
    <3> QED BY <1>11, <2>4, <3>1, EmptySound DEF Sound
  <2> QED BY <2>1, <2>2, <2>3, <2>4
<1>15. ASSUME NEW k \in Id, k > Len(script') PROVE g[k] = EmptyShelf
  <2>1. k \in Nat /\ k # n /\ k > Len(script) /\ k \notin 0..Len(script)
    BY <1>2, <1>15, IdFacts
  <2> QED BY <1>3, <1>11, <2>1
<1> QED BY <1>11, <1>14, <1>15

LEMMA ShelfStep ==
  ASSUME MainType, TreeInv, ShelfInv, [Next]_vars
  PROVE  ShelfInv'
<1>1. ASSUME NEW d \in Directive, Reads(d), ShelfMoves(d, rpd, rpd'), ShelfMoves(d, rnd, rnd')
      PROVE  ShelfInv'
  <2>1. PICK f1, g1, f2, g2 : f1 = rpd /\ g1 = rpd' /\ f2 = rnd /\ g2 = rnd'
    OBVIOUS
  <2>2. /\ \A k \in Id : Sound(f1[k], k) /\ (k > Len(script) => f1[k] = EmptyShelf)
        /\ \A k \in Id : Sound(f2[k], k) /\ (k > Len(script) => f2[k] = EmptyShelf)
        /\ DOMAIN f1 = Id /\ DOMAIN f2 = Id
    BY <2>1 DEF ShelfInv, MainType
  <2>3. \A k \in Id : Sound(g1[k], k)' /\ (k > Len(script') => g1[k] = EmptyShelf)
    BY <1>1, <2>1, <2>2, SoundReads
  <2>4. \A k \in Id : Sound(g2[k], k)' /\ (k > Len(script') => g2[k] = EmptyShelf)
    BY <1>1, <2>1, <2>2, SoundReads
  <2> QED BY <2>1, <2>3, <2>4 DEF ShelfInv, Sound
<1>2. ASSUME UNCHANGED <<script, home, rpd, rnd>> PROVE ShelfInv'
  BY <1>2 DEF ShelfInv, Sound, Visible, Closed, Place, Read
<1> QED BY <1>1, <1>2, ShelfKinds

\* The positions a scan can start at are natural numbers.
LEMMA ShelfLengths == ShelfInv => ShelfType
BY DEF ShelfInv, ShelfType, Sound, IsShelf
----------------------------------------------------------------------------
\* The dictionaries.

\* The tasks a step of the main thread adds: at most one, for the directive just read.
LEMMA ReadyMain ==
  ASSUME MainType, PoolType, PlaceInv, ReadyInv, UNCHANGED <<ready, step, slot>>,
         NEW H, All' = All \cup H, Read \subseteq Read',
         \A k \in Read : script'[k] = script[k],
         \A k \in Read' \ Read : script'[k].op \in {"defdir", "noextend"} =>
           \E h \in H : h.priority = MAKE_DICT /\ h.id = k,
         \A h \in H : /\ h.priority = MAKE_DICT => h.id \notin Read
                      /\ h \notin Running /\ h \in Task
                      /\ \A u \in H : u = h
  PROVE  ReadyInv'
<1>1. \A t \in All : t.priority = MAKE_DICT => t.id \in Read
  <2>1. MAKE_DICT # FINISH
    BY DEF MAKE_DICT, FINISH
  <2> QED BY <2>1 DEF PlaceInv, Genuine
<1>2. \A h \in H : \A w \in Worker : slot[w] # h
  BY AllFacts, NoTaskAssumption
<1>3. ASSUME NEW k \in Read', script'[k].op \in {"defdir", "noextend"}
      PROVE  k \in ready' \/ \E t \in All' : t.priority = MAKE_DICT /\ t.id = k
  <2>1. CASE k \in Read
    BY <1>3, <2>1 DEF ReadyInv
  <2>2. CASE k \notin Read
    BY <1>3, <2>2
  <2> QED BY <2>1, <2>2
<1>4. ASSUME NEW t \in All', t.priority = MAKE_DICT
      PROVE  t.id \in ready' <=> \E w \in Worker : slot'[w] = t /\ step'[w] = "dec"
  <2>1. CASE t \in All
    BY <1>4, <2>1 DEF ReadyInv
  <2>2. CASE t \in H
    BY <1>2, <1>4, <2>2 DEF ReadyInv
  <2> QED BY <2>1, <2>2
<1>5. \A t, u \in All' : t.priority = MAKE_DICT /\ u.priority = MAKE_DICT /\ t.id = u.id => t = u
  BY <1>1 DEF ReadyInv
<1> QED BY <1>3, <1>4, <1>5 DEF ReadyInv

LEMMA ReadyMainStep ==
  ASSUME MainType, PoolType, TreeInv, PlaceInv, ReadyInv, Main
  PROVE  ReadyInv'
<1>0. UNCHANGED <<ready, step>>
  BY MainKinds
<1>n. ASSUME All' = All, UNCHANGED slot, Read \subseteq Read',
             \A k \in Read : script'[k] = script[k],
             \A k \in Read' \ Read : script'[k].op \notin {"defdir", "noextend"}
      PROVE  ReadyInv'
  <2>1. PICK H : H = {}
    OBVIOUS
  <2>2. All' = All \cup H /\ \A h \in H : FALSE
    BY <1>n, <2>1
  <2> QED BY <1>0, <1>n, <2>2, ReadyMain
<1>1. ASSUME NEW d \in Directive, NEW p \in {USE_DICT, MAKE_DICT}, ReadTask(d, p) PROVE ReadyInv'
  <2>1. /\ Reads(d) /\ UNCHANGED slot
        /\ p = USE_DICT => d.op \notin {"defdir", "noextend"}
    BY <1>1 DEF ReadTask
  <2>2. PICK h \in Task : /\ All' = All \cup {h} /\ h.order = order
                          /\ h.priority = p /\ h.id = New
    BY <1>1, PlaceReadTask
  <2>3. /\ Read' = Read \cup {New} /\ New \notin Read /\ script'[New] = d
        /\ \A k \in Read : script'[k] = script[k]
    BY <2>1, NewFacts, ReadFacts
  <2>4. h \notin Running
    BY <2>2, Youngest DEF All, Pending
  <2>5. PICK H : H = {h}
    OBVIOUS
  <2>6. /\ All' = All \cup H
        /\ \A k \in Read' \ Read : script'[k].op \in {"defdir", "noextend"} =>
             \E g \in H : g.priority = MAKE_DICT /\ g.id = k
        /\ \A g \in H : /\ g.priority = MAKE_DICT => g.id \notin Read
                       /\ g \notin Running /\ g \in Task
                       /\ \A u \in H : u = g
    BY <2>1, <2>2, <2>3, <2>4, <2>5
  <2> QED BY <1>0, <2>1, <2>3, <2>6, ReadyMain
<1>2. ASSUME NEW d \in Directive, ReadOnly(d) \/ NewContext(d) PROVE ReadyInv'
  <2>1. /\ Reads(d) /\ d.op \notin {"defdir", "noextend"} /\ UNCHANGED <<held, queue, slot, lost>>
    BY <1>2 DEF ReadOnly, NewContext, poolVars
  <2>2. All' = All
    BY <2>1 DEF All, Pending, Running
  <2>3. /\ Read' = Read \cup {New} /\ script'[New] = d
        /\ \A k \in Read : script'[k] = script[k]
    BY <2>1, NewFacts, ReadFacts
  <2>4. \A k \in Read' \ Read : script'[k].op \notin {"defdir", "noextend"}
    BY <2>1, <2>3
  <2> QED BY <1>0, <1>n, <2>1, <2>2, <2>3, <2>4
<1>3. CASE EndsInner \/ EndsOuter
  <2>1. /\ Submits(FINISH, current, current) /\ held = NoTask /\ pc \in {"read", "unwind"}
        /\ UNCHANGED <<script, home, live, queue, slot, lost>>
    BY <1>3 DEF EndsInner, EndsCurrent, EndsOuter, EndsRoot, poolVars
  <2>2. PICK h \in Task : /\ All' = All \cup {h} /\ h.order = order
                          /\ h.priority = FINISH
    BY <2>1, PlaceEnds
  <2>3. h \notin Running /\ h.priority # MAKE_DICT
    BY <2>2, Youngest DEF All, Pending, FINISH, MAKE_DICT
  <2>4. Read' = Read
    BY <2>1 DEF Read
  <2>5. PICK H : H = {h}
    OBVIOUS
  <2>6. /\ All' = All \cup H
        /\ \A g \in H : /\ g.priority # MAKE_DICT
                       /\ g \notin Running /\ g \in Task
                       /\ \A u \in H : u = g
    BY <2>2, <2>3, <2>5
  <2> QED BY <1>0, <2>1, <2>4, <2>6, ReadyMain
<1>4. ASSUME All' = All, UNCHANGED <<script, slot>> PROVE ReadyInv'
  <2>1. Read' = Read
    BY <1>4 DEF Read
  <2> QED BY <1>0, <1>n, <1>4, <2>1
<1>5. CASE PcMoves \/ DeleteSub \/ Destruct
  <2>1. UNCHANGED <<script, slot, held, queue, lost>>
    BY <1>5 DEF PcMoves, DeleteSub, Destruct, heapVars, poolVars
  <2>2. All' = All
    BY <2>1 DEF All, Pending, Running
  <2> QED BY <1>4, <2>1, <2>2
<1>6. CASE Enqueue
  <2>1. UNCHANGED <<script, slot>>
    BY <1>6 DEF Enqueue
  <2> QED BY <1>4, <1>6, <2>1, AllMoves, WorkerAssumption
<1> QED BY <1>1, <1>2, <1>3, <1>5, <1>6, MainKinds

\* A step of a worker inside a task, other than the one that makes a dictionary ready.
Inside(w) ==
  /\ slot[w] # NoTask /\ step[w] # "dec"
  /\ \E q : /\ step' = [step EXCEPT ![w] = q]
            /\ q = "dec" => slot[w].priority # MAKE_DICT
            /\ q \in {"match", "full"} => slot[w].priority = USE_DICT
            /\ q = "finish" => slot[w].priority = MAKE_DICT
  /\ UNCHANGED <<script, held, queue, slot, lost, ready>>

LEMMA WorkKinds ==
  ASSUME PoolType, ReadyInv, NEW w \in Worker, Work(w)
  PROVE  Take(w) \/ BuildThrows(w) \/ FinishDict(w) \/ JobsDec(w) \/ Inside(w)
<1> USE DEF mainVars, heapVars, Goes, Starts
<1>1. USE_DICT # MAKE_DICT /\ FINISH # MAKE_DICT
  BY DEF USE_DICT, MAKE_DICT, FINISH
<1>2. ASSUME NEW q, step' = [step EXCEPT ![w] = q], step[w] \notin {"idle", "dec"},
             q = "dec" => slot[w].priority # MAKE_DICT,
             q \in {"match", "full"} => slot[w].priority = USE_DICT,
             q = "finish" => slot[w].priority = MAKE_DICT,
             UNCHANGED <<script, held, queue, slot, lost, ready>>
      PROVE  Inside(w)
  BY <1>2 DEF PoolType, Inside
<1>3. CASE BuildDict(w) BY <1>2, <1>3 DEF BuildDict
<1>4. CASE RunRaw(w) BY <1>1, <1>2, <1>4 DEF RunRaw
<1>5. CASE StartMake(w)
  <2>1. CASE error
    BY <1>1, <1>2, <1>5, <2>1 DEF StartMake
  <2>2. CASE ~error
    BY <1>1, <1>2, <1>5, <2>2 DEF StartMake
  <2> QED BY <2>1, <2>2
<1>6. step[w] \in {"match", "full"} => slot[w].priority = USE_DICT
  BY DEF ReadyInv
<1>7. step = [step EXCEPT ![w] = step[w]]
  BY DEF PoolType
<1>8. CASE MatchStep(w)
  BY <1>1, <1>2, <1>6, <1>7, <1>8 DEF MatchStep, Writes, ScanOn
<1>9. CASE FullStep(w)
  BY <1>1, <1>2, <1>6, <1>7, <1>9 DEF FullStep, Writes, ScanOn
<1>10. CASE FinishMake(w) BY <1>1, <1>2, <1>6, <1>10 DEF FinishMake
<1>11. CASE JoinInputs(w) BY <1>1, <1>2, <1>11 DEF JoinInputs
<1> QED BY <1>3, <1>4, <1>5, <1>8, <1>9, <1>10, <1>11 DEF Work

LEMMA ReadyWorkStep ==
  ASSUME MainType, PoolType, PlaceInv, ReadyInv, NEW w \in Worker, Work(w)
  PROVE  ReadyInv'
<1>0. \A v \in Worker : slot[v] = slot[w] /\ slot[w] # NoTask => v = w
  BY DEF PlaceInv
<1>r. NoTask \notin All
  BY AllFacts
<1>1. CASE Take(w)
  <2>1. /\ slot[w] = NoTask /\ step' = [step EXCEPT ![w] = "start"]
        /\ UNCHANGED <<script, ready>>
    BY <1>1 DEF Take, mainVars, heapVars
  <2>2. PICK t \in queue : slot' = [slot EXCEPT ![w] = t]
    BY <1>1 DEF Take, Tops
  <2>3. /\ slot'[w] = t /\ step'[w] = "start"
        /\ \A v \in Worker : v # w => slot'[v] = slot[v] /\ step'[v] = step[v]
    BY <2>1, <2>2 DEF PoolType
  <2>4. All' = All /\ Read' = Read
    BY <1>1, <2>1, AllMoves DEF Read
  <2>5. ASSUME NEW u \in All, u.priority = MAKE_DICT
        PROVE  u.id \in ready <=> \E v \in Worker : slot'[v] = u /\ step'[v] = "dec"
    BY <1>r, <2>1, <2>3, <2>5 DEF ReadyInv
  <2> QED BY <2>1, <2>3, <2>4, <2>5 DEF ReadyInv
<1>2. CASE BuildThrows(w)
  <2>1. /\ slot[w] # NoTask /\ step[w] = "start" /\ step' = [step EXCEPT ![w] = "idle"]
        /\ slot' = [slot EXCEPT ![w] = NoTask] /\ UNCHANGED <<script, ready>>
    BY <1>2 DEF BuildThrows, mainVars, heapVars, Starts, Goes, PoolType
  <2>2. /\ slot'[w] = NoTask /\ step'[w] = "idle"
        /\ \A v \in Worker : v # w => slot'[v] = slot[v] /\ step'[v] = step[v]
    BY <2>1 DEF PoolType
  <2>3. All' = All /\ Read' = Read
    BY <1>2, <2>1, AllMoves DEF Read
  <2>4. ASSUME NEW u \in All, u.priority = MAKE_DICT
        PROVE  u.id \in ready <=> \E v \in Worker : slot'[v] = u /\ step'[v] = "dec"
    BY <2>1, <2>2, <2>4 DEF ReadyInv
  <2> QED BY <2>1, <2>2, <2>3, <2>4 DEF ReadyInv
<1>3. CASE FinishDict(w)
  <2>1. /\ step[w] = "finish" /\ step' = [step EXCEPT ![w] = "dec"] /\ slot[w] # NoTask
        /\ ready' = ready \cup {slot[w].id} /\ UNCHANGED <<script, held, queue, slot, lost>>
    BY <1>3 DEF FinishDict, mainVars, Goes, PoolType
  <2>2. step'[w] = "dec" /\ \A v \in Worker : v # w => step'[v] = step[v]
    BY <2>1 DEF PoolType
  <2>3. All' = All /\ Read' = Read
    BY <2>1 DEF Read, All, Pending, Running
  <2>4. slot[w] \in All /\ slot[w].priority = MAKE_DICT
    BY <2>1, AllFacts DEF ReadyInv, All, Pending
  <2>5. slot[w].id \in Read
    <3>1. MAKE_DICT # FINISH
      BY DEF MAKE_DICT, FINISH
    <3> QED BY <2>4, <3>1 DEF PlaceInv, Genuine
  <2>6. ASSUME NEW u \in All, u.priority = MAKE_DICT
        PROVE  u.id \in ready' <=> \E v \in Worker : slot[v] = u /\ step'[v] = "dec"
    <3>1. CASE u = slot[w]
      BY <2>1, <2>2, <3>1
    <3>2. CASE u # slot[w]
      <4>1. u.id # slot[w].id
        BY <2>4, <2>6, <3>2 DEF ReadyInv
      <4> QED BY <2>1, <2>2, <2>6, <3>2, <4>1 DEF ReadyInv
    <3> QED BY <3>1, <3>2
  <2> QED BY <2>1, <2>2, <2>3, <2>5, <2>6 DEF ReadyInv
<1>4. CASE JobsDec(w)
  <2>1. /\ step[w] = "dec" /\ step' = [step EXCEPT ![w] = "idle"] /\ UNCHANGED <<script, ready>>
    BY <1>4 DEF JobsDec, mainVars, Goes
  <2>2. slot[w] \in All /\ All' = All \ {slot[w]} /\ slot' = [slot EXCEPT ![w] = NoTask]
    BY <1>4, AllDec
  <2>3. /\ slot'[w] = NoTask /\ step'[w] = "idle"
        /\ \A v \in Worker : v # w => slot'[v] = slot[v] /\ step'[v] = step[v]
    BY <2>1, <2>2 DEF PoolType
  <2>4. slot[w].priority = MAKE_DICT => slot[w].id \in ready
    BY <2>1, <2>2 DEF ReadyInv
  <2>5. ASSUME NEW u \in All', u.priority = MAKE_DICT
        PROVE  u.id \in ready <=> \E v \in Worker : slot'[v] = u /\ step'[v] = "dec"
    BY <1>r, <2>1, <2>2, <2>3, <2>5 DEF ReadyInv
  <2>6. Read' = Read
    BY <2>1 DEF Read
  <2>7. ASSUME NEW k \in Read, script[k].op \in {"defdir", "noextend"}
        PROVE  k \in ready \/ \E t \in All' : t.priority = MAKE_DICT /\ t.id = k
    BY <2>2, <2>4, <2>7 DEF ReadyInv
  <2> QED BY <2>1, <2>2, <2>3, <2>5, <2>6, <2>7 DEF ReadyInv
<1>5. CASE Inside(w)
  <2>1. PICK q : /\ step' = [step EXCEPT ![w] = q]
                 /\ q = "dec" => slot[w].priority # MAKE_DICT
                 /\ q \in {"match", "full"} => slot[w].priority = USE_DICT
                 /\ q = "finish" => slot[w].priority = MAKE_DICT
    BY <1>5 DEF Inside
  <2>2. step'[w] = q /\ \A v \in Worker : v # w => step'[v] = step[v]
    BY <2>1 DEF PoolType
  <2>3. /\ slot[w] # NoTask /\ step[w] # "dec" /\ UNCHANGED <<script, All, slot, ready>>
        /\ Read' = Read
    BY <1>5 DEF Inside, Read, All, Pending, Running
  <2>4. ASSUME NEW u \in All, u.priority = MAKE_DICT
        PROVE  u.id \in ready <=> \E v \in Worker : slot[v] = u /\ step'[v] = "dec"
    BY <2>1, <2>2, <2>3, <2>4 DEF ReadyInv
  <2> QED BY <2>1, <2>2, <2>3, <2>4 DEF ReadyInv
<1> QED BY <1>1, <1>2, <1>3, <1>4, <1>5, WorkKinds
----------------------------------------------------------------------------
\* The inductive invariant, and what follows from it.
Core == MainType /\ PoolType /\ TreeInv /\ PlaceInv /\ CountInv /\ ShelfInv /\ ReadyInv

LEMMA CoreInit == Init => Core
<1> SUFFICES ASSUME Init PROVE Core
  OBVIOUS
<1> USE DEF Init
<1>1. Len(script) = 0 /\ Read = {} /\ Root \in Id /\ 0 \in 0..0
  BY IdFacts DEF Read
<1>2. Running = {} /\ All = {}
  BY DEF Running, All, Pending
<1>3. MainType
  <2>1. script \in Seq(Directive) /\ s \in Seq(Id) /\ dtor \in Seq(Id) /\ Len(script) <= MaxDirectives
    BY <1>1, MaxDirectivesAssumption
  <2>2. home \in [Id -> Id] /\ jobs \in [Id -> Int] /\ DOMAIN rpd = Id /\ DOMAIN rnd = Id
    BY <1>1
  <2> QED BY <1>1, <2>1, <2>2 DEF MainType
<1>4. PoolType
  BY DEF PoolType
<1>5. TreeInv
  <2>1. Len(s) = 0 /\ Len(dtor) = 0 /\ home = [k \in Id |-> 0]
    BY DEF Root
  <2> QED BY <1>1, <2>1 DEF TreeInv, Root
<1>6. PlaceInv
  BY <1>2, FS_EmptySet DEF PlaceInv
<1>7. CountInv
  <2>1. \A c : Of(c) = {} /\ LiveSubs(c) = {}
    BY <1>1, <1>2 DEF Of, LiveSubs, Subcontexts, Children
  <2>2. \A c \in Id : jobs[c] = 0
    OBVIOUS
  <2>3. Cardinality({}) = 0
    BY FS_EmptySet
  <2>4. ASSUME NEW c \in live PROVE jobs[c] = Cardinality(Of(c)) + Cardinality(LiveSubs(c))
    <3>1. Cardinality(Of(c)) = 0 /\ Cardinality(LiveSubs(c)) = 0 /\ c \in Id
      BY <1>1, <2>1, <2>3
    <3> QED BY <2>2, <3>1
  <2> QED BY <2>2, <2>4 DEF CountInv
<1>8. ShelfInv
  BY EmptySound DEF ShelfInv, Sound
<1>9. ReadyInv
  BY <1>1, <1>2 DEF ReadyInv
<1> QED BY <1>3, <1>4, <1>5, <1>6, <1>7, <1>8, <1>9 DEF Core

LEMMA CoreStep == Core /\ [Next]_vars => Core'
<1> SUFFICES ASSUME Core, [Next]_vars PROVE Core'
  OBVIOUS
<1> USE DEF Core
<1>1. MainType' /\ TreeInv' /\ CountInv' /\ PlaceInv' /\ ShelfInv'
  BY MainTypeStep, TreeStep, CountStep, PlaceStep, ShelfStep
<1>2. PoolType'
  BY PoolTypeStep, ShelfLengths
<1>3. ReadyInv'
  <2>1. CASE Main
    BY <2>1, ReadyMainStep
  <2>2. CASE \E w \in Worker : Work(w)
    BY <2>2, ReadyWorkStep
  <2>3. CASE UNCHANGED vars
    <3>1. All' = All /\ Read' = Read
      BY <2>3 DEF vars, mainVars, poolVars, All, Pending, Running, Read
    <3> QED BY <2>3, <3>1 DEF ReadyInv, vars, mainVars, heapVars, poolVars
  <2> QED BY <2>1, <2>2, <2>3 DEF Next, Terminated
<1> QED BY <1>1, <1>2, <1>3

LEMMA CoreAlways == Spec => []Core
BY CoreInit, CoreStep, PTL DEF Spec

\* Every variable has its type, and no counter is ever negative: see TypeOK.
THEOREM TypeCorrect == Spec => []TypeOK
<1>1. Core => TypeOK
  <2> SUFFICES ASSUME Core PROVE TypeOK
    OBVIOUS
  <2> USE DEF Core
  <2>1. ASSUME NEW c \in Id PROVE jobs[c] \in Nat
    <3>1. CASE c \in live
      <4>1. Cardinality(Of(c)) + Cardinality(LiveSubs(c)) \in Nat
        BY OfFinite
      <4> QED BY <3>1, <4>1 DEF CountInv
    <3>2. CASE c \notin live
      BY <3>2 DEF CountInv
    <3> QED BY <3>1, <3>2
  <2>2. jobs \in [Id -> Nat]
    BY <2>1 DEF MainType
  <2> QED BY <2>2 DEF TypeOK, MainType, PoolType
<1> QED BY <1>1, CoreAlways, PTL

\* A context's counter is the number of its unfinished tasks and its undeleted
\* subcontexts, in every interleaving: see JobsExact.
THEOREM JobsAreExact == Spec => []JobsExact
<1>1. Core => JobsExact
  BY DEF Core, CountInv, JobsExact, Of, All
<1> QED BY <1>1, CoreAlways, PTL

\* No unfinished task can reach a deleted context or dictionary: see NoDanglingUse.
THEOREM NothingDangles == Spec => []NoDanglingUse
<1>1. Core => NoDanglingUse
  <2> SUFFICES ASSUME Core, NEW t \in Pending
               PROVE  /\ Owner(t) \in live
                      /\ t.priority = USE_DICT =>
                           \A sh \in {rpd[t.id], rnd[t.id]} :
                             \A i \in DOMAIN sh.entry : home[sh.entry[i].dict] \in live
    BY DEF NoDanglingUse
  <2> USE DEF Core
  <2>1. t \in All /\ Genuine(t) /\ Owner(t) \in live /\ t.id \in Id
    BY AllFacts DEF All, PlaceInv, Genuine
  <2>2. ASSUME t.priority = USE_DICT, NEW sh \in {rpd[t.id], rnd[t.id]}, NEW i \in DOMAIN sh.entry
        PROVE  home[sh.entry[i].dict] \in live
    <3>1. Owner(t) = home[t.id] /\ Place(t.id) = home[t.id]
      BY <2>1, <2>2 DEF Genuine, Owner, Place, USE_DICT, FINISH
    <3>2. IsShelf(sh, Visible(Owner(t)), Names)
      BY <2>1, <2>2, <3>1 DEF ShelfInv, Sound
    <3>3. sh.entry[i].dict \in Visible(Owner(t))
      <4> DEFINE E == [dict : Visible(Owner(t)), name : Names \cup {NoName}, state : BOOLEAN]
      <4>1. sh.entry \in Seq(E)
        BY <3>2 DEF IsShelf
      <4>2. sh.entry[i] \in E
        <5> HIDE DEF E
        <5> QED BY <2>2, <4>1
      <4> QED BY <4>2
    <3>4. live \in SUBSET Id /\ Closed(live)
      BY DEF MainType, TreeInv, Closed
    <3> QED BY <2>1, <3>3, <3>4 DEF Visible
  <2> QED BY <2>1, <2>2
<1> QED BY <1>1, CoreAlways, PTL

\* The assertions on every shelf of the program hold: see ShelvesSound.
THEOREM ShelvesAreSound == Spec => []ShelvesSound
<1>1. Core => ShelvesSound
  BY DEF Core, ShelfInv, Sound, ShelvesSound
<1> QED BY <1>1, CoreAlways, PTL

\* When a context may free its dictionaries they are ready: see FreedDictsReady.
THEOREM DictsFreedReady == Spec => []FreedDictsReady
<1>1. Core => FreedDictsReady
  <2> SUFFICES ASSUME Core, NEW c \in live, jobs[c] = 0, NEW k \in Owned(c) PROVE k \in ready
    BY DEF FreedDictsReady
  <2> USE DEF Core
  <2>1. k \in Read /\ home[k] = c /\ script[k].op \in {"defdir", "noextend"}
    BY DEF Owned, Children
  <2>2. ASSUME NEW t \in All, t.priority = MAKE_DICT, t.id = k PROVE FALSE
    <3>1. Owner(t) = c
      BY <2>1, <2>2 DEF Owner, MAKE_DICT, FINISH
    <3> QED BY <3>1, NoneOwned DEF Of
  <2> QED BY <2>1, <2>2 DEF ReadyInv
<1> QED BY <1>1, CoreAlways, PTL

\* When main returns nothing is left to do or to free: see CleanExit.
THEOREM LeavesNothing == Spec => []CleanExit
<1>1. Core => CleanExit
  BY DEF Core, CleanExit, TreeInv, PlaceInv, Genuine, All
<1> QED BY <1>1, CoreAlways, PTL

\* A dictionary that is ready keeps its words: only the one task that builds it
\* writes to it, and that task has passed finish().  See ReadyFrozen.
THEOREM ReadyStaysFrozen == Spec => ReadyFrozen
<1>1. ASSUME Core, [Next]_vars, NEW k \in ready PROVE k \in ready' /\ content'[k] = content[k]
  <2> USE <1>1 DEF Core
  <2>1. CASE Main
    BY <2>1, MainKinds
  <2>2. ASSUME NEW w \in Worker, Work(w) PROVE k \in ready' /\ content'[k] = content[k]
    <3> USE DEF mainVars, heapVars
    <3>1. CASE BuildDict(w)
      <4>1. /\ step[w] = "start" /\ slot[w].priority = MAKE_DICT /\ ready' = ready
            /\ k # slot[w].id => content'[k] = content[k]
        BY <3>1 DEF BuildDict, Starts
      <4>2. slot[w] # NoTask /\ slot[w] \in All
        <5>1. slot[w] # NoTask
          BY <4>1 DEF PoolType
        <5> QED BY <5>1, AllFacts DEF All, Pending
      <4>3. \A v \in Worker : slot[v] = slot[w] => v = w
        BY <4>2 DEF PlaceInv
      <4>4. slot[w].id \notin ready
        BY <4>1, <4>2, <4>3 DEF ReadyInv
      <4> QED BY <1>1, <4>1, <4>4
    <3>2. CASE Take(w) BY <1>1, <3>2 DEF Take
    <3>3. CASE BuildThrows(w) BY <1>1, <3>3 DEF BuildThrows
    <3>4. CASE FinishDict(w) BY <1>1, <3>4 DEF FinishDict
    <3>5. CASE RunRaw(w) BY <1>1, <3>5 DEF RunRaw
    <3>6. CASE StartMake(w) BY <1>1, <3>6 DEF StartMake
    <3>7. CASE MatchStep(w) BY <1>1, <3>7 DEF MatchStep
    <3>8. CASE FullStep(w) BY <1>1, <3>8 DEF FullStep
    <3>9. CASE FinishMake(w) BY <1>1, <3>9 DEF FinishMake
    <3>10. CASE JoinInputs(w) BY <1>1, <3>10 DEF JoinInputs
    <3>11. CASE JobsDec(w) BY <1>1, <3>11 DEF JobsDec
    <3> QED BY <2>2, <3>1, <3>2, <3>3, <3>4, <3>5, <3>6, <3>7, <3>8, <3>9, <3>10, <3>11 DEF Work
  <2>3. CASE UNCHANGED vars
    BY <1>1, <2>3 DEF vars, heapVars
  <2> QED BY <1>1, <2>1, <2>2, <2>3 DEF Next, Terminated
<1>2. Core /\ [Next]_vars => [\A k \in ready : k \in ready' /\ content'[k] = content[k]]_vars
  BY <1>1
<1> QED BY <1>2, CoreAlways, PTL DEF Spec, ReadyFrozen

\* A task overtakes an earlier one only by its priority: a worker takes a top task,
\* and what is submitted later is younger than all that run.  See NoOvertaking.
THEOREM NoTaskOvertakes == Spec => []NoOvertaking
<1>1. Init => NoOvertaking
  BY DEF Init, NoOvertaking
<1>2. Core /\ NoOvertaking /\ [Next]_vars => NoOvertaking'
  <2> SUFFICES ASSUME Core, NoOvertaking, [Next]_vars PROVE NoOvertaking'
    OBVIOUS
  <2> USE DEF Core
  <2>0. ASSUME Running' \subseteq Running, queue' \subseteq queue PROVE NoOvertaking'
    BY <2>0 DEF NoOvertaking
  <2>1. ASSUME UNCHANGED <<queue, slot>> PROVE NoOvertaking'
    BY <2>0, <2>1 DEF Running
  <2>2. CASE Main
    <3>1. CASE Enqueue
      <4>1. held # NoTask /\ queue' = queue \cup {held} /\ Running' = Running
        BY <3>1 DEF Enqueue, Running
      <4>2. \A t \in Running : t.order < held.order /\ t.order \in Nat /\ held.order \in Nat
        BY <4>1, AllFacts DEF PlaceInv, All, Pending
      <4> QED BY <4>1, <4>2 DEF NoOvertaking
    <3>2. CASE UNCHANGED poolVars
      BY <2>1, <3>2 DEF poolVars
    <3> QED BY <2>2, <3>1, <3>2, MainPool
  <2>3. ASSUME NEW w \in Worker, Work(w) PROVE NoOvertaking'
    <3>1. CASE Take(w)
      <4>1. PICK t \in Tops(queue) : slot' = [slot EXCEPT ![w] = t] /\ queue' = queue \ {t}
        BY <3>1 DEF Take
      <4>2. t \in queue /\ \A u \in queue : ~Lower(t, u)
        BY <4>1 DEF Tops
      <4>3. Running' \subseteq Running \cup {t}
        <5>1. slot'[w] = t /\ \A v \in Worker : v # w => slot'[v] = slot[v]
          BY <4>1 DEF PoolType
        <5> QED BY <5>1 DEF Running
      <4>4. ASSUME NEW u \in queue, u.order < t.order PROVE u.priority < t.priority
        <5>1. /\ t.order \in Nat /\ u.order \in Nat
              /\ t.priority \in {0, 1, 2} /\ u.priority \in {0, 1, 2}
          BY <4>2, IdFacts DEF PoolType, Task
        <5>2. ~(t.priority < u.priority) /\ ~(t.priority = u.priority /\ t.order > u.order)
          BY <4>2 DEF Lower
        <5> QED BY <4>4, <5>1, <5>2
      <4> QED BY <4>1, <4>3, <4>4 DEF NoOvertaking
    <3>2. CASE BuildThrows(w)
      <4>1. slot' = [slot EXCEPT ![w] = NoTask] /\ queue' = queue
        BY <3>2 DEF BuildThrows
      <4>2. slot'[w] = NoTask /\ \A v \in Worker : v # w => slot'[v] = slot[v]
        BY <4>1 DEF PoolType
      <4>3. Running' \subseteq Running
        BY <4>2 DEF Running
      <4> QED BY <2>0, <4>1, <4>3
    <3>3. CASE JobsDec(w)
      <4>1. Running' \subseteq Running /\ queue' = queue
        BY <3>3, AllDec DEF JobsDec
      <4> QED BY <2>0, <4>1
    <3>4. CASE FinishDict(w)
      BY <2>1, <3>4 DEF FinishDict
    <3>5. CASE Inside(w)
      BY <2>1, <3>5 DEF Inside
    <3> QED BY <2>3, <3>1, <3>2, <3>3, <3>4, <3>5, WorkKinds
  <2>4. CASE UNCHANGED vars
    BY <2>1, <2>4 DEF vars, poolVars
  <2> QED BY <2>2, <2>3, <2>4 DEF Next, Terminated
<1> QED BY <1>1, <1>2, CoreAlways, PTL DEF Spec
----------------------------------------------------------------------------
\* The error flag.

\* The error of block k is still to be reported: its task has not come to the end.
Unreported(k) ==
  \E t \in Pending : /\ t.id = k /\ t.priority # FINISH
                     /\ \A w \in Worker : slot[w] = t => step[w] \in {"start", "match", "full"}

\* The flag follows blocks and directives: no error is forgotten and none is invented.
ErrorInv ==
  /\ \A k \in Read : script[k].fate = "bad" => error \/ Unreported(k)
  /\ error => signal = "syntax" \/ \E k \in Read : script[k].fate = "bad"
  /\ signal = "syntax" => error /\ pc # "read"

\* Main never touches a worker; of the tasks it only adds some.
LEMMA MainAdds ==
  ASSUME Main
  PROVE  /\ UNCHANGED <<slot, step>> /\ Pending \subseteq Pending'
         /\ \/ error' = error /\ (signal' = signal \/ (signal' # "syntax" /\ pc = "read"))
            \/ error' = TRUE /\ signal' = "syntax" /\ pc' # "read"
         /\ pc' = "read" => pc = "read"
<1> USE DEF poolVars
<1>0. ASSUME UNCHANGED <<slot, queue>>, held' = held \/ held = NoTask PROVE Pending \subseteq Pending'
  BY <1>0 DEF Pending, Running
<1>1. ASSUME NEW d \in Directive, ReadDirective(d)
      PROVE  /\ UNCHANGED <<slot, queue, step, error>> /\ held = NoTask
             /\ pc = "read" /\ signal' = "untested"
  <2> USE DEF Reads, Reading
  <2>1. CASE Defdir(d) BY <2>1 DEF Defdir
  <2>2. CASE Noextend(d) BY <2>2 DEF Noextend
  <2>3. CASE Undefdir(d) BY <2>3 DEF Undefdir
  <2>4. CASE Unnoextend(d) BY <2>4 DEF Unnoextend
  <2>5. CASE Raw(d) BY <2>5 DEF Raw
  <2>6. CASE Make(d) BY <2>6 DEF Make
  <2>7. CASE NewContext(d) BY <2>7 DEF NewContext
  <2> QED BY <1>1, <2>1, <2>2, <2>3, <2>4, <2>5, <2>6, <2>7 DEF ReadDirective
<1>2. CASE EndContext \/ Unwind \/ Unwound \/ Eof
  <2>1. /\ UNCHANGED <<slot, queue, step, error>> /\ held = NoTask
        /\ signal' = signal \/ (signal' # "syntax" /\ pc = "read")
        /\ pc' = "read" => pc = "read"
    BY <1>2 DEF EndContext, Unwind, Unwound, Eof, EndsCurrent, EndsRoot, Reading
  <2> QED BY <1>0, <2>1
<1>3. CASE Test \/ BadCommand \/ Stray \/ EofAborts \/ DeleteSub \/ Destruct \/ WriteOutput
  <2>1. UNCHANGED <<slot, queue, step, held>>
    BY <1>3 DEF Test, BadCommand, Stray, EofAborts, DeleteSub, Destruct, WriteOutput
  <2>2. /\ \/ error' = error /\ (signal' = signal \/ (signal' # "syntax" /\ pc = "read"))
           \/ error' = TRUE /\ signal' = "syntax" /\ pc' # "read"
        /\ pc' = "read" => pc = "read"
    BY <1>3 DEF Test, BadCommand, Stray, EofAborts, DeleteSub, Destruct, WriteOutput, heapVars, Reading
  <2> QED BY <1>0, <2>1, <2>2
<1>4. CASE Enqueue
  <2>1. /\ UNCHANGED <<slot, step, error, pc, signal>> /\ queue' = queue \cup {held}
        /\ held # NoTask
    BY <1>4 DEF Enqueue, heapVars
  <2> QED BY <2>1 DEF Pending, Running
<1> QED BY <1>0, <1>1, <1>2, <1>3, <1>4 DEF Main

\* What a worker does to the flag: the end of a bad block sets it.
LEMMA WorkReports ==
  ASSUME PoolType, ReadyInv, NEW w \in Worker, Work(w)
  PROVE  /\ UNCHANGED <<script, held>>
         /\ UNCHANGED <<pc, signal>>
         /\ \/ error' = error
            \/ error' = (error \/ Block(w).fate = "bad") /\ slot[w].priority # FINISH /\ slot[w] # NoTask
<1> USE DEF mainVars, heapVars, Starts, PoolType
<1>1. FINISH # USE_DICT /\ FINISH # MAKE_DICT
  BY DEF FINISH, USE_DICT, MAKE_DICT
<1>2. CASE Take(w) BY <1>2 DEF Take
<1>3. CASE BuildDict(w) BY <1>1, <1>3 DEF BuildDict
<1>4. CASE BuildThrows(w) BY <1>4 DEF BuildThrows
<1>5. CASE FinishDict(w) BY <1>5 DEF FinishDict
<1>6. CASE RunRaw(w) BY <1>1, <1>6 DEF RunRaw
<1>7. CASE StartMake(w) BY <1>7 DEF StartMake
<1>8. CASE MatchStep(w) BY <1>8 DEF MatchStep
<1>9. CASE FullStep(w) BY <1>9 DEF FullStep
<1>10. CASE FinishMake(w) BY <1>1, <1>10 DEF FinishMake, ReadyInv
<1>11. CASE JoinInputs(w) BY <1>11 DEF JoinInputs
<1>12. CASE JobsDec(w) BY <1>12 DEF JobsDec
<1> QED BY <1>2, <1>3, <1>4, <1>5, <1>6, <1>7, <1>8, <1>9, <1>10, <1>11, <1>12 DEF Work

\* The worker of a bad block goes on with it until it has set the flag.
LEMMA BadGoesOn ==
  ASSUME PoolType, ReadyInv, NEW w \in Worker, Work(w), slot[w] # NoTask, slot[w].priority # FINISH,
         step[w] \in {"start", "match", "full"}, Block(w).fate = "bad", ~error'
  PROVE  /\ UNCHANGED <<slot, queue>> /\ step'[w] \in {"match", "full"}
         /\ \A v \in Worker : v # w => step'[v] = step[v]
<1> USE DEF mainVars, heapVars, Starts, PoolType, Goes
<1>1. ~Take(w) BY DEF Take
<1>2. ~BuildDict(w) BY DEF BuildDict
<1>3. ~BuildThrows(w) BY DEF BuildThrows
<1>4. ~FinishDict(w) BY DEF FinishDict
<1>5. ~RunRaw(w) BY DEF RunRaw
<1>6. ~FinishMake(w) BY DEF FinishMake
<1>7. ~JoinInputs(w) BY DEF JoinInputs
<1>8. ~JobsDec(w) BY DEF JobsDec
<1>9. CASE StartMake(w) BY <1>9 DEF StartMake
<1>10. CASE MatchStep(w) BY <1>10 DEF MatchStep, Writes, ScanOn
<1>11. CASE FullStep(w) BY <1>11 DEF FullStep, Writes, ScanOn
<1> QED BY <1>1, <1>2, <1>3, <1>4, <1>5, <1>6, <1>7, <1>8, <1>9, <1>10, <1>11 DEF Work

\* While the flag is clear, the error of a bad block stays to be reported.
LEMMA ErrorWork ==
  ASSUME Core, NEW w \in Worker, Work(w), ~error', NEW k \in Read, script[k].fate = "bad",
         Unreported(k)
  PROVE  Unreported(k)'
<1> USE DEF Core
<1>1. PICK t \in Pending : /\ t.id = k /\ t.priority # FINISH
                           /\ \A v \in Worker : slot[v] = t => step[v] \in {"start", "match", "full"}
  BY DEF Unreported
<1>2. t # NoTask /\ t \in All
  BY <1>1, AllFacts DEF All
<1>3. ASSUME t \in Pending', \A v \in Worker : slot'[v] = t => step'[v] \in {"start", "match", "full"}
      PROVE  Unreported(k)'
  BY <1>1, <1>3 DEF Unreported
<1>4. CASE slot[w] = t
  <2>1. /\ UNCHANGED <<slot, queue>> /\ step'[w] \in {"match", "full"}
        /\ \A v \in Worker : v # w => step'[v] = step[v]
    BY <1>1, <1>2, <1>4, BadGoesOn DEF Block
  <2>2. Pending' = Pending
    BY <2>1, WorkReports DEF Pending, Running
  <2> QED BY <1>1, <1>3, <2>1, <2>2
<1>5. CASE slot[w] # t
  <2>0. UNCHANGED held
    BY WorkReports
  <2>1. CASE Take(w)
    <3>1. PICK u \in queue : slot' = [slot EXCEPT ![w] = u] /\ queue' = queue \ {u}
      BY <2>1 DEF Take, Tops
    <3>2. /\ slot[w] = NoTask /\ slot'[w] = u /\ step'[w] = "start"
          /\ \A v \in Worker : v # w => slot'[v] = slot[v] /\ step'[v] = step[v]
      BY <2>1, <3>1 DEF Take, PoolType
    <3>3. u # NoTask
      BY NoTaskAssumption DEF PoolType
    <3>4. t \in Pending'
      <4>1. CASE t = u
        BY <3>2, <3>3, <4>1 DEF Pending, Running
      <4>2. CASE t # u
        BY <1>2, <2>0, <3>1, <3>2, <4>2 DEF Pending, Running
      <4> QED BY <4>1, <4>2
    <3> QED BY <1>1, <1>3, <3>2, <3>4
  <2>2. CASE BuildThrows(w) \/ JobsDec(w)
    <3>1. /\ slot' = [slot EXCEPT ![w] = NoTask] /\ UNCHANGED queue
          /\ step' = [step EXCEPT ![w] = "idle"]
      BY <2>2 DEF BuildThrows, JobsDec, Goes
    <3>2. /\ slot'[w] = NoTask /\ \A v \in Worker : v # w => slot'[v] = slot[v] /\ step'[v] = step[v]
      BY <3>1 DEF PoolType
    <3>3. t \in Pending'
      BY <1>1, <1>2, <1>5, <2>0, <3>1, <3>2 DEF Pending, Running
    <3> QED BY <1>1, <1>2, <1>3, <3>2, <3>3
  <2>3. CASE FinishDict(w) \/ Inside(w)
    <3>1. UNCHANGED <<slot, queue>> /\ \A v \in Worker : v # w => step'[v] = step[v]
      BY <2>3 DEF FinishDict, Inside, Goes, PoolType
    <3>2. Pending' = Pending
      BY <2>0, <3>1 DEF Pending, Running
    <3> QED BY <1>1, <1>3, <1>5, <3>1, <3>2
  <2> QED BY <2>1, <2>2, <2>3, WorkKinds
<1> QED BY <1>4, <1>5

\* Reading keeps what was read; a bad block comes with its task.
LEMMA ErrorReads ==
  ASSUME Core, Main
  PROVE  /\ Read \subseteq Read' /\ \A k \in Read : script'[k] = script[k]
         /\ \A k \in Read' \ Read : script'[k].fate = "bad" => Unreported(k)'
<1> USE DEF Core
<1>1. ASSUME NEW d \in Directive, NEW p \in {USE_DICT, MAKE_DICT}, ReadTask(d, p), NEW n, n = New
      PROVE  Unreported(n)'
  <2>1. PICK h \in Task : held' = h /\ h.order = order /\ h.priority = p /\ h.id = New
    BY <1>1, PlaceReadTask
  <2>2. h \in Pending' /\ p # FINISH
    BY <2>1, NoTaskAssumption DEF Pending, FINISH, USE_DICT, MAKE_DICT
  <2>3. \A w \in Worker : slot'[w] # h
    <3>1. h \notin All /\ h # NoTask
      BY <2>1, Youngest, NoTaskAssumption
    <3>2. UNCHANGED slot
      BY <1>1 DEF ReadTask
    <3> QED BY <3>1, <3>2, AllFacts DEF All, Pending
  <2> QED BY <1>1, <2>1, <2>2, <2>3 DEF Unreported
<1>2. ASSUME NEW d \in Directive, Reads(d), NEW n, n = New, d.fate = "bad" => Unreported(n)'
      PROVE  /\ Read \subseteq Read' /\ \A k \in Read : script'[k] = script[k]
             /\ \A k \in Read' \ Read : script'[k].fate = "bad" => Unreported(k)'
  BY <1>2, NewFacts, ReadFacts
<1>3. ASSUME NEW d \in Directive, ReadOnly(d) \/ NewContext(d) PROVE Reads(d) /\ d.fate # "bad"
  BY <1>3, DirectiveAssumption DEF ReadOnly, NewContext
<1>4. ASSUME UNCHANGED script
      PROVE  /\ Read \subseteq Read' /\ \A k \in Read : script'[k] = script[k]
             /\ \A k \in Read' \ Read : script'[k].fate = "bad" => Unreported(k)'
  BY <1>4 DEF Read
<1>5. CASE EndsInner \/ EndsOuter \/ PcMoves \/ Enqueue \/ DeleteSub \/ Destruct
  BY <1>4, <1>5 DEF EndsInner, EndsOuter, EndsCurrent, EndsRoot, PcMoves, Enqueue, DeleteSub, Destruct
<1>6. ASSUME NEW d \in Directive, NEW p \in {USE_DICT, MAKE_DICT}, ReadTask(d, p) PROVE Reads(d)
  BY <1>6 DEF ReadTask
<1>7. PICK n : n = New
  OBVIOUS
<1> QED BY <1>1, <1>2, <1>3, <1>5, <1>6, <1>7, MainKinds

LEMMA ErrorStep ==
  ASSUME Core, ErrorInv, [Next]_vars
  PROVE  ErrorInv'
<1> USE DEF Core
<1>1. CASE Main
  <2>1. /\ UNCHANGED <<slot, step>> /\ Pending \subseteq Pending'
        /\ \/ error' = error /\ (signal' = signal \/ (signal' # "syntax" /\ pc = "read"))
           \/ error' = TRUE /\ signal' = "syntax" /\ pc' # "read"
        /\ pc' = "read" => pc = "read"
    BY <1>1, MainAdds
  <2>2. /\ Read \subseteq Read' /\ \A k \in Read : script'[k] = script[k]
        /\ \A k \in Read' \ Read : script'[k].fate = "bad" => Unreported(k)'
    BY <1>1, ErrorReads
  <2>3. \A k : Unreported(k) => Unreported(k)'
    BY <2>1 DEF Unreported
  <2>4. \A k \in Read' : script'[k].fate = "bad" => error' \/ Unreported(k)'
    BY <2>1, <2>2, <2>3 DEF ErrorInv
  <2>5. /\ error' => signal' = "syntax" \/ \E k \in Read' : script'[k].fate = "bad"
        /\ signal' = "syntax" => error' /\ pc' # "read"
    BY <2>1, <2>2 DEF ErrorInv
  <2> QED BY <2>4, <2>5 DEF ErrorInv
<1>2. ASSUME NEW w \in Worker, Work(w) PROVE ErrorInv'
  <2>1. /\ UNCHANGED <<script, held>>
        /\ UNCHANGED <<pc, signal>>
        /\ \/ error' = error
           \/ error' = (error \/ Block(w).fate = "bad") /\ slot[w].priority # FINISH /\ slot[w] # NoTask
    BY <1>2, WorkReports
  <2>2. Read' = Read
    BY <2>1 DEF Read
  <2>3. \A k \in Read : script[k].fate = "bad" => error' \/ Unreported(k)'
    <3>1. error => error'
      BY <2>1
    <3> QED BY <1>2, <3>1, ErrorWork DEF ErrorInv
  <2>4. slot[w] # NoTask /\ slot[w].priority # FINISH => slot[w].id \in Read
    BY AllFacts DEF PlaceInv, Genuine, All, Pending
  <2>5. error' => signal = "syntax" \/ \E k \in Read : script[k].fate = "bad"
    BY <2>1, <2>4 DEF ErrorInv, Block
  <2>6. signal = "syntax" => error' /\ pc # "read"
    BY <2>1 DEF ErrorInv
  <2> QED BY <2>1, <2>2, <2>3, <2>5, <2>6 DEF ErrorInv
<1>3. CASE UNCHANGED vars
  <2>1. Read' = Read /\ \A k : Unreported(k)' = Unreported(k)
    BY <1>3 DEF vars, mainVars, poolVars, Read, Unreported, Pending, Running
  <2> QED BY <1>3, <2>1 DEF ErrorInv, vars, mainVars, heapVars
<1> QED BY <1>1, <1>2, <1>3 DEF Next, Terminated

\* When main tests the flag it is set exactly if a directive or the text of some block
\* read has a syntax error; that a stray character sets none is part of it: see
\* ErrorExact.
THEOREM ErrorIsExact == Spec => []ErrorExact
<1>1. Init => ErrorInv
  <2>1. Init => Read = {} /\ ~error /\ signal # "syntax"
    BY DEF Init, Read
  <2> QED BY <2>1 DEF ErrorInv
<1>2. Core /\ ErrorInv /\ [Next]_vars => ErrorInv'
  BY ErrorStep
<1>3. Core /\ ErrorInv => ErrorExact
  <2> SUFFICES ASSUME Core, ErrorInv, pc \in {"deleted", "done"}
               PROVE  /\ (\E k \in Read : script[k].fate = "bad") => error
                      /\ signal = "syntax" => error
                      /\ error => signal = "syntax" \/ \E k \in Read : script[k].fate = "bad"
    <3>1. Core => error \in BOOLEAN
      BY DEF Core, MainType
    <3> QED BY <3>1 DEF ErrorExact
  <2>1. \A t \in Pending : FALSE
    BY DEF Core, TreeInv, PlaceInv, Genuine, All
  <2> QED BY <2>1 DEF ErrorInv, Unreported
<1> QED BY <1>1, <1>2, <1>3, CoreAlways, PTL DEF Spec
----------------------------------------------------------------------------
\* The contexts around a directive, as RuleMeaning counts them.

\* Where every parent has a smaller number, the recursive definition has a solution.
LEMMA AroundExists ==
  ASSUME NEW N \in Nat, NEW h \in [0..N -> 0..N], \A i \in 1..N : h[i] < i
  PROVE  \E g : g = [i \in 0..N |-> IF i = 0 THEN {} ELSE {h[i]} \cup g[h[i]]]
<1> DEFINE Solves(g, n) == g = [i \in 0..n |-> IF i = 0 THEN {} ELSE {h[i]} \cup g[h[i]]]
           T == {n \in 0..N : ~\E g : Solves(g, n)}
<1>1. ASSUME T # {} PROVE FALSE
  <2>1. PICK n \in T : \A m \in T : n <= m
    <3>1. T \subseteq Nat
      OBVIOUS
    <3> HIDE DEF T
    <3> QED BY <1>1, <3>1, Least
  <2>2. n \in 0..N /\ n \in Nat /\ ~\E g : Solves(g, n)
    OBVIOUS
  <2>3. CASE n = 0
    <3>1. Solves([i \in 0..0 |-> {}], 0)
      OBVIOUS
    <3> HIDE DEF Solves
    <3> QED BY <2>2, <2>3, <3>1
  <2>4. CASE n # 0
    <3>1. n - 1 \in 0..N /\ ~(n <= n - 1)
      BY <2>2, <2>4
    <3>2. PICK g : Solves(g, n - 1)
      <4> HIDE DEF Solves
      <4> QED BY <2>1, <3>1
    <3> DEFINE e == [i \in 0..n |-> IF i < n THEN g[i] ELSE {h[n]} \cup g[h[n]]]
    <3>3. ASSUME NEW i \in 0..n PROVE e[i] = IF i = 0 THEN {} ELSE {h[i]} \cup e[h[i]]
      <4>1. CASE i = 0
        <5>1. 0 \in 0..n - 1 /\ 0 < n
          BY <2>2, <2>4
        <5> QED BY <3>2, <4>1, <5>1
      <4>2. CASE i # 0
        <5>1. i \in 1..N /\ h[i] \in 0..n - 1 /\ h[i] < n /\ h[i] \in 0..n /\ h[i] < i
          BY <2>2, <4>2
        <5>2. e[h[i]] = g[h[i]]
          BY <5>1
        <5>3. CASE i = n
          BY <4>2, <5>2, <5>3
        <5>4. CASE i # n
          <6>1. i \in 0..n - 1 /\ i < n
            BY <2>2, <5>4
          <6>2. g[i] = {h[i]} \cup g[h[i]]
            BY <3>2, <4>2, <6>1
          <6> QED BY <4>2, <5>2, <6>1, <6>2
        <5> QED BY <5>3, <5>4
      <4> QED BY <4>1, <4>2
    <3>4. Solves(e, n)
      <4>1. e = [i \in 0..n |-> e[i]]
        OBVIOUS
      <4> HIDE DEF e
      <4> QED BY <3>3, <4>1
    <3> HIDE DEF Solves, e
    <3> QED BY <2>2, <3>4
  <2> QED BY <2>3, <2>4
<1>2. N \in 0..N
  OBVIOUS
<1>3. \E g : Solves(g, N)
  <2> HIDE DEF Solves
  <2> QED BY <1>1, <1>2
<1> QED BY <1>3

\* So it can be unfolded.
LEMMA AroundFacts ==
  ASSUME MainType, TreeInv
  PROVE  /\ Rule!Around(home, Root) = {}
         /\ \A k \in Id \ {Root} : Rule!Around(home, k) = {home[k]} \cup Rule!Around(home, home[k])
         /\ \A k \in Id \ {Root} : home[k] < k
<1> DEFINE a == CHOOSE g : g = [i \in DOMAIN home |-> IF i = 0 THEN {} ELSE {home[i]} \cup g[home[i]]]
<1>1. ASSUME NEW k \in Id \ {Root} PROVE home[k] < k
  <2>1. CASE k \in Read
    BY <2>1 DEF TreeInv
  <2>2. CASE k \notin Read
    <3>1. k \in Nat /\ k # 0 /\ Len(script) \in Nat
      BY IdFacts DEF Root, MainType
    <3> QED BY <2>2, <3>1 DEF TreeInv, Read
  <2> QED BY <2>1, <2>2
<1>2. \E g : g = [i \in DOMAIN home |-> IF i = 0 THEN {} ELSE {home[i]} \cup g[home[i]]]
  <2>1. DOMAIN home = 0..MaxDirectives /\ home \in [0..MaxDirectives -> 0..MaxDirectives]
    BY DEF MainType, Id
  <2>2. \A i \in 1..MaxDirectives : home[i] < i
    BY <1>1, MaxDirectivesAssumption DEF Id, Root
  <2>3. \E g : g = [i \in 0..MaxDirectives |-> IF i = 0 THEN {} ELSE {home[i]} \cup g[home[i]]]
    BY <2>1, <2>2, AroundExists, MaxDirectivesAssumption
  <2> QED BY <2>1, <2>3
<1>3. a = [i \in DOMAIN home |-> IF i = 0 THEN {} ELSE {home[i]} \cup a[home[i]]]
  BY <1>2
<1>4. \A k : Rule!Around(home, k) = a[k]
  BY DEF Rule!Around
<1> HIDE DEF a
<1>5. \A i \in Id : a[i] = IF i = 0 THEN {} ELSE {home[i]} \cup a[home[i]]
  BY <1>3 DEF MainType
<1> QED BY <1>1, <1>4, <1>5, IdFacts DEF Root

\* A set of contexts with their parents holds all that is around its members.
LEMMA AroundInside ==
  ASSUME MainType, TreeInv, NEW S \in SUBSET Id, Closed(S), NEW c \in S
  PROVE  Rule!Around(home, c) \subseteq S
<1> DEFINE T == {k \in S : ~(Rule!Around(home, k) \subseteq S)}
<1> SUFFICES ASSUME T # {} PROVE FALSE
  OBVIOUS
<1>1. T \subseteq Nat
  BY IdFacts
<1>2. PICK k \in T : \A j \in T : k <= j
  <2> HIDE DEF T
  <2> QED BY <1>1, Least
<1>3. k \in S /\ k \in Id /\ k # Root
  BY AroundFacts
<1>4. home[k] \in S /\ home[k] < k /\ home[k] \in Nat /\ k \in Nat
  <2>1. home[k] < k
    BY <1>3, AroundFacts
  <2>2. home[k] \in S
    BY <1>3 DEF Closed
  <2>3. S \subseteq Nat
    BY IdFacts
  <2> QED BY <1>3, <2>1, <2>2, <2>3
<1>5. Rule!Around(home, home[k]) \subseteq S
  BY <1>2, <1>4
<1> QED BY <1>2, <1>3, <1>4, <1>5, AroundFacts
----------------------------------------------------------------------------
\* The order tasks are submitted in.

\* The contexts that have not ended: the current one and those the reader goes back to.
Open == {current} \cup {s[i] : i \in 1..Len(s)}

\* They are nested, and none has its FINISH task yet.
OpenInv ==
  pc \in {"read", "unwind"} =>
    /\ Closed(Open)
    /\ \A i \in 1..Len(s) : s[i] < current
    /\ \A i, j \in 1..Len(s) : i < j => s[i] < s[j]
    /\ \A t \in All : t.priority = FINISH => t.id \notin Open

\* Tasks are numbered as their directives are read; what is submitted after the FINISH
\* task of a context belongs neither to it nor to a context inside it.
OrderInv ==
  /\ \A t, u \in All : t.order = u.order => t = u
  /\ \A t, u \in All : t.priority # FINISH /\ u.priority # FINISH /\ t.id < u.id => t.order < u.order
  /\ \A t, u \in All : t.priority = FINISH /\ t.order < u.order =>
       \E S \in SUBSET (0..Len(script)) : Closed(S) /\ Owner(u) \in S /\ t.id \notin S

\* The shelves of a block hold earlier dictionaries only.
CopyInv == \A k \in Read : script[k].op # "context" =>
             IsShelf(rpd[k], 1..k - 1, Names) /\ IsShelf(rnd[k], 1..k - 1, Names)

\* A set of contexts read stays closed when the next directive is read.
LEMMA ClosedReads ==
  ASSUME MainType, NEW d \in Directive, Reads(d), NEW S \in SUBSET (0..Len(script)), Closed(S)
  PROVE  Closed(S)' /\ S \in SUBSET (0..Len(script'))
<1>1. /\ Len(script) \in Nat /\ New = Len(script) + 1 /\ Len(script') = Len(script) + 1
      /\ \A k \in Id : k # New => home'[k] = home[k]
  BY NewFacts
<1>2. ASSUME NEW k \in S PROVE home'[k] = home[k] /\ k \in 0..Len(script')
  <2>1. k \in 0..Len(script) /\ k # New /\ k <= MaxDirectives
    BY <1>1, MaxDirectivesAssumption DEF MainType
  <2>2. k \in Id
    BY <1>1, <2>1, IdFacts
  <2> QED BY <1>1, <2>1, <2>2
<1> QED BY <1>2 DEF Closed

\* The open contexts are contexts read.
LEMMA OpenFacts ==
  ASSUME Core, pc \in {"read", "unwind"}
  PROVE  Open \in SUBSET (0..Len(script)) /\ Open \in SUBSET Id
BY DEF Core, TreeInv, MainType, Open

\* A task submitted now is the youngest, and is outside every context that has ended.
LEMMA OrderAdds ==
  ASSUME Core, OrderInv, NEW h \in Task, h.order = order, All' = All \cup {h},
         \A t \in All : Owner(t)' = Owner(t),
         \A S \in SUBSET (0..Len(script)) : Closed(S) => Closed(S)' /\ S \in SUBSET (0..Len(script')),
         h.priority # FINISH => \A t \in All : t.priority # FINISH => t.id < h.id,
         NEW S0 \in SUBSET (0..Len(script)), Closed(S0), Owner(h)' \in S0,
         \A t \in All : t.priority = FINISH => t.id \notin S0
  PROVE  OrderInv'
<1> USE DEF Core
<1>1. \A t \in All : t.order < order /\ t.order \in Nat /\ t.id \in Nat /\ t # h
  BY AllFacts, IdFacts, Youngest DEF PlaceInv, Genuine
<1>2. order \in Nat /\ h.id \in Nat
  BY IdFacts DEF MainType, Task
<1>3. \A t, u \in All' : t.order = u.order => t = u
  BY <1>1, <1>2 DEF OrderInv
<1>4. \A t, u \in All' : t.priority # FINISH /\ u.priority # FINISH /\ t.id < u.id => t.order < u.order
  BY <1>1, <1>2 DEF OrderInv
<1>5. ASSUME NEW t \in All', NEW u \in All', t.priority = FINISH, t.order < u.order
      PROVE  \E S \in SUBSET (0..Len(script')) : Closed(S)' /\ Owner(u)' \in S /\ t.id \notin S
  <2>1. t \in All
    BY <1>1, <1>2, <1>5
  <2>2. CASE u \in All
    <3>1. PICK S \in SUBSET (0..Len(script)) : Closed(S) /\ Owner(u) \in S /\ t.id \notin S
      BY <1>5, <2>1, <2>2 DEF OrderInv
    <3> QED BY <2>2, <3>1
  <2>3. CASE u = h
    BY <1>5, <2>1, <2>3
  <2> QED BY <2>2, <2>3
<1> QED BY <1>3, <1>4, <1>5 DEF OrderInv

\* A task that moves or ends leaves the order as it is.
LEMMA OrderKeeps ==
  ASSUME OrderInv, All' \subseteq All, \A t \in All : Owner(t)' = Owner(t),
         \A S \in SUBSET (0..Len(script)) : Closed(S) => Closed(S)' /\ S \in SUBSET (0..Len(script'))
  PROVE  OrderInv'
<1>1. ASSUME NEW t \in All', NEW u \in All', t.priority = FINISH, t.order < u.order
      PROVE  \E S \in SUBSET (0..Len(script')) : Closed(S)' /\ Owner(u)' \in S /\ t.id \notin S
  <2>1. PICK S \in SUBSET (0..Len(script)) : Closed(S) /\ Owner(u) \in S /\ t.id \notin S
    BY <1>1 DEF OrderInv
  <2> QED BY <2>1
<1> QED BY <1>1 DEF OrderInv

\* What a step that reads nothing leaves of the tree.
LEMMA TreeStays ==
  ASSUME UNCHANGED <<script, home>>
  PROVE  /\ \A t : Owner(t)' = Owner(t)
         /\ \A S : Closed(S)' = Closed(S)
BY DEF Owner, Closed

LEMMA OrderStep ==
  ASSUME Core, OpenInv, OrderInv, [Next]_vars
  PROVE  OrderInv'
<1> USE DEF Core
<1>1. ASSUME NEW d \in Directive, NEW p \in {USE_DICT, MAKE_DICT}, ReadTask(d, p) PROVE OrderInv'
  <2>1. Reads(d) /\ pc = "read"
    BY <1>1, NewFacts DEF ReadTask
  <2>2. PICK h \in Task : /\ All' = All \cup {h} /\ h.order = order
                          /\ h.priority = p /\ h.id = New /\ Owner(h)' = current
    BY <1>1, PlaceReadTask
  <2>3. \A t \in All : Owner(t)' = Owner(t)
    BY <1>1, PlaceReadTask
  <2>4. ASSUME NEW t \in All, t.priority # FINISH PROVE t.id < h.id
    <3>1. t.id \in 1..Len(script) /\ Len(script) \in Nat /\ New = Len(script) + 1
      BY <2>1, <2>4, NewFacts DEF PlaceInv, Genuine, Read
    <3> QED BY <2>2, <3>1
  <2>5. PICK S : S = Open
    OBVIOUS
  <2>6. /\ S \in SUBSET (0..Len(script)) /\ Closed(S) /\ Owner(h)' \in S
        /\ \A t \in All : t.priority = FINISH => t.id \notin S
    BY <2>1, <2>2, <2>5, OpenFacts DEF OpenInv, Open
  <2> QED BY <2>1, <2>2, <2>3, <2>4, <2>6, ClosedReads, OrderAdds
<1>2. ASSUME NEW d \in Directive, ReadOnly(d) \/ NewContext(d) PROVE OrderInv'
  <2>1. Reads(d) /\ UNCHANGED <<held, queue, slot, lost>>
    BY <1>2 DEF ReadOnly, NewContext, poolVars
  <2>2. All' = All
    BY <2>1 DEF All, Pending, Running
  <2>3. \A t \in All : Owner(t)' = Owner(t)
    <3>1. \A t \in All : t.id # New /\ t.id \in Id
      <4>1. Len(script) \in Nat /\ New = Len(script) + 1
        BY <2>1, NewFacts
      <4> QED BY <4>1, AllFacts DEF PlaceInv, Genuine
    <3> QED BY <2>1, <3>1, NewFacts DEF Owner
  <2> QED BY <2>1, <2>2, <2>3, ClosedReads, OrderKeeps
<1>3. CASE EndsInner \/ EndsOuter
  <2>1. /\ Submits(FINISH, current, current) /\ held = NoTask /\ pc \in {"read", "unwind"}
        /\ UNCHANGED <<script, home, live, queue, slot, lost>>
    BY <1>3 DEF EndsInner, EndsCurrent, EndsOuter, EndsRoot, poolVars
  <2>2. PICK h \in Task : /\ All' = All \cup {h} /\ h.order = order
                          /\ h.priority = FINISH /\ Owner(h)' = current
    BY <2>1, PlaceEnds
  <2>3. PICK S : S = Open
    OBVIOUS
  <2>4. /\ S \in SUBSET (0..Len(script)) /\ Closed(S) /\ Owner(h)' \in S
        /\ \A t \in All : t.priority = FINISH => t.id \notin S
    BY <2>1, <2>2, <2>3, OpenFacts DEF OpenInv, Open
  <2> QED BY <2>1, <2>2, <2>4, TreeStays, OrderAdds
<1>4. ASSUME UNCHANGED <<script, home>>, All' \subseteq All PROVE OrderInv'
  BY <1>4, TreeStays, OrderKeeps
<1>5. CASE PcMoves \/ DeleteSub \/ Destruct \/ UNCHANGED treeVars
  <2>1. UNCHANGED <<script, home, slot, held, queue, lost>>
    BY <1>5 DEF PcMoves, DeleteSub, Destruct, heapVars, poolVars, treeVars
  <2> QED BY <1>4, <2>1 DEF All, Pending, Running
<1>6. CASE Enqueue
  BY <1>4, <1>6, AllMoves, WorkerAssumption DEF Enqueue
<1>7. ASSUME NEW w \in Worker, Take(w) \/ BuildThrows(w) PROVE OrderInv'
  BY <1>4, <1>7, AllMoves DEF Take, BuildThrows, mainVars
<1>8. ASSUME NEW w \in Worker, JobsDec(w) PROVE OrderInv'
  BY <1>4, <1>8, AllDec DEF JobsDec, mainVars
<1> QED BY <1>1, <1>2, <1>3, <1>5, <1>6, <1>7, <1>8, StepKinds

LEMMA OpenStep ==
  ASSUME Core, OpenInv, [Next]_vars
  PROVE  OpenInv'
<1> USE DEF Core
<1>0. /\ s \in Seq(Id) /\ Len(s) \in Nat /\ current \in Id /\ Id \subseteq Nat
      /\ \A i \in 1..Len(s) : s[i] \in Id
  BY IdFacts DEF MainType
<1>1. ASSUME UNCHANGED <<current, s>>, pc' \in {"read", "unwind"} => pc \in {"read", "unwind"},
             \A t \in All' : t.priority = FINISH => t \in All, Closed(Open) /\ pc' \in {"read", "unwind"} => Closed(Open)'
      PROVE  OpenInv'
  <2>1. Open' = Open
    BY <1>1 DEF Open
  <2> QED BY <1>1, <2>1 DEF OpenInv
<1>2. ASSUME NEW d \in Directive, NEW p \in {USE_DICT, MAKE_DICT}, ReadTask(d, p) PROVE OpenInv'
  <2>1. Reads(d) /\ pc = "read" /\ UNCHANGED <<current, s, pc>>
    BY <1>2, NewFacts DEF ReadTask
  <2>2. \A t \in All' : t.priority = FINISH => t \in All
    BY <1>2, PlaceReadTask DEF FINISH, USE_DICT, MAKE_DICT
  <2>3. PICK S : S = Open
    OBVIOUS
  <2>4. Closed(S) => Closed(S)'
    BY <2>1, <2>3, OpenFacts, ClosedReads
  <2>5. S = Open'
    BY <2>1, <2>3 DEF Open
  <2> QED BY <1>1, <2>1, <2>2, <2>3, <2>4, <2>5 DEF Closed
<1>3. ASSUME NEW d \in Directive, ReadOnly(d) PROVE OpenInv'
  <2>1. Reads(d) /\ pc = "read" /\ UNCHANGED <<current, s, pc, held, queue, slot, lost>>
    BY <1>3, NewFacts DEF ReadOnly
  <2>2. All' = All
    BY <2>1 DEF All, Pending, Running
  <2>3. PICK S : S = Open
    OBVIOUS
  <2>4. Closed(S) => Closed(S)'
    BY <2>1, <2>3, OpenFacts, ClosedReads
  <2>5. S = Open'
    BY <2>1, <2>3 DEF Open
  <2> QED BY <1>1, <2>1, <2>2, <2>3, <2>4, <2>5 DEF Closed
<1>4. ASSUME NEW d \in Directive, NewContext(d) PROVE OpenInv'
  <2>1. /\ Reads(d) /\ pc = "read" /\ pc' = pc /\ UNCHANGED <<held, queue, slot, lost>>
        /\ s' = Append(s, current) /\ current' = New
    BY <1>4, NewFacts DEF NewContext, poolVars
  <2>2. All' = All
    BY <2>1 DEF All, Pending, Running
  <2>3. PICK n, c, S : n = New /\ c = current /\ S = Open
    OBVIOUS
  <2>4. /\ n = Len(script) + 1 /\ Len(script) \in Nat /\ home'[n] = c /\ c \in S
        /\ \A k \in S : k \in 0..Len(script) /\ k < n
        /\ S \in SUBSET (0..Len(script)) /\ Closed(S)
    <3>1. n = Len(script) + 1 /\ Len(script) \in Nat /\ home'[n] = c
      BY <2>1, <2>3, NewFacts
    <3>2. c \in S /\ S \in SUBSET (0..Len(script))
      BY <2>1, <2>3, OpenFacts DEF Open
    <3>3. Closed(S)
      BY <2>1, <2>3 DEF OpenInv
    <3>4. \A k \in 0..Len(script) : k < Len(script) + 1
      BY <3>1
    <3> QED BY <3>1, <3>2, <3>3, <3>4
  <2>5. /\ Len(s') = Len(s) + 1 /\ s'[Len(s) + 1] = c
        /\ \A i \in 1..Len(s) : s'[i] = s[i]
    BY <1>0, <2>1, <2>3, PushFacts
  <2>6. Open' = S \cup {n}
    <3>1. 1..Len(s') = (1..Len(s)) \cup {Len(s) + 1}
      BY <1>0, <2>5
    <3> QED BY <2>1, <2>3, <2>5, <3>1 DEF Open
  <2>7. Closed(S)' /\ Closed(S \cup {n})'
    BY <2>1, <2>4, ClosedReads DEF Closed
  <2>8. ASSUME NEW i \in 1..Len(s') PROVE s'[i] < current'
    <3>1. CASE i \in 1..Len(s)
      <4>1. s'[i] \in S
        BY <2>3, <2>5, <3>1 DEF Open
      <4> QED BY <2>1, <2>3, <2>4, <4>1
    <3>2. CASE i = Len(s) + 1
      BY <2>1, <2>3, <2>4, <2>5, <3>2
    <3> QED BY <1>0, <2>5, <3>1, <3>2
  <2>9. ASSUME NEW i \in 1..Len(s'), NEW j \in 1..Len(s'), i < j PROVE s'[i] < s'[j]
    <3>1. i \in 1..Len(s)
      BY <1>0, <2>5, <2>9
    <3>2. CASE j \in 1..Len(s)
      BY <2>1, <2>5, <2>9, <3>1, <3>2 DEF OpenInv
    <3>3. CASE j = Len(s) + 1
      BY <2>1, <2>3, <2>5, <3>1, <3>3 DEF OpenInv
    <3> QED BY <1>0, <2>5, <3>2, <3>3
  <2>10. ASSUME NEW t \in All', t.priority = FINISH PROVE t.id \notin Open'
    <3>1. t.id \in 0..Len(script) /\ t.id \notin S
      BY <2>1, <2>2, <2>3, <2>10 DEF OpenInv, PlaceInv, Genuine
    <3> QED BY <2>4, <2>6, <3>1
  <2>11. Closed(Open)'
    BY <2>6, <2>7 DEF Closed
  <2> QED BY <2>8, <2>9, <2>10, <2>11 DEF OpenInv
<1>5. CASE EndsInner
  <2>1. /\ Submits(FINISH, current, current) /\ held = NoTask /\ pc \in {"read", "unwind"}
        /\ UNCHANGED <<script, home, live, queue, slot, lost>>
        /\ s # <<>> /\ current' = Last(s) /\ s' = Front(s) /\ pc' = pc
    BY <1>5 DEF EndsInner, EndsCurrent, poolVars
  <2>2. PICK h \in Task : /\ All' = All \cup {h} /\ h.priority = FINISH /\ h.id = current
    BY <2>1, PlaceEnds
  <2>3. Len(s) >= 1 /\ current' = s[Len(s)]
    BY <1>0, <2>1, TopFacts
  <2>4. Len(s') = Len(s) - 1 /\ \A i \in 1..Len(s) - 1 : s'[i] = s[i]
    BY <1>0, <2>1, <2>3, FrontFacts
  <2>5. Open' = {s[i] : i \in 1..Len(s)}
    <3>1. 1..Len(s) = (1..Len(s')) \cup {Len(s)}
      BY <1>0, <2>3, <2>4
    <3> QED BY <2>3, <2>4, <3>1 DEF Open
  <2>6. \A i \in 1..Len(s) : s[i] < current /\ s[i] # current
    BY <1>0, <2>1 DEF OpenInv
  <2>7. ASSUME NEW k \in Open', k # Root PROVE home[k] \in Open'
    <3>1. PICK i \in 1..Len(s) : k = s[i]
      BY <2>5
    <3>2. home[k] \in Open
      BY <2>1, <2>7, <3>1 DEF OpenInv, Closed, Open
    <3>3. home[k] < k /\ k < current /\ home[k] \in Nat /\ k \in Nat /\ current \in Nat
      <4>1. k \in Id \ {Root}
        BY <1>0, <2>7, <3>1
      <4>2. home[k] < k /\ home[k] \in Id
        BY <4>1, AroundFacts DEF MainType
      <4>3. k < current
        BY <2>6, <3>1
      <4> QED BY <1>0, <4>1, <4>2, <4>3
    <3>4. home[k] # current
      BY <3>3
    <3> QED BY <2>5, <3>2, <3>4 DEF Open
  <2>8. ASSUME NEW i \in 1..Len(s') PROVE s'[i] < current'
    BY <1>0, <2>1, <2>3, <2>4 DEF OpenInv
  <2>9. ASSUME NEW i \in 1..Len(s'), NEW j \in 1..Len(s'), i < j PROVE s'[i] < s'[j]
    BY <1>0, <2>1, <2>3, <2>4, <2>9 DEF OpenInv
  <2>10. ASSUME NEW t \in All', t.priority = FINISH PROVE t.id \notin Open'
    BY <2>1, <2>2, <2>5, <2>6, <2>10 DEF OpenInv, Open
  <2>11. Closed(Open)'
    BY <2>1, <2>7 DEF Closed
  <2> QED BY <2>8, <2>9, <2>10, <2>11 DEF OpenInv
<1>6. CASE EndsOuter
  BY <1>6 DEF EndsOuter, EndsRoot, OpenInv
<1>7. ASSUME UNCHANGED <<script, home, current, s>>, pc' \in {"read", "unwind"} => pc \in {"read", "unwind"},
             All' \subseteq All
      PROVE  OpenInv'
  <2>1. Open' = Open
    BY <1>7 DEF Open
  <2> QED BY <1>1, <1>7, <2>1 DEF Closed
<1>8. CASE PcMoves \/ DeleteSub \/ Destruct \/ UNCHANGED treeVars
  <2>1. /\ UNCHANGED <<script, home, slot, held, queue, lost, current, s>>
        /\ pc' \in {"read", "unwind"} => pc \in {"read", "unwind"}
    BY <1>8 DEF PcMoves, DeleteSub, Destruct, heapVars, poolVars, treeVars
  <2> QED BY <1>7, <2>1 DEF All, Pending, Running
<1>9. CASE Enqueue
  BY <1>7, <1>9, AllMoves, WorkerAssumption DEF Enqueue
<1>10. ASSUME NEW w \in Worker, Take(w) \/ BuildThrows(w) PROVE OpenInv'
  BY <1>7, <1>10, AllMoves DEF Take, BuildThrows, mainVars
<1>11. ASSUME NEW w \in Worker, JobsDec(w) PROVE OpenInv'
  BY <1>7, <1>11, AllDec DEF JobsDec, mainVars
<1> QED BY <1>2, <1>3, <1>4, <1>5, <1>6, <1>8, <1>9, <1>10, <1>11, StepKinds

LEMMA CopyStep ==
  ASSUME Core, CopyInv, [Next]_vars
  PROVE  CopyInv'
<1> USE DEF Core
<1>1. ASSUME NEW d \in Directive, Reads(d), ShelfMoves(d, rpd, rpd'), ShelfMoves(d, rnd, rnd')
      PROVE  CopyInv'
  <2>1. /\ New \in Id /\ New = Len(script) + 1 /\ Len(script) \in Nat /\ script'[New] = d
        /\ pc = "read" /\ Read' = Read \cup {New} /\ New \notin Read /\ Read \subseteq Id
        /\ \A k \in Read : script'[k] = script[k]
    BY <1>1, NewFacts, ReadFacts
  <2>2. current \in live /\ current \in Id /\ current # New
    BY <2>1 DEF TreeInv, MainType
  <2>3. ASSUME NEW f, NEW g, DOMAIN f = Id, ShelfMoves(d, f, g), NEW k \in Read, script[k].op # "context"
        PROVE  g[k] = f[k]
    <3>1. k # current
      <4>1. k # Root
        BY ReadFacts, <1>1
      <4> QED BY <2>2, <2>3, <4>1 DEF TreeInv
    <3> QED BY <2>1, <2>3, <3>1 DEF ShelfMoves
  <2>4. ASSUME NEW f, NEW g, DOMAIN f = Id, ShelfMoves(d, f, g), Sound(f[current], current),
               f[New] = EmptyShelf
        PROVE  IsShelf(g[New], 1..New - 1, Names)
    <3>1. g[New] = Copy(f[current]) \/ g[New] = EmptyShelf
      BY <2>1, <2>2, <2>4 DEF ShelfMoves
    <3>2. Visible(Place(current)) \subseteq Read /\ Read = 1..New - 1
      BY <2>1 DEF Visible, Read
    <3>3. IsShelf(f[current], 1..New - 1, Names) /\ IndexSound(f[current])
      BY <2>4, <3>2, ShelfWidens DEF Sound
    <3> QED BY <3>1, <3>3, CopySound, EmptySound
  <2>5. PICK f1, g1, f2, g2 : f1 = rpd /\ g1 = rpd' /\ f2 = rnd /\ g2 = rnd'
    OBVIOUS
  <2>6. /\ Sound(f1[current], current) /\ Sound(f2[current], current)
        /\ DOMAIN f1 = Id /\ DOMAIN f2 = Id /\ f1[New] = EmptyShelf /\ f2[New] = EmptyShelf
    BY <2>1, <2>2, <2>5 DEF ShelfInv, MainType
  <2>7. \A k \in Read : script[k].op # "context" => g1[k] = f1[k] /\ g2[k] = f2[k]
    BY <1>1, <2>3, <2>5, <2>6
  <2>8. IsShelf(g1[New], 1..New - 1, Names) /\ IsShelf(g2[New], 1..New - 1, Names)
    BY <1>1, <2>4, <2>5, <2>6
  <2>9. ASSUME NEW k \in Read', script'[k].op # "context"
        PROVE  IsShelf(g1[k], 1..k - 1, Names) /\ IsShelf(g2[k], 1..k - 1, Names)
    <3>1. CASE k \in Read
      BY <2>1, <2>5, <2>7, <2>9, <3>1 DEF CopyInv
    <3>2. CASE k = New
      BY <2>1, <2>8, <2>9, <3>2
    <3> QED BY <2>1, <3>1, <3>2
  <2> QED BY <2>5, <2>9 DEF CopyInv
<1>2. ASSUME UNCHANGED <<script, home, rpd, rnd>> PROVE CopyInv'
  BY <1>2 DEF CopyInv, Read
<1> QED BY <1>1, <1>2, ShelfKinds

\* A running task blocks only on what runs or is done, so a pool of any size goes on:
\* see WaitsOnlyOnRunning.
THEOREM NothingQueuedIsAwaited == Spec => []WaitsOnlyOnRunning
<1>1. Init => OpenInv /\ OrderInv /\ CopyInv
  <2> SUFFICES ASSUME Init PROVE OpenInv /\ OrderInv /\ CopyInv
    OBVIOUS
  <2>1. Len(s) = 0 /\ current = Root /\ Read = {} /\ All = {}
    BY DEF Init, Read, All, Pending, Running
  <2>2. Open = {Root}
    BY <2>1 DEF Open
  <2>3. OpenInv
    BY <2>1, <2>2 DEF OpenInv, Closed
  <2> QED BY <2>1, <2>3 DEF OrderInv, CopyInv
<1>2. Core /\ OpenInv /\ OrderInv /\ CopyInv /\ [Next]_vars => OpenInv' /\ OrderInv' /\ CopyInv'
  BY OpenStep, OrderStep, CopyStep
<1>3. Core /\ OrderInv /\ CopyInv /\ NoOvertaking => WaitsOnlyOnRunning
  <2> SUFFICES ASSUME Core, OrderInv, CopyInv, NoOvertaking, NEW t \in Running, NEW u \in queue
               PROVE  /\ t.priority = FINISH =>
                           t.id # Owner(u) /\ t.id \notin Rule!Around(home, Owner(u))
                      /\ t.priority = USE_DICT /\ u.priority = MAKE_DICT =>
                           \A sh \in {rpd[t.id], rnd[t.id]} :
                             \A i \in DOMAIN sh.entry : sh.entry[i].dict # u.id
    BY DEF WaitsOnlyOnRunning
  <2> USE DEF Core
  <2>1. t \in All /\ u \in All /\ t # u
    BY AllFacts DEF PlaceInv, All, Pending
  <2>2. /\ t.order \in Nat /\ u.order \in Nat /\ t.id \in Id /\ u.id \in Id
        /\ t.priority \in {0, 1, 2} /\ u.priority \in {0, 1, 2}
    <3>1. t \in Task /\ u \in Task
      BY <2>1, AllFacts
    <3> QED BY <3>1, IdFacts DEF Task
  <2>3. u.order < t.order => u.priority < t.priority
    BY DEF NoOvertaking
  <2>4. ASSUME t.priority = FINISH
        PROVE  t.id # Owner(u) /\ t.id \notin Rule!Around(home, Owner(u))
    <3>1. t.order < u.order
      BY <2>1, <2>2, <2>3, <2>4 DEF OrderInv, FINISH
    <3>2. PICK S \in SUBSET (0..Len(script)) : Closed(S) /\ Owner(u) \in S /\ t.id \notin S
      BY <2>1, <2>4, <3>1 DEF OrderInv
    <3>3. S \in SUBSET Id
      <4>1. \A k \in 0..Len(script) : k \in Nat /\ k <= MaxDirectives
        BY MaxDirectivesAssumption DEF MainType
      <4> QED BY <4>1, IdFacts
    <3> QED BY <3>2, <3>3, AroundInside
  <2>5. ASSUME t.priority = USE_DICT, u.priority = MAKE_DICT,
               NEW sh \in {rpd[t.id], rnd[t.id]}, NEW i \in DOMAIN sh.entry
        PROVE  sh.entry[i].dict # u.id
    <3>1. /\ t.id \in Read /\ script[t.id].op \in {"raw", "make"}
          /\ t.priority # FINISH /\ u.priority # FINISH
      BY <2>1, <2>5 DEF PlaceInv, Genuine, FINISH, USE_DICT, MAKE_DICT
    <3>2. IsShelf(sh, 1..t.id - 1, Names)
      BY <2>5, <3>1 DEF CopyInv
    <3>3. sh.entry[i].dict \in 1..t.id - 1
      <4> DEFINE E == [dict : 1..t.id - 1, name : Names \cup {NoName}, state : BOOLEAN]
      <4>1. sh.entry \in Seq(E)
        BY <3>2 DEF IsShelf
      <4>2. sh.entry[i] \in E
        <5> HIDE DEF E
        <5> QED BY <2>5, <4>1
      <4> QED BY <4>2
    <3>4. ASSUME u.id < t.id PROVE FALSE
      <4>1. u.order < t.order
        BY <2>1, <3>1, <3>4 DEF OrderInv
      <4> QED BY <2>3, <2>5, <4>1 DEF USE_DICT, MAKE_DICT
    <3>5. t.id \in Nat
      BY <2>2, IdFacts
    <3> QED BY <3>3, <3>4, <3>5
  <2> QED BY <2>4, <2>5
<1> QED BY <1>1, <1>2, <1>3, CoreAlways, NoTaskOvertakes, PTL DEF Spec
----------------------------------------------------------------------------
\* The pool as the program uses it.

\* The orders given out: one for each directive that became a task and each context
\* that ended, and one for the root.
RoomInv == order + Len(s) <= Len(script) + (IF pc \in {"read", "unwind"} THEN 0 ELSE 1)

LEMMA RoomStep ==
  ASSUME Core, RoomInv, [Next]_vars
  PROVE  RoomInv'
<1> USE DEF RoomInv
<1>0. /\ order \in Nat /\ Len(s) \in Nat /\ Len(script) \in Nat
      /\ pc \in {"read", "unwind", "delete", "deleted", "done", "abort"}
  BY DEF Core, MainType
<1>1. ASSUME NEW d \in Directive, NEW p \in {USE_DICT, MAKE_DICT}, ReadTask(d, p) PROVE RoomInv'
  BY <1>0, <1>1, NewFacts DEF ReadTask, Submits, Core
<1>2. ASSUME NEW d \in Directive, ReadOnly(d) PROVE RoomInv'
  BY <1>0, <1>2, NewFacts DEF ReadOnly, Core
<1>3. ASSUME NEW d \in Directive, NewContext(d) PROVE RoomInv'
  <2>1. Reads(d) /\ s' = Append(s, current) /\ order' = order /\ pc' = pc
    BY <1>3 DEF NewContext
  <2>2. Len(s') = Len(s) + 1
    BY <2>1 DEF Core, MainType
  <2> QED BY <1>0, <2>1, <2>2, NewFacts DEF Core
<1>4. CASE EndsInner
  <2>1. s # <<>> /\ s' = Front(s) /\ order' = order + 1 /\ pc' = pc /\ script' = script
    BY <1>4 DEF EndsInner, EndsCurrent, Submits
  <2>2. Len(s) >= 1
    BY <2>1, TopFacts DEF Core, MainType
  <2>3. Len(s') = Len(s) - 1
    BY <2>1, <2>2, FrontFacts DEF Core, MainType
  <2> QED BY <1>0, <2>1, <2>3
<1>5. CASE EndsOuter
  BY <1>0, <1>5 DEF EndsOuter, EndsRoot, Submits
<1>6. CASE PcMoves
  BY <1>0, <1>6 DEF PcMoves
<1>7. CASE Enqueue \/ DeleteSub
  BY <1>0, <1>7 DEF Enqueue, DeleteSub
<1>8. CASE Destruct
  <2>1. pc = "delete" /\ pc' \in {"delete", "deleted"} /\ UNCHANGED <<script, s, order>>
    BY <1>8 DEF Destruct, Deleting
  <2> QED BY <1>0, <2>1
<1>9. ASSUME NEW w \in Worker, Take(w) \/ BuildThrows(w) \/ JobsDec(w) PROVE RoomInv'
  BY <1>0, <1>9 DEF Take, BuildThrows, JobsDec, mainVars
<1>10. CASE UNCHANGED treeVars
  BY <1>0, <1>10 DEF treeVars
<1> QED BY <1>1, <1>2, <1>3, <1>4, <1>5, <1>6, <1>7, <1>8, <1>9, <1>10, StepKinds

\* pool.enqueue submits a task the abstract pool knows and does not hold yet.
LEMMA EnqueueRefines ==
  ASSUME Core, RoomInv, Enqueue
  PROVE  Pool!Next
<1> DEFINE P == [priority : {FINISH, USE_DICT, MAKE_DICT}, order : 0..2 * MaxDirectives, id : Id]
<1>1. held \in Task /\ held.order < order /\ \A t \in queue : t.order < held.order
  <2>1. held \in Task /\ held # NoTask /\ held \in All
    BY DEF Enqueue, Core, MainType, All, Pending
  <2> QED BY <2>1 DEF Core, PlaceInv, Genuine
<1>2. held.order \in Nat /\ held.order <= Len(script) /\ Len(script) \in Nat
  BY <1>1 DEF Core, MainType, RoomInv, Task
<1>3. held.order \in 0..2 * MaxDirectives
  BY <1>2, MaxDirectivesAssumption DEF Core, MainType
<1>4. held \in P
  BY <1>1, <1>3 DEF Task
<1>5. held \notin queue
  BY <1>1, <1>2
<1>6. Pool!Submit(held)
  BY <1>5 DEF Enqueue, Pool!Submit
<1> QED BY <1>4, <1>6 DEF Pool!Next

\* Every step of the program is a step of the pool it uses, or leaves the pool alone.
LEMMA PoolRefines ==
  ASSUME Core, RoomInv, [Next]_vars
  PROVE  [Pool!Next]_(Pool!vars)
<1> USE DEF Core
<1>1. ASSUME UNCHANGED <<queue, slot>> PROVE UNCHANGED Pool!vars
  BY <1>1 DEF Pool!vars
<1>2. CASE Main
  BY <1>1, <1>2, MainPool, EnqueueRefines DEF poolVars
<1>3. ASSUME NEW w \in Worker, Take(w) PROVE Pool!Next
  <2>1. Pool!Take(w)
    BY <1>3 DEF Take, Pool!Take, Tops, Lower, Pool!Tops, Pool!Lower
  <2> QED BY <2>1 DEF Pool!Next
<1>4. ASSUME NEW w \in Worker, BuildThrows(w) \/ JobsDec(w) PROVE Pool!Next
  <2>1. slot[w] # NoTask /\ slot' = [slot EXCEPT ![w] = NoTask] /\ queue' = queue
    BY <1>4 DEF BuildThrows, JobsDec, Starts, PoolType
  <2>2. Pool!Complete(w)
    BY <2>1 DEF Pool!Complete
  <2> QED BY <2>2 DEF Pool!Next
<1>5. CASE UNCHANGED vars
  BY <1>1, <1>5 DEF vars, poolVars
<1>6. ASSUME NEW w \in Worker, FinishDict(w) \/ Inside(w) PROVE UNCHANGED <<queue, slot>>
  BY <1>6 DEF FinishDict, Inside
<1>7. ASSUME NEW w \in Worker, Work(w) PROVE [Pool!Next]_(Pool!vars)
  BY <1>1, <1>3, <1>4, <1>6, <1>7, WorkKinds
<1> QED BY <1>2, <1>5, <1>7 DEF Next, Terminated

\* The program uses the pool as PriorityPool specifies it, without its fairness: what
\* it enqueues was not enqueued before, a worker takes a top task, and a slot is
\* emptied only when its task returns.
THEOREM UsesThePool == Spec => Pool!Init /\ [][Pool!Next]_(Pool!vars)
<1>1. Init => Pool!Init /\ RoomInv
  <2> SUFFICES ASSUME Init PROVE Pool!Init /\ RoomInv
    OBVIOUS
  <2>1. Len(s) = 0 /\ Len(script) = 0
    BY DEF Init
  <2> QED BY <2>1 DEF Init, Pool!Init, RoomInv
<1>2. Core /\ RoomInv /\ [Next]_vars => RoomInv' /\ [Pool!Next]_(Pool!vars)
  BY RoomStep, PoolRefines
<1> QED BY <1>1, <1>2, CoreAlways, PTL DEF Spec
----------------------------------------------------------------------------
\* Joining texts: that of a context is one of the texts of what stands inside it.

\* Joining with the empty sequence changes nothing.
LEMMA JoinFacts ==
  ASSUME NEW I, NEW a \in Seq(I), NEW b \in Seq(I)
  PROVE  a \o b \in Seq(I) /\ <<>> \o a = a /\ a \o <<>> = a
BY ConcatProperties, ConcatEmptySeq

\* The provers find this only with the operator out of their sight.
Cat(a, b) == a \o b

\* Joining is associative.
LEMMA CatGroups == \A I : \A a, b, c \in Seq(I) : Cat(a, Cat(b, c)) = Cat(Cat(a, b), c)
<1> TAKE I
<1> TAKE a, b, c \in Seq(I)
<1> QED BY ConcatAssociative DEF Cat

\* Sequences joined one after the other: FlattenSeq's recursion has a solution.
Joins(f, t, n) == f = [i \in 1..n |-> IF i = 1 THEN t[i] ELSE f[i - 1] \o t[i]]

\* By induction on the number of sequences: a least n with no solution is impossible.
LEMMA JoinsExists ==
  ASSUME NEW t, NEW N \in Nat
  PROVE  \E f : Joins(f, t, N)
<1> DEFINE T == {n \in Nat : ~\E f : Joins(f, t, n)}
<1> SUFFICES ASSUME T # {} PROVE FALSE
  OBVIOUS
<1>1. PICK n \in T : \A m \in T : n <= m
  <2>1. T \subseteq Nat
    OBVIOUS
  <2> HIDE DEF T
  <2> QED BY <2>1, Least
<1>2. n \in Nat /\ ~\E f : Joins(f, t, n)
  OBVIOUS
<1>3. n # 0
  <2>1. \A f : f = [i \in 1..0 |-> IF i = 1 THEN t[i] ELSE f[i - 1] \o t[i]] <=> f = <<>>
    OBVIOUS
  <2> QED BY <1>2, <2>1 DEF Joins
<1>4. PICK f : Joins(f, t, n - 1)
  <2>1. n - 1 \in Nat /\ ~(n <= n - 1)
    BY <1>2, <1>3
  <2> QED BY <1>1, <2>1
<1> DEFINE e == [i \in 1..n |-> IF i < n THEN f[i] ELSE IF i = 1 THEN t[i] ELSE f[i - 1] \o t[i]]
<1>5. ASSUME NEW i \in 1..n PROVE e[i] = IF i = 1 THEN t[i] ELSE e[i - 1] \o t[i]
  <2>1. CASE i = 1
    <3>1. CASE i < n
      <4>1. i \in 1..n - 1
        BY <1>2, <3>1
      <4> QED BY <1>4, <2>1, <3>1, <4>1 DEF Joins
    <3>2. CASE ~(i < n)
      BY <2>1, <3>2
    <3> QED BY <3>1, <3>2
  <2>2. CASE i # 1
    <3>1. i - 1 \in 1..n /\ i - 1 < n
      BY <1>2, <2>2
    <3>2. e[i - 1] = f[i - 1]
      BY <3>1
    <3>3. CASE i < n
      <4>1. i \in 1..n - 1
        BY <1>2, <3>3
      <4>2. f[i] = f[i - 1] \o t[i]
        BY <1>4, <2>2, <4>1 DEF Joins
      <4> QED BY <2>2, <3>2, <3>3, <4>2
    <3>4. CASE ~(i < n)
      BY <2>2, <3>2, <3>4
    <3> QED BY <3>3, <3>4
  <2> QED BY <2>1, <2>2
<1>6. Joins(e, t, n)
  <2>1. e = [i \in 1..n |-> e[i]]
    OBVIOUS
  <2> HIDE DEF e
  <2> QED BY <1>5, <2>1 DEF Joins
<1> HIDE DEF e
<1> QED BY <1>2, <1>6

\* What FlattenSeq has joined up to each position.
LEMMA FlattenFacts ==
  ASSUME NEW I, NEW t \in Seq(Seq(I))
  PROVE  \E f : /\ f \in [0..Len(t) -> Seq(I)] /\ f[0] = <<>> /\ f[Len(t)] = FlattenSeq(t)
                /\ \A i \in 1..Len(t) : f[i] = f[i - 1] \o t[i]
<1> DEFINE g == CHOOSE g : Joins(g, t, Len(t))
           f == [i \in 0..Len(t) |-> IF i = 0 THEN <<>> ELSE g[i]]
<1>1. Len(t) \in Nat /\ \A i \in 1..Len(t) : t[i] \in Seq(I)
  OBVIOUS
<1>2. Joins(g, t, Len(t))
  BY <1>1, JoinsExists
<1>3. FlattenSeq(t) = IF Len(t) = 0 THEN t ELSE g[Len(t)]
  BY DEF FlattenSeq, Joins
<1>4. f[Len(t)] = FlattenSeq(t)
  BY <1>1, <1>3
<1> HIDE DEF g
<1>5. ASSUME NEW i \in 1..Len(t) PROVE f[i] = f[i - 1] \o t[i]
  <2>1. CASE i = 1
    <3>1. f[0] = <<>> /\ f[1] = g[1] /\ g[1] = t[1]
      BY <1>1, <1>2, <2>1 DEF Joins
    <3>2. <<>> \o t[1] = t[1]
      <4>1. t[1] \in Seq(I)
        BY <1>1, <2>1
      <4> QED BY <4>1, ConcatEmptySeq
    <3>3. i - 1 = 0
      BY <2>1
    <3> HIDE DEF f
    <3> QED BY <2>1, <3>1, <3>2, <3>3
  <2>2. CASE i # 1
    <3>1. i - 1 \in 1..Len(t) /\ i \in 0..Len(t) /\ i - 1 \in 0..Len(t) /\ i - 1 # 0 /\ i # 0
      BY <1>1, <2>2
    <3>2. f[i] = g[i] /\ f[i - 1] = g[i - 1] /\ g[i] = g[i - 1] \o t[i]
      BY <1>2, <2>2, <3>1 DEF Joins
    <3> QED BY <3>2
  <2> QED BY <2>1, <2>2
<1>6. f[0] = <<>> /\ DOMAIN f = 0..Len(t) /\ f = [i \in 0..Len(t) |-> f[i]]
  BY <1>1
<1> HIDE DEF f
<1>7. \A i \in 0..Len(t) : f[i] \in Seq(I)
  <2> DEFINE T == {i \in 0..Len(t) : f[i] \notin Seq(I)}
  <2> SUFFICES ASSUME T # {} PROVE FALSE
    OBVIOUS
  <2>1. PICK i \in T : \A j \in T : i <= j
    <3>1. T \subseteq Nat
      OBVIOUS
    <3> HIDE DEF T
    <3> QED BY <3>1, Least
  <2>2. i # 0
    <3>1. <<>> \in Seq(I)
      OBVIOUS
    <3> QED BY <1>6, <3>1
  <2>3. i \in 1..Len(t) /\ i - 1 \in 0..Len(t) /\ ~(i <= i - 1)
    BY <1>1, <2>2
  <2>4. f[i - 1] \in Seq(I) /\ t[i] \in Seq(I)
    BY <1>1, <2>1, <2>3
  <2>5. f[i] \in Seq(I)
    BY <1>5, <2>3, <2>4, JoinFacts
  <2> QED BY <2>5
<1>8. f \in [0..Len(t) -> Seq(I)]
  BY <1>6, <1>7
<1> QED BY <1>4, <1>5, <1>6, <1>8

\* The parts in S of P[1], ..., P[N], joined.
Part(P, S) == FlattenSeq([k \in DOMAIN P |-> IF k \in S THEN P[k] ELSE <<>>])

\* What has been joined up to each position.
PartFacts(f, I, N, P, S) ==
  /\ f \in [0..N -> Seq(I)] /\ f[0] = <<>> /\ f[N] = Part(P, S)
  /\ \A i \in 1..N : f[i] = IF i \in S THEN f[i - 1] \o P[i] ELSE f[i - 1]

\* There is such a function, whatever is joined.
LEMMA PartExists ==
  ASSUME NEW I, NEW N \in Nat, NEW P \in [1..N -> Seq(I)], NEW S
  PROVE  \E f : PartFacts(f, I, N, P, S)
<1>1. PICK t : t = [k \in DOMAIN P |-> IF k \in S THEN P[k] ELSE <<>>]
  OBVIOUS
<1>2. t \in Seq(Seq(I)) /\ Len(t) = N /\ FlattenSeq(t) = Part(P, S)
  <2>1. t = [k \in 1..N |-> IF k \in S THEN P[k] ELSE <<>>]
    BY <1>1
  <2>2. \A k \in 1..N : (IF k \in S THEN P[k] ELSE <<>>) \in Seq(I)
    OBVIOUS
  <2>3. t \in [1..N -> Seq(I)]
    BY <2>1, <2>2
  <2> QED BY <1>1, <2>3 DEF Part
<1>3. PICK f : /\ f \in [0..N -> Seq(I)] /\ f[0] = <<>> /\ f[N] = Part(P, S)
               /\ \A i \in 1..N : f[i] = f[i - 1] \o t[i]
  <2>1. \E h : /\ h \in [0..Len(t) -> Seq(I)] /\ h[0] = <<>> /\ h[Len(t)] = FlattenSeq(t)
               /\ \A i \in 1..Len(t) : h[i] = h[i - 1] \o t[i]
    BY <1>2, FlattenFacts
  <2> QED BY <1>2, <2>1
<1>4. ASSUME NEW i \in 1..N PROVE f[i] = IF i \in S THEN f[i - 1] \o P[i] ELSE f[i - 1]
  <2>1. f[i - 1] \in Seq(I)
    <3>1. i - 1 \in 0..N
      OBVIOUS
    <3> QED BY <1>3, <3>1
  <2>2. f[i - 1] \o <<>> = f[i - 1]
    BY <2>1, JoinFacts
  <2>3. t[i] = IF i \in S THEN P[i] ELSE <<>>
    BY <1>1
  <2> QED BY <1>3, <2>2, <2>3
<1> QED BY <1>3, <1>4 DEF PartFacts

\* A join of texts is a text.
LEMMA PartType ==
  ASSUME NEW I, NEW N \in Nat, NEW P \in [1..N -> Seq(I)], NEW S
  PROVE  Part(P, S) \in Seq(I)
<1>1. PICK f : PartFacts(f, I, N, P, S)
  BY PartExists
<1>2. N \in 0..N
  OBVIOUS
<1> QED BY <1>1, <1>2 DEF PartFacts

\* Parts that are empty do not count.
LEMMA PartNone ==
  ASSUME NEW I, NEW N \in Nat, NEW P \in [1..N -> Seq(I)], NEW S,
         \A i \in 1..N : i \in S => P[i] = <<>>
  PROVE  Part(P, S) = <<>>
<1>1. PICK f : PartFacts(f, I, N, P, S)
  BY PartExists
<1> DEFINE T == {i \in 0..N : f[i] # <<>>}
<1>2. ASSUME T # {} PROVE FALSE
  <2>1. PICK i \in T : \A j \in T : i <= j
    <3>1. T \subseteq Nat
      OBVIOUS
    <3> HIDE DEF T
    <3> QED BY <1>2, <3>1, Least
  <2>2. i \in 1..N /\ i - 1 \in 0..N /\ ~(i <= i - 1)
    BY <1>1 DEF PartFacts
  <2>3. f[i - 1] = <<>>
    BY <2>1, <2>2
  <2>4. <<>> \o <<>> = <<>>
    OBVIOUS
  <2> QED BY <1>1, <2>2, <2>3, <2>4 DEF PartFacts
<1>3. N \in 0..N
  OBVIOUS
<1> QED BY <1>1, <1>2, <1>3 DEF PartFacts

\* The provers instantiate the facts below only with their hypotheses out of sight.
IsParts(P, I, N) == N \in Nat /\ P \in [1..N -> Seq(I)]

\* One part alone.
Only(S, x, N) == x \in 1..N /\ \A i \in 1..N : i \in S <=> i = x

\* Joining one part alone gives that part.
LEMMA PartOne == \A I, N, P, S, x : IsParts(P, I, N) /\ Only(S, x, N) => Part(P, S) = P[x]
<1> SUFFICES ASSUME NEW I, NEW N, NEW P, NEW S, NEW x, IsParts(P, I, N), Only(S, x, N)
             PROVE  Part(P, S) = P[x]
  OBVIOUS
<1>0. N \in Nat /\ P \in [1..N -> Seq(I)] /\ x \in 1..N /\ \A i \in 1..N : i \in S <=> i = x
  BY DEF IsParts, Only
<1> USE <1>0
<1>1. PICK f : PartFacts(f, I, N, P, S)
  BY PartExists
<1> DEFINE Right(i) == f[i] = IF i < x THEN <<>> ELSE P[x]
           T == {i \in 0..N : ~Right(i)}
<1>2. ASSUME T # {} PROVE FALSE
  <2>1. PICK i \in T : \A j \in T : i <= j
    <3>1. T \subseteq Nat
      OBVIOUS
    <3> HIDE DEF T
    <3> QED BY <1>2, <3>1, Least
  <2>2. i \in 1..N /\ i - 1 \in 0..N /\ ~(i <= i - 1)
    <3>1. 0 < x
      OBVIOUS
    <3> QED BY <1>1, <3>1 DEF PartFacts
  <2>3. Right(i - 1)
    BY <2>1, <2>2
  <2>4. CASE i = x
    <3>0. i - 1 < x /\ i \in S
      BY <2>2, <2>4
    <3>1. f[i - 1] = <<>> /\ f[i] = f[i - 1] \o P[x]
      BY <1>1, <2>2, <2>3, <2>4, <3>0 DEF PartFacts
    <3>2. <<>> \o P[x] = P[x]
      BY JoinFacts
    <3>3. f[i] = P[x] /\ ~(i < x)
      BY <2>4, <3>1, <3>2
    <3> QED BY <3>3
  <2>5. CASE i # x
    <3>1. f[i] = f[i - 1]
      BY <1>1, <2>2, <2>5 DEF PartFacts
    <3>2. i < x <=> i - 1 < x
      BY <2>2, <2>5
    <3> QED BY <2>3, <3>1, <3>2
  <2> QED BY <2>4, <2>5
<1>3. N \in 0..N /\ ~(N < x)
  OBVIOUS
<1>4. Right(N)
  <2> HIDE DEF Right
  <2> QED BY <1>2, <1>3
<1> QED BY <1>1, <1>3, <1>4 DEF PartFacts

\* Two sets of parts, one behind the other.
Before(S, T, N) == S \subseteq 1..N /\ T \subseteq 1..N /\ \A a \in S, b \in T : a < b

\* Joining S and then T joins both.
LEMMA PartSplits ==
  \A I, N, P, S, T : IsParts(P, I, N) /\ Before(S, T, N) =>
    Part(P, S \cup T) = Cat(Part(P, S), Part(P, T))
<1> SUFFICES ASSUME NEW I, NEW N, NEW P, NEW S, NEW T, IsParts(P, I, N), Before(S, T, N)
             PROVE  Part(P, S \cup T) = Cat(Part(P, S), Part(P, T))
  OBVIOUS
<1>0. /\ N \in Nat /\ P \in [1..N -> Seq(I)]
      /\ S \subseteq 1..N /\ T \subseteq 1..N /\ \A a \in S, b \in T : a < b
  BY DEF IsParts, Before
<1> USE <1>0
<1>1. PICK f : PartFacts(f, I, N, P, S)
  BY PartExists
<1>2. PICK g : PartFacts(g, I, N, P, T)
  BY PartExists
<1>3. PICK h : PartFacts(h, I, N, P, S \cup T)
  BY PartExists
<1> DEFINE Right(i) == /\ h[i] = f[i] \o g[i]
                       /\ (\E a \in S : i <= a) => g[i] = <<>>
           U == {i \in 0..N : ~Right(i)}
<1>4. ASSUME U # {} PROVE FALSE
  <2>1. PICK i \in U : \A j \in U : i <= j
    <3> HIDE DEF Right
    <3>1. U \subseteq Nat
      OBVIOUS
    <3> HIDE DEF U
    <3> QED BY <1>4, <3>1, Least
  <2>2. i # 0
    <3>1. <<>> \o <<>> = <<>>
      OBVIOUS
    <3>2. Right(0)
      BY <1>1, <1>2, <1>3, <3>1 DEF PartFacts
    <3> QED BY <3>2
  <2>3. i \in 1..N /\ i - 1 \in 0..N /\ ~(i <= i - 1) /\ i \in Nat
    BY <2>2
  <2>4. Right(i - 1)
    BY <2>1, <2>3
  <2>5. /\ f[i] = IF i \in S THEN f[i - 1] \o P[i] ELSE f[i - 1]
        /\ g[i] = IF i \in T THEN g[i - 1] \o P[i] ELSE g[i - 1]
        /\ h[i] = IF i \in S \cup T THEN h[i - 1] \o P[i] ELSE h[i - 1]
        /\ f[i - 1] \in Seq(I) /\ g[i - 1] \in Seq(I) /\ P[i] \in Seq(I)
    BY <1>1, <1>2, <1>3, <2>3 DEF PartFacts
  <2>6. (\E a \in S : i <= a) => i \notin T /\ g[i - 1] = <<>>
    <3>1. ASSUME NEW a \in S, i <= a PROVE i \notin T /\ i - 1 <= a
      <4>1. a \in Nat /\ ~(a < i)
        BY <2>3, <3>1
      <4> QED BY <2>3, <3>1, <4>1
    <3> QED BY <2>4, <3>1
  <2>7. (\E a \in S : i <= a) => g[i] = <<>>
    BY <2>5, <2>6
  <2>8. CASE i \in S
    <3>1. i <= i
      BY <2>3
    <3>2. g[i] = <<>> /\ g[i - 1] = <<>>
      BY <2>6, <2>7, <2>8, <3>1
    <3>3. f[i - 1] \o <<>> = f[i - 1] /\ f[i] \in Seq(I) /\ f[i] \o <<>> = f[i]
      BY <2>5, <2>8, JoinFacts
    <3>4. h[i] = f[i]
      BY <2>4, <2>5, <2>8, <3>2, <3>3
    <3> QED BY <2>7, <3>2, <3>3, <3>4
  <2>9. CASE i \notin S /\ i \in T
    <3>1. Cat(f[i - 1], Cat(g[i - 1], P[i])) = Cat(Cat(f[i - 1], g[i - 1]), P[i])
      BY <2>5, CatGroups
    <3>2. h[i] = f[i] \o g[i]
      BY <2>4, <2>5, <2>9, <3>1 DEF Cat
    <3> QED BY <2>7, <3>2
  <2>10. CASE i \notin S /\ i \notin T
    <3>1. h[i] = f[i] \o g[i]
      BY <2>4, <2>5, <2>10
    <3> QED BY <2>7, <3>1
  <2> QED BY <2>8, <2>9, <2>10
<1>5. N \in 0..N
  OBVIOUS
<1>6. Right(N)
  <2> HIDE DEF Right
  <2> QED BY <1>4, <1>5
<1> QED BY <1>1, <1>2, <1>3, <1>6 DEF PartFacts, Cat

\* A shorter sequence of parts, of which nothing comes behind.
Pads(t, n, I, P, N, S) ==
  /\ n \in 0..N /\ t \in [1..n -> Seq(I)]
  /\ \A i \in 1..N : IF i <= n THEN t[i] = (IF i \in S THEN P[i] ELSE <<>>)
                               ELSE i \notin S \/ P[i] = <<>>

\* Joining the shorter sequence is joining the parts.
LEMMA PartPads ==
  \A I, N, P, n, t, S : IsParts(P, I, N) /\ Pads(t, n, I, P, N, S) => FlattenSeq(t) = Part(P, S)
<1> SUFFICES ASSUME NEW I, NEW N, NEW P, NEW n, NEW t, NEW S, IsParts(P, I, N), Pads(t, n, I, P, N, S)
             PROVE  FlattenSeq(t) = Part(P, S)
  OBVIOUS
<1>0. /\ N \in Nat /\ P \in [1..N -> Seq(I)] /\ n \in 0..N /\ t \in [1..n -> Seq(I)]
      /\ \A i \in 1..N : IF i <= n THEN t[i] = (IF i \in S THEN P[i] ELSE <<>>)
                                   ELSE i \notin S \/ P[i] = <<>>
  BY DEF IsParts, Pads
<1> USE <1>0
<1>1. PICK f : PartFacts(f, I, N, P, S)
  BY PartExists
<1>2. t \in Seq(Seq(I)) /\ Len(t) = n /\ n \in Nat
  OBVIOUS
<1>3. PICK g : /\ g \in [0..n -> Seq(I)] /\ g[0] = <<>> /\ g[n] = FlattenSeq(t)
               /\ \A i \in 1..n : g[i] = g[i - 1] \o t[i]
  <2>1. \E h : /\ h \in [0..Len(t) -> Seq(I)] /\ h[0] = <<>> /\ h[Len(t)] = FlattenSeq(t)
               /\ \A i \in 1..Len(t) : h[i] = h[i - 1] \o t[i]
    BY <1>2, FlattenFacts
  <2> QED BY <1>2, <2>1
<1> DEFINE Right(i) == f[i] = IF i <= n THEN g[i] ELSE g[n]
           U == {i \in 0..N : ~Right(i)}
<1>4. ASSUME U # {} PROVE FALSE
  <2>1. PICK i \in U : \A j \in U : i <= j
    <3>1. U \subseteq Nat
      OBVIOUS
    <3> HIDE DEF U
    <3> QED BY <1>4, <3>1, Least
  <2>2. i # 0
    <3>1. Right(0)
      BY <1>1, <1>3 DEF PartFacts
    <3> QED BY <3>1
  <2>3. i \in 1..N /\ i - 1 \in 0..N /\ ~(i <= i - 1)
    BY <2>2
  <2>4. Right(i - 1)
    BY <2>1, <2>3
  <2>5. f[i] = (IF i \in S THEN f[i - 1] \o P[i] ELSE f[i - 1]) /\ f[i - 1] \in Seq(I)
    BY <1>1, <2>3 DEF PartFacts
  <2>6. f[i - 1] \o <<>> = f[i - 1]
    BY <2>5, JoinFacts
  <2>7. CASE i <= n
    <3>1. i - 1 <= n /\ i \in 1..n
      BY <2>3, <2>7
    <3>2. g[i] = g[i - 1] \o t[i] /\ f[i - 1] = g[i - 1]
      BY <1>3, <2>4, <3>1
    <3>3. t[i] = IF i \in S THEN P[i] ELSE <<>>
      BY <2>3, <2>7
    <3> QED BY <2>5, <2>6, <2>7, <3>2, <3>3
  <2>8. CASE ~(i <= n)
    <3>1. i \notin S \/ P[i] = <<>>
      BY <2>3, <2>8
    <3>2. f[i] = f[i - 1]
      BY <2>5, <2>6, <3>1
    <3>3. i - 1 <= n => i - 1 = n
      BY <2>3, <2>8
    <3> QED BY <2>4, <2>8, <3>2, <3>3
  <2> QED BY <2>7, <2>8
<1>5. N \in 0..N /\ (N <= n => N = n)
  OBVIOUS
<1>6. Right(N)
  <2> HIDE DEF Right
  <2> QED BY <1>4, <1>5
<1> QED BY <1>1, <1>3, <1>5, <1>6 DEF PartFacts

\* Only what is joined counts.
Agrees(P, S, Q, T) ==
  /\ DOMAIN P = DOMAIN Q
  /\ \A k \in DOMAIN P : (IF k \in S THEN P[k] ELSE <<>>) = (IF k \in T THEN Q[k] ELSE <<>>)

\* Parts that agree join to the same.
LEMMA PartAgrees == \A P, S, Q, T : Agrees(P, S, Q, T) => Part(P, S) = Part(Q, T)
BY DEF Agrees, Part

\* What the first i of the sets B[1], B[2], ... hold.
Cover(B, i) == UNION {B[j] : j \in 1..i}

\* One set more.
LEMMA CoverGrows ==
  ASSUME NEW B, NEW i \in Nat, i # 0
  PROVE  Cover(B, i) = Cover(B, i - 1) \cup B[i] /\ Cover(B, 0) = {}
<1>1. 1..i = (1..i - 1) \cup {i} /\ 1..0 = {}
  OBVIOUS
<1> QED BY <1>1 DEF Cover

\* Parts of the parts: joining what each set joins is joining the union of the sets.
Nested(B, n, N) ==
  /\ n \in Nat /\ \A i \in 1..n : B[i] \subseteq 1..N
  /\ \A i, j \in 1..n : i < j => \A a \in B[i], b \in B[j] : a < b

\* For sets one behind the other.
LEMMA PartNested ==
  \A I, N, P, n, B, t : IsParts(P, I, N) /\ Nested(B, n, N) /\ t = [i \in 1..n |-> Part(P, B[i])] =>
    FlattenSeq(t) = Part(P, Cover(B, n))
<1> SUFFICES ASSUME NEW I, NEW N, NEW P, NEW n, NEW B, NEW t, IsParts(P, I, N), Nested(B, n, N),
                    t = [i \in 1..n |-> Part(P, B[i])]
             PROVE  FlattenSeq(t) = Part(P, Cover(B, n))
  OBVIOUS
<1>0. /\ N \in Nat /\ P \in [1..N -> Seq(I)] /\ n \in Nat
      /\ \A i \in 1..n : B[i] \subseteq 1..N
      /\ \A i, j \in 1..n : i < j => \A a \in B[i], b \in B[j] : a < b
  BY DEF IsParts, Nested
<1> USE <1>0
<1>1. t \in Seq(Seq(I)) /\ Len(t) = n
  <2>1. \A i \in 1..n : Part(P, B[i]) \in Seq(I)
    BY PartType
  <2>2. t \in [1..n -> Seq(I)]
    BY <2>1
  <2> QED BY <2>2
<1>2. PICK f : /\ f \in [0..n -> Seq(I)] /\ f[0] = <<>> /\ f[n] = FlattenSeq(t)
               /\ \A i \in 1..n : f[i] = f[i - 1] \o t[i]
  <2>1. \E f : /\ f \in [0..Len(t) -> Seq(I)] /\ f[0] = <<>> /\ f[Len(t)] = FlattenSeq(t)
               /\ \A i \in 1..Len(t) : f[i] = f[i - 1] \o t[i]
    BY <1>1, FlattenFacts
  <2> QED BY <1>1, <2>1
<1> DEFINE Right(i) == f[i] = Part(P, Cover(B, i))
           T == {i \in 0..n : ~Right(i)}
<1>3. ASSUME T # {} PROVE FALSE
  <2>1. PICK i \in T : \A j \in T : i <= j
    <3>1. T \subseteq Nat
      OBVIOUS
    <3> HIDE DEF T
    <3> QED BY <1>3, <3>1, Least
  <2>2. i # 0
    <3>1. Cover(B, 0) = {}
      BY DEF Cover
    <3>2. Part(P, {}) = <<>>
      BY PartNone
    <3> QED BY <1>2, <3>1, <3>2
  <2>3. i \in 1..n /\ i - 1 \in 0..n /\ ~(i <= i - 1) /\ i \in Nat
    BY <2>2
  <2>4. Right(i - 1)
    BY <2>1, <2>3
  <2>5. Part(P, Cover(B, i - 1) \cup B[i]) = Part(P, Cover(B, i - 1)) \o Part(P, B[i])
    <3>1. \A j \in 1..i - 1 : j \in 1..n /\ j < i
      BY <2>3
    <3>2. Cover(B, i - 1) \subseteq 1..N /\ B[i] \subseteq 1..N
      BY <2>3, <3>1 DEF Cover
    <3>3. \A a \in Cover(B, i - 1), b \in B[i] : a < b
      BY <2>3, <3>1 DEF Cover
    <3>4. PICK C, D : C = Cover(B, i - 1) /\ D = B[i]
      OBVIOUS
    <3>5. Before(C, D, N) /\ IsParts(P, I, N)
      BY <3>2, <3>3, <3>4 DEF Before, IsParts
    <3>6. Part(P, C \cup D) = Cat(Part(P, C), Part(P, D))
      BY <3>5, PartSplits
    <3>7. Part(P, C \cup D) = Part(P, C) \o Part(P, D)
      BY <3>6 DEF Cat
    <3> QED BY <3>4, <3>7
  <2>6. Cover(B, i) = Cover(B, i - 1) \cup B[i]
    BY <2>2, <2>3, CoverGrows
  <2>7. f[i] = f[i - 1] \o t[i] /\ t[i] = Part(P, B[i])
    BY <1>2, <2>3
  <2> QED BY <2>4, <2>5, <2>6, <2>7
<1>4. n \in 0..n
  OBVIOUS
<1>5. Right(n)
  <2> HIDE DEF Right
  <2> QED BY <1>3, <1>4
<1> QED BY <1>2, <1>5

----------------------------------------------------------------------------
\* What stands around a directive, and what a context encloses.

\* Every directive stands in a context opened before it.
Tree(h) == h \in [Id -> Id] /\ \A i \in Id \ {Root} : h[i] < i

\* Context c and those around it.
Ups(h, c) == {c} \cup Rule!Around(h, c)

\* The contexts of the program form such a tree.
LEMMA TreeOf == MainType /\ TreeInv => Tree(home)
  BY AroundFacts DEF Tree, MainType

\* What is around a directive is its context and what is around that.
LEMMA AroundUnfolds ==
  ASSUME NEW h, Tree(h)
  PROVE  /\ Rule!Around(h, Root) = {}
         /\ \A k \in Id \ {Root} : Rule!Around(h, k) = Ups(h, h[k])
<1> DEFINE a == CHOOSE g : g = [i \in DOMAIN h |-> IF i = 0 THEN {} ELSE {h[i]} \cup g[h[i]]]
<1>1. \E g : g = [i \in DOMAIN h |-> IF i = 0 THEN {} ELSE {h[i]} \cup g[h[i]]]
  <2>1. DOMAIN h = 0..MaxDirectives /\ h \in [0..MaxDirectives -> 0..MaxDirectives]
    BY DEF Tree, Id
  <2>2. \A i \in 1..MaxDirectives : h[i] < i
    BY MaxDirectivesAssumption DEF Tree, Id, Root
  <2>3. \E g : g = [i \in 0..MaxDirectives |-> IF i = 0 THEN {} ELSE {h[i]} \cup g[h[i]]]
    BY <2>1, <2>2, AroundExists, MaxDirectivesAssumption
  <2> QED BY <2>1, <2>3
<1>2. a = [i \in DOMAIN h |-> IF i = 0 THEN {} ELSE {h[i]} \cup a[h[i]]]
  BY <1>1
<1>3. \A k : Rule!Around(h, k) = a[k]
  BY DEF Rule!Around
<1> HIDE DEF a
<1>4. \A i \in Id : a[i] = IF i = 0 THEN {} ELSE {h[i]} \cup a[h[i]]
  BY <1>2 DEF Tree
<1> QED BY <1>3, <1>4, IdFacts DEF Root, Ups

\* A property of directives that each has if its context does, holds of all.
LEMMA Downwards ==
  ASSUME NEW h, Tree(h), NEW G, Root \in G, \A k \in Id \ {Root} : h[k] \in G => k \in G
  PROVE  Id \subseteq G
<1> DEFINE T == Id \ G
<1> SUFFICES ASSUME T # {} PROVE FALSE
  OBVIOUS
<1>1. PICK k \in T : \A j \in T : k <= j
  <2>1. T \subseteq Nat
    BY IdFacts
  <2> HIDE DEF T
  <2> QED BY <2>1, Least
<1>2. k \in Id \ {Root} /\ h[k] \in Id /\ h[k] < k
  BY DEF Tree
<1>3. h[k] \in Nat /\ k \in Nat
  BY <1>2, IdFacts
<1>4. h[k] \notin T
  BY <1>1, <1>2, <1>3
<1> QED BY <1>1, <1>2, <1>4

\* Only contexts opened before are around one, with all that is around them.
LEMMA AroundSmaller ==
  ASSUME NEW h, Tree(h), NEW k \in Id, NEW c \in Rule!Around(h, k)
  PROVE  c \in Id /\ c < k /\ Ups(h, c) \subseteq Rule!Around(h, k)
<1> DEFINE G == {i \in Id : \A e \in Rule!Around(h, i) :
                    e \in Id /\ e < i /\ Ups(h, e) \subseteq Rule!Around(h, i)}
<1>1. Root \in G
  BY IdFacts, AroundUnfolds
<1>2. ASSUME NEW i \in Id \ {Root}, h[i] \in G PROVE i \in G
  <2>1. /\ h[i] \in Id /\ h[i] < i /\ h[i] \in Nat /\ i \in Nat
        /\ Rule!Around(h, i) = Ups(h, h[i])
    BY AroundUnfolds, IdFacts DEF Tree
  <2>2. ASSUME NEW e \in Ups(h, h[i])
        PROVE  e \in Id /\ e < i /\ Ups(h, e) \subseteq Ups(h, h[i])
    <3>1. CASE e = h[i]
      BY <2>1, <3>1
    <3>2. CASE e \in Rule!Around(h, h[i])
      <4>1. e \in Id /\ e < h[i] /\ Ups(h, e) \subseteq Rule!Around(h, h[i])
        BY <1>2, <3>2
      <4>2. e \in Nat
        BY <4>1, IdFacts
      <4> QED BY <2>1, <4>1, <4>2 DEF Ups
    <3> QED BY <2>2, <3>1, <3>2 DEF Ups
  <2> QED BY <2>1, <2>2
<1>3. Id \subseteq G
  <2> HIDE DEF G
  <2> QED BY <1>1, <1>2, Downwards
<1> QED BY <1>3

\* Contexts further out come earlier and have less around them.
LEMMA UpsFacts ==
  ASSUME NEW h, Tree(h), NEW k \in Id, NEW c \in Ups(h, k)
  PROVE  c \in Id /\ c <= k /\ Ups(h, c) \subseteq Ups(h, k)
<1>1. CASE c = k
  BY <1>1, IdFacts
<1>2. CASE c \in Rule!Around(h, k)
  <2>1. c \in Id /\ c < k /\ Ups(h, c) \subseteq Rule!Around(h, k)
    BY <1>2, AroundSmaller
  <2> QED BY <2>1, IdFacts DEF Ups
<1> QED BY <1>1, <1>2 DEF Ups

\* What has c around it stands in c or in something that does.
LEMMA AroundChild ==
  ASSUME NEW h, Tree(h), NEW k \in Id, NEW c \in Rule!Around(h, k)
  PROVE  \E i \in Ups(h, k) : i # Root /\ h[i] = c
<1> DEFINE G == {j \in Id : \A e \in Rule!Around(h, j) : \E i \in Ups(h, j) : i # Root /\ h[i] = e}
<1>1. Root \in G
  BY IdFacts, AroundUnfolds
<1>2. ASSUME NEW j \in Id \ {Root}, h[j] \in G PROVE j \in G
  <2>1. Rule!Around(h, j) = Ups(h, h[j])
    BY AroundUnfolds
  <2>2. ASSUME NEW e \in Ups(h, h[j]) PROVE \E i \in Ups(h, j) : i # Root /\ h[i] = e
    <3>1. CASE e = h[j]
      BY <3>1 DEF Ups
    <3>2. CASE e \in Rule!Around(h, h[j])
      <4>1. PICK i \in Ups(h, h[j]) : i # Root /\ h[i] = e
        BY <1>2, <3>2
      <4> QED BY <2>1, <4>1 DEF Ups
    <3> QED BY <2>2, <3>1, <3>2 DEF Ups
  <2> QED BY <2>1, <2>2
<1>3. Id \subseteq G
  <2> HIDE DEF G
  <2> QED BY <1>1, <1>2, Downwards
<1> QED BY <1>3

\* The root is around every directive.
LEMMA RootAround ==
  ASSUME NEW h, Tree(h), NEW k \in Id \ {Root}
  PROVE  Root \in Rule!Around(h, k)
<1> DEFINE G == {j \in Id : j # Root => Root \in Rule!Around(h, j)}
<1>1. Root \in G
  BY IdFacts
<1>2. ASSUME NEW j \in Id \ {Root}, h[j] \in G PROVE j \in G
  BY <1>2, AroundUnfolds DEF Tree, Ups
<1>3. Id \subseteq G
  <2> HIDE DEF G
  <2> QED BY <1>1, <1>2, Downwards
<1> QED BY <1>3

\* What is around a directive does not depend on those behind it.
LEMMA AroundAgrees ==
  ASSUME NEW h, Tree(h), NEW g, Tree(g), NEW n \in Nat, \A i \in Id : i < n => g[i] = h[i],
         NEW k \in Id, k < n
  PROVE  Rule!Around(g, k) = Rule!Around(h, k)
<1> DEFINE G == {j \in Id : j < n => Rule!Around(g, j) = Rule!Around(h, j)}
<1>1. Root \in G
  BY IdFacts, AroundUnfolds
<1>2. ASSUME NEW j \in Id \ {Root}, h[j] \in G PROVE j \in G
  <2>1. h[j] \in Id /\ h[j] < j /\ h[j] \in Nat /\ j \in Nat
    BY IdFacts DEF Tree
  <2>2. ASSUME j < n PROVE Rule!Around(g, j) = Rule!Around(h, j)
    <3>1. h[j] < n /\ g[j] = h[j]
      BY <2>1, <2>2
    <3>2. Rule!Around(g, h[j]) = Rule!Around(h, h[j])
      BY <1>2, <3>1
    <3>3. Rule!Around(h, j) = Ups(h, h[j])
      BY AroundUnfolds
    <3>4. Rule!Around(g, j) = Ups(g, g[j])
      BY AroundUnfolds
    <3> QED BY <3>1, <3>2, <3>3, <3>4 DEF Ups
  <2> QED BY <2>2
<1>3. Id \subseteq G
  <2> HIDE DEF G
  <2> QED BY <1>1, <1>2, Downwards
<1> QED BY <1>3

\* The next directive stands in the current context; nothing changes for the others.
LEMMA AroundReads ==
  ASSUME MainType, TreeInv, NEW d \in Directive, Reads(d)
  PROVE  /\ Tree(home) /\ Tree(home') /\ current \in Id /\ current \in 0..Len(script)
         /\ \A k \in 0..Len(script) : k \in Id /\ Rule!Around(home', k) = Rule!Around(home, k)
         /\ Rule!Around(home', New) = Ups(home, current)
<1>1. PICK g, h : g = home' /\ h = home
  OBVIOUS
<1>2. /\ Len(script) \in Nat /\ New = Len(script) + 1 /\ New \in Id \ {Root}
      /\ g \in [Id -> Id] /\ g[New] = current /\ \A k \in Id : k # New => g[k] = h[k]
      /\ pc = "read" /\ Len(script) < MaxDirectives
  BY <1>1, NewFacts DEF Reads
<1>3. Tree(h)
  BY <1>1, TreeOf
<1>4. current \in 0..Len(script) /\ current \in Id
  BY <1>2 DEF TreeInv, MainType
<1>5. current < New
  BY <1>2, <1>4
<1>6. Tree(g)
  BY <1>2, <1>3, <1>5 DEF Tree
<1>7. ASSUME NEW k \in 0..Len(script) PROVE k \in Id /\ Rule!Around(g, k) = Rule!Around(h, k)
  <2>0. k \in 0..MaxDirectives /\ k < New /\ New \in Nat
    <3>1. PICK n : n = Len(script)
      OBVIOUS
    <3>2. n \in Nat /\ k \in 0..n /\ n < MaxDirectives /\ New = n + 1
      BY <1>2, <3>1
    <3> QED BY <3>2, MaxDirectivesAssumption
  <2>1. k \in Id /\ k < New /\ New \in Nat
    BY <2>0 DEF Id
  <2>2. \A i \in Id : i < New => g[i] = h[i]
    <3>1. \A i \in Id : i \in Nat
      BY IdFacts
    <3> QED BY <1>2, <3>1
  <2> QED BY <1>3, <1>6, <2>1, <2>2, AroundAgrees
<1>8. Rule!Around(g, New) = Ups(g, current)
  BY <1>2, <1>6, AroundUnfolds
<1> QED BY <1>1, <1>3, <1>4, <1>6, <1>7, <1>8 DEF Ups
----------------------------------------------------------------------------
\* The directives between a context and the last one inside it stand inside it: its
\* text is a part of the file without a gap.
NestInv ==
  /\ \A k \in Read : home[k] # Root => home[k] \in Read /\ script[home[k]].op = "context"
  /\ \A j \in Read : \A c \in Rule!Around(home, j) : \A k \in Read :
       c < k /\ k <= j => c \in Rule!Around(home, k)
  /\ pc \in {"read", "unwind"} =>
       /\ Open = Ups(home, current)
       /\ \A c \in Open : \A k \in Read : c < k => c \in Rule!Around(home, k)

\* A directive read extends the nesting.
LEMMA NestReads ==
  ASSUME MainType, TreeInv, NestInv, NEW d \in Directive, Reads(d)
  PROVE  /\ \A k \in Read' : home'[k] # Root => home'[k] \in Read' /\ script'[home'[k]].op = "context"
         /\ \A j \in Read' : \A c \in Rule!Around(home', j) : \A k \in Read' :
              c < k /\ k <= j => c \in Rule!Around(home', k)
         /\ \A c \in Open : \A k \in Read' : c < k => c \in Rule!Around(home', k)
<1>1. /\ pc = "read" /\ New \in Id /\ New = Len(script) + 1 /\ Len(script) \in Nat /\ home'[New] = current
      /\ \A k \in Id : k # New => home'[k] = home[k]
      /\ \A k \in Read : script'[k] = script[k]
  BY NewFacts
<1>2. /\ Read' = Read \cup {New} /\ New \notin Read /\ Read \subseteq Id
      /\ \A k \in Read : k \in 0..Len(script) /\ k < New /\ k \in Nat
  BY <1>1, ReadFacts, IdFacts DEF Read
<1>3. PICK a, b : a = [k \in Id |-> Rule!Around(home, k)] /\ b = [k \in Id |-> Rule!Around(home', k)]
  OBVIOUS
<1>4. /\ \A k \in Read : b[k] = a[k] /\ Rule!Around(home, k) = a[k]
      /\ \A k \in Read' : Rule!Around(home', k) = b[k]
      /\ b[New] = Open
  BY <1>1, <1>2, <1>3, AroundReads DEF NestInv
<1>5. \A k \in Read' : home'[k] # Root => home'[k] \in Read' /\ script'[home'[k]].op = "context"
  <2>1. current # Root => current \in Read /\ script[current].op = "context"
    BY <1>1, AroundReads DEF TreeInv, Read, Root
  <2> QED BY <1>1, <1>2, <2>1 DEF NestInv
<1>6. \A c \in Open : c \in Nat /\ \A k \in Read : c < k => c \in a[k]
  <2>1. \A c \in Open : c \in Id
    BY <1>1, AroundReads, UpsFacts DEF NestInv
  <2> QED BY <1>1, <1>4, <2>1, IdFacts DEF NestInv
<1>7. \A c \in Open : \A k \in Read' : c < k => c \in b[k]
  BY <1>2, <1>4, <1>6
<1>8. ASSUME NEW j \in Read', NEW c \in b[j], NEW k \in Read', c < k, k <= j
      PROVE  c \in b[k]
  <2>1. CASE j = New
    BY <1>4, <1>7, <1>8, <2>1
  <2>2. CASE j \in Read
    <3>1. k \in Read
      BY <1>1, <1>2, <1>8, <2>2
    <3> QED BY <1>4, <1>8, <2>2, <3>1 DEF NestInv
  <2> QED BY <1>2, <2>1, <2>2
<1> QED BY <1>4, <1>5, <1>7, <1>8

\* No step breaks the nesting.
LEMMA NestStep ==
  ASSUME Core, OpenInv, NestInv, [Next]_vars
  PROVE  NestInv'
<1> USE DEF Core
<1>0. /\ s \in Seq(Id) /\ Len(s) \in Nat /\ current \in Id /\ Id \subseteq Nat
      /\ \A i \in 1..Len(s) : s[i] \in Id
      /\ Tree(home)
  BY IdFacts, TreeOf DEF MainType
<1>1. ASSUME NEW d \in Directive, Reads(d), UNCHANGED <<pc, current, s>> PROVE NestInv'
  <2>1. pc = "read" /\ Open' = Open
    BY <1>1, NewFacts DEF Open
  <2>2. Open = Ups(home', current)
    BY <1>1, <2>1, AroundReads DEF NestInv, Ups
  <2> QED BY <1>1, <2>1, <2>2, NestReads DEF NestInv
<1>2. ASSUME NEW d \in Directive, NewContext(d) PROVE NestInv'
  <2>1. /\ Reads(d) /\ pc = "read" /\ pc' = pc /\ s' = Append(s, current) /\ current' = New
    BY <1>2, NewFacts DEF NewContext
  <2>2. Open' = Open \cup {New}
    <3>1. PICK n : n = New
      OBVIOUS
    <3>2. /\ Len(s') = Len(s) + 1 /\ s'[Len(s) + 1] = current
          /\ \A i \in 1..Len(s) : s'[i] = s[i]
      BY <1>0, <2>1, PushFacts
    <3>3. 1..Len(s') = (1..Len(s)) \cup {Len(s) + 1}
      BY <1>0, <3>2
    <3> QED BY <2>1, <3>1, <3>2, <3>3 DEF Open
  <2>3. Open' = Ups(home', current')
    BY <2>1, <2>2, AroundReads DEF NestInv, Ups
  <2>4. \A k \in Read' : ~(New < k)
    <3>1. New = Len(script) + 1 /\ Len(script) \in Nat /\ Read' = Read \cup {New} /\ Read = 1..Len(script)
      BY <2>1, NewFacts, ReadFacts DEF Read
    <3> QED BY <3>1
  <2>5. \A c \in Open' : \A k \in Read' : c < k => c \in Rule!Around(home', k)
    BY <2>1, <2>2, <2>4, NestReads
  <2> QED BY <2>1, <2>3, <2>5, NestReads DEF NestInv
<1>3. CASE EndsInner
  <2>1. /\ pc \in {"read", "unwind"} /\ UNCHANGED <<script, home>>
        /\ s # <<>> /\ current' = Last(s) /\ s' = Front(s) /\ pc' = pc
    BY <1>3 DEF EndsInner, EndsCurrent, poolVars
  <2>2. Len(s) >= 1 /\ current' = s[Len(s)]
    BY <1>0, <2>1, TopFacts
  <2>3. Len(s') = Len(s) - 1 /\ \A i \in 1..Len(s) - 1 : s'[i] = s[i]
    BY <1>0, <2>1, <2>2, FrontFacts
  <2>4. Open' = {s[i] : i \in 1..Len(s)}
    <3>1. 1..Len(s) = (1..Len(s')) \cup {Len(s)}
      BY <1>0, <2>2, <2>3
    <3> QED BY <2>2, <2>3, <3>1 DEF Open
  <2>5. \A i \in 1..Len(s) : s[i] < current /\ s[i] # current /\ s[i] <= s[Len(s)]
    <3>1. \A i \in 1..Len(s) : s[i] < current /\ (i < Len(s) => s[i] < s[Len(s)])
      BY <1>0, <2>1, <2>2 DEF OpenInv
    <3>0. \A i \in 1..Len(s) : i < Len(s) \/ i = Len(s)
      BY <1>0
    <3>2. current \in Nat /\ \A i \in 1..Len(s) : s[i] \in Nat /\ (i < Len(s) \/ i = Len(s))
      BY <1>0, <3>0
    <3> SUFFICES ASSUME NEW i \in 1..Len(s)
                 PROVE  s[i] < current /\ s[i] # current /\ s[i] <= s[Len(s)]
      OBVIOUS
    <3>3. PICK x, y, z : x = s[i] /\ y = s[Len(s)] /\ z = current
      OBVIOUS
    <3>4. x \in Nat /\ z \in Nat /\ x < z /\ (x < y \/ x = y)
      BY <3>1, <3>2, <3>3
    <3>5. y \in Nat
      BY <1>0, <2>2, <3>2, <3>3
    <3>6. x < z /\ x # z /\ x <= y
      BY <3>4, <3>5
    <3> QED BY <3>3, <3>6
  <2>6. current # Root
    <3>1. PICK y, z : y = s[Len(s)] /\ z = current
      OBVIOUS
    <3>2. Len(s) \in 1..Len(s)
      BY <1>0, <2>2
    <3>3. y \in Nat /\ z \in Nat /\ y < z
      BY <1>0, <2>5, <3>1, <3>2
    <3> QED BY <3>1, <3>3 DEF Root
  <2>7. Open' = Rule!Around(home, current)
    <3>1. Open = Open' \cup {current} /\ current \notin Open'
      BY <2>4, <2>5 DEF Open
    <3>2. Open = {current} \cup Rule!Around(home, current)
      BY <2>1 DEF NestInv, Ups
    <3>3. current \notin Rule!Around(home, current)
      BY <1>0, AroundSmaller
    <3> QED BY <3>1, <3>2, <3>3
  <2>8. Open' = Ups(home, home[current]) /\ home[current] \in Id
    BY <1>0, <2>6, <2>7, AroundUnfolds DEF Tree
  <2>9. home[current] = s[Len(s)]
    <3>1. PICK i \in 1..Len(s) : home[current] = s[i]
      BY <2>4, <2>8 DEF Ups
    <3>2. s[Len(s)] \in Ups(home, home[current])
      BY <1>0, <2>2, <2>4, <2>8
    <3>3. s[Len(s)] <= home[current]
      BY <1>0, <2>8, <3>2, UpsFacts
    <3>4. PICK x, y : x = home[current] /\ y = s[Len(s)]
      OBVIOUS
    <3>5. Len(s) \in 1..Len(s)
      BY <1>0, <2>2
    <3>6. x \in Nat /\ y \in Nat /\ x <= y /\ y <= x
      BY <1>0, <2>5, <3>1, <3>3, <3>4, <3>5
    <3>7. x = y
      BY <3>6
    <3> QED BY <3>4, <3>7
  <2>10. Open' = Ups(home', current')
    BY <2>1, <2>2, <2>8, <2>9
  <2>11. \A c \in Open' : \A k \in Read' : c < k => c \in Rule!Around(home', k)
    BY <2>1, <2>4 DEF NestInv, Open, Read
  <2> QED BY <2>1, <2>10, <2>11 DEF NestInv, Read
<1>4. ASSUME UNCHANGED <<script, home, current, s>>, pc' \in {"read", "unwind"} => pc \in {"read", "unwind"}
      PROVE  NestInv'
  BY <1>4 DEF NestInv, Open, Read
<1>5. ASSUME NEW d \in Directive, NEW p \in {USE_DICT, MAKE_DICT}, ReadTask(d, p) \/ ReadOnly(d)
      PROVE  NestInv'
  BY <1>1, <1>5 DEF ReadTask, ReadOnly
<1>6. CASE EndsOuter
  BY <1>4, <1>6 DEF EndsOuter, EndsRoot
<1>7. CASE PcMoves \/ DeleteSub \/ Destruct \/ Enqueue \/ UNCHANGED treeVars
  BY <1>4, <1>7 DEF PcMoves, DeleteSub, Destruct, Enqueue, treeVars
<1>8. ASSUME NEW w \in Worker, Take(w) \/ BuildThrows(w) \/ JobsDec(w) PROVE NestInv'
  BY <1>4, <1>8 DEF Take, BuildThrows, JobsDec, mainVars
<1> QED BY <1>2, <1>3, <1>5, <1>6, <1>7, <1>8, StepKinds

----------------------------------------------------------------------------
\* What a shelf should say, of the definitions before a place in the file.

\* For a place in the file, the contexts A around it and the n - 1 directives before
\* it: the definitions of a kind it sees,
Defs(sc, h, op, A, n) == {j \in 1..n - 1 : sc[j].op = op /\ h[j] \in A}
\* what is taken back of them,
Back(sc, h, A, n, j) == \E u \in j + 1..n - 1 : h[u] \in A /\ Rule!TakesBack(sc, h, u, j)
\* those in force,
InForce(sc, h, op, A, n) == {j \in Defs(sc, h, op, A, n) : ~Back(sc, h, A, n, j)}
\* and the last of each name.
Latest(sc, h, op, A, n) ==
  {j \in Defs(sc, h, op, A, n) :
     sc[j].name # NoName /\ \A i \in Defs(sc, h, op, A, n) : sc[i].name = sc[j].name => i <= j}

\* A shelf says what the file says: the definitions of D in their order, those in force
\* active, and the names leading to the last ones.
Keeps(sh, sc, D, F, L) ==
  /\ \A i \in DOMAIN sh.entry : /\ sh.entry[i].dict \in D
                                /\ sh.entry[i].name = sc[sh.entry[i].dict].name
  /\ \A i, j \in DOMAIN sh.entry : i < j => sh.entry[i].dict < sh.entry[j].dict
  /\ \A i \in Active(sh) : sh.entry[i].dict \in F
  /\ \A j \in F : \E i \in Active(sh) : sh.entry[i].dict = j
  /\ \A x \in DOMAIN sh.index : sh.entry[sh.index[x]].dict \in L
  /\ \A j \in F \cap L : sc[j].name \in DOMAIN sh.index

Means(sh, sc, h, op, A, n) ==
  Keeps(sh, sc, Defs(sc, h, op, A, n), InForce(sc, h, op, A, n), Latest(sc, h, op, A, n))

Undo(op) == IF op = "defdir" THEN "undefdir" ELSE "unnoextend"

\* Who takes back whom, among directives with A around them.
LEMMA TakesFacts ==
  ASSUME NEW sc, NEW h, NEW op \in {"defdir", "noextend"}, NEW n \in Nat, NEW A,
         Rule!Around(h, n) = A, NEW j \in Defs(sc, h, op, A, n)
  PROVE  Rule!TakesBack(sc, h, n, j) <=>
           /\ sc[n].op = Undo(op) /\ sc[n].name = sc[j].name
           /\ j \in Latest(sc, h, op, A, n)
<1>1. j \in 1..n - 1 /\ sc[j].op = op /\ h[j] \in A /\ j < n
  BY DEF Defs
<1>2. \A i \in j + 1..n - 1 : i \in 1..n - 1 /\ i < n /\ ~(i <= j)
  BY <1>1
<1>3. \A i \in 1..n - 1 : i <= j \/ i \in j + 1..n - 1
  BY <1>1
<1>4. <<op, sc[n].op>> \in {<<"defdir", "undefdir">>, <<"noextend", "unnoextend">>} <=> sc[n].op = Undo(op)
  BY DEF Undo
<1>5. Rule!InScope(h, j, n)
  BY <1>1 DEF Rule!InScope
<1>6. \A i \in j + 1..n - 1 : i \in Defs(sc, h, op, A, n) <=> Rule!InScope(h, i, n) /\ sc[i].op = op
  BY <1>2 DEF Defs, Rule!InScope
<1>7. (\A i \in Defs(sc, h, op, A, n) : sc[i].name = sc[j].name => i <= j)
        <=> \A i \in j + 1..n - 1 : ~(Rule!InScope(h, i, n) /\ sc[i].op = op /\ sc[i].name = sc[j].name)
  <2>1. ASSUME NEW i \in Defs(sc, h, op, A, n), sc[i].name = sc[j].name, ~(i <= j)
        PROVE  i \in j + 1..n - 1
    <3>1. i \in 1..n - 1
      BY DEF Defs
    <3> QED BY <1>3, <2>1, <3>1
  <2> QED BY <1>2, <1>6, <2>1
<1> QED BY <1>1, <1>4, <1>5, <1>7 DEF Rule!TakesBack, Latest

\* What the next directive does to the definitions in sight.
LEMMA DefsGrow ==
  ASSUME NEW sc, NEW h, NEW op, NEW n \in Nat \ {0}, NEW A
  PROVE  /\ sc[n].op = op /\ h[n] \in A => Defs(sc, h, op, A, n + 1) = Defs(sc, h, op, A, n) \cup {n}
         /\ sc[n].op # op \/ h[n] \notin A => Defs(sc, h, op, A, n + 1) = Defs(sc, h, op, A, n)
         /\ \A j \in Defs(sc, h, op, A, n) : j \in Nat /\ j < n
<1>1. 1..(n + 1) - 1 = (1..n - 1) \cup {n} /\ \A j \in 1..n - 1 : j \in Nat /\ j < n
  OBVIOUS
<1> QED BY <1>1 DEF Defs

\* And what it takes back.
LEMMA BackGrows ==
  ASSUME NEW sc, NEW h, NEW n \in Nat \ {0}, NEW A
  PROVE  /\ \A j \in 1..n - 1 :
              Back(sc, h, A, n + 1, j) <=>
                Back(sc, h, A, n, j) \/ (h[n] \in A /\ Rule!TakesBack(sc, h, n, j))
         /\ ~Back(sc, h, A, n + 1, n)
<1>1. \A j \in 1..n - 1 : j + 1..(n + 1) - 1 = (j + 1..n - 1) \cup {n}
  OBVIOUS
<1>2. n + 1..(n + 1) - 1 = {}
  OBVIOUS
<1> QED BY <1>1, <1>2 DEF Back

\* A directive that is not in sight, or of another kind, changes nothing.
LEMMA MeansOther ==
  ASSUME NEW sc, NEW h, NEW op \in {"defdir", "noextend"}, NEW n \in Nat \ {0}, NEW A,
         h[n] \in A => Rule!Around(h, n) = A,
         \/ h[n] \notin A
         \/ sc[n].op \notin {op, Undo(op)}
         \/ sc[n].op = Undo(op) /\ sc[n].name = NoName,
         NEW sh, Means(sh, sc, h, op, A, n)
  PROVE  Means(sh, sc, h, op, A, n + 1)
<1>1. sc[n].op # op \/ h[n] \notin A
  BY DEF Undo
<1>2. Defs(sc, h, op, A, n + 1) = Defs(sc, h, op, A, n)
  BY <1>1, DefsGrow
<1>3. Latest(sc, h, op, A, n + 1) = Latest(sc, h, op, A, n)
  BY <1>2 DEF Latest
<1>4. ASSUME NEW j \in Defs(sc, h, op, A, n), h[n] \in A PROVE ~Rule!TakesBack(sc, h, n, j)
  <2>1. sc[n].op = Undo(op) => sc[n].name = NoName
    BY <1>4
  <2>2. j \in Latest(sc, h, op, A, n) => sc[j].name # NoName
    BY DEF Latest
  <2> QED BY <1>4, <2>1, <2>2, TakesFacts
<1>5. \A j \in Defs(sc, h, op, A, n) : Back(sc, h, A, n + 1, j) <=> Back(sc, h, A, n, j)
  <2>1. Defs(sc, h, op, A, n) \subseteq 1..n - 1
    BY DEF Defs
  <2> QED BY <1>4, <2>1, BackGrows
<1>6. InForce(sc, h, op, A, n + 1) = InForce(sc, h, op, A, n)
  BY <1>2, <1>5 DEF InForce
<1> QED BY <1>2, <1>3, <1>6 DEF Means

\* A definition comes last and into force.
LEMMA MeansPut ==
  ASSUME NEW sc, NEW h, NEW op \in {"defdir", "noextend"}, NEW n \in Nat \ {0}, NEW A,
         Rule!Around(h, n) = A, h[n] \in A, sc[n].op = op,
         NEW D, NEW N, NoName \notin N, n \in D, sc[n].name \in N \cup {NoName},
         NEW sh, IsShelf(sh, D, N), IndexSound(sh), Means(sh, sc, h, op, A, n)
  PROVE  Means(Put(sh, n, sc[n].name), sc, h, op, A, n + 1)
<1> DEFINE new == Put(sh, n, sc[n].name)
           Dn == Defs(sc, h, op, A, n)
           Fn == InForce(sc, h, op, A, n)
           Ln == Latest(sc, h, op, A, n)
           e == [dict |-> n, name |-> sc[n].name, state |-> TRUE]
<1>1. PICK last : last = Len(sh.entry) + 1
  OBVIOUS
<1>2. /\ Active(new) = Active(sh) \cup {last} /\ last \notin Active(sh)
      /\ new.entry[last] = e
      /\ new.entry = Append(sh.entry, e)
      /\ new.index = [m \in DOMAIN sh.index \cup ({sc[n].name} \ {NoName}) |->
                        IF m = sc[n].name THEN last ELSE sh.index[m]]
      /\ e.dict = n /\ e.name = sc[n].name
  <2>1. PICK x : x = sc[n].name
    OBVIOUS
  <2>2. /\ Active(Put(sh, n, x)) = Active(sh) \cup {last} /\ last \notin Active(sh)
        /\ Put(sh, n, x).entry[last] = [dict |-> n, name |-> x, state |-> TRUE]
    BY <1>1, <2>1, PutRanks
  <2> QED BY <1>1, <2>1, <2>2 DEF Put
<1>3. /\ Len(sh.entry) \in Nat /\ DOMAIN sh.entry = 1..Len(sh.entry)
      /\ DOMAIN new.entry = 1..last
      /\ \A i \in 1..Len(sh.entry) : new.entry[i] = sh.entry[i]
  <2>1. sh.entry \in Seq([dict : D, name : N \cup {NoName}, state : BOOLEAN])
    BY DEF IsShelf
  <2> QED BY <1>1, <1>2, <2>1
<1>4. /\ Defs(sc, h, op, A, n + 1) = Dn \cup {n}
      /\ \A j \in Dn : j \in Nat /\ j < n
      /\ ~Back(sc, h, A, n + 1, n)
      /\ Dn \subseteq 1..n - 1
  BY DefsGrow, BackGrows DEF Defs
<1>5. \A j \in Dn : Back(sc, h, A, n + 1, j) <=> Back(sc, h, A, n, j)
  <2>1. sc[n].op # Undo(op)
    BY DEF Undo
  <2> QED BY <1>4, <2>1, TakesFacts, BackGrows
<1>6. InForce(sc, h, op, A, n + 1) = Fn \cup {n}
  BY <1>4, <1>5 DEF InForce
<1>7. Latest(sc, h, op, A, n + 1)
        = {j \in Ln : sc[j].name # sc[n].name} \cup (IF sc[n].name = NoName THEN {} ELSE {n})
  <2>1. \A j \in Dn : j <= n /\ ~(n <= j) /\ j # n
    BY <1>4
  <2>2. n <= n
    OBVIOUS
  <2>3. ASSUME NEW j \in Dn
        PROVE  j \in Latest(sc, h, op, A, n + 1) <=> j \in Ln /\ sc[j].name # sc[n].name
    BY <1>4, <2>1 DEF Latest
  <2>4. n \in Latest(sc, h, op, A, n + 1) <=> sc[n].name # NoName
    BY <1>4, <2>1, <2>2 DEF Latest
  <2>5. \A j \in Latest(sc, h, op, A, n + 1) : j \in Dn \/ j = n
    BY <1>4 DEF Latest
  <2>6. Ln \subseteq Dn
    BY DEF Latest
  <2> QED BY <2>3, <2>4, <2>5, <2>6
<1> HIDE DEF new, e, Dn, Fn, Ln
<1>8. Keeps(sh, sc, Dn, Fn, Ln)
  BY DEF Means, Dn, Fn, Ln
<1>9. \A i \in DOMAIN new.entry : (i \in DOMAIN sh.entry /\ new.entry[i] = sh.entry[i]) \/ i = last
  BY <1>1, <1>3
<1>10. \A i \in DOMAIN new.entry : /\ new.entry[i].dict \in Dn \cup {n}
                                   /\ new.entry[i].name = sc[new.entry[i].dict].name
  BY <1>2, <1>8, <1>9 DEF Keeps
<1>11. ASSUME NEW i \in DOMAIN new.entry, NEW j \in DOMAIN new.entry, i < j
       PROVE  new.entry[i].dict < new.entry[j].dict
  <2>1. i \in DOMAIN sh.entry /\ new.entry[i] = sh.entry[i]
    BY <1>1, <1>3, <1>11
  <2>2. CASE j = last
    <3>1. sh.entry[i].dict < n
      BY <1>4, <1>8, <2>1 DEF Keeps
    <3> QED BY <1>2, <2>1, <2>2, <3>1
  <2>3. CASE j \in DOMAIN sh.entry /\ new.entry[j] = sh.entry[j]
    BY <1>8, <1>11, <2>1, <2>3 DEF Keeps
  <2> QED BY <1>9, <2>2, <2>3
<1>12. \A i \in Active(sh) : i \in DOMAIN sh.entry /\ new.entry[i] = sh.entry[i]
  BY <1>3 DEF Active
<1>13. \A i \in Active(new) : new.entry[i].dict \in Fn \cup {n}
  BY <1>2, <1>8, <1>12 DEF Keeps
<1>14. \A j \in Fn \cup {n} : \E i \in Active(new) : new.entry[i].dict = j
  <2>1. ASSUME NEW j \in Fn PROVE \E i \in Active(new) : new.entry[i].dict = j
    BY <1>2, <1>8, <1>12 DEF Keeps
  <2>2. last \in Active(new) /\ new.entry[last].dict = n
    BY <1>2
  <2> QED BY <2>1, <2>2
<1>15. PICK Lm : Lm = {j \in Ln : sc[j].name # sc[n].name} \cup (IF sc[n].name = NoName THEN {} ELSE {n})
  OBVIOUS
<1>16. ASSUME NEW x \in DOMAIN new.index PROVE new.entry[new.index[x]].dict \in Lm
  <2>1. CASE x = sc[n].name
    <3>1. x # NoName
      BY <1>2, <1>16, <2>1 DEF IndexSound
    <3> QED BY <1>2, <1>15, <2>1, <3>1
  <2>2. CASE x # sc[n].name
    <3>1. x \in DOMAIN sh.index /\ new.index[x] = sh.index[x]
      BY <1>2, <2>2
    <3>2. /\ sh.entry[sh.index[x]].dict \in Ln /\ sh.index[x] \in Active(sh)
          /\ sh.entry[sh.index[x]].name = x
      BY <1>8, <3>1 DEF Keeps, IndexSound
    <3>3. sc[sh.entry[sh.index[x]].dict].name = x
      BY <1>8, <1>12, <3>2 DEF Keeps
    <3> QED BY <1>12, <1>15, <2>2, <3>1, <3>2, <3>3
  <2> QED BY <2>1, <2>2
<1>17. ASSUME NEW j \in (Fn \cup {n}) \cap Lm PROVE sc[j].name \in DOMAIN new.index
  <2>1. CASE j = n
    <3>1. \A i \in Ln : sc[n].name # sc[n].name => FALSE
      OBVIOUS
    <3>2. sc[n].name # NoName
      <4>1. ASSUME n \in Ln PROVE FALSE
        BY <1>4, <4>1 DEF Ln, Latest, Dn
      <4> QED BY <1>15, <1>17, <2>1, <4>1
    <3> QED BY <1>2, <2>1, <3>2
  <2>2. CASE j # n
    <3>1. j \in Fn \cap Ln
      BY <1>15, <1>17, <2>2
    <3> QED BY <1>2, <1>8, <3>1 DEF Keeps
  <2> QED BY <2>1, <2>2
<1>18. Keeps(new, sc, Dn \cup {n}, Fn \cup {n}, Lm)
  BY <1>10, <1>11, <1>13, <1>14, <1>16, <1>17 DEF Keeps
<1> QED BY <1>4, <1>6, <1>7, <1>15, <1>18 DEF Means, new, Dn, Fn, Ln

\* An undefinition takes the last of its name out of force, if it still is.
LEMMA MeansDrop ==
  ASSUME NEW sc, NEW h, NEW op \in {"defdir", "noextend"}, NEW n \in Nat \ {0}, NEW A,
         Rule!Around(h, n) = A, h[n] \in A, sc[n].op = Undo(op), sc[n].name # NoName,
         NEW D, NEW N, NEW sh, IsShelf(sh, D, N), IndexSound(sh), Means(sh, sc, h, op, A, n)
  PROVE  Means(Drop(sh, sc[n].name), sc, h, op, A, n + 1)
<1> DEFINE Dn == Defs(sc, h, op, A, n)
           Fn == InForce(sc, h, op, A, n)
           Ln == Latest(sc, h, op, A, n)
<1>1. PICK x : x = sc[n].name
  OBVIOUS
<1>2. Defs(sc, h, op, A, n + 1) = Dn /\ Latest(sc, h, op, A, n + 1) = Ln /\ Dn \subseteq 1..n - 1
      /\ Ln \subseteq Dn
  <2>1. sc[n].op # op
    BY DEF Undo
  <2>2. Defs(sc, h, op, A, n + 1) = Dn
    BY <2>1, DefsGrow
  <2> QED BY <2>2 DEF Latest, Defs
<1>3. \A j \in Dn : Back(sc, h, A, n + 1, j) <=> Back(sc, h, A, n, j) \/ (j \in Ln /\ sc[j].name = x)
  BY <1>1, <1>2, TakesFacts, BackGrows
<1>4. InForce(sc, h, op, A, n + 1) = {j \in Fn : ~(j \in Ln /\ sc[j].name = x)}
  BY <1>2, <1>3 DEF InForce
<1>5. \A i, j \in Ln : sc[i].name = sc[j].name => i = j
  <2>1. \A i, j \in Ln : sc[i].name = sc[j].name => i <= j /\ j <= i
    BY DEF Latest
  <2>2. \A i \in Ln : i \in Nat
    BY <1>2
  <2> QED BY <2>1, <2>2
<1> HIDE DEF Dn, Fn, Ln
<1>6. Keeps(sh, sc, Dn, Fn, Ln)
  BY DEF Means, Dn, Fn, Ln
<1>7. PICK Fm : Fm = {j \in Fn : ~(j \in Ln /\ sc[j].name = x)}
  OBVIOUS
<1>8. CASE x \notin DOMAIN sh.index
  <2>1. Drop(sh, x) = sh
    BY <1>8 DEF Drop, Indexed
  <2>2. Fm = Fn
    BY <1>6, <1>7, <1>8 DEF Keeps
  <2> QED BY <1>1, <1>2, <1>4, <1>6, <1>7, <2>1, <2>2 DEF Means
<1>9. CASE x \in DOMAIN sh.index
  <2> DEFINE new == Drop(sh, x)
  <2>1. PICK p : p = sh.index[x]
    OBVIOUS
  <2>2. /\ p \in Active(sh) /\ Active(new) = Active(sh) \ {p}
        /\ \A i \in Active(sh) \ {p} : new.entry[i] = sh.entry[i]
    BY <1>9, <2>1, DropRanks
  <2>3. /\ DOMAIN new.entry = DOMAIN sh.entry
        /\ new.index = [m \in DOMAIN sh.index \ {x} |-> sh.index[m]]
        /\ \A i \in DOMAIN sh.entry : /\ new.entry[i].dict = sh.entry[i].dict
                                      /\ new.entry[i].name = sh.entry[i].name
    <3> DEFINE E == [dict : D, name : N \cup {NoName}, state : BOOLEAN]
    <3>1. /\ new.entry = [sh.entry EXCEPT ![p].state = FALSE]
          /\ new.index = [m \in DOMAIN sh.index \ {x} |-> sh.index[m]]
      BY <1>9, <2>1 DEF Drop, Indexed
    <3>2. sh.entry \in Seq(E)
      BY DEF IsShelf
    <3>3. p \in DOMAIN sh.entry
      BY <2>2 DEF Active
    <3>4. sh.entry[p] \in E
      <4> HIDE DEF E
      <4> QED BY <3>2, <3>3
    <3>5. PICK e : e = [sh.entry[p] EXCEPT !.state = FALSE]
      OBVIOUS
    <3>6. e.dict = sh.entry[p].dict /\ e.name = sh.entry[p].name
      BY <3>4, <3>5
    <3>7. new.entry = [sh.entry EXCEPT ![p] = e]
      BY <3>1, <3>5
    <3> HIDE DEF E, new
    <3> QED BY <3>1, <3>2, <3>3, <3>6, <3>7
  <2> HIDE DEF new
  <2>4. PICK j0 : j0 = sh.entry[p].dict
    OBVIOUS
  <2>5. j0 \in Ln /\ sc[j0].name = x
    <3>1. sh.entry[p].name = x
      BY <1>9, <2>1 DEF IndexSound
    <3>2. p \in DOMAIN sh.entry
      BY <2>2 DEF Active
    <3> QED BY <1>6, <1>9, <2>1, <2>4, <3>1, <3>2 DEF Keeps
  <2>6. Fm = Fn \ {j0}
    BY <1>5, <1>7, <2>5
  <2>7. \A i \in DOMAIN sh.entry : i # p => sh.entry[i].dict # j0
    <3>1. ASSUME NEW i \in DOMAIN sh.entry, i # p PROVE sh.entry[i].dict # j0
      <4>1. p \in DOMAIN sh.entry /\ DOMAIN sh.entry = 1..Len(sh.entry)
        BY <2>2 DEF Active, IsShelf
      <4>2. i < p \/ p < i
        BY <3>1, <4>1
      <4>3. sh.entry[i].dict < j0 \/ j0 < sh.entry[i].dict
        BY <1>6, <2>4, <3>1, <4>1, <4>2 DEF Keeps
      <4>4. sh.entry[i].dict \in Nat /\ j0 \in Nat
        BY <1>2, <1>6, <2>4, <3>1, <4>1 DEF Keeps, Dn
      <4> QED BY <4>3, <4>4
    <3> QED BY <3>1
  <2>8. \A i \in Active(sh) : i \in DOMAIN sh.entry
    BY DEF Active
  <2>9. \A i \in Active(new) : new.entry[i].dict \in Fm
    BY <1>6, <2>2, <2>3, <2>6, <2>7, <2>8 DEF Keeps
  <2>10. ASSUME NEW j \in Fm PROVE \E i \in Active(new) : new.entry[i].dict = j
    <3>1. PICK i \in Active(sh) : sh.entry[i].dict = j
      BY <1>6, <2>6 DEF Keeps
    <3>2. i # p
      BY <2>4, <2>6, <3>1
    <3> QED BY <2>2, <2>3, <2>8, <3>1, <3>2
  <2>11. ASSUME NEW y \in DOMAIN new.index PROVE new.entry[new.index[y]].dict \in Ln
    <3>1. y \in DOMAIN sh.index /\ new.index[y] = sh.index[y]
      BY <2>3
    <3>2. sh.index[y] \in DOMAIN sh.entry
      BY <2>8, <3>1 DEF IndexSound
    <3> QED BY <1>6, <2>3, <3>1, <3>2 DEF Keeps
  <2>12. ASSUME NEW j \in Fm \cap Ln PROVE sc[j].name \in DOMAIN new.index
    <3>1. sc[j].name \in DOMAIN sh.index
      BY <1>6, <2>6 DEF Keeps
    <3>2. sc[j].name # x
      BY <1>7
    <3> QED BY <2>3, <3>1, <3>2
  <2>13. Keeps(new, sc, Dn, Fm, Ln)
    BY <1>6, <2>3, <2>9, <2>10, <2>11, <2>12 DEF Keeps
  <2> QED BY <1>1, <1>2, <1>4, <1>7, <2>13 DEF Means, new, Dn, Fn, Ln
<1> QED BY <1>8, <1>9

\* A copy says the same.
LEMMA KeepsCopy ==
  ASSUME NEW D, NEW N, NEW sh, IsShelf(sh, D, N), IndexSound(sh),
         NEW sc, NEW Dn, NEW Fn, NEW Ln, Keeps(sh, sc, Dn, Fn, Ln)
  PROVE  Keeps(Copy(sh), sc, Dn, Fn, Ln)
<1> DEFINE new == Copy(sh)
           E == [dict : D, name : N \cup {NoName}, state : BOOLEAN]
<1>1. new.entry = Packed(sh) /\ new.index = [m \in DOMAIN sh.index |-> Rank(sh, sh.index[m])]
  BY DEF Copy
<1>2. PICK k : k = Cardinality(Active(sh))
  OBVIOUS
<1>3. k \in Nat /\ Active(new) = 1..k
  BY <1>2, ActiveFinite, CopyRanks
<1>4. /\ \A i \in Active(sh) : Rank(sh, i) \in 1..k
      /\ \A i, j \in Active(sh) : i < j => Rank(sh, i) < Rank(sh, j)
      /\ \A r \in 1..k : \E i \in Active(sh) : Rank(sh, i) = r
  BY <1>2, RankNumbers
<1>5. /\ \A i \in Active(sh) : i \in DOMAIN sh.entry /\ i \in Nat
      /\ DOMAIN new.entry = 1..k
      /\ \A i \in Active(sh) : new.entry[Rank(sh, i)] = sh.entry[i]
  <2>1. sh.entry \in Seq(E)
    BY DEF IsShelf
  <2> HIDE DEF E
  <2>2. \A i \in Active(sh) : i \in DOMAIN sh.entry /\ i \in Nat /\ sh.entry[i] \in E
    BY <2>1 DEF Active
  <2>3. /\ Packed(sh) \in Seq(E) /\ Len(Packed(sh)) = k
        /\ \A i \in Active(sh) : Packed(sh)[Rank(sh, i)] = sh.entry[i]
    BY <1>2, <2>2, PackedAt
  <2> QED BY <1>1, <2>2, <2>3
<1> HIDE DEF new
<1>6. \A i \in DOMAIN new.entry : \E j \in Active(sh) : Rank(sh, j) = i /\ new.entry[i] = sh.entry[j]
  BY <1>4, <1>5
<1>7. \A i \in DOMAIN new.entry : /\ new.entry[i].dict \in Dn
                                  /\ new.entry[i].name = sc[new.entry[i].dict].name
  BY <1>5, <1>6 DEF Keeps
<1>8. ASSUME NEW i \in DOMAIN new.entry, NEW j \in DOMAIN new.entry, i < j
      PROVE  new.entry[i].dict < new.entry[j].dict
  <2>1. PICK a \in Active(sh) : Rank(sh, a) = i /\ new.entry[i] = sh.entry[a]
    BY <1>6
  <2>2. PICK b \in Active(sh) : Rank(sh, b) = j /\ new.entry[j] = sh.entry[b]
    BY <1>6
  <2>3. ~(b < a) /\ a # b
    <3>1. i \in Nat /\ j \in Nat
      BY <1>5
    <3> QED BY <1>4, <1>8, <2>1, <2>2, <3>1
  <2>4. a < b
    BY <1>5, <2>3
  <2> QED BY <1>5, <2>1, <2>2, <2>4 DEF Keeps
<1>9. \A i \in Active(new) : new.entry[i].dict \in Fn
  BY <1>3, <1>5, <1>6 DEF Keeps
<1>10. ASSUME NEW j \in Fn PROVE \E i \in Active(new) : new.entry[i].dict = j
  <2>1. PICK i \in Active(sh) : sh.entry[i].dict = j
    BY DEF Keeps
  <2> QED BY <1>3, <1>4, <1>5, <2>1
<1>11. ASSUME NEW x \in DOMAIN new.index PROVE new.entry[new.index[x]].dict \in Ln
  BY <1>1, <1>5 DEF Keeps, IndexSound
<1>12. \A j \in Fn \cap Ln : sc[j].name \in DOMAIN new.index
  BY <1>1 DEF Keeps
<1> QED BY <1>7, <1>8, <1>9, <1>10, <1>11, <1>12 DEF Keeps, new

\* What comes behind does not matter.
LEMMA MeansAgrees ==
  ASSUME NEW sc, NEW h, NEW se, NEW g, NEW op, NEW n \in Nat, NEW A,
         \A i \in 1..n - 1 : se[i] = sc[i] /\ g[i] = h[i] /\ Rule!Around(g, i) = Rule!Around(h, i)
  PROVE  /\ Defs(se, g, op, A, n) = Defs(sc, h, op, A, n)
         /\ InForce(se, g, op, A, n) = InForce(sc, h, op, A, n)
         /\ Latest(se, g, op, A, n) = Latest(sc, h, op, A, n)
         /\ \A sh : Means(sh, sc, h, op, A, n) => Means(sh, se, g, op, A, n)
<1>1. Defs(se, g, op, A, n) = Defs(sc, h, op, A, n)
  BY DEF Defs
<1>2. \A j \in Defs(sc, h, op, A, n) : j \in 1..n - 1 /\ se[j] = sc[j]
  BY DEF Defs
<1>3. Latest(se, g, op, A, n) = Latest(sc, h, op, A, n)
  BY <1>1, <1>2 DEF Latest
<1>4. ASSUME NEW u \in 1..n - 1, NEW j \in 1..u - 1
      PROVE  Rule!TakesBack(se, g, u, j) <=> Rule!TakesBack(sc, h, u, j)
  <2>1. j \in 1..n - 1 /\ \A i \in j + 1..u - 1 : i \in 1..n - 1
    OBVIOUS
  <2> QED BY <2>1 DEF Rule!TakesBack, Rule!InScope
<1>5. ASSUME NEW j \in 1..n - 1 PROVE Back(se, g, A, n, j) <=> Back(sc, h, A, n, j)
  <2>1. \A u \in j + 1..n - 1 : u \in 1..n - 1 /\ j \in 1..u - 1
    OBVIOUS
  <2> QED BY <1>4, <2>1 DEF Back
<1>6. InForce(se, g, op, A, n) = InForce(sc, h, op, A, n)
  BY <1>1, <1>2, <1>5 DEF InForce
<1>7. ASSUME NEW sh, Means(sh, sc, h, op, A, n) PROVE Means(sh, se, g, op, A, n)
  <2>1. PICK Dn, Fn, Ln : Dn = Defs(sc, h, op, A, n) /\ Fn = InForce(sc, h, op, A, n)
                          /\ Ln = Latest(sc, h, op, A, n)
    OBVIOUS
  <2>2. Keeps(sh, sc, Dn, Fn, Ln)
    BY <1>7, <2>1 DEF Means
  <2>3. \A j \in Dn : se[j] = sc[j]
    BY <1>2, <2>1
  <2>4. Fn \subseteq Dn
    BY <2>1 DEF InForce
  <2>5. Keeps(sh, se, Dn, Fn, Ln)
    BY <2>2, <2>3, <2>4 DEF Keeps
  <2> QED BY <1>1, <1>3, <1>6, <2>1, <2>5 DEF Means
<1> QED BY <1>1, <1>3, <1>6, <1>7

----------------------------------------------------------------------------
\* The layers of the invariant behind OutputIsMeaning.

\* A family of shelves says what the file says: those of the open contexts as far as
\* it was read, the copies of a make block up to the block.
Says(f, op) ==
  /\ pc \in {"read", "unwind"} =>
       \A c \in Open : Means(f[c], script, home, op, Ups(home, c), New)
  /\ \A k \in Read : script[k].op = "make" =>
       Means(f[k], script, home, op, Rule!Around(home, k), k)

MeansInv == Says(rpd, "defdir") /\ Says(rnd, "noextend")

\* Unless an error was seen, a dictionary matches the words of its block.
ContentInv ==
  /\ DOMAIN content = Id
  /\ ~error => /\ \A k \in ready : content[k] = script[k].holds
               /\ \A w \in Worker : step[w] = "finish" => content[slot[w].id] = Block(w).holds

\* No dictionary in force above position p holds word x.
NoneAbove(sh, p, x) ==
  \A i \in Active(sh) : p < i => x \notin script[sh.entry[i].dict].holds

\* Unless an error was seen, what a make block wrote so far is right, and of the
\* dictionaries tested for the present word none holds it.
Scans(w, k) ==
  /\ script[k].op = "make"
  /\ word[w] \in 1..Len(script[k].words) + 1
  /\ line[w] = [i \in 1..word[w] - 1 |-> Rule!Piece(script, home, k)[i]]
  /\ step[w] = "match" =>
       /\ at[w] <= Len(rnd[k].entry)
       /\ word[w] <= Len(script[k].words) => NoneAbove(rnd[k], at[w], script[k].words[word[w]])
  /\ step[w] = "full" =>
       /\ at[w] <= Len(rpd[k].entry)
       /\ word[w] <= Len(script[k].words)
       /\ NoneAbove(rnd[k], 0, script[k].words[word[w]])
       /\ NoneAbove(rpd[k], at[w], script[k].words[word[w]])

ScanInv ==
  /\ DOMAIN line = Worker
  /\ ~error => \A w \in Worker : step[w] \in {"match", "full"} => Scans(w, slot[w].id)

\* What the directives write, and what stands inside context k.
Pieces == [k \in 1..MaxDirectives |-> IF k \in Read THEN Rule!Piece(script, home, k) ELSE <<>>]
Below(k) == {j \in Read : k \in Rule!Around(home, j)}
Whole(k) == Part(Pieces, {k} \cup Below(k))

\* Some task about k still has to do its work.
Working(t) == \A w \in Worker : slot[w] = t => step[w] # "dec"
Busy(k) == \E t \in All : t.id = k /\ Working(t)

\* The texts still to come.
Undone(k) == Busy(k) \/ (pc \in {"read", "unwind"} /\ k \in Open)

IsContext(k) == k = Root \/ (k \in Read /\ script[k].op = "context")

\* A text is whole once no task works on it any more; that of a context is empty
\* till then.
Written(k) ==
  /\ IsContext(k) /\ Undone(k) => text[k] = <<>>
  /\ (IsContext(k) \/ script[k].op \in {"raw", "make"}) /\ ~Undone(k) => text[k] = Whole(k)

TextInv ==
  /\ DOMAIN text = Id
  /\ \A k \in Id : k > Len(script) => text[k] = <<>>
  /\ ~error /\ pc # "abort" => \A k \in Read \cup {Root} : Written(k)

OutInv ==
  /\ pc # "done" => output = <<>>
  /\ pc = "done" => output = IF error THEN <<>> ELSE text[Root]

----------------------------------------------------------------------------
\* The shelves say what the file says.

\* What directive d does to the family of shelves of definitions of kind op.
Moves(d, f, g, op) ==
  \/ d.op = op /\ g = [f EXCEPT ![current] = Put(@, New, d.name)]
  \/ d.op = Undo(op) /\ g = IF d.name = NoName THEN f ELSE [f EXCEPT ![current] = Drop(@, d.name)]
  \/ d.op \in {"make", "context"} /\ g = [f EXCEPT ![New] = Copy(f[current])]
  \/ d.op \notin {op, Undo(op), "make", "context"} /\ g = f

\* Only the reader changes a shelf, and what it is open.
LEMMA ReadKinds ==
  ASSUME [Next]_vars
  PROVE  \/ \E d \in Directive :
              /\ Reads(d) /\ pc' = pc
              /\ Moves(d, rpd, rpd', "defdir") /\ Moves(d, rnd, rnd', "noextend")
              /\ \/ d.op # "context" /\ UNCHANGED <<current, s>>
                 \/ d.op = "context" /\ current' = New /\ s' = Append(s, current)
         \/ /\ UNCHANGED <<script, home, rpd, rnd>>
            /\ pc' \in {"read", "unwind"} => pc \in {"read", "unwind"}
            /\ \/ UNCHANGED <<current, s>>
               \/ s # <<>> /\ current' = Last(s) /\ s' = Front(s)
<1>1. ASSUME NEW d \in Directive, ReadDirective(d)
      PROVE  /\ Reads(d) /\ pc' = pc
             /\ Moves(d, rpd, rpd', "defdir") /\ Moves(d, rnd, rnd', "noextend")
             /\ \/ d.op # "context" /\ UNCHANGED <<current, s>>
                \/ d.op = "context" /\ current' = New /\ s' = Append(s, current)
  <2> USE DEF Moves, Undo
  <2>1. CASE Defdir(d) BY <2>1 DEF Defdir
  <2>2. CASE Noextend(d) BY <2>2 DEF Noextend, PutNoextend
  <2>3. CASE Undefdir(d) BY <2>3 DEF Undefdir
  <2>4. CASE Unnoextend(d) BY <2>4 DEF Unnoextend, DropNoextend
  <2>5. CASE Raw(d) BY <2>5 DEF Raw
  <2>6. CASE Make(d) BY <2>6 DEF Make, CopyNoextend
  <2>7. CASE NewContext(d) BY <2>7 DEF NewContext, CopyNoextend
  <2> QED BY <1>1, <2>1, <2>2, <2>3, <2>4, <2>5, <2>6, <2>7 DEF ReadDirective
<1>2. CASE EndContext \/ Unwind
  BY <1>2 DEF EndContext, Unwind, EndsCurrent
<1>3. CASE Unwound \/ Eof
  BY <1>3 DEF Unwound, Eof, EndsRoot
<1>4. CASE Test \/ BadCommand \/ Stray \/ EofAborts
  BY <1>4 DEF Test, BadCommand, Stray, EofAborts, Reading, heapVars
<1>5. CASE Enqueue \/ DeleteSub \/ Destruct \/ WriteOutput
  BY <1>5 DEF Enqueue, DeleteSub, Destruct, WriteOutput, Deleting, heapVars
<1>6. ASSUME NEW w \in Worker, Work(w)
      PROVE  UNCHANGED <<script, home, rpd, rnd, pc, current, s>>
  <2> USE DEF mainVars, heapVars
  <2>1. CASE Take(w) BY <2>1 DEF Take
  <2>2. CASE BuildDict(w) BY <2>2 DEF BuildDict
  <2>3. CASE BuildThrows(w) BY <2>3 DEF BuildThrows
  <2>4. CASE FinishDict(w) BY <2>4 DEF FinishDict
  <2>5. CASE RunRaw(w) BY <2>5 DEF RunRaw
  <2>6. CASE StartMake(w) BY <2>6 DEF StartMake
  <2>7. CASE MatchStep(w) BY <2>7 DEF MatchStep
  <2>8. CASE FullStep(w) BY <2>8 DEF FullStep
  <2>9. CASE FinishMake(w) BY <2>9 DEF FinishMake
  <2>10. CASE JoinInputs(w) BY <2>10 DEF JoinInputs
  <2>11. CASE JobsDec(w) BY <2>11 DEF JobsDec
  <2> QED BY <1>6, <2>1, <2>2, <2>3, <2>4, <2>5, <2>6, <2>7, <2>8, <2>9, <2>10, <2>11 DEF Work
<1>7. CASE UNCHANGED vars
  BY <1>7 DEF vars, mainVars, heapVars
<1> QED BY <1>1, <1>2, <1>3, <1>4, <1>5, <1>6, <1>7 DEF Next, Main, Terminated

\* The open contexts after a step of the reader.
LEMMA OpenMoves ==
  ASSUME MainType, pc \in {"read", "unwind"}
  PROVE  /\ UNCHANGED <<current, s>> => Open' = Open
         /\ current' = New /\ s' = Append(s, current) => Open' = Open \cup {New}
         /\ s # <<>> /\ current' = Last(s) /\ s' = Front(s) => Open = Open' \cup {current}
<1>0. s \in Seq(Id) /\ Len(s) \in Nat
  BY DEF MainType
<1>1. UNCHANGED <<current, s>> => Open' = Open
  BY DEF Open
<1>2. ASSUME current' = New, s' = Append(s, current) PROVE Open' = Open \cup {New}
  <2>1. PICK n : n = New
    OBVIOUS
  <2>2. /\ Len(s') = Len(s) + 1 /\ s'[Len(s) + 1] = current
        /\ \A i \in 1..Len(s) : s'[i] = s[i]
    BY <1>0, <1>2, PushFacts DEF MainType
  <2>3. 1..Len(s') = (1..Len(s)) \cup {Len(s) + 1}
    BY <1>0, <2>2
  <2> QED BY <1>2, <2>1, <2>2, <2>3 DEF Open
<1>3. ASSUME s # <<>>, current' = Last(s), s' = Front(s) PROVE Open = Open' \cup {current}
  <2>1. Len(s) >= 1 /\ current' = s[Len(s)]
    BY <1>0, <1>3, TopFacts
  <2>2. Len(s') = Len(s) - 1 /\ \A i \in 1..Len(s) - 1 : s'[i] = s[i]
    BY <1>0, <1>3, <2>1, FrontFacts
  <2>3. 1..Len(s) = (1..Len(s')) \cup {Len(s)} /\ \A i \in 1..Len(s') : i \in 1..Len(s) - 1
    BY <1>0, <2>1, <2>2
  <2> QED BY <2>1, <2>2, <2>3 DEF Open
<1> QED BY <1>1, <1>2, <1>3

\* The directive just read, whatever it is, does to each shelf what it means.
LEMMA SaysReads ==
  ASSUME MainType, TreeInv, OpenInv, NestInv, NEW d \in Directive, Reads(d), pc' = pc,
         NEW op \in {"defdir", "noextend"}, NEW f, NEW g, DOMAIN f = Id,
         \A k \in Id : Sound(f[k], k), Says(f, op), Moves(d, f, g, op),
         \/ d.op # "context" /\ Open' = Open
         \/ d.op = "context" /\ Open' = Open \cup {New}
  PROVE  Says(g, op)'
<1>1. PICK n, c, sc, h, se, e, U : /\ n = New /\ c = current /\ sc = script /\ h = home
                                   /\ se = script' /\ e = home' /\ U = Ups(home, current)
  OBVIOUS
<1>2. /\ n \in Id /\ n = Len(sc) + 1 /\ Len(sc) \in Nat /\ Len(se) = n /\ n \in Nat \ {0}
      /\ se[n] = d /\ e[n] = c /\ pc = "read" /\ c \in Id /\ c \in 0..Len(sc) /\ c # n
      /\ \A k \in 1..Len(sc) : se[k] = sc[k]
      /\ \A k \in Id : k # n => e[k] = h[k]
      /\ Read = 1..Len(sc) /\ Read' = 1..n /\ 1..n = (1..Len(sc)) \cup {n}
      /\ New' = n + 1 /\ n - 1 = Len(sc) /\ 1..Len(sc) \subseteq Id
  <2>1. /\ n \in Id /\ n = Len(sc) + 1 /\ Len(sc) \in Nat /\ Len(se) = n
        /\ se[n] = d /\ e[n] = c /\ pc = "read"
        /\ \A k \in 1..Len(sc) : se[k] = sc[k]
        /\ \A k \in Id : k # n => e[k] = h[k]
        /\ Read = 1..Len(sc) /\ New' = Len(se) + 1 /\ Read' = 1..Len(se) /\ Read \subseteq Id
    BY <1>1, NewFacts, ReadFacts DEF New, Read
  <2>2. c \in Id /\ c \in 0..Len(sc)
    BY <1>1, AroundReads
  <2> QED BY <2>1, <2>2
<1>3. /\ Tree(h) /\ Tree(e) /\ Rule!Around(e, n) = U
      /\ \A k \in 0..Len(sc) : k \in Id /\ Rule!Around(e, k) = Rule!Around(h, k)
  BY <1>1, AroundReads
<1>4. \A i \in 1..n - 1 : se[i] = sc[i] /\ e[i] = h[i] /\ Rule!Around(e, i) = Rule!Around(h, i)
  <2>1. \A i \in 1..n - 1 : i \in 1..Len(sc) /\ i \in Id /\ i # n /\ i \in 0..Len(sc)
    BY <1>2
  <2> QED BY <1>2, <1>3, <2>1
<1>5. \A b \in Open : Means(f[b], sc, h, op, Ups(h, b), n)
  BY <1>1, <1>2 DEF Says
<1>6. \A b \in Open : Means(f[b], se, e, op, Ups(h, b), n)
  <2> SUFFICES ASSUME NEW b \in Open PROVE Means(f[b], se, e, op, Ups(h, b), n)
    OBVIOUS
  <2>1. PICK A : A = Ups(h, b)
    OBVIOUS
  <2> QED BY <1>2, <1>4, <1>5, <2>1, MeansAgrees
<1>7. Open = U /\ c \in U /\ e[n] \in U
  BY <1>1, <1>2 DEF NestInv, Ups
<1>8. \A b \in Open : b \in Id /\ b \in 0..Len(sc) /\ b # n /\ Ups(e, b) = Ups(h, b) /\ b <= c
  <2> SUFFICES ASSUME NEW b \in Open
               PROVE  b \in Id /\ b \in 0..Len(sc) /\ b # n /\ Ups(e, b) = Ups(h, b) /\ b <= c
    OBVIOUS
  <2>1. b \in Id /\ b <= c
    BY <1>1, <1>2, <1>3, <1>7, UpsFacts
  <2>2. b \in Nat
    BY <2>1, IdFacts
  <2>3. b \in 0..Len(sc) /\ b # n
    BY <1>2, <2>1, <2>2
  <2> QED BY <1>3, <2>1, <2>3 DEF Ups
<1>9. d.op # op => d.op \in {Undo(op), "make", "context"} \/ d.op \notin {op, Undo(op), "make", "context"}
  OBVIOUS
<1>10. \A k \in Id : k # c /\ k # n => g[k] = f[k]
  BY <1>1 DEF Moves
<1>11. \A b \in Open : b # c => Means(g[b], se, e, op, Ups(e, b), n + 1)
  <2> SUFFICES ASSUME NEW b \in Open, b # c PROVE Means(g[b], se, e, op, Ups(h, b), n + 1)
    BY <1>8
  <2>1. PICK A : A = Ups(h, b)
    OBVIOUS
  <2>2. e[n] \notin A
    <3>1. \A a \in A : a <= b /\ a \in Id
      BY <1>3, <1>8, <2>1, UpsFacts
    <3>2. b \in Nat /\ c \in Nat /\ b <= c
      BY <1>2, <1>8
    <3>3. \A a \in A : a # c
      BY <3>1, <3>2, IdFacts
    <3> QED BY <1>2, <3>3
  <2>3. Means(f[b], se, e, op, A, n)
    BY <1>6, <2>1
  <2>4. Means(f[b], se, e, op, A, n + 1)
    BY <1>2, <2>2, <2>3, MeansOther
  <2> QED BY <1>8, <1>10, <2>1, <2>4
<1>12. Means(f[c], se, e, op, U, n) /\ IndexSound(f[c])
  BY <1>1, <1>2, <1>6, <1>7 DEF Sound
<1>13. ASSUME d.op \notin {op, Undo(op)} \/ (d.op = Undo(op) /\ d.name = NoName)
       PROVE  Means(f[c], se, e, op, U, n + 1)
  BY <1>2, <1>3, <1>12, <1>13, MeansOther
<1>14. d.op \in {"make", "context"} => d.op \notin {op, Undo(op)}
  BY DEF Undo
<1>15. Means(g[c], se, e, op, U, n + 1)
  <2>1. CASE d.op = op
    <3>1. PICK D : D = Visible(Place(c)) \cup {n}
      OBVIOUS
    <3>2. IsShelf(f[c], Visible(Place(c)), Names)
      BY <1>2 DEF Sound
    <3>3. IsShelf(f[c], D, Names)
      BY <3>1, <3>2, ShelfWidens
    <3>4. d.name \in Names \cup {NoName} /\ NoName \notin Names
      BY DEF Names
    <3>5. n \in D
      BY <3>1
    <3>6. Means(Put(f[c], n, d.name), se, e, op, U, n + 1)
      BY <1>2, <1>3, <1>7, <1>12, <2>1, <3>3, <3>4, <3>5, MeansPut
    <3>7. g[c] = Put(f[c], n, d.name)
      BY <1>1, <1>2, <1>14, <2>1 DEF Moves, Undo
    <3> QED BY <3>6, <3>7
  <2>2. CASE d.op = Undo(op) /\ d.name # NoName
    <3>1. IsShelf(f[c], Visible(Place(c)), Names)
      BY <1>2 DEF Sound
    <3>2. Means(Drop(f[c], d.name), se, e, op, U, n + 1)
      BY <1>2, <1>3, <1>7, <1>12, <2>2, <3>1, MeansDrop
    <3>3. g[c] = Drop(f[c], d.name)
      BY <1>1, <1>2, <1>14, <2>2 DEF Moves, Undo
    <3> QED BY <3>2, <3>3
  <2>3. CASE d.op \notin {op, Undo(op)} \/ (d.op = Undo(op) /\ d.name = NoName)
    <3>1. g[c] = f[c]
      BY <1>1, <1>2, <1>14, <2>3 DEF Moves, Undo
    <3> QED BY <1>13, <2>3, <3>1
  <2> QED BY <2>1, <2>2, <2>3
<1>16. \A b \in Open : Means(g[b], se, e, op, Ups(e, b), n + 1)
  BY <1>7, <1>8, <1>1, <1>11, <1>15
<1>17. ASSUME d.op \in {"make", "context"}, NEW B, NEW m, Means(f[c], se, e, op, B, m)
       PROVE  Means(g[n], se, e, op, B, m)
  <2>1. g[n] = Copy(f[c])
    BY <1>1, <1>2, <1>14, <1>17 DEF Moves
  <2>2. IsShelf(f[c], Visible(Place(c)), Names) /\ IndexSound(f[c])
    BY <1>2 DEF Sound
  <2>3. PICK Dn, Fn, Ln : Dn = Defs(se, e, op, B, m) /\ Fn = InForce(se, e, op, B, m)
                          /\ Ln = Latest(se, e, op, B, m)
    OBVIOUS
  <2>4. Keeps(f[c], se, Dn, Fn, Ln)
    BY <1>17, <2>3 DEF Means
  <2>5. Keeps(g[n], se, Dn, Fn, Ln)
    BY <2>1, <2>2, <2>4, KeepsCopy
  <2> QED BY <2>3, <2>5 DEF Means
<1>18. ASSUME d.op = "context" PROVE Means(g[n], se, e, op, Ups(e, n), n + 1)
  <2>1. PICK A : A = Ups(e, n)
    OBVIOUS
  <2>2. A = {n} \cup U
    BY <1>3, <2>1 DEF Ups
  <2>3. \A j \in 1..(n + 1) - 1 : e[j] # n
    <3>1. \A j \in Id : e[j] # n
      <4>1. \A j \in Id : h[j] \in 0..Len(sc)
        BY <1>1 DEF TreeInv
      <4>2. n \notin 0..Len(sc)
        BY <1>2
      <4> QED BY <1>2, <4>1, <4>2
    <3>2. (n + 1) - 1 = n
      BY <1>2
    <3> QED BY <1>2, <3>1, <3>2
  <2>4. Defs(se, e, op, A, n + 1) = Defs(se, e, op, U, n + 1)
    BY <2>2, <2>3 DEF Defs
  <2>5. \A j \in 1..(n + 1) - 1 : Back(se, e, A, n + 1, j) <=> Back(se, e, U, n + 1, j)
    <3>1. \A j \in 1..(n + 1) - 1 : \A u \in j + 1..(n + 1) - 1 : u \in 1..(n + 1) - 1
      BY <1>2
    <3> QED BY <2>2, <2>3, <3>1 DEF Back
  <2>6. Defs(se, e, op, U, n + 1) \subseteq 1..(n + 1) - 1
    BY DEF Defs
  <2>7. InForce(se, e, op, A, n + 1) = InForce(se, e, op, U, n + 1)
    BY <2>4, <2>5, <2>6 DEF InForce
  <2>8. Latest(se, e, op, A, n + 1) = Latest(se, e, op, U, n + 1)
    BY <2>4 DEF Latest
  <2>9. Means(f[c], se, e, op, U, n + 1)
    BY <1>13, <1>14, <1>18
  <2>10. Means(g[n], se, e, op, U, n + 1)
    BY <1>17, <1>18, <2>9
  <2> QED BY <2>1, <2>4, <2>7, <2>8, <2>10 DEF Means
<1>19. ASSUME NEW k \in 1..n, se[k].op = "make"
       PROVE  Means(g[k], se, e, op, Rule!Around(e, k), k)
  <2>1. CASE k = n
    BY <1>2, <1>3, <1>12, <1>17, <1>19, <2>1
  <2>2. CASE k # n
    <3>1. k \in 1..Len(sc) /\ k \in 0..Len(sc)
      BY <1>2, <2>2
    <3>2. k # c
      <4>1. c = Root \/ sc[c].op = "context"
        BY <1>1, <1>2 DEF TreeInv
      <4> QED BY <1>2, <1>19, <3>1, <4>1 DEF Root
    <3>3. g[k] = f[k]
      BY <1>2, <1>10, <2>2, <3>1, <3>2
    <3>4. sc[k].op = "make"
      BY <1>2, <1>19, <3>1
    <3>5. PICK A : A = Rule!Around(h, k)
      OBVIOUS
    <3>6. Means(f[k], sc, h, op, A, k)
      BY <1>1, <1>2, <3>1, <3>4, <3>5 DEF Says
    <3>7. \A i \in 1..k - 1 : se[i] = sc[i] /\ e[i] = h[i] /\ Rule!Around(e, i) = Rule!Around(h, i)
      <4>1. \A i \in 1..k - 1 : i \in 1..n - 1
        BY <1>2, <3>1
      <4> QED BY <1>4, <4>1
    <3>8. k \in Nat
      BY <3>1
    <3>9. Means(f[k], se, e, op, A, k)
      BY <3>6, <3>7, <3>8, MeansAgrees
    <3> QED BY <1>3, <3>1, <3>3, <3>5, <3>9
  <2> QED BY <2>1, <2>2
<1>20. \A b \in Open' : Means(g[b], se, e, op, Ups(e, b), n + 1)
  BY <1>1, <1>16, <1>18
<1> QED BY <1>1, <1>2, <1>19, <1>20 DEF Says

\* Nothing else changes what the shelves say.
LEMMA SaysStays ==
  ASSUME NEW op, NEW f, Says(f, op), UNCHANGED <<script, home>>,
         pc' \in {"read", "unwind"} => pc \in {"read", "unwind"} /\ Open' \subseteq Open
  PROVE  Says(f, op)'
BY DEF Says, New, Read

\* No step breaks MeansInv.
LEMMA MeansStep ==
  ASSUME Core, OpenInv, NestInv, MeansInv, [Next]_vars
  PROVE  MeansInv'
<1> USE DEF Core
<1>1. PICK f1, g1, f2, g2 : f1 = rpd /\ g1 = rpd' /\ f2 = rnd /\ g2 = rnd'
  OBVIOUS
<1>2. /\ Says(f1, "defdir") /\ Says(f2, "noextend") /\ DOMAIN f1 = Id /\ DOMAIN f2 = Id
      /\ \A k \in Id : Sound(f1[k], k)
      /\ \A k \in Id : Sound(f2[k], k)
  BY <1>1 DEF MeansInv, MainType, ShelfInv
<1>3. ASSUME NEW d \in Directive, Reads(d), pc' = pc,
             Moves(d, rpd, rpd', "defdir"), Moves(d, rnd, rnd', "noextend"),
             \/ d.op # "context" /\ UNCHANGED <<current, s>>
             \/ d.op = "context" /\ current' = New /\ s' = Append(s, current)
      PROVE  MeansInv'
  <2>1. \/ d.op # "context" /\ Open' = Open
        \/ d.op = "context" /\ Open' = Open \cup {New}
    <3>1. pc = "read"
      BY <1>3, NewFacts
    <3> QED BY <1>3, <3>1, OpenMoves
  <2>2. Moves(d, f1, g1, "defdir") /\ Moves(d, f2, g2, "noextend")
    BY <1>1, <1>3
  <2>3. Says(g1, "defdir")'
    BY <1>2, <1>3, <2>1, <2>2, SaysReads
  <2>4. Says(g2, "noextend")'
    BY <1>2, <1>3, <2>1, <2>2, SaysReads
  <2> QED BY <1>1, <2>3, <2>4 DEF MeansInv, Says
<1>4. ASSUME UNCHANGED <<script, home, rpd, rnd>>,
             pc' \in {"read", "unwind"} => pc \in {"read", "unwind"},
             \/ UNCHANGED <<current, s>>
             \/ s # <<>> /\ current' = Last(s) /\ s' = Front(s)
      PROVE  MeansInv'
  <2>1. pc' \in {"read", "unwind"} => pc \in {"read", "unwind"} /\ Open' \subseteq Open
    BY <1>4, OpenMoves
  <2>2. Says(f1, "defdir")' /\ Says(f2, "noextend")'
    BY <1>2, <1>4, <2>1, SaysStays
  <2> QED BY <1>1, <1>4, <2>2 DEF MeansInv, Says
<1> QED BY <1>3, <1>4, ReadKinds

----------------------------------------------------------------------------
\* A dictionary that is ready matches the words of its block.

\* The definitions that hold a word, as MeansInv sees them.
LEMMA HoldingIs ==
  ASSUME NEW sc, NEW h, NEW k \in Nat, NEW op, NEW x
  PROVE  Rule!Holding(sc, h, k, op, x)
           = {j \in InForce(sc, h, op, Rule!Around(h, k), k) : x \in sc[j].holds}
<1>1. \A j \in 1..k - 1 : j < k /\ \A u \in j + 1..k - 1 : u < k
  OBVIOUS
<1>2. \A j \in 1..k - 1 :
        (\E u \in j + 1..k - 1 : Rule!InScope(h, u, k) /\ Rule!TakesBack(sc, h, u, j))
          <=> Back(sc, h, Rule!Around(h, k), k, j)
  BY <1>1 DEF Back, Rule!InScope
<1>3. \A j \in 1..k - 1 : Rule!InScope(h, j, k) <=> h[j] \in Rule!Around(h, k)
  BY <1>1 DEF Rule!InScope
<1> QED BY <1>2, <1>3 DEF Rule!Holding, InForce, Defs

\* What a block writes does not depend on what comes behind it.
LEMMA PieceAgrees ==
  ASSUME NEW sc, NEW h, NEW se, NEW g, NEW k \in Nat, se[k] = sc[k],
         Rule!Around(g, k) = Rule!Around(h, k),
         \A i \in 1..k - 1 : se[i] = sc[i] /\ g[i] = h[i] /\ Rule!Around(g, i) = Rule!Around(h, i)
  PROVE  Rule!Piece(se, g, k) = Rule!Piece(sc, h, k)
<1>1. PICK A : A = Rule!Around(h, k)
  OBVIOUS
<1>2. ASSUME NEW op, NEW x PROVE Rule!Holding(se, g, k, op, x) = Rule!Holding(sc, h, k, op, x)
  <2>1. InForce(se, g, op, A, k) = InForce(sc, h, op, A, k)
    BY MeansAgrees
  <2>2. \A j \in InForce(sc, h, op, A, k) : se[j] = sc[j]
    BY DEF InForce, Defs
  <2>3. Rule!Holding(se, g, k, op, x) = {j \in InForce(se, g, op, A, k) : x \in se[j].holds}
    BY <1>1, HoldingIs
  <2>4. Rule!Holding(sc, h, k, op, x) = {j \in InForce(sc, h, op, A, k) : x \in sc[j].holds}
    BY <1>1, HoldingIs
  <2> QED BY <2>1, <2>2, <2>3, <2>4
<1>3. ASSUME NEW x PROVE Rule!Prefix(se, g, k, x) = Rule!Prefix(sc, h, k, x)
  BY <1>2 DEF Rule!Prefix
<1>4. CASE sc[k].op = "raw"
  BY <1>4 DEF Rule!Piece
<1>5. CASE sc[k].op = "make"
  BY <1>3, <1>5 DEF Rule!Piece
<1>6. CASE sc[k].op \notin {"raw", "make"}
  BY <1>6 DEF Rule!Piece
<1> QED BY <1>4, <1>5, <1>6

\* What a directive writes does not depend on the directives after it.
LEMMA PieceReads ==
  ASSUME MainType, TreeInv, NEW d \in Directive, Reads(d), NEW k \in Read
  PROVE  Rule!Piece(script', home', k) = Rule!Piece(script, home, k)
<1>1. PICK sc, h, se, e : sc = script /\ h = home /\ se = script' /\ e = home'
  OBVIOUS
<1>2. /\ \A i \in Read : se[i] = sc[i] /\ i # New /\ i \in Id /\ i \in 0..Len(script)
      /\ \A i \in Id : i # New => e[i] = h[i]
      /\ \A i \in 0..Len(script) : Rule!Around(e, i) = Rule!Around(h, i)
      /\ k \in Nat /\ \A i \in 1..k - 1 : i \in Read
  BY <1>1, NewFacts, ReadFacts, AroundReads DEF Read
<1>3. Rule!Piece(se, e, k) = Rule!Piece(sc, h, k)
  BY <1>2, PieceAgrees
<1> QED BY <1>1, <1>3

\* The flag is never reset.
LEMMA ErrorStays ==
  ASSUME PoolType, ReadyInv, [Next]_vars, error
  PROVE  error'
<1>1. CASE Main
  BY <1>1, MainAdds
<1>2. ASSUME NEW w \in Worker, Work(w) PROVE error'
  BY <1>2, WorkReports
<1>3. CASE UNCHANGED vars
  BY <1>3 DEF vars, heapVars
<1> QED BY <1>1, <1>2, <1>3 DEF Next, Terminated

\* What a worker does to the dictionaries.
LEMMA WorkBuilds ==
  ASSUME PoolType, NEW w \in Worker, Work(w)
  PROVE  \/ BuildDict(w)
         \/ /\ UNCHANGED content
            /\ \A v \in Worker : step'[v] = "finish" => step[v] = "finish" /\ slot'[v] = slot[v]
            /\ \A k \in ready' : k \in ready \/ (step[w] = "finish" /\ k = slot[w].id)
<1> USE DEF mainVars, heapVars, Goes, PoolType
<1>1. CASE Take(w) BY <1>1 DEF Take
<1>2. CASE BuildThrows(w) BY <1>2 DEF BuildThrows
<1>3. CASE FinishDict(w) BY <1>3 DEF FinishDict
<1>4. CASE RunRaw(w) BY <1>4 DEF RunRaw
<1>5. CASE StartMake(w) BY <1>5 DEF StartMake
<1>6. CASE MatchStep(w) BY <1>6 DEF MatchStep, Writes, ScanOn
<1>7. CASE FullStep(w) BY <1>7 DEF FullStep, Writes, ScanOn
<1>8. CASE FinishMake(w) BY <1>8 DEF FinishMake
<1>9. CASE JoinInputs(w) BY <1>9 DEF JoinInputs
<1>10. CASE JobsDec(w) BY <1>10 DEF JobsDec
<1> QED BY <1>1, <1>2, <1>3, <1>4, <1>5, <1>6, <1>7, <1>8, <1>9, <1>10 DEF Work

\* No step breaks ContentInv.
LEMMA ContentStep ==
  ASSUME Core, ContentInv, [Next]_vars
  PROVE  ContentInv'
<1> USE DEF Core
<1> DEFINE Right == /\ DOMAIN content' = Id
                    /\ ~error' =>
                         /\ \A k \in ready' : content'[k] = script'[k].holds
                         /\ \A w \in Worker : step'[w] = "finish" =>
                              content'[slot'[w].id] = script'[slot'[w].id].holds
<1> SUFFICES Right
  BY DEF ContentInv, Block
<1>1. /\ DOMAIN content = Id
      /\ ~error' => /\ \A k \in ready : content[k] = script[k].holds
                    /\ \A w \in Worker : step[w] = "finish" => content[slot[w].id] = script[slot[w].id].holds
  BY ErrorStays DEF ContentInv, Block
<1>2. \A w \in Worker : slot[w] # NoTask => slot[w] \in All /\ (slot[w].priority = MAKE_DICT => slot[w].id \in Read)
  <2>1. FINISH # MAKE_DICT
    BY DEF FINISH, MAKE_DICT
  <2> QED BY <2>1, AllFacts DEF PlaceInv, Genuine, All, Pending
<1>3. \A w \in Worker : step[w] = "finish" => slot[w] # NoTask /\ slot[w].priority = MAKE_DICT
  BY DEF PoolType, ReadyInv
<1>4. CASE Main
  <2>1. UNCHANGED <<content, ready, step, slot>>
    BY <1>4, MainKinds, MainAdds
  <2>2. \A k \in Read : script'[k] = script[k]
    BY <1>4, ErrorReads
  <2> QED BY <1>1, <1>2, <1>3, <2>1, <2>2 DEF ReadyInv
<1>5. ASSUME NEW w \in Worker, Work(w) PROVE Right
  <2>1. UNCHANGED script
    BY <1>5, WorkReports
  <2>2. CASE BuildDict(w)
    <3>1. /\ step[w] = "start" /\ slot[w].priority = MAKE_DICT /\ UNCHANGED <<ready, slot>>
          /\ content' = [content EXCEPT ![slot[w].id] = IF error THEN {} ELSE script[slot[w].id].holds]
          /\ step' = [step EXCEPT ![w] = "finish"]
      BY <2>2 DEF BuildDict, Starts, Goes, Block
    <3>2. slot[w] # NoTask /\ slot[w] \in All /\ slot[w].id \in Id
      <4>1. slot[w] # NoTask
        BY <3>1 DEF PoolType
      <4> QED BY <1>2, <4>1, AllFacts
    <3>3. \A v \in Worker : slot[v] = slot[w] => v = w
      BY <3>2 DEF PlaceInv
    <3>4. slot[w].id \notin ready
      BY <3>1, <3>2, <3>3 DEF ReadyInv
    <3>5. \A v \in Worker : v # w /\ step[v] = "finish" => slot[v].id # slot[w].id
      <4> SUFFICES ASSUME NEW v \in Worker, v # w, step[v] = "finish", slot[v].id = slot[w].id PROVE FALSE
        OBVIOUS
      <4>1. slot[v] \in All /\ slot[v].priority = MAKE_DICT
        BY <1>2, <1>3
      <4> QED BY <3>1, <3>2, <3>3, <4>1 DEF ReadyInv
    <3>6. step'[w] = "finish" /\ \A v \in Worker : v # w => step'[v] = step[v]
      BY <3>1 DEF PoolType
    <3>7. PICK q : q = slot[w].id
      OBVIOUS
    <3>8. /\ DOMAIN content' = Id /\ \A k \in Id : k # q => content'[k] = content[k]
          /\ ~error' => content'[q] = script[q].holds
      <4>1. error => error'
        BY ErrorStays
      <4> QED BY <1>1, <3>1, <3>2, <3>7, <4>1
    <3>9. \A v \in Worker : step[v] = "finish" => slot[v].id \in Id
      BY <1>2, <1>3, AllFacts
    <3>10. ready \subseteq Id
      BY DEF MainType
    <3> QED BY <1>1, <2>1, <3>1, <3>4, <3>5, <3>6, <3>7, <3>8, <3>9, <3>10
  <2>3. CASE /\ UNCHANGED content
             /\ \A v \in Worker : step'[v] = "finish" => step[v] = "finish" /\ slot'[v] = slot[v]
             /\ \A k \in ready' : k \in ready \/ (step[w] = "finish" /\ k = slot[w].id)
    BY <1>1, <2>1, <2>3
  <2> QED BY <1>5, <2>2, <2>3, WorkBuilds
<1>6. CASE UNCHANGED vars
  BY <1>1, <1>6 DEF vars, mainVars, heapVars, poolVars
<1> QED BY <1>4, <1>5, <1>6 DEF Next, Terminated

----------------------------------------------------------------------------
\* A make block finds the prefix in force.

\* On a shelf that says what the file says, the definitions of a word are found.
LEMMA HoldingFound ==
  ASSUME NEW sc, NEW h, NEW k \in Nat, NEW op, NEW x, NEW sh,
         Means(sh, sc, h, op, Rule!Around(h, k), k)
  PROVE  /\ \A i \in Active(sh) : x \in sc[sh.entry[i].dict].holds =>
              sh.entry[i].dict \in Rule!Holding(sc, h, k, op, x)
         /\ \A j \in Rule!Holding(sc, h, k, op, x) :
              \E i \in Active(sh) : sh.entry[i].dict = j /\ x \in sc[j].holds
<1>1. PICK Fn : Fn = InForce(sc, h, op, Rule!Around(h, k), k)
  OBVIOUS
<1>2. Rule!Holding(sc, h, k, op, x) = {j \in Fn : x \in sc[j].holds}
  BY <1>1, HoldingIs
<1>3. /\ \A i \in Active(sh) : sh.entry[i].dict \in Fn
      /\ \A j \in Fn : \E i \in Active(sh) : sh.entry[i].dict = j
  BY <1>1 DEF Means, Keeps
<1> QED BY <1>2, <1>3

\* The last of them gives the prefix.
LEMMA LastGives ==
  ASSUME NEW sc, NEW h, NEW k \in Nat, NEW op, NEW x, NEW sh, DOMAIN sh.entry \subseteq Nat,
         Means(sh, sc, h, op, Rule!Around(h, k), k),
         NEW p \in Active(sh), x \in sc[sh.entry[p].dict].holds,
         \A i \in Active(sh) : p < i => x \notin sc[sh.entry[i].dict].holds
  PROVE  Rule!Max(Rule!Holding(sc, h, k, op, x)) = sh.entry[p].dict
<1>1. PICK H, m : H = Rule!Holding(sc, h, k, op, x) /\ m = sh.entry[p].dict
  OBVIOUS
<1>2. m \in H
  BY <1>1, HoldingFound
<1>3. H \subseteq Nat
  <2>1. H \subseteq 1..k - 1
    BY <1>1 DEF Rule!Holding
  <2> QED BY <2>1
<1>4. ASSUME NEW j \in H PROVE m >= j
  <2>1. PICK i \in Active(sh) : sh.entry[i].dict = j /\ x \in sc[j].holds
    BY <1>1, HoldingFound
  <2>2. ~(p < i) /\ i \in DOMAIN sh.entry /\ p \in DOMAIN sh.entry
    BY <2>1 DEF Active
  <2>3. i = p \/ i < p
    BY <2>2
  <2>4. i < p => sh.entry[i].dict < sh.entry[p].dict
    BY <2>2 DEF Means, Keeps
  <2> QED BY <1>1, <1>2, <1>3, <2>1, <2>3, <2>4
<1>5. \A j \in H : (\A i \in H : j >= i) => j = m
  BY <1>2, <1>3, <1>4
<1> QED BY <1>1, <1>2, <1>4, <1>5 DEF Rule!Max

\* What the positions in the file are.
LEMMA ReadIds ==
  ASSUME MainType
  PROVE  /\ Len(script) \in Nat /\ Len(script) \in 0..MaxDirectives
         /\ Read \subseteq Id /\ Read \subseteq Nat /\ Root \notin Read
         /\ \A k \in Read : k \in Nat /\ k \in Id /\ k \in 1..MaxDirectives /\ script[k] \in Directive
<1>1. PICK n : n = Len(script)
  OBVIOUS
<1>2. n \in Nat /\ n <= MaxDirectives
  BY <1>1 DEF MainType
<1>3. \A k \in 1..n : k \in Nat /\ k \in 0..MaxDirectives /\ k # 0 /\ k \in 1..MaxDirectives
  BY <1>2, MaxDirectivesAssumption
<1>4. \A k \in 1..Len(script) : script[k] \in Directive
  BY DEF MainType
<1> QED BY <1>1, <1>2, <1>3, <1>4, MaxDirectivesAssumption DEF Read, Id, Root

\* The shelves of a block say which prefix a word gets.
LEMMA PrefixFound ==
  ASSUME Core, MeansInv, NEW k \in Read, script[k].op = "make", NEW x
  PROVE  /\ \A p \in Active(rnd[k]) : x \in script[rnd[k].entry[p].dict].holds =>
              Rule!Prefix(script, home, k, x) = Root
         /\ NoneAbove(rnd[k], 0, x) /\ NoneAbove(rpd[k], 0, x) => Rule!Prefix(script, home, k, x) = Root
         /\ \A p \in Active(rpd[k]) :
              NoneAbove(rnd[k], 0, x) /\ NoneAbove(rpd[k], p, x) /\ x \in script[rpd[k].entry[p].dict].holds =>
                Rule!Prefix(script, home, k, x) = rpd[k].entry[p].dict
<1>1. PICK H, N : /\ H = Rule!Holding(script, home, k, "defdir", x)
                  /\ N = Rule!Holding(script, home, k, "noextend", x)
  OBVIOUS
<1>2. Rule!Prefix(script, home, k, x) = IF N # {} \/ H = {} THEN 0 ELSE Rule!Max(H)
  BY <1>1 DEF Rule!Prefix
<1>3. /\ Means(rpd[k], script, home, "defdir", Rule!Around(home, k), k)
      /\ Means(rnd[k], script, home, "noextend", Rule!Around(home, k), k)
      /\ k \in Nat /\ k \in Id
  BY ReadIds DEF MeansInv, Says, Core
<1>4. /\ DOMAIN rpd[k].entry \subseteq Nat /\ DOMAIN rnd[k].entry \subseteq Nat
      /\ \A p \in Active(rpd[k]) : p > 0
      /\ \A p \in Active(rnd[k]) : p > 0
  <2>1. ASSUME NEW sh, NEW D, IsShelf(sh, D, Names)
        PROVE  DOMAIN sh.entry \subseteq Nat /\ \A p \in Active(sh) : p > 0
    <3>1. DOMAIN sh.entry = 1..Len(sh.entry) /\ Len(sh.entry) \in Nat
      BY <2>1 DEF IsShelf
    <3> QED BY <3>1 DEF Active
  <2> QED BY <1>3, <2>1 DEF Core, ShelfInv, Sound
<1>5. NoneAbove(rnd[k], 0, x) => N = {}
  BY <1>1, <1>3, <1>4, HoldingFound DEF NoneAbove
<1>6. NoneAbove(rpd[k], 0, x) => H = {}
  BY <1>1, <1>3, <1>4, HoldingFound DEF NoneAbove
<1>7. \A p \in Active(rnd[k]) : x \in script[rnd[k].entry[p].dict].holds => N # {}
  BY <1>1, <1>3, HoldingFound
<1>8. ASSUME NEW p \in Active(rpd[k]), NoneAbove(rnd[k], 0, x), NoneAbove(rpd[k], p, x),
             x \in script[rpd[k].entry[p].dict].holds
      PROVE  Rule!Prefix(script, home, k, x) = rpd[k].entry[p].dict
  <2>1. H # {}
    BY <1>1, <1>3, <1>8, HoldingFound
  <2>2. Rule!Max(H) = rpd[k].entry[p].dict
    BY <1>1, <1>3, <1>4, <1>8, LastGives DEF NoneAbove
  <2> QED BY <1>2, <1>5, <1>8, <2>1, <2>2
<1> QED BY <1>2, <1>5, <1>6, <1>7, <1>8 DEF Root

\* A block writes one word more.
LEMMA AppendNext ==
  ASSUME NEW F, NEW m \in Nat
  PROVE  Append([i \in 1..m |-> F[i]], F[m + 1]) = [i \in 1..m + 1 |-> F[i]]
<1> DEFINE I == {F[i] : i \in 1..m + 1}
           a == [i \in 1..m |-> F[i]]
<1>1. a \in Seq(I) /\ Len(a) = m
  <2>1. \A i \in 1..m : F[i] \in I
    OBVIOUS
  <2> HIDE DEF I
  <2> QED BY <2>1
<1>2. \A i \in 1..m : a[i] = F[i]
  OBVIOUS
<1>3. /\ Append(a, F[m + 1]) \in Seq({F[i] : i \in 1..m + 1}) /\ Len(Append(a, F[m + 1])) = m + 1
      /\ Append(a, F[m + 1])[m + 1] = F[m + 1]
      /\ \A i \in 1..m : Append(a, F[m + 1])[i] = F[i]
  <2>1. F[m + 1] \in I
    OBVIOUS
  <2> HIDE DEF I, a
  <2>2. /\ Append(a, F[m + 1]) \in Seq(I) /\ Len(Append(a, F[m + 1])) = m + 1
        /\ Append(a, F[m + 1])[m + 1] = F[m + 1]
        /\ \A i \in 1..m : Append(a, F[m + 1])[i] = a[i]
    BY <1>1, <2>1
  <2> QED BY <1>2, <2>2 DEF I
<1> HIDE DEF a
<1>4. PICK b : b = Append(a, F[m + 1])
  OBVIOUS
<1>5. b = [i \in 1..m + 1 |-> F[i]]
  <2>1. b = [i \in 1..m + 1 |-> b[i]]
    BY <1>3, <1>4
  <2>2. \A i \in 1..m + 1 : i \in 1..m \/ i = m + 1
    OBVIOUS
  <2>3. \A i \in 1..m + 1 : b[i] = F[i]
    BY <1>3, <1>4, <2>2
  <2> QED BY <2>1, <2>3
<1> QED BY <1>4, <1>5 DEF a

\* What was read, and the shelves of a block, never change.
LEMMA BlockStays ==
  ASSUME MainType, TreeInv, [Next]_vars
  PROVE  /\ Read \subseteq Read' /\ \A k \in Read : script'[k] = script[k]
         /\ \A k \in Read : Rule!Piece(script', home', k) = Rule!Piece(script, home, k)
         /\ \A k \in Read : script[k].op = "make" => rpd'[k] = rpd[k] /\ rnd'[k] = rnd[k]
<1>1. ASSUME NEW d \in Directive, Reads(d), Moves(d, rpd, rpd', "defdir"), Moves(d, rnd, rnd', "noextend")
      PROVE  /\ Read \subseteq Read' /\ \A k \in Read : script'[k] = script[k]
             /\ \A k \in Read : Rule!Piece(script', home', k) = Rule!Piece(script, home, k)
             /\ \A k \in Read : script[k].op = "make" => rpd'[k] = rpd[k] /\ rnd'[k] = rnd[k]
  <2>1. Read \subseteq Read' /\ \A k \in Read : script'[k] = script[k] /\ k # New /\ k \in Id
    BY <1>1, NewFacts, ReadFacts
  <2>2. \A k \in Read : script[k].op = "make" => k # current
    <3>1. pc = "read" /\ Root \notin Read
      BY <1>1, NewFacts, ReadFacts
    <3> QED BY <3>1 DEF TreeInv
  <2>3. ASSUME NEW f, NEW g, NEW op, DOMAIN f = Id, Moves(d, f, g, op), NEW k \in Read, script[k].op = "make"
        PROVE  g[k] = f[k]
    BY <2>1, <2>2, <2>3 DEF Moves
  <2>4. PICK f1, g1, f2, g2 : f1 = rpd /\ g1 = rpd' /\ f2 = rnd /\ g2 = rnd'
    OBVIOUS
  <2>5. DOMAIN f1 = Id /\ DOMAIN f2 = Id
    BY <2>4 DEF MainType
  <2>6. \A k \in Read : script[k].op = "make" => g1[k] = f1[k] /\ g2[k] = f2[k]
    BY <1>1, <2>3, <2>4, <2>5
  <2> QED BY <1>1, <2>1, <2>4, <2>6, PieceReads
<1>2. CASE UNCHANGED <<script, home, rpd, rnd>>
  BY <1>2 DEF Read
<1> QED BY <1>1, <1>2, ReadKinds

\* The next word, after the present one was written as the file means it.
LEMMA ScanWrites ==
  ASSUME Core, ScanInv, ~error, NEW w \in Worker, step[w] \in {"match", "full"},
         word[w] <= Len(Block(w).words),
         NEW prefix, prefix = Rule!Prefix(script, home, slot[w].id, Word(w)), Writes(w, prefix),
         UNCHANGED <<script, home, rpd, rnd, slot>>
  PROVE  Scans(w, slot[w].id)'
<1>1. PICK k, n, F, m : /\ k = slot[w].id /\ n = Len(script[k].words) /\ F = Rule!Piece(script, home, k)
                        /\ m = word[w]
  OBVIOUS
<1>2. /\ script[k].op = "make" /\ m \in 1..n + 1 /\ line[w] = [i \in 1..m - 1 |-> F[i]] /\ m <= n
      /\ DOMAIN line = Worker
  BY <1>1 DEF ScanInv, Scans, Block
<1>3. /\ word \in [Worker -> Nat] /\ at \in [Worker -> Nat]
      /\ step \in [Worker -> {"idle", "start", "match", "full", "finish", "dec"}]
  BY DEF Core, PoolType
<1>4. m \in Nat /\ m + 1 \in 1..n + 1 /\ (m + 1) - 1 = m /\ (m - 1) + 1 = m /\ m - 1 \in Nat
  BY <1>1, <1>2, <1>3
<1>5. k \in Read
  <2>1. step[w] # "idle"
    OBVIOUS
  <2>2. slot[w] \in All /\ slot[w].priority = USE_DICT
    BY <2>1, AllFacts DEF Core, PoolType, ReadyInv, All, Pending
  <2> QED BY <1>1, <2>2 DEF Core, PlaceInv, Genuine, FINISH, USE_DICT
<1>6. F[m] = WordText(k, Word(w), prefix)
  <2>1. script[k] \in Directive
    BY <1>5, ReadIds DEF Core
  <2>2. DOMAIN script[k].words = 1..n /\ n \in Nat
    BY <1>1, <2>1, DirectiveAssumption
  <2>3. m \in DOMAIN script[k].words /\ Word(w) = script[k].words[m]
    BY <1>1, <1>2, <1>4, <2>2 DEF Word, Block
  <2>4. F[m] = [in |-> k, word |-> script[k].words[m],
                prefix |-> Rule!Prefix(script, home, k, script[k].words[m])]
    BY <1>1, <1>2, <2>3 DEF Rule!Piece
  <2> QED BY <1>1, <2>3, <2>4 DEF WordText
<1>7. /\ step'[w] = "match" /\ word'[w] = m + 1 /\ at'[w] = Len(rnd[k].entry)
      /\ line'[w] = Append([i \in 1..m - 1 |-> F[i]], F[m])
  BY <1>1, <1>2, <1>3, <1>6 DEF Writes, Goes
<1>8. line'[w] = [i \in 1..word'[w] - 1 |-> F[i]]
  BY <1>4, <1>7, AppendNext
<1>9. at'[w] <= Len(rnd[k].entry) /\ \A x : NoneAbove(rnd[k], at'[w], x)
  <2>1. Len(rnd[k].entry) \in Nat /\ DOMAIN rnd[k].entry = 1..Len(rnd[k].entry)
    BY <1>5, ReadIds DEF Core, ShelfInv, Sound, IsShelf
  <2>2. \A i \in Active(rnd[k]) : ~(Len(rnd[k].entry) < i)
    BY <2>1 DEF Active
  <2> QED BY <1>7, <2>1, <2>2 DEF NoneAbove
<1> QED BY <1>1, <1>2, <1>4, <1>7, <1>8, <1>9 DEF Scans, NoneAbove

\* What a test of a word at a position of a shelf tells.
LEMMA TestFacts ==
  ASSUME ContentInv, ~error, NEW w, at[w] \in Nat,
         NEW sh, NEW D, IsShelf(sh, D, Names), at[w] <= Len(sh.entry)
  PROVE  /\ Accepts(w, sh) => at[w] \in Active(sh) /\ Word(w) \in script[sh.entry[at[w]].dict].holds
         /\ Rejects(w, sh) /\ NoneAbove(sh, at[w], Word(w)) =>
              at[w] - 1 \in Nat /\ NoneAbove(sh, at[w] - 1, Word(w))
<1>1. DOMAIN sh.entry = 1..Len(sh.entry) /\ Len(sh.entry) \in Nat
  BY DEF IsShelf
<1>2. \A k \in ready : content[k] = script[k].holds
  BY DEF ContentInv
<1>3. at[w] > 0 => at[w] \in DOMAIN sh.entry
  BY <1>1
<1>4. Accepts(w, sh) => at[w] \in Active(sh) /\ Word(w) \in script[sh.entry[at[w]].dict].holds
  BY <1>2, <1>3 DEF Accepts, Active
<1>5. ASSUME Rejects(w, sh), NoneAbove(sh, at[w], Word(w))
      PROVE  at[w] - 1 \in Nat /\ NoneAbove(sh, at[w] - 1, Word(w))
  <2>1. /\ at[w] > 0
        /\ sh.entry[at[w]].state => sh.entry[at[w]].dict \in ready /\ Word(w) \notin content[sh.entry[at[w]].dict]
    BY <1>5 DEF Rejects
  <2>2. \A i \in Active(sh) : i \in Nat /\ sh.entry[i].state
    BY <1>1 DEF Active
  <2>3. ASSUME NEW i \in Active(sh), at[w] - 1 < i
        PROVE  Word(w) \notin script[sh.entry[i].dict].holds
    <3>1. i = at[w] \/ at[w] < i
      BY <2>2, <2>3
    <3> QED BY <1>2, <1>5, <2>1, <2>2, <3>1 DEF NoneAbove
  <2> QED BY <2>1, <2>3 DEF NoneAbove
<1> QED BY <1>4, <1>5

\* A worker in a make block.
LEMMA ScanWork ==
  ASSUME Core, MeansInv, ContentInv, ScanInv, NEW w \in Worker, ~error,
         StartMake(w) \/ MatchStep(w) \/ FullStep(w)
  PROVE  Scans(w, slot[w].id)'
<1>1. PICK k : k = slot[w].id
  OBVIOUS
<1>2. /\ word \in [Worker -> Nat] /\ at \in [Worker -> Nat]
      /\ step \in [Worker -> {"idle", "start", "match", "full", "finish", "dec"}]
      /\ DOMAIN line = Worker
  BY DEF Core, PoolType, ScanInv
<1>3. UNCHANGED <<script, home, rpd, rnd, slot>>
  BY DEF StartMake, MatchStep, FullStep, mainVars, heapVars
<1>4. k \in Read /\ script[k].op = "make" /\ Len(script[k].words) \in Nat
  <2>1. step[w] # "idle"
    BY DEF StartMake, MatchStep, FullStep, Starts
  <2>2. slot[w] \in All /\ slot[w].priority = USE_DICT
    <3>1. slot[w].priority = USE_DICT
      BY DEF Core, ReadyInv, StartMake, MatchStep, FullStep, Starts
    <3> QED BY <2>1, <3>1, AllFacts DEF Core, PoolType, All, Pending
  <2>3. k \in Read
    BY <1>1, <2>2 DEF Core, PlaceInv, Genuine, FINISH, USE_DICT
  <2>4. script[k].op = "make"
    <3>1. step[w] \in {"match", "full"} => script[k].op = "make"
      BY <1>1 DEF ScanInv, Scans
    <3> QED BY <1>1, <3>1 DEF StartMake, MatchStep, FullStep, Block
  <2> QED BY <2>3, <2>4, ReadIds, DirectiveAssumption DEF Core
<1>5. \E D : IsShelf(rpd[k], D, Names) /\ IsShelf(rnd[k], D, Names)
  BY <1>4, ReadIds DEF Core, ShelfInv, Sound
<1>6. /\ Len(rpd[k].entry) \in Nat /\ DOMAIN rpd[k].entry = 1..Len(rpd[k].entry)
      /\ Len(rnd[k].entry) \in Nat /\ DOMAIN rnd[k].entry = 1..Len(rnd[k].entry)
  BY <1>5 DEF IsShelf
<1>7. /\ \A x : NoneAbove(rpd[k], Len(rpd[k].entry), x)
      /\ \A x : NoneAbove(rnd[k], Len(rnd[k].entry), x)
  BY <1>6 DEF NoneAbove, Active
<1>8. CASE StartMake(w)
  <2>1. word'[w] = 1 /\ at'[w] = Len(rnd[k].entry) /\ line'[w] = <<>> /\ step'[w] = "match"
    BY <1>1, <1>2, <1>8 DEF StartMake, Goes
  <2>2. line'[w] = [i \in 1..word'[w] - 1 |-> Rule!Piece(script, home, k)[i]]
    BY <2>1
  <2>3. word'[w] \in 1..Len(script[k].words) + 1 /\ at'[w] <= Len(rnd[k].entry)
    BY <1>4, <1>6, <2>1
  <2> QED BY <1>1, <1>3, <1>4, <1>7, <2>1, <2>2, <2>3 DEF Scans, NoneAbove
<1>9. ASSUME step[w] \in {"match", "full"}
      PROVE  /\ word[w] \in 1..Len(script[k].words) + 1
             /\ line[w] = [i \in 1..word[w] - 1 |-> Rule!Piece(script, home, k)[i]]
             /\ Word(w) = script[k].words[word[w]] /\ (HasWord(w) <=> word[w] <= Len(script[k].words))
             /\ Block(w) = script[k]
             /\ step[w] = "match" =>
                  /\ at[w] <= Len(rnd[k].entry)
                  /\ HasWord(w) => NoneAbove(rnd[k], at[w], Word(w))
             /\ step[w] = "full" =>
                  /\ at[w] <= Len(rpd[k].entry)
                  /\ HasWord(w)
                  /\ NoneAbove(rnd[k], 0, Word(w))
                  /\ NoneAbove(rpd[k], at[w], Word(w))
  BY <1>1, <1>9 DEF ScanInv, Scans, Word, HasWord, Block
<1>10. ASSUME UNCHANGED <<word, line>>, step[w] \in {"match", "full"}, HasWord(w),
              step'[w] \in {"match", "full"},
              step'[w] = "match" => at'[w] <= Len(rnd[k].entry) /\ NoneAbove(rnd[k], at'[w], Word(w)),
              step'[w] = "full" => /\ at'[w] <= Len(rpd[k].entry)
                                   /\ NoneAbove(rnd[k], 0, Word(w))
                                   /\ NoneAbove(rpd[k], at'[w], Word(w))
       PROVE  Scans(w, slot[w].id)'
  <2>1. PICK F, x, m : F = Rule!Piece(script, home, k) /\ x = Word(w) /\ m = word[w]
    OBVIOUS
  <2>2. /\ script[k].op = "make" /\ m \in 1..Len(script[k].words) + 1 /\ m <= Len(script[k].words)
        /\ line[w] = [i \in 1..m - 1 |-> F[i]] /\ x = script[k].words[m]
    BY <1>4, <1>9, <1>10, <2>1
  <2>4. step'[w] = "match" => at'[w] <= Len(rnd[k].entry) /\ NoneAbove(rnd[k], at'[w], x)
    BY <1>10, <2>1
  <2>5. step'[w] = "full" => /\ at'[w] <= Len(rpd[k].entry)
                             /\ NoneAbove(rnd[k], 0, x) /\ NoneAbove(rpd[k], at'[w], x)
    BY <1>10, <2>1
  <2>6. Scans(w, k)'
    BY <1>3, <1>10, <2>1, <2>2, <2>4, <2>5 DEF Scans, NoneAbove
  <2> QED BY <1>1, <1>3, <2>6
<1>11. CASE MatchStep(w)
  <2>1. step[w] = "match" /\ HasWord(w)
    BY <1>11 DEF MatchStep
  <2>2. CASE Accepts(w, rnd[k]) /\ Writes(w, Root)
    <3>1. at[w] \in Active(rnd[k]) /\ Word(w) \in script[rnd[k].entry[at[w]].dict].holds
      BY <1>2, <1>5, <1>9, <2>1, <2>2, TestFacts
    <3>2. Rule!Prefix(script, home, k, Word(w)) = Root
      BY <1>4, <3>1, PrefixFound
    <3> QED BY <1>1, <1>3, <1>9, <2>1, <2>2, <3>2, ScanWrites
  <2>3. CASE Rejects(w, rnd[k]) /\ ScanOn(w)
    <3>1. at[w] - 1 \in Nat /\ NoneAbove(rnd[k], at[w] - 1, Word(w))
      BY <1>2, <1>5, <1>9, <2>1, <2>3, TestFacts
    <3>2. at'[w] = at[w] - 1 /\ UNCHANGED <<step, word, line>>
      BY <1>2, <2>3 DEF ScanOn
    <3>3. at'[w] <= Len(rnd[k].entry)
      BY <1>2, <1>6, <1>9, <2>1, <3>1, <3>2
    <3> QED BY <1>10, <2>1, <3>1, <3>2, <3>3
  <2>4. CASE at[w] = 0 /\ at' = [at EXCEPT ![w] = Len(rpd[slot[w].id].entry)] /\ Goes(w, "full")
             /\ UNCHANGED <<word, line>>
    <3>1. at'[w] = Len(rpd[k].entry) /\ step'[w] = "full" /\ UNCHANGED <<word, line>>
      BY <1>1, <1>2, <2>4 DEF Goes
    <3> QED BY <1>6, <1>7, <1>9, <1>10, <2>1, <2>4, <3>1
  <2> QED BY <1>1, <1>11, <2>2, <2>3, <2>4 DEF MatchStep
<1>12. CASE FullStep(w)
  <2>1. step[w] = "full"
    BY <1>12 DEF FullStep
  <2>2. CASE Accepts(w, rpd[k]) /\ Writes(w, rpd[k].entry[at[w]].dict)
    <3>1. at[w] \in Active(rpd[k]) /\ Word(w) \in script[rpd[k].entry[at[w]].dict].holds
      BY <1>2, <1>5, <1>9, <2>1, <2>2, TestFacts
    <3>2. Rule!Prefix(script, home, k, Word(w)) = rpd[k].entry[at[w]].dict
      BY <1>4, <1>9, <2>1, <3>1, PrefixFound
    <3> QED BY <1>1, <1>3, <1>9, <2>1, <2>2, <3>2, ScanWrites
  <2>3. CASE Rejects(w, rpd[k]) /\ ScanOn(w)
    <3>1. at[w] - 1 \in Nat /\ NoneAbove(rpd[k], at[w] - 1, Word(w))
      BY <1>2, <1>5, <1>9, <2>1, <2>3, TestFacts
    <3>2. at'[w] = at[w] - 1 /\ UNCHANGED <<step, word, line>>
      BY <1>2, <2>3 DEF ScanOn
    <3>3. at'[w] <= Len(rpd[k].entry)
      BY <1>2, <1>6, <1>9, <2>1, <3>1, <3>2
    <3> QED BY <1>9, <1>10, <2>1, <3>1, <3>2, <3>3
  <2>4. CASE at[w] = 0 /\ Writes(w, Root)
    <3>1. Rule!Prefix(script, home, k, Word(w)) = Root
      BY <1>4, <1>9, <2>1, <2>4, PrefixFound
    <3> QED BY <1>1, <1>3, <1>9, <2>1, <2>4, <3>1, ScanWrites
  <2> QED BY <1>1, <1>12, <2>2, <2>3, <2>4 DEF FullStep
<1> QED BY <1>8, <1>11, <1>12

\* A worker leaves the other ones alone.
LEMMA WorkOthers ==
  ASSUME PoolType, DOMAIN line = Worker, NEW w \in Worker, Work(w)
  PROVE  /\ DOMAIN line' = Worker
         /\ UNCHANGED <<script, home, rpd, rnd>>
         /\ \A v \in Worker : v # w => /\ slot'[v] = slot[v] /\ step'[v] = step[v]
                                       /\ word'[v] = word[v] /\ at'[v] = at[v] /\ line'[v] = line[v]
         /\ step'[w] \in {"match", "full"} => StartMake(w) \/ MatchStep(w) \/ FullStep(w)
<1> USE DEF mainVars, heapVars, Goes, PoolType
<1>1. CASE Take(w) BY <1>1 DEF Take
<1>2. CASE BuildDict(w) BY <1>2 DEF BuildDict
<1>3. CASE BuildThrows(w) BY <1>3 DEF BuildThrows
<1>4. CASE FinishDict(w) BY <1>4 DEF FinishDict
<1>5. CASE RunRaw(w) BY <1>5 DEF RunRaw
<1>6. CASE StartMake(w) BY <1>6 DEF StartMake
<1>7. CASE MatchStep(w) BY <1>7 DEF MatchStep, Writes, ScanOn
<1>8. CASE FullStep(w) BY <1>8 DEF FullStep, Writes, ScanOn
<1>9. CASE FinishMake(w) BY <1>9 DEF FinishMake
<1>10. CASE JoinInputs(w) BY <1>10 DEF JoinInputs
<1>11. CASE JobsDec(w) BY <1>11 DEF JobsDec
<1> QED BY <1>1, <1>2, <1>3, <1>4, <1>5, <1>6, <1>7, <1>8, <1>9, <1>10, <1>11 DEF Work

\* Nor does the reader disturb a block.
LEMMA ScanKeeps ==
  ASSUME Core, [Next]_vars, NEW w \in Worker, NEW k \in Read, Scans(w, k),
         step'[w] = step[w], word'[w] = word[w], at'[w] = at[w], line'[w] = line[w]
  PROVE  Scans(w, k)'
<1>1. /\ \A j \in Read : script'[j] = script[j]
      /\ Rule!Piece(script', home', k) = Rule!Piece(script, home, k)
      /\ script[k].op = "make" /\ rpd'[k] = rpd[k] /\ rnd'[k] = rnd[k]
  BY BlockStays DEF Core, Scans
<1>2. /\ \A i \in Active(rpd[k]) : rpd[k].entry[i].dict \in Read
      /\ \A i \in Active(rnd[k]) : rnd[k].entry[i].dict \in Read
  <2>1. ASSUME NEW sh, NEW D, D \subseteq Read, IsShelf(sh, D, Names), NEW i \in Active(sh)
        PROVE  sh.entry[i].dict \in Read
    <3>1. \A e \in [dict : D, name : Names \cup {NoName}, state : BOOLEAN] : e.dict \in Read
      BY <2>1
    <3>2. PICK E : E = [dict : D, name : Names \cup {NoName}, state : BOOLEAN]
      OBVIOUS
    <3>3. sh.entry \in Seq(E)
      BY <2>1, <3>2 DEF IsShelf
    <3>4. i \in DOMAIN sh.entry
      BY <2>1 DEF Active
    <3>5. sh.entry[i] \in E
      BY <3>3, <3>4
    <3> QED BY <3>1, <3>2, <3>5
  <2>2. \A c : Visible(c) \subseteq Read
    BY DEF Visible
  <2>3. /\ IsShelf(rpd[k], Visible(Place(k)), Names)
        /\ IsShelf(rnd[k], Visible(Place(k)), Names)
    BY ReadIds DEF Core, ShelfInv, Sound
  <2>4. PICK D : D = Visible(Place(k))
    OBVIOUS
  <2> QED BY <2>1, <2>2, <2>3, <2>4
<1>3. \A p, x : /\ NoneAbove(rpd[k], p, x) => NoneAbove(rpd[k], p, x)'
                /\ NoneAbove(rnd[k], p, x) => NoneAbove(rnd[k], p, x)'
  BY <1>1, <1>2 DEF NoneAbove
<1> QED BY <1>1, <1>3 DEF Scans

\* No step breaks ScanInv.
LEMMA ScanStep ==
  ASSUME Core, MeansInv, ContentInv, ScanInv, [Next]_vars
  PROVE  ScanInv'
<1> USE DEF Core
<1>1. \A w \in Worker : step[w] \in {"match", "full"} => slot[w].id \in Read
  <2>1. \A w \in Worker : step[w] \in {"match", "full"} => slot[w] \in All /\ slot[w].priority = USE_DICT
    BY AllFacts DEF PoolType, ReadyInv, All, Pending
  <2> QED BY <2>1 DEF PlaceInv, Genuine, FINISH, USE_DICT
<1>2. ~error' => ~error
  BY ErrorStays
<1>3. ASSUME ~error', NEW w \in Worker, step[w] \in {"match", "full"},
             step'[w] = step[w], slot'[w] = slot[w],
             word'[w] = word[w], at'[w] = at[w], line'[w] = line[w]
      PROVE  Scans(w, slot[w].id)'
  <2>1. PICK k : k = slot[w].id
    OBVIOUS
  <2>2. Scans(w, k)
    BY <1>2, <1>3, <2>1 DEF ScanInv
  <2>3. k \in Read
    BY <1>1, <1>3, <2>1
  <2>4. Scans(w, k)'
    BY <1>3, <2>2, <2>3, ScanKeeps
  <2>5. slot'[w].id = k
    BY <1>3, <2>1
  <2> QED BY <2>4, <2>5 DEF Scans
<1>4. CASE UNCHANGED <<slot, step, word, at, line>>
  BY <1>3, <1>4 DEF ScanInv
<1>5. CASE Main
  <2>1. UNCHANGED <<slot, step, word, at, line>>
    BY <1>5, MainPool DEF Enqueue, poolVars
  <2> QED BY <1>4, <2>1
<1>6. ASSUME NEW w \in Worker, Work(w) PROVE ScanInv'
  <2>1. /\ DOMAIN line = Worker /\ DOMAIN line' = Worker
        /\ \A v \in Worker : v # w => /\ slot'[v] = slot[v] /\ step'[v] = step[v]
                                      /\ word'[v] = word[v] /\ at'[v] = at[v] /\ line'[v] = line[v]
        /\ step'[w] \in {"match", "full"} => StartMake(w) \/ MatchStep(w) \/ FullStep(w)
    BY <1>6, WorkOthers DEF ScanInv
  <2>2. ASSUME ~error', NEW v \in Worker, step'[v] \in {"match", "full"}
        PROVE  Scans(v, slot[v].id)'
    <3>1. CASE v = w
      BY <1>2, <2>1, <2>2, <3>1, ScanWork
    <3>2. CASE v # w
      BY <1>3, <2>1, <2>2, <3>2
    <3> QED BY <3>1, <3>2
  <2> QED BY <2>1, <2>2 DEF ScanInv
<1>7. CASE UNCHANGED vars
  BY <1>4, <1>7 DEF vars, poolVars
<1> QED BY <1>5, <1>6, <1>7 DEF Next, Terminated

----------------------------------------------------------------------------
\* The text of a context, from those of its inputs.

\* What the directives write.
LEMMA PieceType ==
  ASSUME MainType, NEW k \in Read, NEW I,
         \A i \in DOMAIN Rule!Piece(script, home, k) : Rule!Piece(script, home, k)[i] \in I
  PROVE  /\ Rule!Piece(script, home, k) \in Seq(I)
         /\ script[k].op \notin {"raw", "make"} => Rule!Piece(script, home, k) = <<>>
<1>1. PICK F : F = Rule!Piece(script, home, k)
  OBVIOUS
<1>2. CASE script[k].op = "raw"
  <2>1. F = <<[in |-> k, word |-> NoName, prefix |-> 0]>>
    BY <1>1, <1>2 DEF Rule!Piece
  <2>2. PICK x : x = [in |-> k, word |-> NoName, prefix |-> 0]
    OBVIOUS
  <2>3. F = <<x>>
    BY <2>1, <2>2
  <2>4. 1 \in DOMAIN F /\ F[1] = x
    BY <2>3
  <2>5. x \in I
    BY <1>1, <2>4
  <2>6. F \in Seq(I)
    BY <2>3, <2>5
  <2> QED BY <1>1, <1>2, <2>6
<1>3. CASE script[k].op = "make"
  <2>1. /\ DOMAIN F = DOMAIN script[k].words
        /\ F = [i \in DOMAIN script[k].words |-> F[i]]
    BY <1>1, <1>3 DEF Rule!Piece
  <2>0. script[k] \in Directive
    BY ReadIds
  <2>2. PICK n \in Nat : DOMAIN script[k].words = 1..n
    <3>1. DOMAIN script[k].words = 1..Len(script[k].words) /\ Len(script[k].words) \in Nat
      BY <2>0, DirectiveAssumption
    <3> QED BY <3>1
  <2>3. F = [i \in 1..n |-> F[i]]
    BY <2>1, <2>2
  <2>4. \A i \in 1..n : F[i] \in I
    BY <1>1, <2>1, <2>2
  <2>5. F \in Seq(I)
    BY <2>3, <2>4
  <2> QED BY <1>1, <1>3, <2>5
<1>4. CASE script[k].op \notin {"raw", "make"}
  <2>1. F = <<>>
    BY <1>1, <1>4 DEF Rule!Piece
  <2> QED BY <1>1, <2>1
<1> QED BY <1>2, <1>3, <1>4

\* What is written are sequences of one set of items, so it can be joined.
LEMMA PiecesType ==
  ASSUME MainType
  PROVE  \E I : IsParts(Pieces, I, MaxDirectives)
<1> DEFINE Item == UNION {{Pieces[k][i] : i \in DOMAIN Pieces[k]} : k \in 1..MaxDirectives}
<1>1. DOMAIN Pieces = 1..MaxDirectives /\ Pieces = [k \in 1..MaxDirectives |-> Pieces[k]]
  BY DEF Pieces
<1>2. \A k \in 1..MaxDirectives : Pieces[k] = IF k \in Read THEN Rule!Piece(script, home, k) ELSE <<>>
  BY DEF Pieces
<1>3. \A k \in 1..MaxDirectives : \A i \in DOMAIN Pieces[k] : Pieces[k][i] \in Item
  OBVIOUS
<1> HIDE DEF Item
<1>4. ASSUME NEW k \in 1..MaxDirectives PROVE Pieces[k] \in Seq(Item)
  <2>1. CASE k \in Read
    <3>1. Pieces[k] = Rule!Piece(script, home, k)
      BY <1>2, <2>1
    <3>2. \A i \in DOMAIN Rule!Piece(script, home, k) : Rule!Piece(script, home, k)[i] \in Item
      BY <1>3, <3>1
    <3> QED BY <2>1, <3>1, <3>2, PieceType
  <2>2. CASE k \notin Read
    <3>1. Pieces[k] = <<>>
      BY <1>2, <2>2
    <3> QED BY <3>1
  <2> QED BY <2>1, <2>2
<1>5. Pieces \in [1..MaxDirectives -> Seq(Item)]
  BY <1>1, <1>4
<1> QED BY <1>5, MaxDirectivesAssumption DEF IsParts

\* A directive that writes nothing of its own.
LEMMA PieceNone ==
  ASSUME MainType, NEW k \in 1..MaxDirectives, k \in Read => script[k].op \notin {"raw", "make"}
  PROVE  Pieces[k] = <<>>
BY DEF Pieces, Rule!Piece

\* Around a directive are the root and contexts read before.
LEMMA UpsRead ==
  ASSUME Core, NestInv, NEW j \in Read
  PROVE  /\ \A i \in Ups(home, j) : i \in Read \cup {Root}
         /\ \A c \in Rule!Around(home, j) : IsContext(c)
<1>1. Tree(home) /\ j \in Id /\ j \in Nat
  BY TreeOf, ReadIds DEF Core
<1>2. ASSUME NEW i \in Ups(home, j) PROVE i \in Read \cup {Root}
  <2>1. i \in Id /\ i <= j /\ i \in Nat
    BY <1>1, UpsFacts, IdFacts
  <2>2. PICK n : n = Len(script)
    OBVIOUS
  <2>3. n \in Nat /\ j \in 1..n
    BY <2>2, ReadIds DEF Core, Read
  <2>4. i \in 1..n \/ i = 0
    BY <1>1, <2>1, <2>3
  <2> QED BY <2>2, <2>4 DEF Read, Root
<1>3. ASSUME NEW c \in Rule!Around(home, j) PROVE IsContext(c)
  <2>1. PICK i \in Ups(home, j) : i # Root /\ home[i] = c
    BY <1>1, AroundChild
  <2>2. i \in Read
    BY <1>2, <2>1
  <2> QED BY <2>1, <2>2 DEF NestInv, IsContext
<1> QED BY <1>2, <1>3

\* The text of a raw or a make block is what it writes.
LEMMA WholeBlock ==
  ASSUME Core, NestInv, NEW k \in Read, script[k].op \in {"raw", "make"}
  PROVE  Whole(k) = Rule!Piece(script, home, k)
<1>1. k \in 1..MaxDirectives /\ k # Root
  BY ReadIds DEF Core
<1>2. Below(k) = {}
  <2>1. ~IsContext(k)
    BY <1>1 DEF IsContext
  <2> QED BY <2>1, UpsRead DEF Below
<1>3. PICK I : IsParts(Pieces, I, MaxDirectives)
  BY PiecesType DEF Core
<1>4. PICK S : S = {k} \cup Below(k)
  OBVIOUS
<1>5. Part(Pieces, S) = Pieces[k]
  <2>1. \A i \in 1..MaxDirectives : i \in S <=> i = k
    BY <1>2, <1>4
  <2>2. Only(S, k, MaxDirectives)
    BY <1>1, <2>1 DEF Only
  <2> QED BY <1>3, <2>2, PartOne
<1> QED BY <1>1, <1>4, <1>5 DEF Whole, Pieces

\* The text of the root is the meaning of the file.
LEMMA WholeRoot ==
  ASSUME Core
  PROVE  Whole(Root) = Rule!Meaning(script, home)
<1>1. PICK n : n = Len(script)
  OBVIOUS
<1>2. n \in 0..MaxDirectives /\ Read = 1..n /\ DOMAIN script = 1..n /\ n \in Nat
  BY <1>1, ReadIds DEF Core, Read, MainType
<1>3. Below(Root) = Read
  <2>1. \A j \in Read : Root \in Rule!Around(home, j)
    BY ReadIds, TreeOf, RootAround DEF Core
  <2> QED BY <2>1 DEF Below
<1>4. PICK I : IsParts(Pieces, I, MaxDirectives)
  BY PiecesType DEF Core
<1>5. PICK S, t : S = {Root} \cup Below(Root) /\ t = [k \in 1..n |-> Rule!Piece(script, home, k)]
  OBVIOUS
<1>6. \A k \in 1..n : k \in 1..MaxDirectives /\ t[k] = Pieces[k]
  <2>1. \A k \in 1..n : k \in 1..MaxDirectives
    BY <1>2, MaxDirectivesAssumption
  <2> QED BY <1>2, <1>5, <2>1 DEF Pieces
<1>7. \A i \in 1..MaxDirectives : i \notin 1..n => Pieces[i] = <<>>
  BY <1>2 DEF Pieces
<1>8. FlattenSeq(t) = Part(Pieces, S)
  <2>1. t \in [1..n -> Seq(I)]
    BY <1>4, <1>5, <1>6 DEF IsParts
  <2>2. ASSUME NEW i \in 1..MaxDirectives
        PROVE  IF i <= n THEN t[i] = (IF i \in S THEN Pieces[i] ELSE <<>>)
                         ELSE i \notin S \/ Pieces[i] = <<>>
    <3>1. CASE i <= n
      <4>1. i \in 1..n
        BY <1>2, <3>1
      <4> QED BY <1>2, <1>3, <1>5, <1>6, <3>1, <4>1
    <3>2. CASE ~(i <= n)
      <4>1. i \notin 1..n
        BY <1>2, <3>2
      <4> QED BY <1>7, <3>2, <4>1
    <3> QED BY <3>1, <3>2
  <2>3. Pads(t, n, I, Pieces, MaxDirectives, S)
    BY <1>2, <2>1, <2>2 DEF Pads
  <2> QED BY <1>4, <2>3, PartPads
<1>9. t = [k \in DOMAIN script |-> Rule!Piece(script, home, k)]
  BY <1>2, <1>5
<1>10. Rule!Meaning(script, home) = Rule!FlattenSeq(t)
  BY <1>9 DEF Rule!Meaning
<1>11. Rule!FlattenSeq(t) = FlattenSeq(t)
  BY DEF FlattenSeq, Rule!FlattenSeq
<1> QED BY <1>5, <1>8, <1>10, <1>11 DEF Whole

\* Only the texts of the open contexts grow with what is read.
LEMMA WholeReads ==
  ASSUME Core, NestInv, NEW d \in Directive, Reads(d), NEW k \in Read \cup {Root}, k \notin Open
  PROVE  Whole(k)' = Whole(k)
<1> USE DEF Core
<1>1. /\ Read' = Read \cup {New} /\ New \notin Read /\ New # Root /\ pc = "read"
      /\ \A j \in Read : j \in 0..Len(script)
  BY NewFacts, ReadFacts DEF Read
<1>2. PICK a, b : a = [j \in Id |-> Rule!Around(home, j)] /\ b = [j \in Id |-> Rule!Around(home', j)]
  OBVIOUS
<1>3. /\ \A j \in Read : b[j] = a[j] /\ Rule!Around(home, j) = a[j] /\ Rule!Around(home', j) = b[j]
      /\ b[New] = Open /\ Rule!Around(home', New) = b[New]
  <2>1. New \in Id /\ \A j \in Read : j \in Id
    BY NewFacts, ReadFacts
  <2> QED BY <1>1, <1>2, <2>1, AroundReads DEF NestInv
<1>4. PICK S, T : S = {k} \cup Below(k) /\ T = ({k} \cup Below(k))'
  OBVIOUS
<1>5. S = T
  <2>1. Below(k) = {j \in Read : k \in a[j]}
    BY <1>3 DEF Below
  <2>2. Below(k)' = {j \in Read' : k \in b[j]}
    BY <1>1, <1>3 DEF Below
  <2> QED BY <1>1, <1>3, <1>4, <2>1, <2>2
<1>6. New \notin S
  <2>1. Below(k) \subseteq Read
    BY DEF Below
  <2> QED BY <1>1, <1>4, <2>1
<1>7. PICK P, Q : P = Pieces /\ Q = Pieces'
  OBVIOUS
<1>8. DOMAIN P = 1..MaxDirectives /\ DOMAIN Q = 1..MaxDirectives
  BY <1>7 DEF Pieces
<1>9. \A j \in 1..MaxDirectives : j # New => P[j] = Q[j]
  <2>1. \A j \in Read : Rule!Piece(script', home', j) = Rule!Piece(script, home, j)
    BY PieceReads
  <2> QED BY <1>1, <1>7, <2>1 DEF Pieces
<1>10. Part(P, S) = Part(Q, S)
  <2>1. \A j \in DOMAIN P : (IF j \in S THEN P[j] ELSE <<>>) = (IF j \in S THEN Q[j] ELSE <<>>)
    BY <1>6, <1>8, <1>9
  <2>2. Agrees(P, S, Q, S)
    BY <1>8, <2>1 DEF Agrees
  <2> QED BY <2>2, PartAgrees
<1>11. Whole(k) = Part(P, S)
  BY <1>4, <1>7 DEF Whole
<1>12. Whole(k)' = Part(Q, T)
  BY <1>4, <1>7 DEF Whole, Part
<1> QED BY <1>5, <1>10, <1>11, <1>12

\* The texts of the inputs of a context make its text.
LEMMA JoinedWhole ==
  ASSUME Core, NestInv, NEW c, IsContext(c), \A i \in Inputs(c) : text[i] = Whole(i)
  PROVE  Joined(c) = Whole(c)
<1> USE DEF Core
<1>1. PICK n, N : n = Len(script) /\ N = MaxDirectives
  OBVIOUS
<1>2. /\ n \in 0..N /\ N \in Nat /\ n \in Nat /\ Read = 1..n /\ Tree(home) /\ c \in Id
      /\ \A i \in Read : i \in Id /\ i \in Nat /\ i \in 1..N /\ i # Root
  BY <1>1, ReadIds, TreeOf, IdFacts, MaxDirectivesAssumption DEF Read, IsContext
<1>3. Inputs(c) \subseteq Read /\ \A i \in Inputs(c) : home[i] = c
  BY DEF Inputs, Children
<1>4. PICK a : a = [i \in Id |-> Rule!Around(home, i)]
  OBVIOUS
<1>5. \A i \in Id : Rule!Around(home, i) = a[i]
  BY <1>4
<1>6. \A i \in Read : Below(i) = {j \in Read : i \in a[j]}
  BY <1>2, <1>5 DEF Below
<1>7. Below(c) = {j \in Read : c \in a[j]}
  BY <1>2, <1>5 DEF Below
<1>8. \A i, j \in Read : i \in a[j] => i < j /\ a[i] \subseteq a[j]
  BY <1>2, <1>5, AroundSmaller DEF Ups
<1>9. \A i \in Inputs(c) : c \in a[i] /\ c < i /\ \A e \in a[i] : e <= c
  <2>1. ASSUME NEW i \in Inputs(c)
        PROVE  Rule!Around(home, i) = Ups(home, c) /\ c \in Ups(home, c) /\ c < i
    BY <1>2, <1>3, AroundUnfolds DEF Ups, Tree
  <2>2. \A e \in Ups(home, c) : e <= c
    BY <1>2, UpsFacts
  <2> QED BY <1>2, <1>3, <1>5, <2>1, <2>2
<1>10. PICK B : B = [i \in 1..n |-> IF i \in Inputs(c) THEN {i} \cup Below(i) ELSE {}]
  OBVIOUS
<1>11. ASSUME NEW i \in 1..n, NEW j \in 1..n, i < j, NEW x \in B[i], NEW y \in B[j]
       PROVE  x < y
  <2>1. /\ i \in Inputs(c) /\ j \in Inputs(c) /\ x \in {i} \cup Below(i) /\ y \in {j} \cup Below(j)
        /\ i \in Read /\ j \in Read
    BY <1>2, <1>10, <1>11
  <2>2. x \in Read /\ y \in Read /\ (x = i \/ i \in a[x]) /\ (y = j \/ j \in a[y])
    BY <1>6, <2>1
  <2>3. /\ x \in Nat /\ y \in Nat /\ i \in Nat /\ j \in Nat /\ c \in Nat /\ c < i
        /\ (y = j \/ j < y)
    <3>1. y = j \/ j < y
      BY <1>8, <2>1, <2>2
    <3> QED BY <1>2, <1>9, <2>1, <2>2, <3>1, IdFacts
  <2>4. x < j
    <3>1. CASE x = i
      BY <1>11, <3>1
    <3>2. CASE i \in a[x]
      <4> SUFFICES ASSUME j <= x PROVE FALSE
        BY <2>3
      <4>1. i \in Rule!Around(home, x) /\ i < j
        BY <1>2, <1>5, <1>11, <2>2, <3>2
      <4>2. i \in Rule!Around(home, j)
        BY <2>1, <2>2, <4>1 DEF NestInv
      <4>3. i \in a[j]
        BY <1>2, <1>5, <2>1, <4>2
      <4>4. i <= c
        BY <1>9, <2>1, <4>3
      <4> QED BY <2>3, <4>4
    <3> QED BY <2>2, <3>1, <3>2
  <2> QED BY <2>3, <2>4
<1>12. \A i \in 1..n : B[i] \subseteq 1..N
  <2>1. \A i \in Read : Below(i) \subseteq Read
    BY <1>6
  <2> QED BY <1>2, <1>10, <2>1
<1>13. PICK I : IsParts(Pieces, I, N)
  BY <1>1, PiecesType
<1>14. PICK t : t = [i \in 1..n |-> Part(Pieces, B[i])]
  OBVIOUS
<1>15. Joined(c) = FlattenSeq(t)
  <2>1. Part(Pieces, {}) = <<>>
    BY <1>13, PartNone DEF IsParts
  <2>2. ASSUME NEW i \in 1..n PROVE t[i] = IF i \in Inputs(c) THEN text[i] ELSE <<>>
    <3>1. t[i] = Part(Pieces, B[i])
      BY <1>14
    <3>2. CASE i \in Inputs(c)
      <4>1. B[i] = {i} \cup Below(i)
        BY <1>10, <3>2
      <4> QED BY <3>1, <3>2, <4>1 DEF Whole
    <3>3. CASE i \notin Inputs(c)
      BY <1>10, <2>1, <3>1, <3>3
    <3> QED BY <3>2, <3>3
  <2>3. t = [i \in 1..n |-> IF i \in Inputs(c) THEN text[i] ELSE <<>>]
    <3>1. t = [i \in 1..n |-> t[i]]
      BY <1>14
    <3> QED BY <2>2, <3>1
  <2>4. t = [i \in Read |-> IF i \in Inputs(c) THEN text[i] ELSE <<>>]
    BY <1>2, <2>3
  <2> QED BY <2>4 DEF Joined
<1>16. FlattenSeq(t) = Part(Pieces, Cover(B, n))
  <2>1. Nested(B, n, N)
    BY <1>2, <1>11, <1>12 DEF Nested
  <2> QED BY <1>13, <1>14, <2>1, PartNested
<1>17. PICK S : S = {c} \cup Below(c)
  OBVIOUS
<1>18. \A k \in Cover(B, n) : k \in S
  <2>1. ASSUME NEW i \in 1..n, NEW k \in B[i] PROVE k \in Below(c)
    <3>1. i \in Inputs(c) /\ k \in {i} \cup Below(i) /\ i \in Read
      BY <1>2, <1>10, <2>1
    <3>2. k \in Read /\ (k = i \/ i \in a[k])
      BY <1>6, <3>1
    <3>3. c \in a[i]
      BY <1>9, <3>1
    <3>4. c \in a[k]
      BY <1>8, <3>1, <3>2, <3>3
    <3> QED BY <1>7, <3>2, <3>4
  <2> QED BY <1>17, <2>1 DEF Cover
<1>19. ASSUME NEW k \in 1..N, k \in S, k \notin Cover(B, n) PROVE Pieces[k] = <<>>
  <2>0. k \in 1..MaxDirectives
    BY <1>1, <1>19
  <2>1. CASE k = c
    <3>1. k \in Read => script[k].op \notin {"raw", "make"}
      BY <1>2, <2>1 DEF IsContext
    <3> QED BY <2>0, <3>1, PieceNone
  <2>2. CASE k \in Below(c)
    <3>1. k \in Read /\ c \in Rule!Around(home, k) /\ k \in Id
      BY <1>2, <2>2 DEF Below
    <3>2. PICK i \in Ups(home, k) : i # Root /\ home[i] = c
      BY <1>2, <3>1, AroundChild
    <3>3. i \in Read /\ i \in Children(c)
      BY <3>1, <3>2, UpsRead DEF Children
    <3>4. i = k \/ i \in a[k]
      BY <1>5, <3>1, <3>2 DEF Ups
    <3>5. i \notin Inputs(c)
      <4> SUFFICES ASSUME i \in Inputs(c) PROVE FALSE
        OBVIOUS
      <4>1. k \in {i} \cup Below(i)
        BY <1>6, <3>1, <3>3, <3>4
      <4>2. i \in 1..n /\ k \in B[i]
        BY <1>2, <1>10, <3>3, <4>1
      <4> QED BY <1>19, <4>2 DEF Cover
    <3>6. script[i].op \notin {"raw", "make", "context"}
      BY <3>3, <3>5 DEF Inputs
    <3>7. i = k
      <4> SUFFICES ASSUME i \in a[k] PROVE FALSE
        BY <3>4
      <4>1. IsContext(i)
        BY <1>5, <3>1, UpsRead
      <4> QED BY <3>2, <3>6, <4>1 DEF IsContext
    <3> QED BY <2>0, <3>6, <3>7, PieceNone
  <2> QED BY <1>17, <1>19, <2>1, <2>2
<1>20. Part(Pieces, Cover(B, n)) = Part(Pieces, S)
  <2>1. DOMAIN Pieces = 1..N
    BY <1>1 DEF Pieces
  <2>2. PICK C : C = Cover(B, n)
    OBVIOUS
  <2>3. \A k \in DOMAIN Pieces : (IF k \in C THEN Pieces[k] ELSE <<>>) = (IF k \in S THEN Pieces[k] ELSE <<>>)
    BY <1>18, <1>19, <2>1, <2>2
  <2>4. Agrees(Pieces, C, Pieces, S)
    BY <2>3 DEF Agrees
  <2> QED BY <2>2, <2>4, PartAgrees
<1> QED BY <1>15, <1>16, <1>17, <1>20 DEF Whole

----------------------------------------------------------------------------
\* Texts are whole when no task works on them any more.

\* A new task has all its work to do.
LEMMA BusyGains ==
  ASSUME MainType, PoolType, PlaceInv, held = NoTask, NEW h \in Task, held' = h, h.order = order,
         UNCHANGED <<queue, slot, lost, step>>
  PROVE  Busy(h.id)' /\ \A k : k # h.id => (Busy(k)' <=> Busy(k))
<1>1. All' = All \cup {h}
  <2>1. h # NoTask
    BY NoTaskAssumption
  <2> QED BY <2>1, AllSubmits
<1>2. h \notin All
  BY Youngest
<1>3. \A w \in Worker : slot[w] # h
  <2>1. \A w \in Worker : slot[w] = NoTask \/ slot[w] \in All
    BY AllFacts DEF All, Pending
  <2> QED BY <1>2, <2>1, NoTaskAssumption
<1>4. Working(h)'
  BY <1>3 DEF Working
<1>5. Busy(h.id)'
  BY <1>1, <1>4 DEF Busy
<1>6. \A t : Working(t)' <=> Working(t)
  BY DEF Working
<1>7. ASSUME NEW k, k # h.id PROVE Busy(k)' <=> Busy(k)
  BY <1>1, <1>6, <1>7 DEF Busy
<1> QED BY <1>5, <1>7

\* What the main thread does to the texts still to come.
LEMMA UndoneMain ==
  ASSUME Core, OpenInv, Main, pc' # "abort"
  PROVE  /\ \/ UNCHANGED <<script, home>> /\ \A k : Undone(k)' <=> Undone(k)
            \/ \E d \in Directive, n \in Id :
                 /\ Reads(d) /\ n = New /\ (d.op \in {"raw", "make", "context"} => Undone(n)')
                 /\ \A k : k # n => (Undone(k)' <=> Undone(k))
         /\ pc # "abort"
<1> USE DEF Core
<1>1. /\ \/ \E d \in Directive, p \in {USE_DICT, MAKE_DICT} : ReadTask(d, p)
         \/ \E d \in Directive : ReadOnly(d) \/ NewContext(d)
         \/ EndsInner \/ EndsOuter \/ PcMoves
         \/ Enqueue \/ DeleteSub \/ Destruct
      /\ UNCHANGED step
  BY MainKinds
<1>2. ASSUME NEW d \in Directive, NEW p \in {USE_DICT, MAKE_DICT}, ReadTask(d, p), NEW n, n = New
      PROVE  /\ Reads(d) /\ Undone(n)' /\ pc # "abort" /\ n \in Id
             /\ \A k : k # n => (Undone(k)' <=> Undone(k))
  <2>1. /\ Reads(d) /\ New \in Id /\ held = NoTask /\ pc = "read"
        /\ Submits(p, New, current) /\ UNCHANGED <<pc, current, s, queue, slot, lost>>
    BY <1>2, NewFacts DEF ReadTask
  <2>2. held' \in Task /\ held'.id = New /\ held'.order = order
    <3>1. p \in {FINISH, USE_DICT, MAKE_DICT} /\ current \in Id
      BY DEF MainType
    <3> QED BY <2>1, <3>1, SubmitsFacts
  <2>3. PICK h : h = held'
    OBVIOUS
  <2>4. Busy(n)' /\ \A k : k # n => (Busy(k)' <=> Busy(k))
    <3>1. Busy(h.id)' /\ \A k : k # h.id => (Busy(k)' <=> Busy(k))
      BY <1>1, <2>1, <2>2, <2>3, BusyGains
    <3> QED BY <1>2, <2>2, <2>3, <3>1
  <2>5. Open' = Open
    BY <2>1, OpenMoves
  <2> QED BY <1>2, <2>1, <2>4, <2>5 DEF Undone
<1>3. ASSUME NEW d \in Directive, ReadOnly(d)
      PROVE  /\ Reads(d) /\ New \in Id /\ d.op \notin {"raw", "make", "context"} /\ pc # "abort"
             /\ \A k : Undone(k)' <=> Undone(k)
  <2>1. Reads(d) /\ New \in Id /\ pc = "read" /\ UNCHANGED <<pc, current, s, held, queue, slot, lost>>
    BY <1>3, NewFacts DEF ReadOnly
  <2>2. All' = All /\ Open' = Open
    BY <2>1, OpenMoves DEF All, Pending, Running
  <2>3. \A t : Working(t)' <=> Working(t)
    BY <1>1, <2>1 DEF Working
  <2> QED BY <1>3, <2>1, <2>2, <2>3 DEF Undone, Busy, ReadOnly
<1>4. ASSUME NEW d \in Directive, NewContext(d), NEW n, n = New
      PROVE  /\ Reads(d) /\ Undone(n)' /\ pc # "abort" /\ n \in Id
             /\ \A k : k # n => (Undone(k)' <=> Undone(k))
  <2>1. /\ Reads(d) /\ New \in Id /\ pc = "read" /\ UNCHANGED <<pc, held, queue, slot, lost>>
        /\ current' = New /\ s' = Append(s, current)
    BY <1>4, NewFacts DEF NewContext, poolVars
  <2>2. All' = All /\ Open' = Open \cup {New}
    BY <2>1, OpenMoves DEF All, Pending, Running
  <2>3. \A t : Working(t)' <=> Working(t)
    BY <1>1, <2>1 DEF Working
  <2>4. Undone(n)' /\ \A k : k # n => (Undone(k)' <=> Undone(k))
    BY <1>4, <2>1, <2>2, <2>3 DEF Undone, Busy
  <2> QED BY <1>4, <2>1, <2>4
<1>5. ASSUME Submits(FINISH, current, current), UNCHANGED <<script, home, queue, slot, lost>>,
             held = NoTask, pc \in {"read", "unwind"},
             \A k : k # current => (k \in Open <=> pc' \in {"read", "unwind"} /\ k \in Open')
      PROVE  \A k : Undone(k)' <=> Undone(k)
  <2>1. held' \in Task /\ held'.id = current /\ held'.order = order /\ current \in Id
    <3>1. current \in Id /\ FINISH \in {FINISH, USE_DICT, MAKE_DICT}
      BY DEF MainType
    <3> QED BY <1>5, <3>1, SubmitsFacts
  <2>2. PICK h, c : h = held' /\ c = current
    OBVIOUS
  <2>3. Busy(c)' /\ \A k : k # c => (Busy(k)' <=> Busy(k))
    <3>1. Busy(h.id)' /\ \A k : k # h.id => (Busy(k)' <=> Busy(k))
      BY <1>1, <1>5, <2>1, <2>2, BusyGains
    <3> QED BY <2>1, <2>2, <3>1
  <2>4. c \in Open
    BY <2>2 DEF Open
  <2> QED BY <1>5, <2>2, <2>3, <2>4 DEF Undone
<1>6. CASE EndsInner
  <2>1. /\ Submits(FINISH, current, current) /\ UNCHANGED <<script, home, queue, slot, lost>>
        /\ held = NoTask /\ pc \in {"read", "unwind"} /\ pc' = pc
        /\ s # <<>> /\ current' = Last(s) /\ s' = Front(s)
    BY <1>6 DEF EndsInner, EndsCurrent, poolVars
  <2>2. Open = Open' \cup {current}
    BY <2>1, OpenMoves
  <2>3. \A k : Undone(k)' <=> Undone(k)
    BY <1>5, <2>1, <2>2
  <2> QED BY <2>1, <2>3
<1>7. CASE EndsOuter
  <2>1. /\ Submits(FINISH, current, current) /\ UNCHANGED <<script, home, queue, slot, lost>>
        /\ held = NoTask /\ pc \in {"read", "unwind"} /\ pc' = "delete" /\ s = <<>>
    BY <1>7 DEF EndsOuter, EndsRoot, poolVars
  <2>2. Open = {current}
    BY <2>1 DEF Open
  <2>3. \A k : Undone(k)' <=> Undone(k)
    BY <1>5, <2>1, <2>2
  <2> QED BY <2>1, <2>3
<1>8. ASSUME UNCHANGED <<script, home, current, s>>, All' = All, UNCHANGED slot,
             pc' \in {"read", "unwind"} <=> pc \in {"read", "unwind"}
      PROVE  \A k : Undone(k)' <=> Undone(k)
  <2>1. \A t : Working(t)' <=> Working(t)
    BY <1>1, <1>8 DEF Working
  <2>2. Open' = Open
    BY <1>8 DEF Open
  <2> QED BY <1>8, <2>1, <2>2 DEF Undone, Busy
<1>9. CASE PcMoves \/ DeleteSub \/ Destruct
  <2>1. /\ UNCHANGED <<script, home, current, s, held, queue, slot, lost>> /\ pc # "abort"
        /\ pc' \in {"read", "unwind"} <=> pc \in {"read", "unwind"}
    BY <1>9 DEF PcMoves, DeleteSub, Destruct, Deleting, poolVars
  <2>2. All' = All
    BY <2>1 DEF All, Pending, Running
  <2> QED BY <1>8, <2>1, <2>2
<1>10. CASE Enqueue
  <2>1. UNCHANGED <<script, home, current, s, slot, pc>>
    BY <1>10 DEF Enqueue
  <2>2. All' = All
    <3>1. PICK w : w \in Worker
      BY WorkerAssumption
    <3> QED BY <1>10, <3>1, AllMoves
  <2> QED BY <1>8, <2>1, <2>2
<1> QED BY <1>1, <1>2, <1>3, <1>4, <1>6, <1>7, <1>9, <1>10

\* What a worker does to the texts still to come: only a task that ends its work counts.
LEMMA UndoneWork ==
  ASSUME Core, NEW w \in Worker, Work(w)
  PROVE  /\ UNCHANGED <<script, home, pc, current, s>>
         /\ \A k : \/ Undone(k)' <=> Undone(k)
                   \/ /\ slot[w] # NoTask /\ k = slot[w].id
                      /\ step[w] # "dec" /\ step'[w] = "dec" /\ UNCHANGED slot
<1> USE DEF Core
<1>1. UNCHANGED <<script, home, pc, current, s>>
  <2> USE DEF mainVars
  <2>1. CASE Take(w) BY <2>1 DEF Take
  <2>2. CASE BuildDict(w) BY <2>2 DEF BuildDict
  <2>3. CASE BuildThrows(w) BY <2>3 DEF BuildThrows
  <2>4. CASE FinishDict(w) BY <2>4 DEF FinishDict
  <2>5. CASE RunRaw(w) BY <2>5 DEF RunRaw
  <2>6. CASE StartMake(w) BY <2>6 DEF StartMake
  <2>7. CASE MatchStep(w) BY <2>7 DEF MatchStep
  <2>8. CASE FullStep(w) BY <2>8 DEF FullStep
  <2>9. CASE FinishMake(w) BY <2>9 DEF FinishMake
  <2>10. CASE JoinInputs(w) BY <2>10 DEF JoinInputs
  <2>11. CASE JobsDec(w) BY <2>11 DEF JobsDec
  <2> QED BY <2>1, <2>2, <2>3, <2>4, <2>5, <2>6, <2>7, <2>8, <2>9, <2>10, <2>11 DEF Work
<1>2. Open' = Open
  BY <1>1 DEF Open
<1>3. \A k : (Busy(k)' <=> Busy(k)) => (Undone(k)' <=> Undone(k))
  BY <1>1, <1>2 DEF Undone
<1>4. NoTask \notin All
  BY AllFacts
<1>5. ASSUME All' = All, \A t \in All : Working(t)' <=> Working(t) PROVE \A k : Busy(k)' <=> Busy(k)
  BY <1>5 DEF Busy
<1>6. CASE Take(w)
  <2>1. PICK t \in Tops(queue) : slot' = [slot EXCEPT ![w] = t]
    BY <1>6 DEF Take
  <2>2. /\ slot'[w] = t /\ step'[w] = "start" /\ slot[w] = NoTask
        /\ \A v \in Worker : v # w => slot'[v] = slot[v] /\ step'[v] = step[v]
    BY <1>6, <2>1 DEF PoolType, Take, Goes
  <2>3. \A v \in Worker : slot[v] # t
    BY <2>1 DEF Tops, PlaceInv
  <2>4. \A u \in All : Working(u)' <=> Working(u)
    BY <1>4, <2>2, <2>3 DEF Working
  <2> QED BY <1>1, <1>3, <1>5, <1>6, <2>4, AllMoves
<1>7. CASE BuildThrows(w)
  <2>1. /\ slot'[w] = NoTask /\ slot[w] # NoTask /\ step[w] = "start"
        /\ \A v \in Worker : v # w => slot'[v] = slot[v] /\ step'[v] = step[v]
    BY <1>7 DEF PoolType, BuildThrows, Goes, Starts
  <2>2. \A v \in Worker : slot[v] = slot[w] => v = w
    BY <2>1 DEF PlaceInv
  <2>3. \A u \in All : Working(u)' <=> Working(u)
    BY <1>4, <2>1, <2>2 DEF Working
  <2> QED BY <1>1, <1>3, <1>5, <1>7, <2>3, AllMoves
<1>8. CASE JobsDec(w)
  <2>1. /\ slot'[w] = NoTask /\ slot[w] # NoTask /\ step[w] = "dec"
        /\ \A v \in Worker : v # w => slot'[v] = slot[v] /\ step'[v] = step[v]
    BY <1>8 DEF PoolType, JobsDec, Goes
  <2>2. ~Working(slot[w])
    BY <2>1 DEF Working
  <2>3. All' = All \ {slot[w]}
    BY <1>8, AllDec
  <2>4. \A u \in All : u # slot[w] => (Working(u)' <=> Working(u))
    BY <1>4, <2>1 DEF Working
  <2>5. \A k : Busy(k)' <=> Busy(k)
    BY <2>2, <2>3, <2>4 DEF Busy
  <2> QED BY <1>1, <1>3, <2>5
<1>9. ASSUME UNCHANGED <<held, queue, slot, lost>>, slot[w] # NoTask, step[w] # "dec",
             NEW q, step' = [step EXCEPT ![w] = q]
      PROVE  \A k : \/ Undone(k)' <=> Undone(k)
                    \/ slot[w] # NoTask /\ k = slot[w].id /\ step[w] # "dec" /\ step'[w] = "dec" /\ UNCHANGED slot
  <2>1. All' = All
    BY <1>9 DEF All, Pending, Running
  <2>2. step'[w] = q /\ \A v \in Worker : v # w => step'[v] = step[v]
    BY <1>9 DEF PoolType
  <2>3. \A u : u # slot[w] => (Working(u)' <=> Working(u))
    BY <1>9, <2>2 DEF Working
  <2>4. ASSUME NEW k, k # slot[w].id PROVE Undone(k)' <=> Undone(k)
    <3>1. Busy(k)' <=> Busy(k)
      BY <2>1, <2>3, <2>4 DEF Busy
    <3> QED BY <1>3, <3>1
  <2>5. CASE q = "dec"
    BY <1>9, <2>2, <2>4, <2>5
  <2>6. CASE q # "dec"
    <3>1. \A u \in All : Working(u)' <=> Working(u)
      BY <1>9, <2>2, <2>6 DEF Working
    <3> QED BY <1>3, <1>5, <2>1, <3>1
  <2> QED BY <2>5, <2>6
<1>10. CASE FinishDict(w)
  <2>1. /\ UNCHANGED <<held, queue, slot, lost>> /\ slot[w] # NoTask /\ step[w] # "dec"
        /\ step' = [step EXCEPT ![w] = "dec"]
    BY <1>10 DEF FinishDict, mainVars, PoolType, Goes
  <2> QED BY <1>1, <1>9, <2>1
<1>11. CASE Inside(w)
  BY <1>1, <1>9, <1>11 DEF Inside
<1> QED BY <1>6, <1>7, <1>8, <1>10, <1>11, WorkKinds

\* What a worker writes.
LEMMA TextWork ==
  ASSUME PoolType, ReadyInv, NEW w \in Worker, Work(w), ~error'
  PROVE  \/ RunRaw(w) \/ FinishMake(w) \/ JoinInputs(w)
         \/ /\ UNCHANGED text
            /\ step[w] # "dec" /\ step'[w] = "dec" => step[w] = "finish"
<1> USE DEF mainVars, heapVars, Goes, PoolType
<1>1. CASE Take(w) BY <1>1 DEF Take
<1>2. CASE BuildDict(w) BY <1>2 DEF BuildDict
<1>3. CASE BuildThrows(w) BY <1>3 DEF BuildThrows
<1>4. CASE FinishDict(w) BY <1>4 DEF FinishDict
<1>5. CASE StartMake(w) BY <1>5 DEF StartMake
<1>6. CASE MatchStep(w) BY <1>6 DEF MatchStep, Writes, ScanOn
<1>7. CASE FullStep(w) BY <1>7 DEF FullStep, Writes, ScanOn
<1>8. CASE JobsDec(w) BY <1>8 DEF JobsDec
<1> QED BY <1>1, <1>2, <1>3, <1>4, <1>5, <1>6, <1>7, <1>8 DEF Work

\* The end of a block: its text is what it means.
LEMMA BlockWritten ==
  ASSUME Core, NestInv, ScanInv, TextInv, NEW w \in Worker, RunRaw(w) \/ FinishMake(w), ~error'
  PROVE  /\ slot[w].id \in Read /\ script[slot[w].id].op \in {"raw", "make"}
         /\ text' = [text EXCEPT ![slot[w].id] = Whole(slot[w].id)]
<1> USE DEF Core
<1>1. PICK k : k = slot[w].id
  OBVIOUS
<1>2. slot[w] # NoTask /\ slot[w].priority = USE_DICT
  BY DEF RunRaw, FinishMake, Starts, PoolType, ReadyInv
<1>3. k \in Read /\ script[k].op \in {"raw", "make"}
  <2>1. slot[w] \in All
    BY <1>2, AllFacts DEF All, Pending
  <2> QED BY <1>1, <1>2, <2>1 DEF PlaceInv, Genuine, FINISH, USE_DICT
<1>4. Whole(k) = Rule!Piece(script, home, k)
  BY <1>3, WholeBlock
<1>5. CASE RunRaw(w)
  <2>1. ~error /\ Block(w).fate # "bad" /\ script[k].op = "raw"
    BY <1>1, <1>5 DEF RunRaw, Block
  <2>2. text' = [text EXCEPT ![k] = <<RawText(k)>>]
    BY <1>1, <1>5, <2>1 DEF RunRaw
  <2>3. Rule!Piece(script, home, k) = <<RawText(k)>>
    BY <2>1 DEF Rule!Piece, RawText, Root
  <2> QED BY <1>1, <1>3, <1>4, <2>2, <2>3
<1>6. CASE FinishMake(w)
  <2>1. ~error /\ Block(w).fate # "bad" /\ step[w] = "match" /\ ~HasWord(w)
    BY <1>6 DEF FinishMake
  <2>2. text' = [text EXCEPT ![k] = line[w]]
    BY <1>1, <1>6, <2>1 DEF FinishMake
  <2>3. PICK F, n : F = Rule!Piece(script, home, k) /\ n = Len(script[k].words)
    OBVIOUS
  <2>4. script[k].op = "make" /\ word[w] \in 1..n + 1 /\ line[w] = [i \in 1..word[w] - 1 |-> F[i]]
    BY <1>1, <2>1, <2>3 DEF ScanInv, Scans
  <2>5. n \in Nat /\ DOMAIN script[k].words = 1..n
    BY <1>3, <2>3, ReadIds, DirectiveAssumption
  <2>6. ~(word[w] <= n)
    BY <1>1, <2>1, <2>3 DEF HasWord, Block
  <2>7. word[w] - 1 = n
    BY <2>4, <2>5, <2>6
  <2>8. F = [i \in 1..n |-> F[i]]
    BY <2>3, <2>4, <2>5 DEF Rule!Piece
  <2> QED BY <1>1, <1>3, <1>4, <2>2, <2>3, <2>4, <2>7, <2>8
<1> QED BY <1>5, <1>6

\* One element is all there is.
LEMMA OneElement ==
  ASSUME NEW S, IsFiniteSet(S), NEW x \in S, NEW m \in Nat, 1 = Cardinality(S) + m
  PROVE  S = {x} /\ m = 0
<1>1. Cardinality(S) \in Nat /\ Cardinality(S \ {x}) = Cardinality(S) - 1 /\ IsFiniteSet(S \ {x})
  BY FS_CardinalityType, FS_RemoveElement
<1>2. Cardinality(S \ {x}) \in Nat
  BY <1>1, FS_CardinalityType
<1>3. Cardinality(S) = 1 /\ m = 0 /\ Cardinality(S \ {x}) = 0
  BY <1>1, <1>2
<1>4. S \ {x} = {}
  BY <1>1, <1>3, FS_EmptySet
<1> QED BY <1>3, <1>4

\* When the FINISH task of a context is its last job, every input is whole.
LEMMA InputsWhole ==
  ASSUME Core, OpenInv, TextInv, ~error, pc # "abort", NEW w \in Worker, JoinInputs(w),
         NEW c, c = slot[w].id
  PROVE  /\ slot[w] # NoTask /\ IsContext(c) /\ c \in Id /\ step[w] # "dec" /\ Undone(c)
         /\ \A t \in All : t.id = c => t = slot[w]
         /\ pc \in {"read", "unwind"} => c \notin Open
         /\ \A i \in Inputs(c) : text[i] = Whole(i)
<1> USE DEF Core
<1>1. /\ slot[w] # NoTask /\ slot[w].priority = FINISH /\ jobs[c] = 1 /\ step[w] = "start"
      /\ slot[w] \in All
  <2>1. slot[w] # NoTask
    BY DEF JoinInputs, Starts, PoolType
  <2> QED BY <2>1, AllFacts DEF JoinInputs, Starts, All, Pending
<1>2. c \in live /\ slot[w] \in Of(c) /\ c \in Id /\ IsContext(c)
  <2>1. Owner(slot[w]) = c
    BY <1>1 DEF Owner
  <2>2. c \in live /\ c \in 0..Len(script)
    BY <1>1, <2>1 DEF PlaceInv, Genuine
  <2>3. c \in Id /\ (c # Root => c \in Read)
    <3>1. Len(script) \in Nat
      BY ReadIds
    <3> QED BY <2>2, <3>1 DEF MainType, Read, Root
  <2> QED BY <1>1, <2>1, <2>2, <2>3 DEF TreeInv, IsContext, Of
<1>3. Of(c) = {slot[w]} /\ LiveSubs(c) = {}
  <2>1. jobs[c] = Cardinality(Of(c)) + Cardinality(LiveSubs(c))
    BY <1>2 DEF CountInv
  <2>2. /\ IsFiniteSet(Of(c)) /\ IsFiniteSet(LiveSubs(c)) /\ Cardinality(LiveSubs(c)) \in Nat
    BY OfFinite
  <2>3. Of(c) = {slot[w]} /\ Cardinality(LiveSubs(c)) = 0
    BY <1>1, <1>2, <2>1, <2>2, OneElement
  <2> QED BY <2>2, <2>3, FS_EmptySet
<1>4. \A t \in All : t.priority = FINISH \/ (t.id \in Read /\ script[t.id].op # "context" /\ t.priority # FINISH)
  <2>1. \A t \in All : t.priority \in {FINISH, USE_DICT, MAKE_DICT}
    BY AllFacts DEF Task
  <2> QED BY <2>1 DEF PlaceInv, Genuine
<1>5. ASSUME NEW t \in All, t.id = c PROVE t = slot[w]
  <2>1. t.priority = FINISH
    BY <1>2, <1>4, <1>5, ReadIds DEF IsContext
  <2>2. t \in Of(c)
    BY <1>5, <2>1 DEF Of, Owner
  <2> QED BY <1>3, <2>2
<1>6. pc \in {"read", "unwind"} => c \notin Open
  BY <1>1 DEF OpenInv
<1>7. Undone(c)
  <2>1. Working(slot[w])
    BY <1>1 DEF Working, PlaceInv
  <2> QED BY <1>1, <2>1 DEF Undone, Busy
<1>8. ASSUME NEW i \in Inputs(c) PROVE text[i] = Whole(i)
  <2>1. /\ i \in Read /\ home[i] = c /\ script[i].op \in {"raw", "make", "context"}
        /\ i \in Nat /\ i # Root
    BY ReadIds DEF Inputs, Children
  <2>2. c # i
    <3>1. home[i] < i
      BY <2>1 DEF TreeInv
    <3> QED BY <2>1, <3>1
  <2>3. ASSUME NEW t \in All, t.id = i PROVE FALSE
    <3>1. CASE t.priority = FINISH
      <4>1. i \in live
        BY <2>3, <3>1 DEF PlaceInv, Genuine, Owner
      <4>2. script[i].op = "context"
        BY <2>1, <4>1 DEF TreeInv
      <4>3. i \in LiveSubs(c)
        BY <2>1, <4>1, <4>2 DEF LiveSubs, Subcontexts, Children
      <4> QED BY <1>3, <4>3
    <3>2. CASE t.priority # FINISH
      <4>1. t \in Of(c)
        BY <2>1, <2>3, <3>2 DEF Of, Owner
      <4> QED BY <1>3, <2>2, <2>3, <4>1
    <3> QED BY <3>1, <3>2
  <2>4. pc \in {"read", "unwind"} => i \notin Open
    BY <1>6, <2>1 DEF OpenInv, Closed
  <2>5. ~Undone(i)
    BY <2>3, <2>4 DEF Undone, Busy
  <2>6. Written(i)
    BY <2>1 DEF TextInv
  <2> QED BY <2>1, <2>5, <2>6 DEF Written, IsContext
<1> QED BY <1>1, <1>2, <1>5, <1>6, <1>7, <1>8

\* The end of a context: its text, empty so far, becomes whole.
LEMMA JoinWritten ==
  ASSUME Core, OpenInv, NestInv, TextInv, ~error, pc # "abort", NEW w \in Worker, JoinInputs(w),
         NEW c, c = slot[w].id
  PROVE  /\ IsContext(c) /\ ~Undone(c)'
         /\ text' = [text EXCEPT ![c] = Whole(c)]
<1> USE DEF Core
<1>1. /\ slot[w] # NoTask /\ IsContext(c) /\ c \in Id /\ Undone(c)
      /\ \A t \in All : t.id = c => t = slot[w]
      /\ pc \in {"read", "unwind"} => c \notin Open
      /\ \A i \in Inputs(c) : text[i] = Whole(i)
  BY InputsWhole
<1>2. text[c] = <<>>
  <2>1. Written(c)
    BY <1>1 DEF TextInv, IsContext
  <2> QED BY <1>1, <2>1 DEF Written
<1>3. Joined(c) = Whole(c)
  BY <1>1, JoinedWhole
<1>4. <<>> \o Whole(c) = Whole(c)
  <2>1. PICK I : IsParts(Pieces, I, MaxDirectives)
    BY PiecesType
  <2>2. Whole(c) \in Seq(I)
    BY <2>1, PartType DEF IsParts, Whole
  <2> QED BY <2>2, JoinFacts
<1>5. text' = [text EXCEPT ![c] = text[c] \o Joined(c)]
  BY DEF JoinInputs
<1>6. text' = [text EXCEPT ![c] = Whole(c)]
  BY <1>2, <1>3, <1>4, <1>5
<1>7. /\ UNCHANGED <<pc, current, s, held, queue, slot, lost>> /\ step'[w] = "dec"
  BY DEF JoinInputs, mainVars, Goes, PoolType
<1>8. All' = All /\ Open' = Open
  BY <1>7 DEF All, Pending, Running, Open
<1>9. ~Busy(c)'
  <2>1. PICK t : t = slot[w]
    OBVIOUS
  <2>2. ~Working(t)'
    BY <1>7, <2>1 DEF Working
  <2> QED BY <1>1, <1>8, <2>1, <2>2 DEF Busy
<1>10. ~Undone(c)'
  BY <1>1, <1>7, <1>8, <1>9 DEF Undone
<1> QED BY <1>1, <1>6, <1>10

\* A step that changes neither a text nor what is still to come of the contexts and blocks.
LEMMA WrittenSame ==
  ASSUME UNCHANGED <<script, home>>, NEW k, text'[k] = text[k],
         (Undone(k)' <=> Undone(k)) \/ (k \in Read /\ ~IsContext(k) /\ script[k].op \notin {"raw", "make"}),
         k \in Read \cup {Root}, Written(k)
  PROVE  Written(k)'
<1>1. Whole(k)' = Whole(k)
  BY DEF Whole, Part, Pieces, Below, Read
<1>2. IsContext(k)' <=> IsContext(k)
  BY DEF IsContext, Read
<1> QED BY <1>1, <1>2 DEF Written

\* The main thread writes no text.
LEMMA MainText ==
  ASSUME Main
  PROVE  UNCHANGED text /\ (UNCHANGED <<script, home>> \/ \E d \in Directive : Reads(d))
<1> USE DEF heapVars
<1>1. ASSUME NEW d \in Directive, ReadDirective(d) PROVE UNCHANGED text /\ Reads(d)
  <2>1. CASE Defdir(d) BY <2>1 DEF Defdir
  <2>2. CASE Noextend(d) BY <2>2 DEF Noextend
  <2>3. CASE Undefdir(d) BY <2>3 DEF Undefdir
  <2>4. CASE Unnoextend(d) BY <2>4 DEF Unnoextend
  <2>5. CASE Raw(d) BY <2>5 DEF Raw
  <2>6. CASE Make(d) BY <2>6 DEF Make
  <2>7. CASE NewContext(d) BY <2>7 DEF NewContext
  <2> QED BY <1>1, <2>1, <2>2, <2>3, <2>4, <2>5, <2>6, <2>7 DEF ReadDirective
<1>2. CASE EndContext \/ Unwind \/ Unwound \/ Eof
  BY <1>2 DEF EndContext, Unwind, Unwound, Eof, EndsCurrent, EndsRoot
<1>3. CASE Test \/ BadCommand \/ Stray \/ EofAborts
  BY <1>3 DEF Test, BadCommand, Stray, EofAborts
<1>4. CASE Enqueue \/ DeleteSub \/ Destruct \/ WriteOutput
  BY <1>4 DEF Enqueue, DeleteSub, Destruct, WriteOutput
<1> QED BY <1>1, <1>2, <1>3, <1>4 DEF Main

\* A worker writes the text its task is about, if any.
LEMMA WorkText ==
  ASSUME PoolType, NEW w \in Worker, Work(w)
  PROVE  UNCHANGED text \/ (slot[w] # NoTask /\ \E x : text' = [text EXCEPT ![slot[w].id] = x])
<1> USE DEF heapVars, PoolType, Starts
<1>1. CASE Take(w) BY <1>1 DEF Take
<1>2. CASE BuildDict(w) BY <1>2 DEF BuildDict
<1>3. CASE BuildThrows(w) BY <1>3 DEF BuildThrows
<1>4. CASE FinishDict(w) BY <1>4 DEF FinishDict
<1>5. CASE RunRaw(w) BY <1>5 DEF RunRaw
<1>6. CASE StartMake(w) BY <1>6 DEF StartMake
<1>7. CASE MatchStep(w) BY <1>7 DEF MatchStep
<1>8. CASE FullStep(w) BY <1>8 DEF FullStep
<1>9. CASE FinishMake(w) BY <1>9 DEF FinishMake
<1>10. CASE JoinInputs(w) BY <1>10 DEF JoinInputs
<1>11. CASE JobsDec(w) BY <1>11 DEF JobsDec
<1> QED BY <1>1, <1>2, <1>3, <1>4, <1>5, <1>6, <1>7, <1>8, <1>9, <1>10, <1>11 DEF Work

\* No step breaks TextInv.
LEMMA TextStep ==
  ASSUME Core, OpenInv, NestInv, ScanInv, TextInv, [Next]_vars
  PROVE  TextInv'
<1> USE DEF Core
<1>1. /\ Read \subseteq Id /\ Read \subseteq Nat /\ Len(script) \in Nat /\ Root \in Id
      /\ \A k \in Read \cup {Root} : k \in Id /\ k \in Nat /\ ~(k > Len(script))
  <2>1. Read = 1..Len(script) /\ Root = 0
    BY DEF Read, Root
  <2> QED BY <2>1, ReadIds, IdFacts
<1>2. ~error' => ~error
  BY ErrorStays
<1>3. CASE Main
  <2>1. UNCHANGED text
    BY <1>3, MainText
  <2>2. ASSUME UNCHANGED <<script, home>>, \A k : Undone(k)' <=> Undone(k), ~error', pc # "abort"
        PROVE  \A k \in Read \cup {Root} : Written(k)'
    BY <1>2, <2>1, <2>2, WrittenSame DEF TextInv
  <2>3. ASSUME NEW d \in Directive, NEW n \in Id, Reads(d), n = New, ~error', pc # "abort",
               d.op \in {"raw", "make", "context"} => Undone(n)',
               \A k : k # n => (Undone(k)' <=> Undone(k)),
               NEW k \in Read' \cup {Root}
        PROVE  Written(k)'
    <3>1. /\ Read' = Read \cup {n} /\ n \notin Read /\ n # Root /\ script'[n] = d /\ pc = "read"
          /\ \A i \in Read : script'[i] = script[i]
          /\ n > Len(script)
      <4>1. New > Len(script)
        BY <1>1 DEF New
      <4> QED BY <2>3, <4>1, NewFacts, ReadFacts
    <3>2. CASE k = n
      <4>1. text'[n] = <<>>
        BY <2>1, <2>3, <3>1 DEF TextInv
      <4>2. (IsContext(k)' => d.op = "context") /\ script'[k].op = d.op
        BY <3>1, <3>2 DEF IsContext
      <4> QED BY <2>3, <3>2, <4>1, <4>2 DEF Written
    <3>3. CASE k # n
      <4>1. k \in Read \cup {Root} /\ Written(k) /\ text'[k] = text[k] /\ (Undone(k)' <=> Undone(k))
        BY <1>2, <2>1, <2>3, <3>1, <3>3 DEF TextInv
      <4>2. (IsContext(k)' <=> IsContext(k)) /\ (k \in Read => script'[k].op = script[k].op)
        BY <3>1, <4>1 DEF IsContext
      <4>3. CASE Undone(k)
        BY <3>1, <4>1, <4>2, <4>3 DEF Written, IsContext
      <4>4. CASE ~Undone(k)
        <5>1. k \notin Open
          BY <3>1, <4>4 DEF Undone
        <5>2. Whole(k)' = Whole(k)
          BY <2>3, <4>1, <5>1, WholeReads
        <5> QED BY <3>1, <4>1, <4>2, <4>4, <5>2 DEF Written, IsContext
      <4> QED BY <4>3, <4>4
    <3> QED BY <3>2, <3>3
  <2>4. ~error' /\ pc' # "abort" => \A k \in Read' \cup {Root} : Written(k)'
    <3> SUFFICES ASSUME ~error', pc' # "abort" PROVE \A k \in Read' \cup {Root} : Written(k)'
      OBVIOUS
    <3>1. pc # "abort"
      BY <1>3, UndoneMain
    <3>2. CASE UNCHANGED <<script, home>> /\ \A k : Undone(k)' <=> Undone(k)
      <4>1. Read' = Read
        BY <3>2 DEF Read
      <4> QED BY <2>2, <3>1, <3>2, <4>1
    <3>3. CASE \E d \in Directive, n \in Id :
                 /\ Reads(d) /\ n = New /\ (d.op \in {"raw", "make", "context"} => Undone(n)')
                 /\ \A k : k # n => (Undone(k)' <=> Undone(k))
      BY <2>3, <3>1, <3>3
    <3> QED BY <1>3, <3>2, <3>3, UndoneMain
  <2>5. \A k \in Id : k > Len(script') => k > Len(script)
    <3>1. UNCHANGED script \/ \E d \in Directive : Reads(d)
      BY <1>3, MainText
    <3>2. Len(script') >= Len(script) /\ Len(script') \in Nat
      BY <1>1, <3>1, NewFacts
    <3> QED BY <1>1, <3>2, IdFacts
  <2> QED BY <2>1, <2>4, <2>5 DEF TextInv
<1>4. ASSUME NEW w \in Worker, Work(w) PROVE TextInv'
  <2>1. /\ UNCHANGED <<script, home, pc, current, s>> /\ Read' = Read
        /\ \A k : \/ Undone(k)' <=> Undone(k)
                  \/ /\ slot[w] # NoTask /\ k = slot[w].id
                     /\ step[w] # "dec" /\ step'[w] = "dec" /\ UNCHANGED slot
    BY <1>4, UndoneWork DEF Read
  <2>2. ASSUME ~error', pc # "abort", NEW c \in Read \cup {Root}, text' = [text EXCEPT ![c] = Whole(c)],
               IsContext(c) => ~Undone(c)', c = slot[w].id
        PROVE  \A k \in Read \cup {Root} : Written(k)'
    <3>1. text'[c] = Whole(c) /\ \A k \in Id : k # c => text'[k] = text[k]
      BY <1>1, <2>2 DEF TextInv
    <3>2. Whole(c)' = Whole(c) /\ (IsContext(c)' <=> IsContext(c))
      BY <2>1 DEF Whole, Part, Pieces, Below, Read, IsContext
    <3>3. Written(c)'
      BY <2>2, <3>1, <3>2 DEF Written
    <3>4. ASSUME NEW k \in Read \cup {Root}, k # c PROVE Written(k)'
      <4>1. Written(k) /\ text'[k] = text[k] /\ (Undone(k)' <=> Undone(k))
        BY <1>1, <1>2, <2>1, <2>2, <3>1, <3>4 DEF TextInv
      <4> QED BY <2>1, <4>1, WrittenSame
    <3> QED BY <3>3, <3>4
  <2>3. slot[w] # NoTask => slot[w] \in All /\ slot[w].id \in 0..Len(script)
    BY AllFacts DEF PlaceInv, Genuine, All, Pending
  <2>4. DOMAIN text' = Id /\ \A k \in Id : k > Len(script') => text'[k] = <<>>
    <3>1. CASE UNCHANGED text
      BY <2>1, <3>1 DEF TextInv
    <3>2. CASE slot[w] # NoTask /\ \E x : text' = [text EXCEPT ![slot[w].id] = x]
      <4>1. PICK x, c : text' = [text EXCEPT ![c] = x] /\ c = slot[w].id
        BY <3>2
      <4>2. c \in 0..Len(script) /\ ~(c > Len(script))
        BY <1>1, <2>3, <3>2, <4>1
      <4> QED BY <2>1, <4>1, <4>2 DEF TextInv
    <3> QED BY <1>4, <3>1, <3>2, WorkText
  <2>5. ASSUME ~error', pc # "abort" PROVE \A k \in Read \cup {Root} : Written(k)'
    <3>1. CASE RunRaw(w) \/ FinishMake(w)
      <4>1. PICK c : c = slot[w].id
        OBVIOUS
      <4>2. c \in Read /\ script[c].op \in {"raw", "make"} /\ text' = [text EXCEPT ![c] = Whole(c)]
        BY <2>5, <3>1, <4>1, BlockWritten
      <4>3. ~IsContext(c)
        BY <4>2, ReadIds DEF IsContext
      <4> QED BY <2>2, <2>5, <4>1, <4>2, <4>3
    <3>2. CASE JoinInputs(w)
      <4>1. PICK c : c = slot[w].id
        OBVIOUS
      <4>2. IsContext(c) /\ ~Undone(c)' /\ text' = [text EXCEPT ![c] = Whole(c)]
        BY <1>2, <2>5, <3>2, <4>1, JoinWritten
      <4>3. c \in Read \cup {Root}
        BY <4>2 DEF IsContext
      <4> QED BY <2>2, <2>5, <4>1, <4>2, <4>3
    <3>3. CASE UNCHANGED text /\ (step[w] # "dec" /\ step'[w] = "dec" => step[w] = "finish")
      <4>1. ASSUME NEW k \in Read \cup {Root}, ~(Undone(k)' <=> Undone(k))
            PROVE  k \in Read /\ ~IsContext(k) /\ script[k].op \notin {"raw", "make"}
        <5>1. slot[w] # NoTask /\ k = slot[w].id /\ step[w] = "finish"
          BY <2>1, <3>3, <4>1
        <5>2. slot[w] \in All /\ slot[w].priority = MAKE_DICT
          BY <2>3, <5>1 DEF ReadyInv
        <5>3. k \in Read /\ script[k].op \in {"defdir", "noextend"}
          BY <5>1, <5>2 DEF PlaceInv, Genuine, FINISH, MAKE_DICT
        <5> QED BY <5>3, ReadIds DEF IsContext
      <4>2. \A k \in Read \cup {Root} : Written(k) /\ text'[k] = text[k]
        BY <1>2, <2>5, <3>3 DEF TextInv
      <4> QED BY <2>1, <4>1, <4>2, WrittenSame
    <3> QED BY <1>4, <2>5, <3>1, <3>2, <3>3, TextWork
  <2> QED BY <2>1, <2>4, <2>5 DEF TextInv
<1>5. CASE UNCHANGED vars
  <2>1. UNCHANGED <<script, home, text, error, pc, current, s, held, queue, slot, lost, step>>
    BY <1>5 DEF vars, mainVars, heapVars, poolVars
  <2>2. All' = All /\ Open' = Open /\ Read' = Read
    BY <2>1 DEF All, Pending, Running, Open, Read
  <2>3. \A k : Undone(k)' <=> Undone(k)
    BY <2>1, <2>2 DEF Undone, Busy, Working
  <2> QED BY <2>1, <2>2, <2>3, WrittenSame DEF TextInv
<1> QED BY <1>3, <1>4, <1>5 DEF Next, Terminated

----------------------------------------------------------------------------
\* The output.

\* Main writes last: nothing is left to change what it wrote.
LEMMA NothingLeft ==
  ASSUME Core, pc \in {"deleted", "done"}
  PROVE  All = {} /\ \A w \in Worker : slot[w] = NoTask /\ step[w] = "idle"
<1> USE DEF Core
<1>1. All = {}
  <2>1. live = {}
    BY DEF TreeInv
  <2> QED BY <2>1 DEF PlaceInv, Genuine
<1>2. \A w \in Worker : slot[w] = NoTask
  BY <1>1, AllFacts DEF All, Pending
<1> QED BY <1>1, <1>2 DEF PoolType

\* No step breaks OutInv.
LEMMA OutStep ==
  ASSUME Core, OutInv, [Next]_vars
  PROVE  OutInv'
<1> USE DEF Core
<1>1. ASSUME pc = "done" PROVE UNCHANGED <<pc, output, error, text>>
  <2>1. queue = {} /\ held = NoTask /\ \A w \in Worker : step[w] = "idle"
    <3>1. All = {} /\ \A w \in Worker : step[w] = "idle"
      BY <1>1, NothingLeft
    <3> QED BY <3>1 DEF All, Pending
  <2>2. ~Main
    <3>1. ASSUME NEW d \in Directive PROVE ~ReadDirective(d)
      BY <1>1 DEF ReadDirective, Defdir, Noextend, Undefdir, Unnoextend, Raw, Make, NewContext, Reads, Reading
    <3>2. ~(EndContext \/ Test \/ BadCommand \/ Stray \/ Unwind \/ Unwound \/ Eof \/ EofAborts)
      BY <1>1 DEF EndContext, Test, BadCommand, Stray, Unwind, Unwound, Eof, EofAborts, Reading
    <3>3. ~(Enqueue \/ DeleteSub \/ Destruct \/ WriteOutput)
      BY <1>1, <2>1 DEF Enqueue, DeleteSub, Destruct, WriteOutput, Deleting
    <3> QED BY <3>1, <3>2, <3>3 DEF Main
  <2>3. ASSUME NEW w \in Worker PROVE ~Work(w)
    <3>1. ~Take(w)
      <4>1. Tops(queue) = {}
        BY <2>1 DEF Tops
      <4> QED BY <4>1 DEF Take
    <3> QED BY <2>1, <3>1 DEF Work, BuildDict, BuildThrows, FinishDict, RunRaw, StartMake, MatchStep,
                              FullStep, FinishMake, JoinInputs, JobsDec, Starts
  <2> QED BY <2>2, <2>3 DEF Next, Terminated, vars, mainVars, heapVars
<1>2. ASSUME pc # "done"
      PROVE  \/ output' = output /\ pc' # "done"
             \/ WriteOutput
  <2>1. CASE Main /\ ~WriteOutput
    <3>1. ASSUME NEW d \in Directive, ReadDirective(d) PROVE output' = output /\ pc' = pc
      BY <3>1 DEF ReadDirective, Defdir, Noextend, Undefdir, Unnoextend, Raw, Make, NewContext
    <3>2. CASE EndContext \/ Unwind \/ Unwound \/ Eof
      BY <1>2, <3>2 DEF EndContext, Unwind, Unwound, Eof, EndsCurrent, EndsRoot
    <3>3. CASE Test \/ BadCommand \/ Stray \/ EofAborts
      BY <3>3 DEF Test, BadCommand, Stray, EofAborts
    <3>4. CASE Enqueue \/ DeleteSub
      BY <1>2, <3>4 DEF Enqueue, DeleteSub
    <3>5. CASE Destruct
      BY <1>2, <3>5 DEF Destruct
    <3> QED BY <1>2, <2>1, <3>1, <3>2, <3>3, <3>4, <3>5 DEF Main
  <2>2. ASSUME NEW w \in Worker, Work(w) PROVE output' = output /\ pc' = pc
    <3> USE DEF mainVars
    <3>1. CASE Take(w) BY <3>1 DEF Take
    <3>2. CASE BuildDict(w) BY <3>2 DEF BuildDict
    <3>3. CASE BuildThrows(w) BY <3>3 DEF BuildThrows
    <3>4. CASE FinishDict(w) BY <3>4 DEF FinishDict
    <3>5. CASE RunRaw(w) BY <3>5 DEF RunRaw
    <3>6. CASE StartMake(w) BY <3>6 DEF StartMake
    <3>7. CASE MatchStep(w) BY <3>7 DEF MatchStep
    <3>8. CASE FullStep(w) BY <3>8 DEF FullStep
    <3>9. CASE FinishMake(w) BY <3>9 DEF FinishMake
    <3>10. CASE JoinInputs(w) BY <3>10 DEF JoinInputs
    <3>11. CASE JobsDec(w) BY <3>11 DEF JobsDec
    <3> QED BY <2>2, <3>1, <3>2, <3>3, <3>4, <3>5, <3>6, <3>7, <3>8, <3>9, <3>10, <3>11 DEF Work
  <2> QED BY <1>2, <2>1, <2>2 DEF Next, Terminated, vars, mainVars
<1>3. CASE WriteOutput
  BY <1>3 DEF WriteOutput, heapVars, OutInv
<1> QED BY <1>1, <1>2, <1>3 DEF OutInv

\* The layers hold at the start.
LEMMA MeaningInit ==
  ASSUME Init
  PROVE  OpenInv /\ NestInv /\ MeansInv /\ ContentInv /\ ScanInv /\ TextInv /\ OutInv
<1> USE DEF Init
<1>1. Len(s) = 0 /\ current = Root /\ Read = {} /\ All = {} /\ Root \in Id /\ New = 1 /\ Root = 0
  BY IdFacts DEF Read, All, Pending, Running, New, Root
<1>2. Open = {Root}
  BY <1>1 DEF Open
<1>3. OpenInv
  BY <1>1, <1>2 DEF OpenInv, Closed
<1>4. Rule!Around(home, Root) = {}
  <2>1. Tree(home)
    BY CoreInit, TreeOf DEF Core
  <2> QED BY <1>1, <2>1, AroundUnfolds
<1>5. NestInv
  BY <1>1, <1>2, <1>4 DEF NestInv, Ups
<1>6. MeansInv
  <2>1. \A op, A : Means(EmptyShelf, script, home, op, A, 1)
    <3>1. \A op, A : Defs(script, home, op, A, 1) = {}
      BY DEF Defs
    <3> QED BY <3>1 DEF Means, Keeps, InForce, Latest, EmptyShelf, Active
  <2>2. rpd[Root] = EmptyShelf /\ rnd[Root] = EmptyShelf
    BY <1>1
  <2> QED BY <1>1, <1>2, <2>1, <2>2 DEF MeansInv, Says
<1>7. ContentInv
  BY DEF ContentInv
<1>8. ScanInv
  BY DEF ScanInv
<1>9. TextInv
  <2>1. Undone(Root)
    BY <1>2 DEF Undone
  <2>2. Written(Root)
    BY <1>1, <2>1 DEF Written
  <2> QED BY <1>1, <2>2 DEF TextInv
<1>10. OutInv
  BY DEF OutInv
<1> QED BY <1>3, <1>5, <1>6, <1>7, <1>8, <1>9, <1>10

\* Whatever the threads did, the output is what the file means: see OutputIsMeaning.
THEOREM MeaningIsWritten == Spec => []OutputIsMeaning
<1> DEFINE All7 == OpenInv /\ NestInv /\ MeansInv /\ ContentInv /\ ScanInv /\ TextInv /\ OutInv
<1>1. Init => All7
  BY MeaningInit
<1>2. Core /\ All7 /\ [Next]_vars => All7'
  BY OpenStep, NestStep, MeansStep, ContentStep, ScanStep, TextStep, OutStep
<1>3. Core /\ All7 => OutputIsMeaning
  <2> SUFFICES ASSUME Core, TextInv, OutInv, pc = "done", ~error
               PROVE  output = Rule!Meaning(script, home)
    BY DEF OutputIsMeaning, OutInv
  <2>1. ~Undone(Root)
    BY NothingLeft DEF Undone, Busy
  <2>2. text[Root] = Whole(Root)
    BY <2>1 DEF TextInv, Written, IsContext
  <2> QED BY <2>2, WholeRoot DEF OutInv
<1> HIDE DEF All7
<1> QED BY <1>1, <1>2, <1>3, CoreAlways, PTL DEF Spec
=============================================================================
