--------------------------- MODULE ContextGuards ---------------------------
(***************************************************************************)
(* What the monitors of a context and of its dictionaries promise: a wait  *)
(* is a guard.  MakeAsist uses jobs and ready this way; Monitors, with the *)
(* mutexes, the wait sets and the notifications, implements it.            *)
(***************************************************************************)
EXTENDS Integers

CONSTANTS Maker,  \* the tasks that fill a dictionary, and the dictionaries
          User,   \* the tasks that look words up
          Ender,  \* the _end task
          Subs    \* how many subcontexts the context has

VARIABLES jobs,   \* Context::jobs
          ready,  \* the dictionaries that are ready
          stage,  \* stage[t]: how far task t is
          uses,   \* uses[u]: the dictionary user u looks into
          left,   \* subcontexts not deleted
          freed   \* the context is deleted

vars == <<jobs, ready, stage, uses, left, freed>>

Task == Maker \cup User \cup {Ender}

Init == /\ jobs = Subs
        /\ ready = {}
        /\ stage = [t \in Task |-> "new"]
        /\ uses \in [User -> Maker]
        /\ left = Subs
        /\ freed = FALSE

Moves(t, from, to) == stage[t] = from /\ stage' = [stage EXCEPT ![t] = to]

Submit(t) == /\ Moves(t, "new", "submitted")
             /\ t = Ender => \A u \in Task \ {Ender} : stage[u] # "new"
             /\ jobs' = jobs + 1
             /\ UNCHANGED <<ready, uses, left, freed>>

Finish(m) == /\ Moves(m, "submitted", "passed")
             /\ ready' = ready \cup {m}
             /\ UNCHANGED <<jobs, uses, left, freed>>

LookUp(u) == /\ Moves(u, "submitted", "passed")
             /\ uses[u] \in ready
             /\ UNCHANGED <<jobs, ready, uses, left, freed>>

Join == /\ Moves(Ender, "submitted", "passed")
        /\ jobs = 1
        /\ UNCHANGED <<jobs, ready, uses, left, freed>>

Complete(t) == /\ Moves(t, "passed", "done")
               /\ jobs' = jobs - 1
               /\ UNCHANGED <<ready, uses, left, freed>>

DeleteSub == /\ stage[Ender] # "new"
             /\ left > 0
             /\ left' = left - 1
             /\ jobs' = jobs - 1
             /\ UNCHANGED <<ready, stage, uses, freed>>

Free == /\ left = 0 /\ jobs = 0 /\ ~freed
        /\ \A t \in Task : stage[t] = "done"
        /\ freed' = TRUE
        /\ UNCHANGED <<jobs, ready, stage, uses, left>>

Next == \/ \E t \in Task : Submit(t) \/ Complete(t)
        \/ \E m \in Maker : Finish(m)
        \/ \E u \in User : LookUp(u)
        \/ Join \/ DeleteSub \/ Free

Fairness == /\ \A t \in Task : WF_vars(Submit(t)) /\ WF_vars(Complete(t))
            /\ \A m \in Maker : WF_vars(Finish(m))
            /\ \A u \in User : WF_vars(LookUp(u))
            /\ WF_vars(Join) /\ WF_vars(DeleteSub) /\ WF_vars(Free)

Spec == Init /\ [][Next]_vars /\ Fairness
=============================================================================
