---------------------------- MODULE PriorityPool ----------------------------
(***************************************************************************)
(* What threadPool promises its user, without lock, condition variable or  *)
(* notification: a bag of tasks, workers that always take a top task, no   *)
(* task lost, no task run twice, and a closed pool whose workers leave     *)
(* only when the bag is empty.                                             *)
(***************************************************************************)
EXTENDS TaskOrder

CONSTANTS Worker, Task, NoTask  \* NoTask is not a Task

VARIABLES queue,  \* tasks submitted and not taken
          slot,   \* slot[w]: the task w runs, or NoTask
          open,   \* FALSE once the destructor has begun
          staff   \* workers that have not returned

vars == <<queue, slot, open, staff>>

Init == /\ queue = {}
        /\ slot = [w \in Worker |-> NoTask]
        /\ open = TRUE
        /\ staff = Worker

Submit(t) == /\ open
             /\ t \notin queue
             /\ queue' = queue \cup {t}
             /\ UNCHANGED <<slot, open, staff>>

Take(w) == /\ w \in staff
           /\ slot[w] = NoTask
           /\ \E t \in Tops(queue) : /\ slot' = [slot EXCEPT ![w] = t]
                                     /\ queue' = queue \ {t}
           /\ UNCHANGED <<open, staff>>

Complete(w) == /\ slot[w] # NoTask
               /\ slot' = [slot EXCEPT ![w] = NoTask]
               /\ UNCHANGED <<queue, open, staff>>

Close == /\ open
         /\ open' = FALSE
         /\ UNCHANGED <<queue, slot, staff>>

Leave(w) == /\ w \in staff
            /\ ~open
            /\ queue = {}
            /\ slot[w] = NoTask
            /\ staff' = staff \ {w}
            /\ UNCHANGED <<queue, slot, open>>

Next == \/ \E t \in Task : Submit(t)
        \/ Close
        \/ \E w \in Worker : Take(w) \/ Complete(w) \/ Leave(w)

Fairness == /\ WF_vars(\E w \in Worker : Take(w))
            /\ \A w \in Worker : WF_vars(Complete(w)) /\ WF_vars(Leave(w))

Spec == Init /\ [][Next]_vars /\ Fairness
=============================================================================
