----------------------------- MODULE TaskOrder -----------------------------
(***************************************************************************)
(* The order of threadPool::Task (include/threadPool.h): std::priority_queue *)
(* keeps the greatest task on top, so "lower" means "run later".           *)
(***************************************************************************)
EXTENDS Integers

\* (mutant) the comparison of the priorities reversed
LowerReversed(t1, t2) ==
  \/ t1.priority > t2.priority
  \/ t1.priority = t2.priority /\ t1.order > t2.order

\* operator<: a smaller priority is lower; at equal priority the later order is lower.
Lower(t1, t2) ==
  \/ t1.priority < t2.priority
  \/ t1.priority = t2.priority /\ t1.order > t2.order

\* What tasks.top() may return: two tasks of equal rank are in no specified order.
Tops(q) == {t \in q : \A u \in q : ~Lower(t, u)}
=============================================================================
