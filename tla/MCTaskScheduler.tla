--------------------------- MODULE MCTaskScheduler ---------------------------
(* TaskScheduler on small instances: see the .cfg files for the sizes. *)
EXTENDS TaskScheduler, TLC

CONSTANTS s1, s2, l1, w1, w2, host, user

\* The threads of the pool are alike, and so are the scopes.
Symmetry == Permutations(Workers) \cup Permutations(Scopes)

\* The order's instance: the serial queue is made before the first task, and the last task
\* has prerequisites only when no task is on the queue.
SmallOrder ==
    /\ accepted = 0 \/ laneScope[l1] # NoScope \/ scopeState[s1] = "gone"
    /\ desc[3].prereqs = {} \/ \A t \in Tasks : desc[t].lane = NoLane
=============================================================================
