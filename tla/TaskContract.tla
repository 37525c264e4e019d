---------------------------- MODULE TaskContract ----------------------------
(***************************************************************************)
(* What task_executor (engine/core/tasks/task_scheduler.hpp) promises the   *)
(* services that submit work to it, without threads, a mutex or waiting:    *)
(* the life of a task, the order of lanes and prerequisites, and what a     *)
(* closed and a reclaimed scope mean.  TaskScheduler implements it.         *)
(***************************************************************************)
EXTENDS Integers

CONSTANTS MaxTasks, Descriptions, Scopes, NoLane, Blank

VARIABLES
    accepted,  \* tasks accepted so far: 1..accepted
    desc,      \* their descriptions
    state,     \* their states
    closed,    \* scopes that have been cancelled and accept nothing more
    gone       \* scopes reclaimed by close_scope or try_close_scope

vars == <<accepted, desc, state, closed, gone>>
Tasks == 1 .. MaxTasks
Ended == {"succeeded", "failed", "cancelled", "dependency_failed"}

Init ==
    /\ accepted = 0
    /\ desc = [t \in Tasks |-> Blank]
    /\ state = [t \in Tasks |-> "absent"]
    /\ closed = {} /\ gone = {}

(* What may happen to one task in one step. *)

\* It enters at the end of the line, in a scope nobody has closed.
Enter(t) ==
    /\ t = accepted + 1 /\ accepted' = t
    /\ state[t] = "absent" /\ state'[t] = "waiting"
    /\ desc'[t] \in Descriptions /\ desc'[t].scope \notin closed'

\* It starts: all its prerequisites have succeeded, its lane is clear of earlier tasks, and
\* no other task starts.
Start(t) ==
    /\ state[t] = "waiting" /\ state'[t] = "running"
    /\ \A p \in desc[t].prereqs : state[p] = "succeeded"
    /\ desc[t].lane # NoLane =>
           \A u \in 1 .. t - 1 : desc[u].lane = desc[t].lane => state'[u] \in Ended
    /\ \A u \in Tasks \ {t} : state'[u] = "running" => state[u] = "running"

\* Its end is its body's alone to decide once it runs.
Complete(t) == state[t] = "running" /\ state'[t] \in {"succeeded", "failed", "cancelled"}

Withdraw(t) == state[t] = "waiting" /\ state'[t] = "cancelled"

InheritFailure(t) ==
    /\ state[t] = "waiting" /\ state'[t] = "dependency_failed"
    /\ \E p \in desc[t].prereqs : state'[p] \in Ended \ {"succeeded"}

Move(t) ==
    \/ Enter(t)
    \/ desc'[t] = desc[t]
       /\ (state'[t] = state[t] \/ Start(t) \/ Complete(t) \/ Withdraw(t) \/ InheritFailure(t))

(* What may happen to a scope: closing leaves none of its tasks waiting, and it is given *)
(* back only when every task it ever had is over.                                        *)
Closing(s) == \A t \in Tasks : desc[t].scope = s => state'[t] # "waiting"
Reclaiming(s) == s \in closed /\ \A t \in Tasks : desc[t].scope = s => state[t] \in Ended

Next ==
    /\ accepted' \in {accepted, accepted + 1} /\ accepted' <= MaxTasks
    /\ \A t \in Tasks : Move(t)
    /\ closed \subseteq closed' /\ \A s \in closed' \ closed : s \in Scopes /\ Closing(s)
    /\ gone \subseteq gone' /\ \A s \in gone' \ gone : Reclaiming(s)

Spec == Init /\ [][Next]_vars
=============================================================================
