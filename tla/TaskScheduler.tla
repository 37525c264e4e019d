---------------------------- MODULE TaskScheduler ----------------------------
(***************************************************************************)
(* engine/core/tasks/task_scheduler.{hpp,cpp}: the one task scheduler of    *)
(* the engine.  Every public operation and every turn of a worker's loop    *)
(* runs under one mutex, so each is one action here; the places where the   *)
(* mutex is released (the body of a task, the waits on the condition        *)
(* variable `wake', the gaps between the critical sections of close_scope,  *)
(* try_close_scope and stop) are program counters.                          *)
(*                                                                          *)
(* Tasks, scopes and lanes are numbered by one growing `sequence' in the    *)
(* code.  Only the order of task ids matters, so tasks are 1..MaxTasks in   *)
(* order of acceptance and scopes and lanes are model values used once.     *)
(***************************************************************************)
EXTENDS Integers, FiniteSets

CONSTANTS
    MaxTasks,         \* bound: how many tasks are ever accepted
    Scopes, NoScope,  \* scope ids, and the id of no scope
    Lanes, NoLane,    \* serial queue ids, and `no serial queue'
    Workers,          \* the pool's threads; in cooperative mode, the host's drive loop
    Callers, Host,    \* the threads that call the scheduler; Host constructed it
    Modes,            \* execution modes the scheduler may be constructed with
    Capacity,         \* options.capacity
    BackgroundCap,    \* options.background_limit after the constructor's defaults
    StreakLimit,      \* normal tasks chosen in a row before a background one (8 in the code)
    PrereqLimit,      \* prerequisites of one task (32 in the code)
    Priorities, DueTimes,  \* what a description may ask for
    MaxClock          \* bound: the last tick of the steady clock

Tasks == 1 .. MaxTasks
Never == MaxClock + 1  \* time_point::max()

ASSUME SchedulerAssumption ==
    /\ MaxTasks \in Nat /\ MaxClock \in Nat /\ PrereqLimit \in Nat
    /\ Capacity \in Nat \ {0} /\ BackgroundCap \in Nat \ {0} /\ StreakLimit \in Nat \ {0}
    /\ Host \in Callers /\ NoScope \notin Scopes /\ NoLane \notin Lanes
    /\ IsFiniteSet(Workers)
    /\ Modes \subseteq {"thread_pool", "cooperative"}
    /\ Priorities \subseteq {"normal", "background"} /\ DueTimes \subseteq 0 .. MaxClock

VARIABLES
    mode,               \* options.mode
    scopeState,         \* `scopes': unused, open, closing (value true) or gone (erased)
    laneScope,          \* `lanes': the scope of a serial queue, NoScope if there is none
    accepted,           \* number of tasks ever accepted
    retained,           \* keys of the map `tasks'
    desc,               \* description of each accepted task
    state,              \* completion.outcome.state; outlives erasure (shared_ptr)
    cancellation,       \* tasks whose cancellation flag is set
    runningBackground,  \* running_background
    normalStreak,       \* normal_streak, saturated at StreakLimit
    bypassed,           \* history: selections in a row that passed a background candidate
    stopping,
    counters,           \* scheduler_stats without `rejected'
    clock,
    workerPc, current, deadline,  \* a worker's place, its task, its timed wait
    callerPc, callerScope         \* a caller's place and the scope it is closing

settings == <<mode, desc, accepted>>
shelves == <<scopeState, laneScope, retained>>
budget == <<runningBackground, normalStreak, bypassed>>
workerVars == <<workerPc, current, deadline>>
callerVars == <<callerPc, callerScope>>
vars == <<mode, scopeState, laneScope, accepted, retained, desc, state, cancellation,
          runningBackground, normalStreak, bypassed, stopping, counters, clock,
          workerPc, current, deadline, callerPc, callerScope>>

Terminal == {"succeeded", "failed", "cancelled", "dependency_failed"}
States == {"absent", "waiting", "running"} \cup Terminal

WorkerPlaces == {"selecting", "running", "waiting", "exited", "outside"}
CallerPlaces == {"ready", "checking", "waiting", "rechecking", "reclaiming", "erasing",
                 "joining", "stopped"}
Counters == [submitted : Nat, completed : Nat, failed : Nat, cancelled : Nat]
Description == [scope : Scopes, lane : Lanes \cup {NoLane}, prereqs : SUBSET Tasks,
                priority : Priorities, due : DueTimes]
Blank == [scope |-> NoScope, lane |-> NoLane, prereqs |-> {}, priority |-> "normal", due |-> 0]

Init ==
    /\ mode \in Modes
    /\ scopeState = [s \in Scopes |-> "unused"]
    /\ laneScope = [l \in Lanes |-> NoScope]
    /\ accepted = 0
    /\ retained = {}
    /\ desc = [t \in Tasks |-> Blank]
    /\ state = [t \in Tasks |-> "absent"]
    /\ cancellation = {}
    /\ runningBackground = 0
    /\ normalStreak = 0
    /\ bypassed = 0
    /\ stopping = FALSE
    /\ counters = [submitted |-> 0, completed |-> 0, failed |-> 0, cancelled |-> 0]
    /\ clock = 0
    /\ workerPc = [w \in Workers |-> IF mode = "thread_pool" THEN "selecting" ELSE "outside"]
    /\ current = [w \in Workers |-> 0]
    /\ deadline = [w \in Workers |-> Never]
    /\ callerPc = [c \in Callers |-> "ready"]
    /\ callerScope = [c \in Callers |-> NoScope]

-----------------------------------------------------------------------------
Exists(s) == s \in Scopes /\ scopeState[s] \in {"open", "closing"}
InScope(s) == {t \in retained : desc[t].scope = s}
ScopeIdle(s) == \A t \in InScope(s) : state[t] \in Terminal
Waiting == {t \in retained : state[t] = "waiting"}
Running == {t \in retained : state[t] = "running"}

\* The host's own thread is the drive loop of a cooperative scheduler, so the host
\* calls nothing blocking while it is inside run_ready.
Free(c) ==
    /\ callerPc[c] = "ready"
    /\ c = Host /\ mode = "cooperative" => \A w \in Workers : workerPc[w] = "outside"

\* wake.notify_all(): every thread blocked in a wait on `wake' gets up.
WorkersAwake == [w \in Workers |-> IF workerPc[w] = "waiting" THEN "selecting" ELSE workerPc[w]]
CallersAwake == [c \in Callers |-> IF callerPc[c] = "waiting" THEN "rechecking" ELSE callerPc[c]]

\* The statistics once some more tasks have succeeded, failed and been cancelled.
Counted(succeeded, failed, cancelled) ==
    [submitted |-> counters.submitted,
     completed |-> counters.completed + succeeded + failed + cancelled,
     failed |-> counters.failed + failed, cancelled |-> counters.cancelled + cancelled]

\* request_cancel() on every task of `targets': the flag is set on all of them, and those
\* still waiting are finished as cancelled.
Doomed(targets) == targets \cap Waiting
Cancelling(targets) ==
    /\ cancellation' = cancellation \cup targets
    /\ state' = [t \in Tasks |-> IF t \in Doomed(targets) THEN "cancelled" ELSE state[t]]
    /\ counters' = Counted(0, 0, Cardinality(Doomed(targets)))
CallerGoes(c, place, woken) ==
    callerPc' = [(IF woken THEN CallersAwake ELSE callerPc) EXCEPT ![c] = place]
WorkersHearNothing(woken) == workerPc' = workerPc
WorkersHear(woken) == workerPc' = IF woken THEN WorkersAwake ELSE workerPc
CallersHear(woken) == callerPc' = IF woken THEN CallersAwake ELSE callerPc

-----------------------------------------------------------------------------
(* Operations that return without blocking: any thread calls them, a task's *)
(* body included, so they name no caller.  A refused call changes nothing.  *)

MakeScope(s) ==
    /\ scopeState[s] = "unused" /\ ~stopping
    /\ Cardinality({r \in Scopes : Exists(r)}) < Capacity
    /\ scopeState' = [scopeState EXCEPT ![s] = "open"]
    /\ UNCHANGED <<settings, laneScope, retained, state, cancellation, budget, stopping,
                   counters, clock, workerVars, callerVars>>

\* Ids are never reused: a lane some task has named is not made again.
MakeSerialQueue(l, s) ==
    /\ laneScope[l] = NoScope /\ \A t \in Tasks : desc[t].lane # l
    /\ ~stopping /\ scopeState[s] = "open"
    /\ Cardinality({k \in Lanes : laneScope[k] # NoScope}) < Capacity
    /\ laneScope' = [laneScope EXCEPT ![l] = s]
    /\ UNCHANGED <<settings, scopeState, retained, state, cancellation, budget, stopping,
                   counters, clock, workerVars, callerVars>>

AcceptableInClosingScope(d) ==
    /\ Exists(d.scope) /\ ~stopping
    /\ Cardinality(retained) < Capacity
    /\ d.lane # NoLane => laneScope[d.lane] = d.scope
    /\ Cardinality(d.prereqs) <= PrereqLimit /\ d.prereqs \subseteq retained
Acceptable(d) ==
    /\ scopeState[d.scope] = "open" /\ ~stopping
    /\ Cardinality(retained) < Capacity
    /\ d.lane # NoLane => laneScope[d.lane] = d.scope
    /\ Cardinality(d.prereqs) <= PrereqLimit /\ d.prereqs \subseteq retained

Submit(d) ==
    LET t == accepted + 1 IN
    /\ accepted < MaxTasks
    /\ Acceptable(d)
    /\ accepted' = t
    /\ desc' = [desc EXCEPT ![t] = d]
    /\ state' = [state EXCEPT ![t] = "waiting"]
    /\ retained' = retained \cup {t}
    /\ counters' = [counters EXCEPT !.submitted = @ + 1]
    /\ WorkersHear(TRUE) /\ CallersHear(TRUE)
    /\ UNCHANGED <<mode, scopeState, laneScope, cancellation, budget, stopping, clock,
                   current, deadline, callerScope>>

Cancel(t) ==
    /\ t \in Waiting \cup Running
    /\ Cancelling({t})
    /\ WorkersHear(Doomed({t}) # {}) /\ CallersHear(Doomed({t}) # {})
    /\ UNCHANGED <<settings, shelves, budget, stopping, clock, current, deadline, callerScope>>

\* cancel_scope() up to the caller's next place; close_scope and try_close_scope begin with it.
CancelScopeStep(s) ==
    /\ Exists(s)
    /\ scopeState' = [scopeState EXCEPT ![s] = "closing"]
    /\ Cancelling(InScope(s))
    /\ WorkersHear(Doomed(InScope(s)) # {})

CancelScope(s) ==
    /\ CancelScopeStep(s)
    /\ CallersHear(Doomed(InScope(s)) # {})
    /\ UNCHANGED <<settings, laneScope, retained, budget, stopping, clock, current, deadline,
                   callerScope>>

\* poll() hands out the oldest terminal tasks of a scope, as many as the budget allows.
Poll(s, batch) ==
    LET finished == {t \in InScope(s) : state[t] \in Terminal} IN
    /\ Exists(s)
    /\ batch # {} /\ batch \subseteq finished
    /\ \A t \in batch, u \in finished : u < t => u \in batch
    /\ retained' = retained \ batch
    /\ UNCHANGED <<settings, scopeState, laneScope, state, cancellation, budget, stopping,
                   counters, clock, workerVars, callerVars>>

RequestStopSilently ==
    /\ stopping' = TRUE
    /\ Cancelling(retained)
    /\ WorkersHear(FALSE)
RequestStopStep ==
    /\ stopping' = TRUE
    /\ Cancelling(retained)
    /\ WorkersHear(TRUE)

RequestStop ==
    /\ ~stopping  \* a second request changes nothing
    /\ RequestStopStep /\ CallersHear(TRUE)
    /\ UNCHANGED <<settings, shelves, budget, clock, current, deadline, callerScope>>

-----------------------------------------------------------------------------
(* close_scope, try_close_scope and stop: several critical sections each.   *)

CloseBegin(c, s) ==
    /\ Free(c) /\ CancelScopeStep(s)
    /\ CallerGoes(c, "checking", Doomed(InScope(s)) # {})
    /\ callerScope' = [callerScope EXCEPT ![c] = s]
    /\ UNCHANGED <<settings, laneScope, retained, budget, stopping, clock, current, deadline>>

\* Locked again: the scope may have been reclaimed by another thread (then false is
\* returned), and the wait returns at once when the scope is idle.
CloseCheck(c) ==
    LET s == callerScope[c] IN
    /\ callerPc[c] = "checking"
    /\ CallerGoes(c, IF ~Exists(s) THEN "ready"
                     ELSE IF ScopeIdle(s) THEN "reclaiming" ELSE "waiting", FALSE)
    /\ callerScope' = [callerScope EXCEPT ![c] = IF Exists(s) THEN s ELSE NoScope]
    /\ UNCHANGED <<settings, shelves, state, cancellation, budget, stopping, counters, clock,
                   workerVars>>

\* Woken: only the predicate is evaluated again.
CloseRecheck(c) ==
    /\ callerPc[c] = "rechecking"
    /\ CallerGoes(c, IF ScopeIdle(callerScope[c]) THEN "reclaiming" ELSE "waiting", FALSE)
    /\ UNCHANGED <<settings, shelves, state, cancellation, budget, stopping, counters, clock,
                   workerVars, callerScope>>

\* try_close_scope's own cancel_scope, called by the user or at the end of close_scope.
TryCloseBegin(c, s) ==
    /\ Free(c) /\ CancelScopeStep(s)
    /\ CallerGoes(c, "erasing", Doomed(InScope(s)) # {})
    /\ callerScope' = [callerScope EXCEPT ![c] = s]
    /\ UNCHANGED <<settings, laneScope, retained, budget, stopping, clock, current, deadline>>

ReclaimBegin(c) ==
    LET s == callerScope[c] IN
    /\ callerPc[c] = "reclaiming"
    /\ IF Exists(s)
       THEN CancelScopeStep(s) /\ CallerGoes(c, "erasing", Doomed(InScope(s)) # {})
       ELSE CallerGoes(c, "erasing", FALSE)
            /\ UNCHANGED <<scopeState, cancellation, state, counters, workerPc>>
    /\ UNCHANGED <<settings, laneScope, retained, budget, stopping, clock, current, deadline,
                   callerScope>>

ErasableAlways(s) == Exists(s)
Erasable(s) == Exists(s) /\ ScopeIdle(s)

Erase(c) ==
    LET s == callerScope[c] IN
    /\ callerPc[c] = "erasing"
    /\ IF Erasable(s)
       THEN /\ retained' = retained \ InScope(s)
            /\ laneScope' = [l \in Lanes |-> IF laneScope[l] = s THEN NoScope ELSE laneScope[l]]
            /\ scopeState' = [scopeState EXCEPT ![s] = "gone"]
       ELSE UNCHANGED shelves
    /\ CallerGoes(c, "ready", FALSE)
    /\ callerScope' = [callerScope EXCEPT ![c] = NoScope]
    /\ UNCHANGED <<settings, state, cancellation, budget, stopping, counters, clock, workerVars>>

StopBegin ==
    /\ Free(Host) /\ RequestStopStep
    /\ CallerGoes(Host, "joining", TRUE)
    /\ UNCHANGED <<settings, shelves, budget, clock, current, deadline, callerScope>>

\* threads.join(): a cooperative scheduler has no threads.
StopJoin ==
    /\ callerPc[Host] = "joining"
    /\ mode = "thread_pool" => \A w \in Workers : workerPc[w] = "exited"
    /\ CallerGoes(Host, "stopped", FALSE)
    /\ UNCHANGED <<settings, shelves, state, cancellation, budget, stopping, counters, clock,
                   workerVars, callerScope>>

-----------------------------------------------------------------------------
(* The worker's loop, and run_ready() of a cooperative scheduler.           *)
(*                                                                          *)
(* select() walks the tasks in id order and finishes those with a failed    *)
(* prerequisite on the way, so a chain of them fails in one walk: `failed'  *)
(* is the one set that contains exactly its own consequences (prerequisites *)
(* have smaller ids).                                                       *)

DependencyFailed(failed) ==
    failed = {t \in Waiting : \E p \in desc[t].prereqs :
                  state[p] \in Terminal \ {"succeeded"} \/ p \in failed}

DependenciesMetWhenStarted(t) == \A p \in desc[t].prereqs : state[p] \in Terminal \cup {"running"}
DependenciesMet(t) == \A p \in desc[t].prereqs : state[p] \in Terminal

SerialBlockedByRunning(t, failed) ==
    \E u \in Running : u < t /\ desc[t].lane # NoLane /\ desc[u].lane = desc[t].lane
SerialBlocked(t, failed) ==
    /\ desc[t].lane # NoLane
    /\ \E u \in retained \ failed :
           u < t /\ desc[u].lane = desc[t].lane /\ state[u] \notin Terminal

Unblocked(failed) ==
    {t \in Waiting \ failed : DependenciesMet(t) /\ ~SerialBlocked(t, failed)}
Due(failed, priority) ==
    {t \in Unblocked(failed) : desc[t].due <= clock /\ desc[t].priority = priority}
Normals(failed) == Due(failed, "normal")
Backgrounds(failed) ==
    IF runningBackground < BackgroundCap THEN Due(failed, "background") ELSE {}

PreferNormalAlways(failed) == Normals(failed) # {}
PreferNormal(failed) ==
    Normals(failed) # {} /\ (Backgrounds(failed) = {} \/ normalStreak < StreakLimit)

Oldest(tasks, t) == t \in tasks /\ \A u \in tasks : t <= u

\* The tasks `failed' are finished and t starts on worker w; t = 0 starts nothing.
FailThenStart(failed, t) ==
    /\ state' = [u \in Tasks |-> IF u \in failed THEN "dependency_failed"
                                 ELSE IF u = t THEN "running" ELSE state[u]]
    /\ counters' = Counted(0, Cardinality(failed), 0)
    /\ CallersHear(failed # {})

WorkerGoes(w, place, woken) ==
    workerPc' = [(IF woken THEN WorkersAwake ELSE workerPc) EXCEPT ![w] = place]

Selecting(w, failed) ==
    /\ workerPc[w] = "selecting" /\ ~stopping
    /\ DependencyFailed(failed)

StartNormal(w, failed, t) ==
    /\ Selecting(w, failed)
    /\ PreferNormal(failed) /\ Oldest(Normals(failed), t)
    /\ FailThenStart(failed, t) /\ WorkerGoes(w, "running", failed # {})
    /\ current' = [current EXCEPT ![w] = t]
    /\ deadline' = [deadline EXCEPT ![w] = Never]
    /\ normalStreak' = IF normalStreak < StreakLimit THEN normalStreak + 1 ELSE normalStreak
    /\ bypassed' = IF Backgrounds(failed) = {} THEN 0 ELSE bypassed + 1
    /\ UNCHANGED <<settings, shelves, cancellation, runningBackground, stopping, clock,
                   callerScope>>

StartBackground(w, failed, t) ==
    /\ Selecting(w, failed)
    /\ ~PreferNormal(failed) /\ Oldest(Backgrounds(failed), t)
    /\ FailThenStart(failed, t) /\ WorkerGoes(w, "running", failed # {})
    /\ current' = [current EXCEPT ![w] = t]
    /\ deadline' = [deadline EXCEPT ![w] = Never]
    /\ runningBackground' = runningBackground + 1
    /\ normalStreak' = 0 /\ bypassed' = 0
    /\ UNCHANGED <<settings, shelves, cancellation, stopping, clock, callerScope>>

\* next_due: the first due time among the tasks that only time holds back.
NextDue(failed, due) ==
    LET later == {desc[t].due : t \in {u \in Unblocked(failed) : desc[u].due > clock}}
    IN due \in later \cup {Never} /\ \A d \in later : due <= d

\* Nothing to start: a pool's worker waits on `wake', until next_due if there is one;
\* run_ready returns.
SelectNothing(w, failed, due) ==
    /\ Selecting(w, failed)
    /\ Normals(failed) = {} /\ Backgrounds(failed) = {}
    /\ FailThenStart(failed, 0)
    /\ WorkerGoes(w, IF mode = "thread_pool" THEN "waiting" ELSE "outside", failed # {})
    /\ NextDue(failed, due) /\ deadline' = [deadline EXCEPT ![w] = due]
    /\ UNCHANGED <<settings, shelves, cancellation, budget, stopping, clock, current, callerScope>>

\* `while (!current) if (stopping) return', and the same test of run_ready.
WorkerExit(w) ==
    /\ workerPc[w] = "selecting" /\ stopping
    /\ WorkerGoes(w, IF mode = "thread_pool" THEN "exited" ELSE "outside", FALSE)
    /\ UNCHANGED <<settings, shelves, state, cancellation, budget, stopping, counters, clock,
                   current, deadline, callerVars>>

\* The body has returned (an exception or an illegal state counts as failed), and execute()
\* locks again to finish() the task.  A cancellation that came meanwhile changes nothing.
BudgetAfter(t) ==
    IF desc[t].priority = "background" THEN runningBackground - 1 ELSE runningBackground

Finish(w, outcome) ==
    LET t == current[w] IN
    /\ workerPc[w] = "running"
    /\ outcome \in {"succeeded", "failed", "cancelled"}
    /\ state' = [state EXCEPT ![t] = outcome]
    /\ counters' = CASE outcome = "succeeded" -> Counted(1, 0, 0)
                      [] outcome = "failed" -> Counted(0, 1, 0)
                      [] outcome = "cancelled" -> Counted(0, 0, 1)
    /\ runningBackground' = BudgetAfter(t)
    /\ WorkerGoes(w, "selecting", TRUE) /\ CallersHear(TRUE)
    /\ current' = [current EXCEPT ![w] = 0]
    /\ UNCHANGED <<settings, shelves, cancellation, normalStreak, bypassed, stopping, clock,
                   deadline, callerScope>>

\* wait_until reaches its time point.
TimedOut(w) ==
    /\ workerPc[w] = "waiting" /\ deadline[w] <= clock
    /\ WorkerGoes(w, "selecting", FALSE)
    /\ UNCHANGED <<settings, shelves, state, cancellation, budget, stopping, counters, clock,
                   current, deadline, callerVars>>

\* A wait on a condition variable may return for no reason.
SpuriousWake(w) ==
    /\ workerPc[w] = "waiting" /\ deadline[w] > clock
    /\ WorkerGoes(w, "selecting", FALSE)
    /\ UNCHANGED <<settings, shelves, state, cancellation, budget, stopping, counters, clock,
                   current, deadline, callerVars>>

\* run_ready(): the host enters, and leaves when its budget of tasks or time is spent,
\* which may be at any turn of its loop.
DriveBegin(w) ==
    /\ mode = "cooperative" /\ callerPc[Host] = "ready" /\ ~stopping
    /\ \A v \in Workers : workerPc[v] = "outside"
    /\ WorkerGoes(w, "selecting", FALSE)
    /\ UNCHANGED <<settings, shelves, state, cancellation, budget, stopping, counters, clock,
                   current, deadline, callerVars>>
DriveBudgetSpent(w) ==
    /\ mode = "cooperative" /\ workerPc[w] = "selecting"
    /\ WorkerGoes(w, "outside", FALSE)
    /\ UNCHANGED <<settings, shelves, state, cancellation, budget, stopping, counters, clock,
                   current, deadline, callerVars>>

Tick ==
    /\ clock < MaxClock
    /\ clock' = clock + 1
    /\ UNCHANGED <<settings, shelves, state, cancellation, budget, stopping, counters,
                   workerVars, callerVars>>

\* The scheduler has been stopped and nobody is inside it.
Stopped ==
    /\ callerPc[Host] = "stopped" /\ \A c \in Callers \ {Host} : callerPc[c] = "ready"
    /\ UNCHANGED vars

Select(w) ==
    \E failed \in SUBSET Waiting :
        \/ \E due \in DueTimes \cup {Never} : SelectNothing(w, failed, due)
        \/ \E t \in Waiting : StartNormal(w, failed, t) \/ StartBackground(w, failed, t)

Worker(w) ==
    \/ Select(w) \/ WorkerExit(w) \/ TimedOut(w) \/ SpuriousWake(w)
    \/ \E outcome \in {"succeeded", "failed", "cancelled"} : Finish(w, outcome)
    \/ DriveBegin(w) \/ DriveBudgetSpent(w)

Caller(c) ==
    \/ \E s \in Scopes : CloseBegin(c, s) \/ TryCloseBegin(c, s)
    \/ CloseCheck(c) \/ CloseRecheck(c) \/ ReclaimBegin(c) \/ Erase(c)

Request ==
    \/ \E s \in Scopes : MakeScope(s) \/ CancelScope(s)
    \/ \E s \in Scopes, l \in Lanes : MakeSerialQueue(l, s)
    \/ \E d \in Description : Submit(d)
    \/ \E t \in Tasks : Cancel(t)
    \/ \E s \in Scopes, batch \in SUBSET retained : Poll(s, batch)
    \/ RequestStop

Next ==
    \/ Request \/ Tick \/ Stopped
    \/ \E w \in Workers : Worker(w)
    \/ \E c \in Callers : Caller(c)
    \/ StopBegin \/ StopJoin

Spec == Init /\ [][Next]_vars

\* The threads of a pool keep running and bodies return (they are asked to honour the
\* cancellation flag); a thread inside close_scope, try_close_scope or stop gets the mutex;
\* time passes.  Nobody is obliged to call anything.
Fairness ==
    /\ \A w \in Workers :
           /\ WF_vars(Select(w)) /\ WF_vars(WorkerExit(w)) /\ WF_vars(TimedOut(w))
           /\ WF_vars(\E outcome \in {"succeeded", "failed", "cancelled"} : Finish(w, outcome))
    /\ \A c \in Callers : /\ WF_vars(CloseCheck(c)) /\ WF_vars(CloseRecheck(c))
                          /\ WF_vars(ReclaimBegin(c)) /\ WF_vars(Erase(c))
    /\ WF_vars(StopJoin) /\ WF_vars(Tick)
FairSpec == Spec /\ Fairness

-----------------------------------------------------------------------------
(* Properties *)

\* Every variable has its type, and no more tasks are kept than the capacity allows.
TypeOK ==
    /\ mode \in Modes
    /\ scopeState \in [Scopes -> {"unused", "open", "closing", "gone"}]
    /\ laneScope \in [Lanes -> Scopes \cup {NoScope}]
    /\ accepted \in 0 .. MaxTasks
    /\ retained \in SUBSET (1 .. accepted) /\ Cardinality(retained) <= Capacity
    /\ desc \in [Tasks -> Description \cup {Blank}]
    /\ state \in [Tasks -> States]
    /\ cancellation \in SUBSET Tasks
    /\ runningBackground \in Int /\ normalStreak \in 0 .. StreakLimit /\ bypassed \in Nat
    /\ stopping \in BOOLEAN
    /\ counters \in Counters
    /\ clock \in 0 .. MaxClock
    /\ workerPc \in [Workers -> WorkerPlaces]
    /\ current \in [Workers -> 0 .. MaxTasks]
    /\ deadline \in [Workers -> 0 .. Never]
    /\ callerPc \in [Callers -> CallerPlaces]
    /\ callerScope \in [Callers -> Scopes \cup {NoScope}]

Started(t) == state[t] \in {"running", "succeeded", "failed"}

\* A serial queue runs its tasks one at a time and in order of submission: once a body has
\* started, every earlier task of the lane has ended (select(), any_of over smaller ids),
\* whatever was cancelled, polled away or failed in between.
SerialOrder ==
    \A t, u \in Tasks :
        t < u /\ desc[u].lane # NoLane /\ desc[t].lane = desc[u].lane /\ Started(u)
            => state[t] \in Terminal

\* A body runs only if each of its prerequisites has succeeded, also after those have been
\* polled away and their handles are dead (the task holds them by shared_ptr).
DependencyOrder ==
    \A t \in Tasks : Started(t) => \A p \in desc[t].prereqs : state[p] = "succeeded"

\* No task is run by two workers, and none is left `running' without a worker: select() and
\* finish() always pair up, also when a cancellation or a stop comes between them.
OneWorkerPerTask ==
    /\ \A w \in Workers : workerPc[w] = "running" <=> current[w] # 0
    /\ \A w \in Workers : workerPc[w] = "running" => state[current[w]] = "running"
    /\ \A v, w \in Workers : v # w /\ current[v] = current[w] => current[v] = 0
    /\ \A t \in Tasks : state[t] = "running" => \E w \in Workers : current[w] = t

\* Bodies start only in the order submissions, lanes and prerequisites prescribe, and each
\* is one worker's.
ExecutionOrder == SerialOrder /\ DependencyOrder /\ OneWorkerPerTask

\* running_background counts the background tasks that run, and never exceeds its limit, so
\* a pool with a limit below its size always keeps a worker for normal tasks; and normal
\* tasks pass a background task that could start at most StreakLimit times in a row.
BackgroundServed ==
    /\ runningBackground =
           Cardinality({t \in Tasks : state[t] = "running" /\ desc[t].priority = "background"})
    /\ runningBackground <= BackgroundCap
    /\ bypassed <= StreakLimit

\* No wakeup is lost: a worker asleep has nothing to start now, and will be up no later than
\* the next task falls due; a thread asleep in close_scope has a task to wait for; nobody
\* sleeps through a stop.
NoLostWakeup ==
    /\ \A w \in Workers : workerPc[w] = "waiting" =>
           /\ ~stopping
           /\ \A failed \in SUBSET Waiting : DependencyFailed(failed) =>
                  /\ failed = {}
                  /\ \A t \in Unblocked(failed) :
                         \/ desc[t].due >= deadline[w]
                         \/ desc[t].priority = "background" /\ runningBackground >= BackgroundCap
    /\ \A c \in Callers : callerPc[c] = "waiting" => ~ScopeIdle(callerScope[c])

\* Cancelling a scope or stopping reaches every task: none is left waiting, those running
\* have been told, and nothing is submitted behind the cancellation's back.
CancelReaches ==
    \A t \in retained : stopping \/ scopeState[desc[t].scope] # "open" =>
        state[t] # "waiting" /\ (state[t] = "running" => t \in cancellation)

\* After close_scope or try_close_scope has reclaimed a scope, no task of it runs or waits
\* and neither a task nor a lane of it is kept: what the bodies borrowed may be destroyed.
\* When stop() has returned no worker is inside a body and no task will run any more.  And
\* the host of a cooperative scheduler is never blocked by close_scope, for nobody but
\* itself could finish the task it would wait for.
GoneIsQuiet ==
    /\ \A s \in Scopes : scopeState[s] = "gone" =>
           /\ InScope(s) = {} /\ \A l \in Lanes : laneScope[l] # s
           /\ \A t \in Tasks : desc[t].scope = s => state[t] \in Terminal
    /\ callerPc[Host] = "stopped" =>
           /\ \A w \in Workers : workerPc[w] \in {"exited", "outside"}
           /\ \A t \in 1 .. accepted : state[t] \in Terminal
    /\ mode = "cooperative" => callerPc[Host] \notin {"waiting", "rechecking"}

\* The scheduler keeps the contract its clients rely on: see TaskContract.
Contract == INSTANCE TaskContract WITH
    Descriptions <- Description,
    closed <- {s \in Scopes : scopeState[s] \in {"closing", "gone"}},
    gone <- {s \in Scopes : scopeState[s] = "gone"}
KeepsContract == Contract!Spec

\* Every task a pool has accepted ends, whatever it waits for: a lane, prerequisites, its
\* due time, the background budget, or a stop; and close_scope and stop return once the
\* bodies they wait for have returned.
EverythingEnds ==
    mode = "thread_pool" =>
        /\ \A t \in Tasks : state[t] = "waiting" ~> state[t] \in Terminal
        /\ \A c \in Callers : callerPc[c] = "checking" ~> callerPc[c] = "ready"
        /\ callerPc[Host] = "joining" ~> callerPc[Host] = "stopped"
=============================================================================
