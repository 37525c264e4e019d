------------------------- MODULE TaskSchedulerProofs -------------------------
(***************************************************************************)
(* The scheduler's safety for every number of tasks, workers, callers,      *)
(* scopes and lanes.                                                        *)
(***************************************************************************)
EXTENDS TaskScheduler, FiniteSetTheorems, WellFoundedInduction, TLAPS

(* Sets of kept tasks are finite, so their cardinalities are numbers. *)
LEMMA KeptFinite ==
    ASSUME TypeOK, NEW S \in SUBSET retained
    PROVE  IsFiniteSet(S) /\ Cardinality(S) \in Nat /\ Cardinality(S) <= Cardinality(retained)
<1>1. IsFiniteSet(1 .. accepted) BY FS_Interval DEF TypeOK
<1>2. IsFiniteSet(retained) BY <1>1, FS_Subset DEF TypeOK
<1> QED BY <1>2, FS_Subset, FS_CardinalityType

(* Cancelling tasks of the table keeps their state, the flags and the counters typed. *)
LEMMA CancellingType ==
    ASSUME TypeOK, SchedulerAssumption, NEW S \in SUBSET retained, Cancelling(S)
    PROVE  /\ cancellation' \in SUBSET Tasks /\ state' \in [Tasks -> States]
           /\ counters' \in Counters
<1>1. retained \subseteq Tasks BY DEF TypeOK, Tasks, SchedulerAssumption
<1>2. Cardinality(Doomed(S)) \in Nat BY KeptFinite DEF Doomed
<1>3. state' \in [Tasks -> States] BY DEF TypeOK, Cancelling, States, Terminal
<1>4. counters' \in Counters
    BY <1>2 DEF TypeOK, Cancelling, Counted, Counters
<1> QED BY <1>1, <1>3, <1>4 DEF TypeOK, Cancelling

(* Nobody's place leaves its type when threads are woken or one of them moves. *)
LEMMA PlacesType ==
    ASSUME TypeOK
    PROVE  /\ \A woken \in BOOLEAN : WorkersHear(woken) => workerPc' \in [Workers -> WorkerPlaces]
           /\ \A woken \in BOOLEAN : CallersHear(woken) => callerPc' \in [Callers -> CallerPlaces]
           /\ \A w \in Workers, place \in WorkerPlaces, woken \in BOOLEAN :
                  WorkerGoes(w, place, woken) => workerPc' \in [Workers -> WorkerPlaces]
           /\ \A c \in Callers, place \in CallerPlaces, woken \in BOOLEAN :
                  CallerGoes(c, place, woken) => callerPc' \in [Callers -> CallerPlaces]
<1>1. workerPc \in [Workers -> WorkerPlaces] /\ WorkersAwake \in [Workers -> WorkerPlaces]
    BY DEF TypeOK, WorkersAwake, WorkerPlaces
<1>2. callerPc \in [Callers -> CallerPlaces] /\ CallersAwake \in [Callers -> CallerPlaces]
    BY DEF TypeOK, CallersAwake, CallerPlaces
<1> QED BY <1>1, <1>2 DEF WorkersHear, CallersHear, WorkerGoes, CallerGoes

(* Failing tasks of the table and starting one keeps the states and counters typed. *)
LEMMA FailThenStartType ==
    ASSUME TypeOK, SchedulerAssumption, NEW failed \in SUBSET Waiting, NEW t, FailThenStart(failed, t)
    PROVE  /\ state' \in [Tasks -> States]
           /\ counters' \in Counters
           /\ callerPc' \in [Callers -> CallerPlaces]
<1>1. Cardinality(failed) \in Nat BY KeptFinite DEF Waiting
<1>2. state' \in [Tasks -> States] BY DEF TypeOK, FailThenStart, States, Terminal
<1>3. counters' \in Counters
    BY <1>1 DEF TypeOK, FailThenStart, Counted, Counters
<1> QED BY <1>2, <1>3, PlacesType DEF FailThenStart

(* The capacity test keeps the table within its capacity. *)
LEMMA SubmitType == ASSUME TypeOK, SchedulerAssumption, NEW d \in Description, Submit(d)
                    PROVE  TypeOK'
<1>1. accepted + 1 \in Tasks /\ accepted' \in 0 .. MaxTasks
    BY DEF TypeOK, Submit, Tasks, SchedulerAssumption
<1>2. retained' \in SUBSET (1 .. accepted') /\ Cardinality(retained') <= Capacity
  <2>1. IsFiniteSet(retained) /\ Cardinality(retained) \in Nat BY KeptFinite
  <2>2. Cardinality(retained') <= Cardinality(retained) + 1 /\ Cardinality(retained') \in Nat
    <3> DEFINE t == accepted + 1
    <3>1. retained' = retained \cup {t} BY DEF Submit
    <3>2. Cardinality(retained \cup {t}) =
              IF t \in retained THEN Cardinality(retained) ELSE Cardinality(retained) + 1
        BY <2>1, FS_AddElement
    <3> QED BY <2>1, <3>1, <3>2
  <2>3. Cardinality(retained) < Capacity BY DEF Submit, Acceptable
  <2>4. retained' \in SUBSET (1 .. accepted') BY <1>1 DEF TypeOK, Submit, SchedulerAssumption
  <2> QED BY <2>1, <2>2, <2>3, <2>4 DEF SchedulerAssumption
<1>3. desc' \in [Tasks -> Description \cup {Blank}] BY DEF TypeOK, Submit
<1>4. state' \in [Tasks -> States] BY DEF TypeOK, Submit, States
<1>5. counters' \in Counters BY DEF TypeOK, Submit, Counters
<1>6. workerPc' \in [Workers -> WorkerPlaces] /\ callerPc' \in [Callers -> CallerPlaces]
    BY PlacesType DEF Submit
<1> QED BY <1>1, <1>2, <1>3, <1>4, <1>5, <1>6 DEF TypeOK, Submit, budget

(* An operation that cancels tasks and wakes threads keeps the types. *)
LEMMA RequestType == ASSUME TypeOK, SchedulerAssumption, Request PROVE TypeOK'
<1>1. ASSUME NEW s \in Scopes, MakeScope(s) PROVE TypeOK'
    BY <1>1 DEF TypeOK, MakeScope, settings, budget, workerVars, callerVars
<1>2. ASSUME NEW l \in Lanes, NEW s \in Scopes, MakeSerialQueue(l, s) PROVE TypeOK'
    BY <1>2 DEF TypeOK, MakeSerialQueue, settings, budget, workerVars, callerVars
<1>3. ASSUME NEW d \in Description, Submit(d) PROVE TypeOK' BY <1>3, SubmitType
<1>4. ASSUME NEW t \in Tasks, Cancel(t) PROVE TypeOK'
  <2>1. {t} \in SUBSET retained BY <1>4 DEF Cancel, Waiting, Running
  <2>2. /\ cancellation' \in SUBSET Tasks /\ state' \in [Tasks -> States]
        /\ counters' \in Counters BY <1>4, <2>1, CancellingType DEF Cancel
  <2> QED BY <1>4, <2>2, PlacesType DEF TypeOK, Cancel, settings, shelves, budget
<1>5. ASSUME NEW s \in Scopes, CancelScope(s) PROVE TypeOK'
  <2>1. InScope(s) \in SUBSET retained BY DEF InScope
  <2>2. /\ cancellation' \in SUBSET Tasks /\ state' \in [Tasks -> States]
        /\ counters' \in Counters
      BY <1>5, <2>1, CancellingType DEF CancelScope, CancelScopeStep
  <2> QED BY <1>5, <2>2, PlacesType DEF TypeOK, CancelScope, CancelScopeStep, settings, budget
<1>6. ASSUME NEW s \in Scopes, NEW batch \in SUBSET retained, Poll(s, batch) PROVE TypeOK'
  <2>1. Cardinality(retained') <= Capacity
    <3>1. retained' \in SUBSET retained BY <1>6 DEF Poll
    <3>2. Cardinality(retained') \in Nat /\ Cardinality(retained') <= Cardinality(retained)
        BY <3>1, KeptFinite
    <3>3. Cardinality(retained) \in Nat BY KeptFinite
    <3> QED BY <3>2, <3>3 DEF TypeOK, SchedulerAssumption
  <2> QED BY <1>6, <2>1 DEF TypeOK, Poll, settings, budget, workerVars, callerVars
<1>7. ASSUME RequestStop PROVE TypeOK'
  <2>1. /\ cancellation' \in SUBSET Tasks /\ state' \in [Tasks -> States]
        /\ counters' \in Counters
      BY <1>7, CancellingType DEF RequestStop, RequestStopStep
  <2> QED BY <1>7, <2>1, PlacesType DEF TypeOK, RequestStop, RequestStopStep, settings, shelves, budget
<1> QED BY <1>1, <1>2, <1>3, <1>4, <1>5, <1>6, <1>7 DEF Request

(* So do the steps of a thread inside close_scope, try_close_scope or stop. *)
LEMMA CallerType == ASSUME TypeOK, SchedulerAssumption, NEW c \in Callers, Caller(c) PROVE TypeOK'
<1> USE DEF CallerPlaces
<1>1. ASSUME NEW s \in Scopes, CancelScopeStep(s)
      PROVE  /\ cancellation' \in SUBSET Tasks /\ state' \in [Tasks -> States]
             /\ counters' \in Counters
             /\ scopeState' \in [Scopes -> {"unused", "open", "closing", "gone"}]
             /\ workerPc' \in [Workers -> WorkerPlaces]
  <2>1. InScope(s) \in SUBSET retained BY DEF InScope
  <2> QED BY <1>1, <2>1, CancellingType, PlacesType DEF CancelScopeStep, TypeOK
<1>2. ASSUME NEW s \in Scopes, CloseBegin(c, s) PROVE TypeOK'
  <2>1. callerPc' \in [Callers -> CallerPlaces] BY <1>2, PlacesType DEF CloseBegin
  <2> QED BY <1>1, <1>2, <2>1 DEF TypeOK, CloseBegin, settings, budget
<1>3. ASSUME NEW s \in Scopes, TryCloseBegin(c, s) PROVE TypeOK'
  <2>1. callerPc' \in [Callers -> CallerPlaces] BY <1>3, PlacesType DEF TryCloseBegin
  <2> QED BY <1>1, <1>3, <2>1 DEF TypeOK, TryCloseBegin, settings, budget
<1>4. ASSUME CloseCheck(c) PROVE TypeOK'
  <2>1. callerPc' \in [Callers -> CallerPlaces] BY <1>4, PlacesType DEF CloseCheck
  <2> QED BY <1>4, <2>1 DEF TypeOK, CloseCheck, settings, shelves, budget, workerVars
<1>5. ASSUME CloseRecheck(c) PROVE TypeOK'
  <2>1. callerPc' \in [Callers -> CallerPlaces] BY <1>5, PlacesType DEF CloseRecheck
  <2> QED BY <1>5, <2>1 DEF TypeOK, CloseRecheck, settings, shelves, budget, workerVars
<1>6. ASSUME ReclaimBegin(c) PROVE TypeOK'
  <2>1. callerPc' \in [Callers -> CallerPlaces] BY <1>6, PlacesType DEF ReclaimBegin
  <2>2. CASE Exists(callerScope[c])
    <3>1. callerScope[c] \in Scopes BY <2>2 DEF Exists
    <3> QED BY <1>1, <1>6, <2>1, <2>2, <3>1 DEF TypeOK, ReclaimBegin, settings, budget
  <2>3. CASE ~Exists(callerScope[c])
      BY <1>6, <2>1, <2>3 DEF TypeOK, ReclaimBegin, settings, budget
  <2> QED BY <2>2, <2>3
<1>7. ASSUME Erase(c) PROVE TypeOK'
  <2>1. callerPc' \in [Callers -> CallerPlaces] BY <1>7, PlacesType DEF Erase
  <2>2. retained' \in SUBSET retained BY <1>7 DEF Erase, shelves
  <2>3. Cardinality(retained') <= Capacity
    <3>1. Cardinality(retained') \in Nat /\ Cardinality(retained') <= Cardinality(retained)
        BY <2>2, KeptFinite
    <3>2. Cardinality(retained) \in Nat BY KeptFinite
    <3> QED BY <3>1, <3>2 DEF TypeOK, SchedulerAssumption
  <2>4. /\ scopeState' \in [Scopes -> {"unused", "open", "closing", "gone"}]
        /\ laneScope' \in [Lanes -> Scopes \cup {NoScope}]
      BY <1>7 DEF TypeOK, Erase, shelves
  <2>5. callerScope' \in [Callers -> Scopes \cup {NoScope}] BY <1>7 DEF TypeOK, Erase
  <2>6. UNCHANGED <<settings, state, cancellation, budget, stopping, counters, clock, workerVars>>
      BY <1>7 DEF Erase
  <2> QED BY <2>1, <2>2, <2>3, <2>4, <2>5, <2>6 DEF TypeOK, settings, budget, workerVars
<1> QED BY <1>2, <1>3, <1>4, <1>5, <1>6, <1>7 DEF Caller

(* And those of a worker. *)
LEMMA WorkerType == ASSUME TypeOK, SchedulerAssumption, NEW w \in Workers, Worker(w) PROVE TypeOK'
<1> USE DEF WorkerPlaces
<1>1. ASSUME NEW failed \in SUBSET Waiting, NEW due \in DueTimes \cup {Never},
             SelectNothing(w, failed, due)
      PROVE  TypeOK'
  <2>1. due \in 0 .. Never BY DEF SchedulerAssumption, Never
  <2>2. workerPc' \in [Workers -> WorkerPlaces] BY <1>1, PlacesType DEF SelectNothing
  <2> QED BY <1>1, <2>1, <2>2, FailThenStartType
          DEF TypeOK, SelectNothing, settings, shelves, budget
<1>2. ASSUME NEW failed \in SUBSET Waiting, NEW t \in Waiting, StartNormal(w, failed, t)
      PROVE  TypeOK'
  <2>1. t \in 0 .. MaxTasks /\ Never \in 0 .. Never
      BY DEF TypeOK, Waiting, SchedulerAssumption, Never
  <2>2. workerPc' \in [Workers -> WorkerPlaces] BY <1>2, PlacesType DEF StartNormal
  <2>3. normalStreak' \in 0 .. StreakLimit /\ bypassed' \in Nat
      BY <1>2 DEF TypeOK, StartNormal, SchedulerAssumption
  <2> QED BY <1>2, <2>1, <2>2, <2>3, FailThenStartType
          DEF TypeOK, StartNormal, settings, shelves
<1>3. ASSUME NEW failed \in SUBSET Waiting, NEW t \in Waiting, StartBackground(w, failed, t)
      PROVE  TypeOK'
  <2>1. t \in 0 .. MaxTasks /\ Never \in 0 .. Never
      BY DEF TypeOK, Waiting, SchedulerAssumption, Never
  <2>2. workerPc' \in [Workers -> WorkerPlaces] BY <1>3, PlacesType DEF StartBackground
  <2>3. runningBackground' \in Int /\ normalStreak' \in 0 .. StreakLimit /\ bypassed' \in Nat
      BY <1>3 DEF TypeOK, StartBackground, SchedulerAssumption
  <2> QED BY <1>3, <2>1, <2>2, <2>3, FailThenStartType
          DEF TypeOK, StartBackground, settings, shelves
<1>4. ASSUME NEW outcome \in {"succeeded", "failed", "cancelled"}, Finish(w, outcome)
      PROVE  TypeOK'
  <2>1. workerPc' \in [Workers -> WorkerPlaces] /\ callerPc' \in [Callers -> CallerPlaces]
      BY <1>4, PlacesType DEF Finish
  <2>2. state' \in [Tasks -> States] BY <1>4 DEF TypeOK, Finish, States, Terminal
  <2>3. counters' \in Counters
      BY <1>4, Counted(1, 0, 0) \in Counters, Counted(0, 1, 0) \in Counters,
         Counted(0, 0, 1) \in Counters DEF Finish, Counted, Counters, TypeOK
  <2>4. runningBackground' \in Int BY <1>4 DEF TypeOK, Finish, BudgetAfter
  <2>5. current' \in [Workers -> 0 .. MaxTasks] BY <1>4 DEF TypeOK, Finish, SchedulerAssumption
  <2> QED BY <1>4, <2>1, <2>2, <2>3, <2>4, <2>5 DEF TypeOK, Finish, settings, shelves
<1>5. ASSUME \/ WorkerExit(w) \/ TimedOut(w) \/ SpuriousWake(w) \/ DriveBegin(w)
             \/ DriveBudgetSpent(w)
      PROVE  TypeOK'
  <2>1. workerPc' \in [Workers -> WorkerPlaces]
      BY <1>5, PlacesType DEF WorkerExit, TimedOut, SpuriousWake, DriveBegin, DriveBudgetSpent
  <2> QED BY <1>5, <2>1 DEF TypeOK, WorkerExit, TimedOut, SpuriousWake, DriveBegin,
          DriveBudgetSpent, settings, shelves, budget, callerVars
<1> QED BY <1>1, <1>2, <1>3, <1>4, <1>5 DEF Worker, Select

(* Every step keeps the types. *)
LEMMA StepType == ASSUME TypeOK, SchedulerAssumption, [Next]_vars PROVE TypeOK'
<1>1. CASE Request BY <1>1, RequestType
<1>2. ASSUME NEW w \in Workers, Worker(w) PROVE TypeOK' BY <1>2, WorkerType
<1>3. ASSUME NEW c \in Callers, Caller(c) PROVE TypeOK' BY <1>3, CallerType
<1>4. CASE StopBegin
  <2>1. /\ cancellation' \in SUBSET Tasks /\ state' \in [Tasks -> States]
        /\ counters' \in Counters
      BY <1>4, CancellingType DEF StopBegin, RequestStopStep
  <2>2. callerPc' \in [Callers -> CallerPlaces] /\ workerPc' \in [Workers -> WorkerPlaces]
      BY <1>4, PlacesType DEF StopBegin, RequestStopStep, SchedulerAssumption, CallerPlaces
  <2> QED BY <1>4, <2>1, <2>2 DEF TypeOK, StopBegin, RequestStopStep, settings, shelves, budget
<1>5. CASE StopJoin
  <2>1. callerPc' \in [Callers -> CallerPlaces]
      BY <1>5, PlacesType DEF StopJoin, SchedulerAssumption, CallerPlaces
  <2> QED BY <1>5, <2>1 DEF TypeOK, StopJoin, settings, shelves, budget, workerVars
<1>6. CASE Tick
    BY <1>6 DEF TypeOK, Tick, SchedulerAssumption, settings, shelves, budget, workerVars, callerVars
<1>7. CASE Stopped \/ UNCHANGED vars BY <1>7 DEF TypeOK, Stopped, vars
<1> QED BY <1>1, <1>2, <1>3, <1>4, <1>5, <1>6, <1>7 DEF Next

(* Every variable keeps its type and the table its capacity, for any number of tasks, *)
(* threads, scopes and lanes (TypeOK).                                                *)
THEOREM TypeCorrect == Spec => []TypeOK
<1> USE SchedulerAssumption
<1>1. Init => TypeOK
  <2> SUFFICES ASSUME Init PROVE TypeOK  OBVIOUS
  <2>1. retained \in SUBSET (1 .. accepted) /\ Cardinality(retained) <= Capacity
      BY FS_EmptySet DEF Init, SchedulerAssumption
  <2>2. desc \in [Tasks -> Description \cup {Blank}] /\ state \in [Tasks -> States]
      BY DEF Init, States
  <2>3. counters \in Counters BY DEF Init, Counters
  <2>4. workerPc \in [Workers -> WorkerPlaces] /\ callerPc \in [Callers -> CallerPlaces]
      BY DEF Init, WorkerPlaces, CallerPlaces
  <2>5. deadline \in [Workers -> 0 .. Never] BY DEF Init, Never, SchedulerAssumption
  <2>6. /\ accepted \in 0 .. MaxTasks /\ clock \in 0 .. MaxClock
        /\ runningBackground \in Int /\ normalStreak \in 0 .. StreakLimit /\ bypassed \in Nat
        /\ current \in [Workers -> 0 .. MaxTasks]
      BY DEF Init, SchedulerAssumption
  <2>7. /\ scopeState \in [Scopes -> {"unused", "open", "closing", "gone"}]
        /\ laneScope \in [Lanes -> Scopes \cup {NoScope}]
        /\ callerScope \in [Callers -> Scopes \cup {NoScope}]
        /\ mode \in Modes /\ cancellation \in SUBSET Tasks /\ stopping \in BOOLEAN
      BY DEF Init
  <2> QED BY <2>1, <2>2, <2>3, <2>4, <2>5, <2>6, <2>7 DEF TypeOK
<1>2. TypeOK /\ [Next]_vars => TypeOK' BY StepType
<1> QED BY <1>1, <1>2, PTL DEF Spec

(***************************************************************************)
(* Lanes, prerequisites, cancellation and scopes.  The many actions of the  *)
(* scheduler do only six things to its tasks: StepEffect says which, and    *)
(* the inductive invariant is shown to survive each of them.               *)
(***************************************************************************)

RunnersKept == \A w \in Workers : workerPc'[w] = "running" <=> workerPc[w] = "running"

\* Nothing happens to any task; scopes may be made.
Quiet ==
    /\ UNCHANGED <<accepted, desc, state, retained, current, cancellation, stopping>>
    /\ RunnersKept
    /\ \A s \in Scopes : scopeState'[s] # scopeState[s] =>
           scopeState[s] = "unused" /\ scopeState'[s] = "open"

\* Tasks are cancelled: one, those of a scope being closed, or all of them.
CancelEffect(S) ==
    /\ S \subseteq retained
    /\ cancellation' = cancellation \cup S
    /\ state' = [t \in Tasks |-> IF t \in S \cap Waiting THEN "cancelled" ELSE state[t]]
    /\ UNCHANGED <<accepted, desc, retained, current>> /\ RunnersKept
    /\ \A s \in Scopes : scopeState'[s] # scopeState[s] =>
           scopeState[s] = "open" /\ scopeState'[s] = "closing" /\ InScope(s) \subseteq S
    /\ stopping' # stopping => stopping' = TRUE /\ S = retained

SubmitEffect(d) ==
    /\ d \in Description /\ accepted + 1 \in Tasks /\ Acceptable(d)
    /\ accepted' = accepted + 1
    /\ desc' = [desc EXCEPT ![accepted + 1] = d]
    /\ state' = [state EXCEPT ![accepted + 1] = "waiting"]
    /\ retained' = retained \cup {accepted + 1}
    /\ UNCHANGED <<scopeState, current, cancellation, stopping>> /\ RunnersKept

\* Ended tasks leave the table, with their scope when it is reclaimed.
RemoveEffect(B) ==
    /\ B \subseteq retained /\ \A t \in B : state[t] \in Terminal
    /\ retained' = retained \ B
    /\ UNCHANGED <<accepted, desc, state, current, cancellation, stopping>> /\ RunnersKept
    /\ \A s \in Scopes : scopeState'[s] # scopeState[s] =>
           scopeState'[s] = "gone" /\ Exists(s) /\ InScope(s) \subseteq B

\* Tasks fail with their prerequisites, and task t starts on worker w.
FailEffect(failed) ==
    /\ failed \subseteq Waiting /\ DependencyFailed(failed) /\ ~stopping
    /\ state' = [u \in Tasks |-> IF u \in failed THEN "dependency_failed" ELSE state[u]]
    /\ UNCHANGED <<accepted, desc, retained, current, cancellation, stopping, scopeState>>
    /\ RunnersKept

StartEffect(w, failed, t) ==
    /\ failed \subseteq Waiting /\ DependencyFailed(failed) /\ ~stopping
    /\ t \in Waiting \ failed /\ DependenciesMet(t) /\ ~SerialBlocked(t, failed)
    /\ state' = [u \in Tasks |-> IF u \in failed THEN "dependency_failed"
                                 ELSE IF u = t THEN "running" ELSE state[u]]
    /\ workerPc[w] = "selecting" /\ workerPc'[w] = "running"
    /\ \A v \in Workers \ {w} : workerPc'[v] = "running" <=> workerPc[v] = "running"
    /\ current' = [current EXCEPT ![w] = t]
    /\ UNCHANGED <<accepted, desc, retained, cancellation, stopping, scopeState>>

FinishEffect(w, outcome) ==
    /\ workerPc[w] = "running" /\ workerPc'[w] = "selecting"
    /\ outcome \in {"succeeded", "failed", "cancelled"}
    /\ state' = [state EXCEPT ![current[w]] = outcome]
    /\ \A v \in Workers \ {w} : workerPc'[v] = "running" <=> workerPc[v] = "running"
    /\ current' = [current EXCEPT ![w] = 0]
    /\ UNCHANGED <<accepted, desc, retained, cancellation, stopping, scopeState>>

Effect ==
    \/ Quiet
    \/ \E S \in SUBSET retained : CancelEffect(S)
    \/ \E d \in Description : SubmitEffect(d)
    \/ \E B \in SUBSET retained : RemoveEffect(B)
    \/ \E failed \in SUBSET Waiting : FailEffect(failed)
    \/ \E w \in Workers, failed \in SUBSET Waiting, t \in Waiting : StartEffect(w, failed, t)
    \/ \E w \in Workers, outcome \in {"succeeded", "failed", "cancelled"} : FinishEffect(w, outcome)

(* Waking threads, or moving one between places outside a body, keeps the runners. *)
LEMMA WakingKeepsRunners ==
    ASSUME TypeOK
    PROVE  /\ \A woken \in BOOLEAN : WorkersHear(woken) => RunnersKept
           /\ UNCHANGED workerPc => RunnersKept
           /\ \A w \in Workers, woken \in BOOLEAN, place \in WorkerPlaces :
                  WorkerGoes(w, place, woken) =>
                      /\ workerPc'[w] = place
                      /\ \A v \in Workers \ {w} :
                             workerPc'[v] = "running" <=> workerPc[v] = "running"
BY DEF TypeOK, WorkersHear, WorkersAwake, RunnersKept, WorkerGoes, WorkerPlaces

(* cancel_scope is a cancellation of the scope's tasks. *)
LEMMA CancelScopeEffect ==
    ASSUME TypeOK, NEW s \in Scopes, CancelScopeStep(s),
           UNCHANGED <<accepted, desc, retained, current, stopping>>
    PROVE  Effect
<1> DEFINE S == InScope(s)
<1>1. S \in SUBSET retained BY DEF InScope
<1>2. RunnersKept BY WakingKeepsRunners DEF CancelScopeStep
<1>3. \A r \in Scopes : scopeState'[r] # scopeState[r] =>
          scopeState[r] = "open" /\ scopeState'[r] = "closing" /\ r = s
    BY DEF CancelScopeStep, Exists, TypeOK
<1>4. cancellation' = cancellation \cup S
      /\ state' = [t \in Tasks |-> IF t \in S \cap Waiting THEN "cancelled" ELSE state[t]]
    BY DEF CancelScopeStep, Cancelling, Doomed
<1>5. CancelEffect(S) BY <1>1, <1>2, <1>3, <1>4 DEF CancelEffect
<1> QED BY <1>1, <1>5 DEF Effect

LEMMA RequestEffect == ASSUME TypeOK, SchedulerAssumption, Request PROVE Effect
<1>1. ASSUME NEW s \in Scopes, MakeScope(s) PROVE Effect
  <2>1. Quiet
      BY <1>1, WakingKeepsRunners DEF TypeOK, MakeScope, settings, workerVars, Quiet
  <2> QED BY <2>1 DEF Effect
<1>2. ASSUME NEW l \in Lanes, NEW s \in Scopes, MakeSerialQueue(l, s) PROVE Effect
  <2>1. Quiet BY <1>2, WakingKeepsRunners DEF MakeSerialQueue, settings, workerVars, Quiet
  <2> QED BY <2>1 DEF Effect
<1>3. ASSUME NEW d \in Description, Submit(d) PROVE Effect
  <2>1. accepted + 1 \in Tasks BY <1>3 DEF TypeOK, Submit, Tasks, SchedulerAssumption
  <2>2. SubmitEffect(d) BY <1>3, <2>1, WakingKeepsRunners DEF Submit, SubmitEffect
  <2> QED BY <2>2 DEF Effect
<1>4. ASSUME NEW t \in Tasks, Cancel(t) PROVE Effect
  <2>1. {t} \in SUBSET retained BY <1>4 DEF Cancel, Waiting, Running
  <2>2. RunnersKept BY <1>4, WakingKeepsRunners DEF Cancel
  <2>3. UNCHANGED <<accepted, desc, retained, current, scopeState, stopping>>
      BY <1>4 DEF Cancel, settings, shelves
  <2>4. CancelEffect({t})
      BY <1>4, <2>1, <2>2, <2>3 DEF Cancel, Cancelling, Doomed, CancelEffect
  <2> QED BY <2>1, <2>4 DEF Effect
<1>5. ASSUME NEW s \in Scopes, CancelScope(s) PROVE Effect
    BY <1>5, CancelScopeEffect DEF CancelScope, settings
<1>6. ASSUME NEW s \in Scopes, NEW batch \in SUBSET retained, Poll(s, batch) PROVE Effect
  <2>1. RemoveEffect(batch)
      BY <1>6, WakingKeepsRunners DEF Poll, InScope, RemoveEffect, settings, workerVars
  <2> QED BY <2>1 DEF Effect
<1>7. ASSUME RequestStop PROVE Effect
  <2>1. RunnersKept BY <1>7, WakingKeepsRunners DEF RequestStop, RequestStopStep
  <2>2. UNCHANGED <<accepted, desc, retained, current, scopeState>>
      BY <1>7 DEF RequestStop, settings, shelves
  <2>3. CancelEffect(retained)
      BY <1>7, <2>1, <2>2 DEF RequestStop, RequestStopStep, Cancelling, Doomed, CancelEffect
  <2> QED BY <2>3 DEF Effect
<1> QED BY <1>1, <1>2, <1>3, <1>4, <1>5, <1>6, <1>7 DEF Request

LEMMA CallerEffect == ASSUME TypeOK, SchedulerAssumption, NEW c \in Callers, Caller(c) PROVE Effect
<1>1. ASSUME NEW s \in Scopes, CloseBegin(c, s) \/ TryCloseBegin(c, s) PROVE Effect
    BY <1>1, CancelScopeEffect DEF CloseBegin, TryCloseBegin, settings
<1>2. ASSUME CloseCheck(c) \/ CloseRecheck(c) PROVE Effect
  <2>1. Quiet
      BY <1>2, WakingKeepsRunners DEF CloseCheck, CloseRecheck, settings, shelves, workerVars, Quiet
  <2> QED BY <2>1 DEF Effect
<1>3. ASSUME ReclaimBegin(c) PROVE Effect
  <2>1. CASE Exists(callerScope[c])
      BY <1>3, <2>1, CancelScopeEffect DEF ReclaimBegin, Exists, settings
  <2>2. CASE ~Exists(callerScope[c])
    <3>1. Quiet BY <1>3, <2>2, WakingKeepsRunners DEF ReclaimBegin, settings, Quiet
    <3> QED BY <3>1 DEF Effect
  <2> QED BY <2>1, <2>2
<1>4. ASSUME Erase(c) PROVE Effect
  <2>1. CASE Erasable(callerScope[c])
    <3> DEFINE s == callerScope[c]
    <3>1. InScope(s) \in SUBSET retained BY DEF InScope
    <3>2. RemoveEffect(InScope(s))
        BY <1>4, <2>1, <3>1, WakingKeepsRunners
        DEF TypeOK, Erase, Erasable, ScopeIdle, RemoveEffect, settings, workerVars
    <3> QED BY <3>1, <3>2 DEF Effect
  <2>2. CASE ~Erasable(callerScope[c])
    <3>1. Quiet
        BY <1>4, <2>2, WakingKeepsRunners DEF Erase, settings, shelves, workerVars, Quiet
    <3> QED BY <3>1 DEF Effect
  <2> QED BY <2>1, <2>2
<1> QED BY <1>1, <1>2, <1>3, <1>4 DEF Caller

LEMMA WorkerEffect == ASSUME TypeOK, SchedulerAssumption, NEW w \in Workers, Worker(w) PROVE Effect
<1> USE DEF WorkerPlaces
<1>1. ASSUME NEW failed \in SUBSET Waiting, NEW due \in DueTimes \cup {Never},
             SelectNothing(w, failed, due)
      PROVE  Effect
  <2>1. RunnersKept
      BY <1>1, WakingKeepsRunners DEF SelectNothing, Selecting, RunnersKept
  <2>2. 0 \notin Tasks BY DEF Tasks
  <2>3. state' = [u \in Tasks |-> IF u \in failed THEN "dependency_failed" ELSE state[u]]
      BY <1>1, <2>2 DEF SelectNothing, FailThenStart
  <2>4. FailEffect(failed)
      BY <1>1, <2>1, <2>3 DEF SelectNothing, Selecting, FailEffect, settings, shelves
  <2> QED BY <2>4 DEF Effect
<1>2. ASSUME NEW failed \in SUBSET Waiting, NEW t \in Waiting,
             StartNormal(w, failed, t) \/ StartBackground(w, failed, t)
      PROVE  Effect
  <2>1. t \in Unblocked(failed)
      BY <1>2 DEF StartNormal, StartBackground, Oldest, Normals, Backgrounds, Due
  <2>2. /\ workerPc'[w] = "running"
        /\ \A v \in Workers \ {w} : workerPc'[v] = "running" <=> workerPc[v] = "running"
      BY <1>2, WakingKeepsRunners DEF StartNormal, StartBackground
  <2>3. StartEffect(w, failed, t)
      BY <1>2, <2>1, <2>2 DEF StartNormal, StartBackground, Selecting, FailThenStart, Unblocked,
         StartEffect, settings, shelves
  <2> QED BY <2>3 DEF Effect
<1>3. ASSUME NEW outcome \in {"succeeded", "failed", "cancelled"}, Finish(w, outcome)
      PROVE  Effect
  <2>1. FinishEffect(w, outcome)
      BY <1>3, WakingKeepsRunners DEF Finish, FinishEffect, settings, shelves
  <2> QED BY <2>1 DEF Effect
<1>4. ASSUME \/ WorkerExit(w) \/ TimedOut(w) \/ SpuriousWake(w) \/ DriveBegin(w)
             \/ DriveBudgetSpent(w)
      PROVE  Effect
  <2>1. RunnersKept
      BY <1>4, WakingKeepsRunners DEF WorkerExit, TimedOut, SpuriousWake, DriveBegin,
         DriveBudgetSpent, RunnersKept
  <2>2. Quiet
      BY <1>4, <2>1 DEF WorkerExit, TimedOut, SpuriousWake, DriveBegin, DriveBudgetSpent,
         settings, shelves, Quiet
  <2> QED BY <2>2 DEF Effect
<1> QED BY <1>1, <1>2, <1>3, <1>4 DEF Worker, Select

(* Every step does one of the six things, or nothing, to the tasks. *)
LEMMA StepEffect == ASSUME TypeOK, SchedulerAssumption, [Next]_vars PROVE Effect
<1>1. CASE Request BY <1>1, RequestEffect
<1>2. ASSUME NEW w \in Workers, Worker(w) PROVE Effect BY <1>2, WorkerEffect
<1>3. ASSUME NEW c \in Callers, Caller(c) PROVE Effect BY <1>3, CallerEffect
<1>4. CASE StopBegin
  <2>1. CancelEffect(retained)
      BY <1>4, WakingKeepsRunners DEF StopBegin, RequestStopStep, Cancelling, Doomed,
         CancelEffect, settings, shelves
  <2> QED BY <2>1 DEF Effect
<1>5. CASE StopJoin \/ Tick \/ Stopped \/ UNCHANGED vars
  <2>1. Quiet
      BY <1>5, WakingKeepsRunners DEF StopJoin, Tick, Stopped, vars, settings, shelves,
         workerVars, Quiet
  <2> QED BY <2>1 DEF Effect
<1> QED BY <1>1, <1>2, <1>3, <1>4, <1>5 DEF Next

-----------------------------------------------------------------------------
\* What the table and the descriptions have in common.
Ledger ==
    /\ \A t \in Tasks : state[t] = "absent" <=> t > accepted
    /\ \A t \in Tasks : state[t] \in {"waiting", "running"} => t \in retained
    /\ \A t \in Tasks : desc[t].prereqs \subseteq 1 .. t - 1
    /\ \A t \in Tasks : t <= accepted => desc[t] \in Description

\* The inductive invariant: the order of lanes and prerequisites survives a step only because
\* each running task has its own worker, and every task not yet over is still in the table
\* that select() walks.
OrderInv == Ledger /\ OneWorkerPerTask /\ SerialOrder /\ DependencyOrder

LEMMA PrereqsAreTasks == ASSUME OrderInv PROVE \A t \in Tasks : desc[t].prereqs \subseteq Tasks
BY SchedulerAssumption DEF OrderInv, Ledger, Tasks, SchedulerAssumption

LEMMA QuietOrder == ASSUME OrderInv, Quiet PROVE OrderInv'
BY DEF OrderInv, Quiet, RunnersKept, Ledger, OneWorkerPerTask, SerialOrder, DependencyOrder, Started

LEMMA RemoveOrder == ASSUME OrderInv, TypeOK, NEW B \in SUBSET retained, RemoveEffect(B) PROVE OrderInv'
<1>1. Ledger' BY DEF OrderInv, RemoveEffect, Ledger, Terminal
<1> QED BY <1>1 DEF OrderInv, RemoveEffect, RunnersKept, OneWorkerPerTask, SerialOrder,
        DependencyOrder, Started

LEMMA CancelOrder == ASSUME OrderInv, TypeOK, NEW S \in SUBSET retained, CancelEffect(S) PROVE OrderInv'
<1>1. \A t \in Tasks : \/ state'[t] = state[t]
                       \/ state[t] = "waiting" /\ state'[t] = "cancelled"
    BY DEF CancelEffect, Waiting, TypeOK
<1>2. UNCHANGED <<accepted, desc, retained, current>> /\ RunnersKept BY DEF CancelEffect
<1>3. Ledger' BY <1>1, <1>2 DEF OrderInv, Ledger
<1>4. OneWorkerPerTask'
  <2>1. \A w \in Workers : workerPc[w] = "running" => current[w] \in Tasks
      BY DEF OrderInv, OneWorkerPerTask, TypeOK, Tasks
  <2> QED BY <1>1, <1>2, <2>1 DEF OrderInv, OneWorkerPerTask, RunnersKept
<1>5. SerialOrder' BY <1>1, <1>2 DEF OrderInv, SerialOrder, Started, Terminal
<1>6. DependencyOrder'
  <2>1. \A t \in Tasks : desc[t].prereqs \subseteq Tasks BY PrereqsAreTasks
  <2> QED BY <1>1, <1>2, <2>1 DEF OrderInv, DependencyOrder, Started
<1> QED BY <1>3, <1>4, <1>5, <1>6 DEF OrderInv

LEMMA SubmitOrder ==
    ASSUME OrderInv, TypeOK, SchedulerAssumption, NEW d \in Description, SubmitEffect(d)
    PROVE  OrderInv'
<1> DEFINE n == accepted + 1
<1>1. n \in Tasks /\ state[n] = "absent" /\ accepted \in Nat
    BY DEF SubmitEffect, OrderInv, Ledger, TypeOK, Tasks
<1>2. /\ state'[n] = "waiting" /\ desc'[n] = d
      /\ \A t \in Tasks \ {n} : state'[t] = state[t] /\ desc'[t] = desc[t]
    BY <1>1 DEF SubmitEffect, TypeOK
<1>3. d.prereqs \subseteq 1 .. n - 1
  <2>1. n - 1 = accepted BY <1>1
  <2> QED BY <2>1 DEF SubmitEffect, Acceptable, TypeOK
<1>4. Ledger'
  <2>1. \A t \in Tasks : state'[t] = "absent" <=> t > accepted'
      BY <1>1, <1>2 DEF OrderInv, Ledger, SubmitEffect, Tasks
  <2>2. \A t \in Tasks : state'[t] \in {"waiting", "running"} => t \in retained'
      BY <1>1, <1>2 DEF OrderInv, Ledger, SubmitEffect
  <2>3. \A t \in Tasks : desc'[t].prereqs \subseteq 1 .. t - 1
      BY <1>1, <1>2, <1>3 DEF OrderInv, Ledger
  <2>4. \A t \in Tasks : t <= accepted' => desc'[t] \in Description
      BY <1>1, <1>2 DEF OrderInv, Ledger, SubmitEffect, Tasks
  <2> QED BY <2>1, <2>2, <2>3, <2>4 DEF Ledger
<1>5. OneWorkerPerTask'
  <2>1. \A w \in Workers : workerPc[w] = "running" => current[w] \in Tasks \ {n}
      BY <1>1 DEF OrderInv, OneWorkerPerTask, TypeOK, Tasks
  <2> QED BY <1>1, <1>2, <2>1 DEF OrderInv, OneWorkerPerTask, SubmitEffect, RunnersKept
<1>6. SerialOrder'
  <2>1. \A t, u \in Tasks : t < u /\ Started(u)' => t # n /\ u # n /\ Started(u)
      BY <1>1, <1>2 DEF OrderInv, Ledger, Started, Tasks
  <2> QED BY <1>2, <2>1 DEF OrderInv, SerialOrder
<1>7. DependencyOrder'
  <2>1. \A t \in Tasks : Started(t)' => t # n /\ Started(t) BY <1>1, <1>2 DEF Started
  <2>2. \A t \in Tasks : desc[t].prereqs \subseteq Tasks BY PrereqsAreTasks
  <2>3. \A t \in Tasks : Started(t) => n \notin desc[t].prereqs
      BY <1>1 DEF OrderInv, DependencyOrder
  <2> QED BY <1>2, <2>1, <2>2, <2>3 DEF OrderInv, DependencyOrder
<1> QED BY <1>4, <1>5, <1>6, <1>7 DEF OrderInv

LEMMA FailOrder == ASSUME OrderInv, TypeOK, NEW failed \in SUBSET Waiting, FailEffect(failed) PROVE OrderInv'
<1>1. \A t \in Tasks : \/ state'[t] = state[t]
                       \/ state[t] = "waiting" /\ state'[t] = "dependency_failed"
    BY DEF FailEffect, Waiting, TypeOK
<1>2. UNCHANGED <<accepted, desc, retained, current>> /\ RunnersKept BY DEF FailEffect
<1>3. Ledger' BY <1>1, <1>2 DEF OrderInv, Ledger
<1>4. OneWorkerPerTask'
  <2>1. \A w \in Workers : workerPc[w] = "running" => current[w] \in Tasks
      BY DEF OrderInv, OneWorkerPerTask, TypeOK, Tasks
  <2> QED BY <1>1, <1>2, <2>1 DEF OrderInv, OneWorkerPerTask, RunnersKept
<1>5. SerialOrder' BY <1>1, <1>2 DEF OrderInv, SerialOrder, Started, Terminal
<1>6. DependencyOrder'
  <2>1. \A t \in Tasks : desc[t].prereqs \subseteq Tasks BY PrereqsAreTasks
  <2> QED BY <1>1, <1>2, <2>1 DEF OrderInv, DependencyOrder, Started
<1> QED BY <1>3, <1>4, <1>5, <1>6 DEF OrderInv

(* select() starts a task only when its prerequisites have succeeded: otherwise the walk that *)
(* found it would have failed it.                                                             *)
LEMMA StartedDependencies ==
    ASSUME OrderInv, NEW w, NEW failed \in SUBSET Waiting, NEW t \in Waiting, StartEffect(w, failed, t)
    PROVE  \A p \in desc[t].prereqs : state[p] = "succeeded"
BY DEF StartEffect, DependencyFailed, DependenciesMet

LEMMA StartOrder ==
    ASSUME OrderInv, TypeOK, SchedulerAssumption, NEW w \in Workers,
           NEW failed \in SUBSET Waiting, NEW t \in Waiting, StartEffect(w, failed, t)
    PROVE  OrderInv'
<1>1. t \in Tasks /\ state[t] = "waiting" /\ t # 0 /\ t \in retained /\ t \notin failed
    BY DEF TypeOK, Waiting, Tasks, StartEffect, SchedulerAssumption
<1>2. /\ state'[t] = "running"
      /\ \A u \in Tasks \ {t} : \/ state'[u] = state[u] /\ u \notin failed
                                \/ /\ u \in failed /\ state[u] = "waiting"
                                   /\ state'[u] = "dependency_failed"
    BY <1>1 DEF StartEffect, Waiting
<1>3. UNCHANGED <<accepted, desc, retained>> /\ current' = [current EXCEPT ![w] = t]
    BY DEF StartEffect
<1>4. Ledger' BY <1>1, <1>2, <1>3 DEF OrderInv, Ledger
<1>5. OneWorkerPerTask'
  <2>1. current[w] = 0 BY DEF OrderInv, OneWorkerPerTask, StartEffect
  <2>2. /\ current'[w] = t /\ \A v \in Workers \ {w} : current'[v] = current[v]
        /\ workerPc'[w] = "running"
        /\ \A v \in Workers \ {w} : workerPc'[v] = "running" <=> workerPc[v] = "running"
      BY <1>3 DEF StartEffect, TypeOK
  <2>3. \A v \in Workers : current[v] # 0 =>
            current[v] \in Tasks /\ state[current[v]] = "running" /\ current[v] # t
      BY <1>1 DEF OrderInv, OneWorkerPerTask, TypeOK, Tasks
  <2>4. \A v \in Workers : workerPc'[v] = "running" <=> current'[v] # 0
      BY <1>1, <2>2 DEF OrderInv, OneWorkerPerTask
  <2>5. \A v \in Workers : workerPc'[v] = "running" => state'[current'[v]] = "running"
      BY <1>2, <2>2, <2>3 DEF OrderInv, OneWorkerPerTask
  <2>6. \A u, v \in Workers : u # v /\ current'[u] = current'[v] => current'[u] = 0
      BY <2>1, <2>2, <2>3 DEF OrderInv, OneWorkerPerTask
  <2>7. \A u \in Tasks : state'[u] = "running" => \E v \in Workers : current'[v] = u
    <3> SUFFICES ASSUME NEW u \in Tasks, state'[u] = "running"
                 PROVE  \E v \in Workers : current'[v] = u
        OBVIOUS
    <3>1. CASE u = t BY <2>2, <3>1
    <3>2. CASE u # t
      <4>1. state[u] = "running" /\ u # 0 BY <1>2, <3>2 DEF Tasks
      <4> QED BY <2>1, <2>2, <4>1 DEF OrderInv, OneWorkerPerTask
    <3> QED BY <3>1, <3>2
  <2> QED BY <2>4, <2>5, <2>6, <2>7 DEF OneWorkerPerTask
<1>6. SerialOrder'
  <2> SUFFICES ASSUME NEW a \in Tasks, NEW b \in Tasks, a < b, desc[b].lane # NoLane,
                      desc[a].lane = desc[b].lane, Started(b)'
               PROVE  state'[a] \in Terminal
      BY <1>3 DEF SerialOrder
  <2>1. CASE b = t
    <3>1. a # t BY <2>1 DEF Tasks
    <3>2. state[a] # "absent" BY <1>1, <2>1 DEF OrderInv, Ledger, Tasks, TypeOK
    <3>3. a \notin retained \ failed \/ state[a] \in Terminal
        BY <2>1 DEF StartEffect, SerialBlocked
    <3>4. state[a] \in Terminal \/ a \in failed
        BY <3>2, <3>3 DEF OrderInv, Ledger, TypeOK, States
    <3> QED BY <1>2, <3>1, <3>4 DEF Terminal
  <2>2. CASE b # t
    <3>1. Started(b) BY <1>2, <2>2 DEF Started
    <3>2. state[a] \in Terminal BY <3>1 DEF OrderInv, SerialOrder
    <3> QED BY <1>1, <1>2, <3>2 DEF Terminal
  <2> QED BY <2>1, <2>2
<1>7. DependencyOrder'
  <2>1. \A u \in Tasks : desc[u].prereqs \subseteq Tasks BY PrereqsAreTasks
  <2>2. \A u \in Tasks : Started(u)' => u = t \/ Started(u) BY <1>2 DEF Started
  <2>3. \A u \in Tasks : Started(u)' => \A p \in desc[u].prereqs : state[p] = "succeeded"
      BY <2>2, StartedDependencies DEF OrderInv, DependencyOrder
  <2> QED BY <1>1, <1>2, <1>3, <2>1, <2>3 DEF DependencyOrder
<1> QED BY <1>4, <1>5, <1>6, <1>7 DEF OrderInv

LEMMA FinishOrder ==
    ASSUME OrderInv, TypeOK, NEW w \in Workers,
           NEW outcome \in {"succeeded", "failed", "cancelled"}, FinishEffect(w, outcome)
    PROVE  OrderInv'
<1> DEFINE t == current[w]
<1>1. t \in Tasks /\ state[t] = "running" /\ t # 0
    BY DEF OrderInv, OneWorkerPerTask, FinishEffect, TypeOK, Tasks
<1>2. state'[t] = outcome /\ \A u \in Tasks \ {t} : state'[u] = state[u]
    BY <1>1 DEF FinishEffect, TypeOK
<1>3. UNCHANGED <<accepted, desc, retained>> BY DEF FinishEffect
<1>4. Ledger' BY <1>1, <1>2, <1>3 DEF OrderInv, Ledger
<1>5. OneWorkerPerTask'
  <2>1. /\ current'[w] = 0 /\ \A v \in Workers \ {w} : current'[v] = current[v]
        /\ workerPc'[w] = "selecting"
        /\ \A v \in Workers \ {w} : workerPc'[v] = "running" <=> workerPc[v] = "running"
      BY DEF FinishEffect, TypeOK
  <2>2. \A v \in Workers \ {w} : current[v] # t BY <1>1 DEF OrderInv, OneWorkerPerTask
  <2>3. \A v \in Workers : current[v] # 0 => current[v] \in Tasks BY DEF TypeOK, Tasks
  <2>4. \A v \in Workers : workerPc'[v] = "running" => state'[current'[v]] = "running"
      BY <1>2, <2>1, <2>2, <2>3 DEF OrderInv, OneWorkerPerTask
  <2>5. \A u \in Tasks : state'[u] = "running" => \E v \in Workers : current'[v] = u
      BY <1>2, <2>1 DEF OrderInv, OneWorkerPerTask
  <2> QED BY <2>1, <2>4, <2>5 DEF OrderInv, OneWorkerPerTask
<1>6. SerialOrder' BY <1>1, <1>2, <1>3 DEF OrderInv, SerialOrder, Started, Terminal
<1>7. DependencyOrder'
  <2>1. \A u \in Tasks : desc[u].prereqs \subseteq Tasks BY PrereqsAreTasks
  <2> QED BY <1>1, <1>2, <1>3, <2>1 DEF OrderInv, DependencyOrder, Started
<1> QED BY <1>4, <1>5, <1>6, <1>7 DEF OrderInv

(* Serial queues keep their order, prerequisites come first and every running task has a *)
(* worker of its own (ExecutionOrder).                                                   *)
THEOREM OrderCorrect == Spec => []ExecutionOrder
<1> USE SchedulerAssumption
<1>1. Init => OrderInv
  <2> SUFFICES ASSUME Init PROVE OrderInv  OBVIOUS
  <2>1. Ledger BY DEF Init, Ledger, Blank, Tasks
  <2>2. OneWorkerPerTask BY DEF Init, OneWorkerPerTask
  <2>3. SerialOrder /\ DependencyOrder BY DEF Init, SerialOrder, DependencyOrder, Started
  <2> QED BY <2>1, <2>2, <2>3 DEF OrderInv
<1>2. TypeOK /\ OrderInv /\ [Next]_vars => OrderInv'
  <2> SUFFICES ASSUME TypeOK, OrderInv, Effect PROVE OrderInv'  BY StepEffect
  <2> QED BY QuietOrder, CancelOrder, SubmitOrder, RemoveOrder, FailOrder, StartOrder, FinishOrder
          DEF Effect
<1>3. OrderInv => ExecutionOrder BY DEF OrderInv, ExecutionOrder
<1> QED BY <1>1, <1>2, <1>3, TypeCorrect, PTL DEF Spec

-----------------------------------------------------------------------------
\* A task of the table belongs to a scope that exists; cancelling reaches all of a scope.
ScopeInv ==
    /\ \A t \in Tasks : t <= accepted => desc[t].scope \in Scopes /\ scopeState[desc[t].scope] # "unused"
    /\ \A s \in Scopes : scopeState[s] = "gone" => InScope(s) = {}
    /\ CancelReaches

LEMMA RetainedAccepted == ASSUME TypeOK PROVE \A t \in retained : t \in Tasks /\ t <= accepted
BY SchedulerAssumption DEF TypeOK, Tasks, SchedulerAssumption

LEMMA CancelScopes ==
    ASSUME TypeOK, OrderInv, ScopeInv, NEW S \in SUBSET retained, CancelEffect(S) PROVE ScopeInv'
<1>1. \A t \in Tasks : \/ state'[t] = state[t]
                       \/ state[t] = "waiting" /\ state'[t] = "cancelled"
    BY DEF CancelEffect, Waiting, TypeOK
<1>2. \A t \in S : state'[t] # "waiting" /\ t \in cancellation'
    BY RetainedAccepted DEF CancelEffect, Waiting
<1>3. \A t \in retained : (stopping' \/ scopeState'[desc[t].scope] # "open") =>
          (stopping \/ scopeState[desc[t].scope] # "open" \/ t \in S)
    BY RetainedAccepted DEF CancelEffect, ScopeInv, InScope
<1>4. CancelReaches'
    BY <1>1, <1>2, <1>3, RetainedAccepted DEF CancelEffect, ScopeInv, CancelReaches
<1>5. UNCHANGED <<accepted, desc, retained>> BY DEF CancelEffect
<1>6. \A s \in Scopes : scopeState'[s] # scopeState[s] => scopeState'[s] = "closing"
    BY DEF CancelEffect
<1> QED BY <1>4, <1>5, <1>6 DEF ScopeInv, InScope

LEMMA SubmitScopes ==
    ASSUME TypeOK, OrderInv, ScopeInv, NEW d \in Description, SubmitEffect(d) PROVE ScopeInv'
<1> DEFINE n == accepted + 1
<1>1. n \in Tasks /\ n \notin retained /\ accepted \in Nat
    BY DEF SubmitEffect, TypeOK
<1>2. /\ desc'[n] = d /\ \A t \in Tasks \ {n} : state'[t] = state[t] /\ desc'[t] = desc[t]
      /\ retained' = retained \cup {n}
    BY <1>1 DEF SubmitEffect, TypeOK
<1>3. d.scope \in Scopes /\ scopeState[d.scope] = "open" /\ ~stopping
    BY DEF SubmitEffect, Acceptable, Description
<1>4. \A t \in retained : t \in Tasks \ {n} BY <1>1, RetainedAccepted
<1>5. \A t \in Tasks : t <= accepted' =>
          desc'[t].scope \in Scopes /\ scopeState'[desc'[t].scope] # "unused"
    BY <1>1, <1>2, <1>3 DEF SubmitEffect, ScopeInv, Tasks
<1>6. \A s \in Scopes : scopeState'[s] = "gone" => InScope(s)' = {}
    BY <1>2, <1>3, <1>4 DEF SubmitEffect, ScopeInv, InScope
<1>7. CancelReaches'
    BY <1>2, <1>3, <1>4 DEF SubmitEffect, ScopeInv, CancelReaches
<1> QED BY <1>5, <1>6, <1>7 DEF ScopeInv

LEMMA RemoveScopes ==
    ASSUME TypeOK, OrderInv, ScopeInv, NEW B \in SUBSET retained, RemoveEffect(B) PROVE ScopeInv'
<1>1. \A s \in Scopes : scopeState'[s] = "gone" => InScope(s)' = {}
    BY DEF RemoveEffect, ScopeInv, InScope
<1>2. \A t \in retained' : scopeState'[desc[t].scope] = scopeState[desc[t].scope]
    BY RetainedAccepted DEF RemoveEffect, ScopeInv, InScope
<1>3. CancelReaches' BY <1>2 DEF RemoveEffect, ScopeInv, CancelReaches
<1>4. \A s \in Scopes : scopeState'[s] # "unused" \/ scopeState[s] = "unused"
    BY DEF RemoveEffect
<1> QED BY <1>1, <1>3, <1>4 DEF RemoveEffect, ScopeInv

LEMMA RunScopes ==
    ASSUME TypeOK, OrderInv, ScopeInv,
           UNCHANGED <<accepted, desc, retained, cancellation, stopping, scopeState>>,
           \A t \in Tasks : \/ state'[t] = state[t]
                            \/ state'[t] \in Terminal
                            \/ state'[t] = "running" /\ state[t] = "waiting"
    PROVE  ScopeInv'
<1>1. CancelReaches'
    BY RetainedAccepted DEF ScopeInv, CancelReaches, Terminal
<1> QED BY <1>1 DEF ScopeInv, InScope

(* The whole inductive invariant of tasks, workers and scopes. *)
LEMMA TablesCorrect == Spec => [](TypeOK /\ OrderInv /\ ScopeInv)
<1> USE SchedulerAssumption
<1>1. Init => OrderInv /\ ScopeInv
  <2> SUFFICES ASSUME Init PROVE OrderInv /\ ScopeInv  OBVIOUS
  <2>1. Ledger BY DEF Init, Ledger, Blank, Tasks
  <2>2. OneWorkerPerTask BY DEF Init, OneWorkerPerTask
  <2>3. SerialOrder /\ DependencyOrder BY DEF Init, SerialOrder, DependencyOrder, Started
  <2>4. ScopeInv BY DEF Init, ScopeInv, CancelReaches, InScope, Tasks
  <2> QED BY <2>1, <2>2, <2>3, <2>4 DEF OrderInv
<1>2. TypeOK /\ OrderInv /\ ScopeInv /\ [Next]_vars => OrderInv' /\ ScopeInv'
  <2> SUFFICES ASSUME TypeOK, OrderInv, ScopeInv, Effect PROVE OrderInv' /\ ScopeInv'
      BY StepEffect
  <2>1. OrderInv'
      BY QuietOrder, CancelOrder, SubmitOrder, RemoveOrder, FailOrder, StartOrder, FinishOrder
      DEF Effect
  <2>2. ASSUME Quiet PROVE ScopeInv'
    <3>1. \A t \in retained : scopeState'[desc[t].scope] = scopeState[desc[t].scope]
        BY <2>2, RetainedAccepted DEF Quiet, ScopeInv
    <3>2. CancelReaches' BY <2>2, <3>1 DEF Quiet, ScopeInv, CancelReaches
    <3>3. \A s \in Scopes : /\ scopeState'[s] = "unused" => scopeState[s] = "unused"
                            /\ scopeState'[s] = "gone" => scopeState[s] = "gone"
        BY <2>2 DEF Quiet
    <3>4. UNCHANGED <<accepted, desc, retained>> BY <2>2 DEF Quiet
    <3>5. \A t \in Tasks : t <= accepted' =>
              desc'[t].scope \in Scopes /\ scopeState'[desc'[t].scope] # "unused"
        BY <3>3, <3>4 DEF ScopeInv
    <3>6. \A s \in Scopes : scopeState'[s] = "gone" => InScope(s)' = {}
        BY <3>3, <3>4 DEF ScopeInv, InScope
    <3> QED BY <3>2, <3>5, <3>6 DEF ScopeInv
  <2>3. ASSUME NEW failed \in SUBSET Waiting, FailEffect(failed) PROVE ScopeInv'
      BY <2>3, RunScopes DEF FailEffect, Terminal
  <2>4. ASSUME NEW w \in Workers, NEW failed \in SUBSET Waiting, NEW t \in Waiting,
               StartEffect(w, failed, t)
        PROVE  ScopeInv'
      BY <2>4, RunScopes DEF StartEffect, Waiting, Terminal
  <2>5. ASSUME NEW w \in Workers, NEW outcome \in {"succeeded", "failed", "cancelled"},
               FinishEffect(w, outcome)
        PROVE  ScopeInv'
      BY <2>5, RunScopes DEF FinishEffect, TypeOK, Terminal
  <2> QED BY <2>1, <2>2, <2>3, <2>4, <2>5, CancelScopes, SubmitScopes, RemoveScopes DEF Effect
<1> QED BY <1>1, <1>2, TypeCorrect, PTL DEF Spec

(* However a scope is closed or the scheduler stopped, no task is left behind waiting and *)
(* every running one has been told (CancelReaches).                                        *)
THEOREM CancelReachesAll == Spec => []CancelReaches
<1>1. ScopeInv => CancelReaches BY DEF ScopeInv
<1> QED BY <1>1, TablesCorrect, PTL

-----------------------------------------------------------------------------
(***************************************************************************)
(* The threads around the tasks: what a reclaimed scope and a returned      *)
(* stop() guarantee, the background budget, the wakeups nobody may lose, and *)
(* that the scheduler keeps the contract of TaskContract.                    *)
(***************************************************************************)
\* The places of a thread inside close_scope or try_close_scope.
Inside == {"checking", "waiting", "rechecking", "reclaiming", "erasing"}
Closed(s) == s \in Scopes /\ scopeState[s] \in {"closing", "gone"}

\* What a step may do to the threads that call the scheduler.
CallersEffect ==
    /\ mode' = mode /\ (stopping => stopping')
    /\ \A c \in Callers : callerPc'[c] \in Inside =>
           \/ callerPc[c] \in Inside /\ callerScope'[c] = callerScope[c]
           \/ callerScope'[c] \in Scopes /\ scopeState'[callerScope'[c]] \in {"closing", "gone"}
    /\ callerPc'[Host] # "ready" => callerPc[Host] # "ready" \/ Free(Host)
    /\ callerPc'[Host] \in {"joining", "stopped"} =>
           callerPc[Host] \in {"joining", "stopped"} \/ stopping'
    /\ callerPc'[Host] = "stopped" /\ mode = "thread_pool" =>
           callerPc[Host] = "stopped" \/ \A w \in Workers : workerPc[w] = "exited"
    /\ callerPc'[Host] \in {"waiting", "rechecking"} =>
           \/ callerPc[Host] \in {"waiting", "rechecking"}
           \/ callerPc[Host] \in Inside /\ ~ScopeIdle(callerScope[Host])

(* A thread that is only woken is no further than before. *)
LEMMA WokenOnly ==
    ASSUME TypeOK, UNCHANGED <<mode, callerScope>>, stopping => stopping',
           NEW woken \in BOOLEAN, CallersHear(woken)
    PROVE  CallersEffect
<1> USE SchedulerAssumption DEF SchedulerAssumption
<1>1. \A c \in Callers : \/ callerPc'[c] = callerPc[c]
                         \/ callerPc[c] = "waiting" /\ callerPc'[c] = "rechecking"
    BY DEF TypeOK, CallersHear, CallersAwake
<1> QED BY <1>1 DEF CallersEffect, Inside

LEMMA RequestCallers == ASSUME TypeOK, Request PROVE CallersEffect
<1>1. UNCHANGED <<mode, callerScope>>
    BY DEF Request, MakeScope, CancelScope, MakeSerialQueue, Submit, Cancel, Poll, RequestStop,
       settings, callerVars
<1>2. stopping => stopping'
    BY DEF Request, MakeScope, CancelScope, MakeSerialQueue, Submit, Cancel, Poll, RequestStop
<1>3. \E woken \in BOOLEAN : CallersHear(woken)
  <2>1. UNCHANGED callerVars => CallersHear(FALSE) BY DEF callerVars, CallersHear
  <2> QED BY <2>1 DEF Request, MakeScope, CancelScope, MakeSerialQueue, Submit, Cancel, Poll,
             RequestStop
<1> QED BY <1>1, <1>2, <1>3, WokenOnly

LEMMA WorkerCallers == ASSUME TypeOK, NEW w \in Workers, Worker(w) PROVE CallersEffect
<1>1. UNCHANGED <<mode, callerScope, stopping>>
    BY DEF Worker, Select, SelectNothing, StartNormal, StartBackground, WorkerExit, TimedOut,
       SpuriousWake, Finish, DriveBegin, DriveBudgetSpent, settings, callerVars
<1>2. \E woken \in BOOLEAN : CallersHear(woken)
  <2>1. UNCHANGED callerVars => CallersHear(FALSE) BY DEF callerVars, CallersHear
  <2> QED BY <2>1 DEF Worker, Select, SelectNothing, StartNormal, StartBackground, FailThenStart,
             WorkerExit, TimedOut, SpuriousWake, Finish, DriveBegin, DriveBudgetSpent
<1> QED BY <1>1, <1>2, WokenOnly

LEMMA CallerCallers == ASSUME TypeOK, NEW c \in Callers, Caller(c) PROVE CallersEffect
<1> USE SchedulerAssumption DEF SchedulerAssumption, CallerPlaces
<1>1. UNCHANGED <<mode, stopping>>
    BY DEF Caller, CloseBegin, TryCloseBegin, CloseCheck, CloseRecheck, ReclaimBegin, Erase, settings
<1> DEFINE Moves(place) ==
        /\ callerPc'[c] = place
        /\ \A b \in Callers \ {c} : \/ callerPc'[b] = callerPc[b]
                                    \/ callerPc[b] = "waiting" /\ callerPc'[b] = "rechecking"
<1>2. \A place \in CallerPlaces, woken \in BOOLEAN : CallerGoes(c, place, woken) => Moves(place)
    BY DEF TypeOK, CallerGoes, CallersAwake
<1> HIDE DEF Moves
<1>3. ASSUME NEW s \in Scopes, CloseBegin(c, s) \/ TryCloseBegin(c, s) PROVE CallersEffect
  <2>1. Moves("checking") \/ Moves("erasing") BY <1>2, <1>3 DEF CloseBegin, TryCloseBegin
  <2>2. callerPc'[c] \in {"checking", "erasing"} BY <2>1 DEF Moves
  <2>3. callerScope'[c] = s /\ \A b \in Callers \ {c} : callerScope'[b] = callerScope[b]
      BY <1>3 DEF TypeOK, CloseBegin, TryCloseBegin
  <2>4. scopeState'[s] = "closing"
      BY <1>3 DEF TypeOK, CloseBegin, TryCloseBegin, CancelScopeStep
  <2>5. Free(c) BY <1>3 DEF CloseBegin, TryCloseBegin
  <2> QED BY <1>1, <2>1, <2>2, <2>3, <2>4, <2>5 DEF CallersEffect, Inside, Moves
<1>4. ASSUME CloseCheck(c) PROVE CallersEffect
  <2>1. /\ callerPc[c] = "checking"
        /\ callerPc'[c] = IF ~Exists(callerScope[c]) THEN "ready"
                          ELSE IF ScopeIdle(callerScope[c]) THEN "reclaiming" ELSE "waiting"
        /\ \A b \in Callers \ {c} : \/ callerPc'[b] = callerPc[b]
                                    \/ callerPc[b] = "waiting" /\ callerPc'[b] = "rechecking"
      BY <1>2, <1>4 DEF CloseCheck, Moves
  <2>2. /\ callerPc'[c] # "ready" => callerScope'[c] = callerScope[c]
        /\ \A b \in Callers \ {c} : callerScope'[b] = callerScope[b]
      BY <1>4, <2>1 DEF TypeOK, CloseCheck
  <2> QED BY <1>1, <2>1, <2>2 DEF CallersEffect, Inside
<1>5. ASSUME CloseRecheck(c) PROVE CallersEffect
  <2>1. /\ callerPc[c] = "rechecking"
        /\ callerPc'[c] \in {"reclaiming", "waiting"}
        /\ \A b \in Callers \ {c} : \/ callerPc'[b] = callerPc[b]
                                    \/ callerPc[b] = "waiting" /\ callerPc'[b] = "rechecking"
      BY <1>2, <1>5 DEF CloseRecheck, Moves
  <2>2. UNCHANGED callerScope BY <1>5 DEF CloseRecheck
  <2> QED BY <1>1, <2>1, <2>2 DEF CallersEffect, Inside
<1>6. ASSUME ReclaimBegin(c) PROVE CallersEffect
  <2>1. Moves("erasing") BY <1>2, <1>6 DEF ReclaimBegin
  <2>2. UNCHANGED callerScope /\ callerPc[c] = "reclaiming" BY <1>6 DEF ReclaimBegin
  <2> QED BY <1>1, <2>1, <2>2 DEF CallersEffect, Inside, Moves
<1>7. ASSUME Erase(c) PROVE CallersEffect
  <2>1. Moves("ready") BY <1>2, <1>7 DEF Erase
  <2>2. \A b \in Callers \ {c} : callerScope'[b] = callerScope[b] BY <1>7 DEF TypeOK, Erase
  <2> QED BY <1>1, <2>1, <2>2 DEF CallersEffect, Inside, Moves
<1> QED BY <1>3, <1>4, <1>5, <1>6, <1>7 DEF Caller

LEMMA StepCallers == ASSUME TypeOK, [Next]_vars PROVE CallersEffect
<1> USE SchedulerAssumption DEF SchedulerAssumption, CallerPlaces
<1>1. ASSUME StopBegin PROVE CallersEffect
  <2>1. callerPc'[Host] = "joining" /\ Free(Host) /\ stopping'
      BY <1>1 DEF TypeOK, StopBegin, RequestStopStep, CallerGoes, CallersAwake
  <2>2. \A b \in Callers \ {Host} : \/ callerPc'[b] = callerPc[b]
                                    \/ callerPc[b] = "waiting" /\ callerPc'[b] = "rechecking"
      BY <1>1 DEF TypeOK, StopBegin, CallerGoes, CallersAwake
  <2>3. UNCHANGED <<mode, callerScope>> BY <1>1 DEF StopBegin, settings
  <2> QED BY <2>1, <2>2, <2>3 DEF CallersEffect, Inside
<1>2. ASSUME StopJoin PROVE CallersEffect
  <2>1. /\ callerPc[Host] = "joining" /\ callerPc'[Host] = "stopped"
        /\ mode = "thread_pool" => \A w \in Workers : workerPc[w] = "exited"
        /\ \A b \in Callers \ {Host} : callerPc'[b] = callerPc[b]
      BY <1>2 DEF TypeOK, StopJoin, CallerGoes
  <2>2. UNCHANGED <<mode, callerScope, stopping>> BY <1>2 DEF StopJoin, settings
  <2> QED BY <2>1, <2>2 DEF CallersEffect, Inside
<1>3. ASSUME Tick \/ Stopped \/ UNCHANGED vars PROVE CallersEffect
  <2>1. UNCHANGED <<mode, callerScope, stopping, callerPc>>
      BY <1>3 DEF Tick, Stopped, vars, settings, callerVars
  <2> QED BY <2>1, WokenOnly DEF CallersHear
<1> QED BY <1>1, <1>2, <1>3, RequestCallers, WorkerCallers, CallerCallers DEF Next

-----------------------------------------------------------------------------
(* A worker that left its loop stays out, unless the host drives it again. *)
LEMMA StepWorkers ==
    ASSUME TypeOK, [Next]_vars
    PROVE  \A v \in Workers :
               /\ workerPc[v] = "exited" => workerPc'[v] = "exited"
               /\ workerPc[v] = "outside" /\ callerPc'[Host] # "ready" => workerPc'[v] = "outside"
<1> DEFINE Out(v) == workerPc[v] \in {"exited", "outside"} => workerPc'[v] = workerPc[v]
<1> USE DEF WorkerPlaces
<1>1. \A woken \in BOOLEAN : WorkersHear(woken) => \A v \in Workers : Out(v)
    BY DEF TypeOK, WorkersHear, WorkersAwake
<1>2. \A woken \in BOOLEAN, place \in WorkerPlaces, w \in Workers :
          WorkerGoes(w, place, woken) => \A v \in Workers \ {w} : Out(v)
    BY DEF TypeOK, WorkerGoes, WorkersAwake
<1> HIDE DEF Out
<1>3. UNCHANGED workerPc => \A v \in Workers : Out(v) BY DEF Out
<1>4. ASSUME Request PROVE \A v \in Workers : Out(v)
    BY <1>1, <1>3, <1>4 DEF Request, MakeScope, CancelScope, CancelScopeStep, MakeSerialQueue,
       Submit, Cancel, Poll, RequestStop, RequestStopStep, workerVars
<1>5. ASSUME NEW c \in Callers, Caller(c) PROVE \A v \in Workers : Out(v)
    BY <1>1, <1>3, <1>5 DEF Caller, CloseBegin, TryCloseBegin, CloseCheck, CloseRecheck,
       ReclaimBegin, Erase, CancelScopeStep, workerVars
<1>6. ASSUME StopBegin \/ StopJoin \/ Tick \/ Stopped \/ UNCHANGED vars
      PROVE  \A v \in Workers : Out(v)
    BY <1>1, <1>3, <1>6 DEF StopBegin, RequestStopStep, StopJoin, Tick, Stopped, workerVars, vars
<1>7. ASSUME NEW w \in Workers, Worker(w), NEW v \in Workers
      PROVE  Out(v) \/ (callerPc'[Host] = "ready" /\ workerPc[v] # "exited")
  <2>1. CASE DriveBegin(w)
      BY <2>1, <1>2 DEF DriveBegin, callerVars
  <2>2. CASE ~DriveBegin(w)
    <3>1. \E woken \in BOOLEAN, place \in WorkerPlaces : WorkerGoes(w, place, woken)
        BY <1>7, <2>2 DEF Worker, Select, SelectNothing, StartNormal, StartBackground, WorkerExit,
           TimedOut, SpuriousWake, Finish, DriveBudgetSpent
    <3>2. workerPc[w] \notin {"exited", "outside"}
        BY <1>7, <2>2 DEF Worker, Select, SelectNothing, StartNormal, StartBackground, Selecting,
           WorkerExit, TimedOut, SpuriousWake, Finish, DriveBudgetSpent
    <3> QED BY <1>2, <3>1, <3>2 DEF Out
  <2> QED BY <2>1, <2>2
<1> QED BY <1>4, <1>5, <1>6, <1>7 DEF Next, Out

(* A scope never goes back: closing it is for good, and so is giving it back. *)
LEMMA StepScopes ==
    ASSUME TypeOK, Effect, NEW s \in Scopes
    PROVE  /\ scopeState[s] = "gone" => scopeState'[s] = "gone"
           /\ scopeState[s] = "closing" => scopeState'[s] \in {"closing", "gone"}
           /\ scopeState'[s] = "unused" => scopeState[s] = "unused"
<1> USE DEF TypeOK
<1>1. CASE Quiet BY <1>1 DEF Quiet
<1>2. CASE \E S \in SUBSET retained : CancelEffect(S) BY <1>2 DEF CancelEffect
<1>3. CASE \E B \in SUBSET retained : RemoveEffect(B) BY <1>3 DEF RemoveEffect, Exists
<1>4. CASE UNCHANGED scopeState BY <1>4
<1> QED BY <1>1, <1>2, <1>3, <1>4 DEF Effect, SubmitEffect, FailEffect, StartEffect, FinishEffect

\* A lane is made in an open scope, and goes with its scope; a scope goes from `closing' only.
LanesEffect ==
    /\ \A l \in Lanes : \/ laneScope'[l] \in {laneScope[l], NoScope}
                        \/ laneScope'[l] \in Scopes /\ scopeState'[laneScope'[l]] = "open"
    /\ \A s \in Scopes : scopeState'[s] = "gone" /\ scopeState[s] # "gone" =>
           scopeState[s] = "closing" /\ \A l \in Lanes : laneScope'[l] # s

LEMMA StepLanes ==
    ASSUME TypeOK, [Next]_vars, \A c \in Callers : callerPc[c] \in Inside => Closed(callerScope[c])
    PROVE  LanesEffect
<1> USE SchedulerAssumption DEF SchedulerAssumption
<1>1. ASSUME NEW l \in Lanes, NEW s \in Scopes, MakeSerialQueue(l, s) PROVE LanesEffect
    BY <1>1 DEF TypeOK, MakeSerialQueue, LanesEffect
<1>2. ASSUME NEW c \in Callers, Erase(c) PROVE LanesEffect
  <2>1. CASE Erasable(callerScope[c])
    <3>1. scopeState[callerScope[c]] = "closing" /\ callerScope[c] \in Scopes
        BY <1>2, <2>1 DEF Erase, Inside, Closed, Erasable, Exists
    <3>2. \A r \in Scopes : scopeState'[r] = "gone" /\ scopeState[r] # "gone" => r = callerScope[c]
        BY <1>2, <2>1, <3>1 DEF TypeOK, Erase
    <3>3. \A l \in Lanes : /\ laneScope'[l] \in {laneScope[l], NoScope}
                           /\ laneScope'[l] # callerScope[c]
        BY <1>2, <2>1, <3>1 DEF TypeOK, Erase
    <3> QED BY <3>1, <3>2, <3>3 DEF LanesEffect
  <2>2. CASE ~Erasable(callerScope[c])
      BY <1>2, <2>2 DEF Erase, shelves, LanesEffect
  <2> QED BY <2>1, <2>2
<1>3. ASSUME UNCHANGED laneScope,
             \A s \in Scopes : scopeState'[s] = "gone" => scopeState[s] = "gone"
      PROVE  LanesEffect
    BY <1>3 DEF LanesEffect
<1>4. ASSUME NEW s \in Scopes, CancelScopeStep(s)
      PROVE  \A r \in Scopes : scopeState'[r] = "gone" => scopeState[r] = "gone"
    BY <1>4 DEF TypeOK, CancelScopeStep
<1>5. ASSUME NEW s \in Scopes, MakeScope(s) PROVE LanesEffect
  <2>1. \A r \in Scopes : scopeState'[r] = "gone" => scopeState[r] = "gone"
      BY <1>5 DEF TypeOK, MakeScope
  <2> QED BY <1>3, <1>5, <2>1 DEF MakeScope
<1>6. ASSUME NEW s \in Scopes, CancelScope(s) PROVE LanesEffect
    BY <1>3, <1>4, <1>6 DEF CancelScope
<1>7. ASSUME NEW c \in Callers, NEW s \in Scopes, CloseBegin(c, s) \/ TryCloseBegin(c, s)
      PROVE  LanesEffect
    BY <1>3, <1>4, <1>7 DEF CloseBegin, TryCloseBegin
<1>8. ASSUME NEW c \in Callers, ReclaimBegin(c) PROVE LanesEffect
  <2>1. UNCHANGED laneScope BY <1>8 DEF ReclaimBegin
  <2>2. \A r \in Scopes : scopeState'[r] = "gone" => scopeState[r] = "gone"
      BY <1>4, <1>8 DEF ReclaimBegin, Exists
  <2> QED BY <1>3, <2>1, <2>2
<1>9. ASSUME UNCHANGED <<laneScope, scopeState>> PROVE LanesEffect BY <1>3, <1>9
<1>10. ASSUME Request PROVE LanesEffect
    BY <1>1, <1>5, <1>6, <1>9, <1>10 DEF Request, Submit, Cancel, Poll, RequestStop, shelves
<1>11. ASSUME NEW w \in Workers, Worker(w) PROVE LanesEffect
    BY <1>9, <1>11 DEF Worker, Select, SelectNothing, StartNormal, StartBackground, WorkerExit,
       TimedOut, SpuriousWake, Finish, DriveBegin, DriveBudgetSpent, shelves
<1>12. ASSUME NEW c \in Callers, Caller(c) PROVE LanesEffect
    BY <1>2, <1>7, <1>8, <1>9, <1>12 DEF Caller, CloseCheck, CloseRecheck, shelves
<1>13. ASSUME StopBegin \/ StopJoin \/ Tick \/ Stopped \/ UNCHANGED vars PROVE LanesEffect
    BY <1>9, <1>13 DEF StopBegin, StopJoin, Tick, Stopped, shelves, vars
<1> QED BY <1>10, <1>11, <1>12, <1>13 DEF Next

-----------------------------------------------------------------------------
\* A lane belongs to a scope that exists; a thread that closes a scope has closed it; the
\* host of a cooperative scheduler is inside a call only while it drives nothing.
ThreadInv ==
    /\ \A t \in Tasks : t > accepted => desc[t] = Blank
    /\ \A l \in Lanes : laneScope[l] # NoScope => Exists(laneScope[l])
    /\ \A c \in Callers : callerPc[c] \in Inside => Closed(callerScope[c])

HostInv ==
    /\ callerPc[Host] \in {"joining", "stopped"} => stopping
    /\ callerPc[Host] = "stopped" /\ mode = "thread_pool" =>
           \A w \in Workers : workerPc[w] = "exited"
    /\ mode = "cooperative" =>
           /\ callerPc[Host] # "ready" => \A w \in Workers : workerPc[w] = "outside"
           /\ callerPc[Host] \notin {"waiting", "rechecking"}

(* Nobody is inside a body, so a closed scope has nothing left to wait for. *)
LEMMA ClosedIsIdle ==
    ASSUME TypeOK, OrderInv, ScopeInv, NEW s, Closed(s),
           \A w \in Workers : workerPc[w] # "running"
    PROVE  ScopeIdle(s)
<1> SUFFICES ASSUME NEW t \in InScope(s) PROVE state[t] \in Terminal
    BY DEF ScopeIdle
<1>1. t \in retained /\ t \in Tasks /\ t <= accepted /\ desc[t].scope = s
    BY RetainedAccepted DEF InScope
<1>2. state[t] # "waiting"
    BY <1>1 DEF ScopeInv, CancelReaches, Closed
<1>3. state[t] # "running"
  <2>1. \A w \in Workers : current[w] = 0 BY DEF OrderInv, OneWorkerPerTask
  <2>2. t # 0 BY <1>1 DEF Tasks
  <2> QED BY <1>1, <2>1, <2>2 DEF OrderInv, OneWorkerPerTask
<1>4. state[t] # "absent" BY <1>1 DEF OrderInv, Ledger, Tasks, TypeOK
<1> QED BY <1>1, <1>2, <1>3, <1>4 DEF TypeOK, States

LEMMA ThreadStep ==
    ASSUME TypeOK, OrderInv, ScopeInv, ThreadInv, [Next]_vars PROVE ThreadInv'
<1> USE SchedulerAssumption
<1>1. Effect BY StepEffect
<1>2. \A t \in Tasks : t > accepted' => desc'[t] = Blank
  <2>1. CASE UNCHANGED <<accepted, desc>> BY <2>1 DEF ThreadInv
  <2>2. ASSUME NEW d \in Description, SubmitEffect(d) PROVE \A t \in Tasks : t > accepted' => desc'[t] = Blank
    <3>1. accepted' = accepted + 1 /\ accepted \in Nat BY <2>2 DEF SubmitEffect, TypeOK
    <3>2. \A t \in Tasks : t # accepted + 1 => desc'[t] = desc[t] BY <2>2 DEF SubmitEffect, TypeOK
    <3> QED BY <3>1, <3>2 DEF ThreadInv, Tasks
  <2> QED BY <1>1, <2>1, <2>2 DEF Effect, Quiet, CancelEffect, RemoveEffect, FailEffect,
             StartEffect, FinishEffect
<1>3. \A l \in Lanes : laneScope'[l] # NoScope =>
          laneScope'[l] \in Scopes /\ scopeState'[laneScope'[l]] \in {"open", "closing"}
  <2> SUFFICES ASSUME NEW l \in Lanes, laneScope'[l] # NoScope, laneScope'[l] = laneScope[l]
               PROVE  laneScope'[l] \in Scopes /\ scopeState'[laneScope[l]] \in {"open", "closing"}
      BY StepLanes DEF ThreadInv, LanesEffect
  <2>1. laneScope[l] \in Scopes /\ scopeState[laneScope[l]] \in {"open", "closing"}
      BY DEF ThreadInv, Exists
  <2>2. TypeOK' BY StepType
  <2>3. scopeState'[laneScope[l]] # "gone" BY <2>1, StepLanes DEF ThreadInv, LanesEffect
  <2>4. scopeState'[laneScope[l]] # "unused" BY <1>1, <2>1, StepScopes
  <2> QED BY <2>1, <2>2, <2>3, <2>4 DEF TypeOK
<1>4. \A c \in Callers : callerPc'[c] \in Inside =>
          callerScope'[c] \in Scopes /\ scopeState'[callerScope'[c]] \in {"closing", "gone"}
    BY <1>1, StepCallers, StepScopes DEF CallersEffect, ThreadInv, Closed
<1> QED BY <1>2, <1>3, <1>4 DEF ThreadInv, Exists, Closed

LEMMA HostStep ==
    ASSUME TypeOK, OrderInv, ScopeInv, ThreadInv, HostInv, [Next]_vars PROVE HostInv'
<1> USE SchedulerAssumption
<1>1. CallersEffect BY StepCallers
<1>2. callerPc'[Host] \in {"joining", "stopped"} => stopping'
    BY <1>1 DEF HostInv, CallersEffect
<1>3. callerPc'[Host] = "stopped" /\ mode' = "thread_pool" =>
          \A w \in Workers : workerPc'[w] = "exited"
    BY <1>1, StepWorkers DEF HostInv, CallersEffect
<1>4. ASSUME mode' = "cooperative", callerPc'[Host] # "ready"
      PROVE  \A w \in Workers : workerPc[w] = "outside" /\ workerPc'[w] = "outside"
    BY <1>1, <1>4, StepWorkers DEF HostInv, CallersEffect, Free
<1>5. ASSUME mode' = "cooperative", callerPc'[Host] \in {"waiting", "rechecking"} PROVE FALSE
  <2>1. callerPc[Host] \in Inside /\ ~ScopeIdle(callerScope[Host])
      BY <1>1, <1>5 DEF HostInv, CallersEffect
  <2>2. Closed(callerScope[Host]) BY <2>1 DEF ThreadInv, SchedulerAssumption
  <2>3. \A w \in Workers : workerPc[w] # "running" BY <1>4, <1>5
  <2> QED BY <2>1, <2>2, <2>3, ClosedIsIdle
<1> QED BY <1>2, <1>3, <1>4, <1>5 DEF HostInv

LEMMA ThreadsCorrect == Spec => [](TypeOK /\ OrderInv /\ ScopeInv /\ ThreadInv /\ HostInv)
<1>1. Init => ThreadInv /\ HostInv
    BY SchedulerAssumption DEF Init, ThreadInv, HostInv, Inside, SchedulerAssumption
<1>2. TypeOK /\ OrderInv /\ ScopeInv /\ ThreadInv /\ HostInv /\ [Next]_vars => ThreadInv' /\ HostInv'
    BY ThreadStep, HostStep
<1> QED BY <1>1, <1>2, TablesCorrect, PTL DEF Spec

(* A reclaimed scope has no task that runs or waits and no lane; when stop() has returned no *)
(* body runs or ever will; a cooperative host never blocks (GoneIsQuiet).                     *)
THEOREM GoneQuietCorrect == Spec => []GoneIsQuiet
<1>1. TypeOK /\ OrderInv /\ ScopeInv /\ ThreadInv /\ HostInv => GoneIsQuiet
  <2> SUFFICES ASSUME TypeOK, OrderInv, ScopeInv, ThreadInv, HostInv PROVE GoneIsQuiet  OBVIOUS
  <2> USE SchedulerAssumption
  <2>1. ASSUME NEW s \in Scopes, scopeState[s] = "gone"
        PROVE  /\ InScope(s) = {} /\ \A l \in Lanes : laneScope[l] # s
               /\ \A t \in Tasks : desc[t].scope = s => state[t] \in Terminal
    <3>1. InScope(s) = {} BY <2>1 DEF ScopeInv
    <3>2. \A l \in Lanes : laneScope[l] # s BY <2>1 DEF ThreadInv, Exists, SchedulerAssumption
    <3>3. ASSUME NEW t \in Tasks, desc[t].scope = s PROVE state[t] \in Terminal
      <4>1. t <= accepted
          BY <3>3 DEF ThreadInv, Blank, SchedulerAssumption, Tasks, TypeOK
      <4>2. t \notin retained BY <3>1, <3>3 DEF InScope
      <4> QED BY <3>3, <4>1, <4>2 DEF OrderInv, Ledger, TypeOK, States, Tasks
    <3> QED BY <3>1, <3>2, <3>3
  <2>2. ASSUME callerPc[Host] = "stopped"
        PROVE  /\ \A w \in Workers : workerPc[w] \in {"exited", "outside"}
               /\ \A t \in 1 .. accepted : state[t] \in Terminal
    <3>1. \A w \in Workers : workerPc[w] \in {"exited", "outside"}
        BY <2>2 DEF HostInv, TypeOK, SchedulerAssumption
    <3>2. stopping BY <2>2 DEF HostInv
    <3>3. ASSUME NEW t \in 1 .. accepted PROVE state[t] \in Terminal
      <4>1. t \in Tasks /\ t <= accepted /\ t # 0 BY <3>3 DEF TypeOK, Tasks, SchedulerAssumption
      <4>2. state[t] # "waiting" BY <3>2, <4>1 DEF OrderInv, Ledger, ScopeInv, CancelReaches
      <4>3. \A w \in Workers : current[w] = 0 BY <3>1 DEF OrderInv, OneWorkerPerTask
      <4>4. state[t] # "running" BY <4>1, <4>3 DEF OrderInv, OneWorkerPerTask
      <4>5. state[t] # "absent" BY <4>1 DEF OrderInv, Ledger, Tasks, TypeOK
      <4> QED BY <4>1, <4>2, <4>4, <4>5 DEF TypeOK, States
    <3> QED BY <3>1, <3>3
  <2>3. mode = "cooperative" => callerPc[Host] \notin {"waiting", "rechecking"} BY DEF HostInv
  <2> QED BY <2>1, <2>2, <2>3 DEF GoneIsQuiet
<1> QED BY <1>1, ThreadsCorrect, PTL

-----------------------------------------------------------------------------
(* The contract: what a step does to one task, to the closed scopes and to the gone ones. *)

LEMMA SubmitMoves ==
    ASSUME TypeOK, OrderInv, NEW d \in Description, SubmitEffect(d), NEW t \in Tasks
    PROVE  Contract!Move(t)
<1>1. accepted \in Nat /\ accepted + 1 \in Tasks BY DEF SubmitEffect, TypeOK
<1>2. CASE t = accepted + 1
  <2>1. state[t] = "absent" BY <1>1, <1>2 DEF OrderInv, Ledger
  <2>2. state'[t] = "waiting" /\ desc'[t] = d BY <1>1, <1>2 DEF SubmitEffect, TypeOK
  <2>3. scopeState'[d.scope] = "open" BY DEF SubmitEffect, Acceptable
  <2>4. Contract!Enter(t) BY <1>2, <2>1, <2>2, <2>3 DEF SubmitEffect, Contract!Enter
  <2> QED BY <2>4 DEF Contract!Move
<1>3. CASE t # accepted + 1
    BY <1>1, <1>3 DEF SubmitEffect, TypeOK, Contract!Move
<1> QED BY <1>2, <1>3

LEMMA CancelMoves ==
    ASSUME TypeOK, NEW S \in SUBSET retained, CancelEffect(S), NEW t \in Tasks
    PROVE  Contract!Move(t)
BY DEF CancelEffect, Waiting, TypeOK, Contract!Move, Contract!Withdraw

(* A task found failed on the walk inherits it from a prerequisite that ended otherwise than *)
(* in success, or that failed on the same walk.                                              *)
LEMMA FailMoves ==
    ASSUME TypeOK, OrderInv, NEW failed \in SUBSET Waiting, DependencyFailed(failed),
           \A u \in Tasks : /\ u \in failed => state'[u] = "dependency_failed"
                            /\ state[u] \in Terminal => state'[u] = state[u],
           NEW t \in failed
    PROVE  Contract!InheritFailure(t)
<1>1. PICK p \in desc[t].prereqs : state[p] \in Terminal \ {"succeeded"} \/ p \in failed
    BY DEF DependencyFailed
<1>2. t \in Tasks /\ state[t] = "waiting" BY RetainedAccepted DEF Waiting
<1>3. p \in Tasks BY <1>2, PrereqsAreTasks
<1>4. state'[p] \in Contract!Ended \ {"succeeded"} BY <1>1, <1>3 DEF Terminal, Contract!Ended
<1> QED BY <1>2, <1>4 DEF Contract!InheritFailure

LEMMA FailEffectMoves ==
    ASSUME TypeOK, OrderInv, NEW failed \in SUBSET Waiting, FailEffect(failed), NEW t \in Tasks
    PROVE  Contract!Move(t)
<1>1. \A u \in Tasks : /\ u \in failed => state'[u] = "dependency_failed"
                       /\ u \notin failed => state'[u] = state[u]
                       /\ state[u] \in Terminal => state'[u] = state[u]
    BY DEF FailEffect, Waiting, Terminal
<1>2. t \in failed => Contract!InheritFailure(t) BY <1>1, FailMoves DEF FailEffect
<1> QED BY <1>1, <1>2 DEF FailEffect, Contract!Move

LEMMA StartMoves ==
    ASSUME TypeOK, OrderInv, NEW w \in Workers, NEW failed \in SUBSET Waiting, NEW s \in Waiting,
           StartEffect(w, failed, s), NEW t \in Tasks
    PROVE  Contract!Move(t)
<1>1. s \in Tasks /\ state[s] = "waiting" /\ s \notin failed
    BY RetainedAccepted DEF Waiting, StartEffect
<1>2. /\ state'[s] = "running"
      /\ \A u \in Tasks : /\ u \in failed => state'[u] = "dependency_failed"
                          /\ u \notin failed /\ u # s => state'[u] = state[u]
                          /\ state[u] \in Terminal => state'[u] = state[u]
    BY <1>1 DEF StartEffect, Waiting, Terminal
<1>3. t \in failed => Contract!InheritFailure(t) BY <1>2, FailMoves DEF StartEffect
<1>4. Contract!Start(s)
  <2>1. \A p \in desc[s].prereqs : state[p] = "succeeded" BY StartedDependencies
  <2>2. ASSUME desc[s].lane # NoLane, NEW u \in 1 .. s - 1, desc[u].lane = desc[s].lane
        PROVE  state'[u] \in Terminal
    <3>1. u \in Tasks /\ u < s BY <1>1, SchedulerAssumption DEF Tasks, SchedulerAssumption
    <3>2. state[u] # "absent"
      <4>1. s <= accepted BY RetainedAccepted DEF Waiting
      <4> QED BY <1>1, <3>1, <4>1 DEF OrderInv, Ledger, Tasks, TypeOK
    <3>3. u \notin retained \ failed \/ state[u] \in Terminal
        BY <2>2, <3>1 DEF StartEffect, SerialBlocked
    <3>4. state[u] \in Terminal \/ u \in failed
        BY <3>1, <3>2, <3>3 DEF OrderInv, Ledger, TypeOK, States
    <3> QED BY <1>2, <3>1, <3>4 DEF Terminal
  <2>3. \A u \in Tasks \ {s} : state'[u] = "running" => state[u] = "running"
      BY <1>2
  <2>4. Terminal = Contract!Ended /\ Tasks = Contract!Tasks
      BY DEF Terminal, Contract!Ended, Tasks, Contract!Tasks
  <2> QED BY <1>1, <1>2, <2>1, <2>2, <2>3, <2>4 DEF Contract!Start
<1> QED BY <1>2, <1>3, <1>4 DEF StartEffect, Contract!Move

LEMMA FinishMoves ==
    ASSUME TypeOK, OrderInv, NEW w \in Workers,
           NEW outcome \in {"succeeded", "failed", "cancelled"}, FinishEffect(w, outcome),
           NEW t \in Tasks
    PROVE  Contract!Move(t)
<1>1. state[current[w]] = "running" BY DEF OrderInv, OneWorkerPerTask, FinishEffect
<1>2. CASE t = current[w]
    BY <1>1, <1>2 DEF FinishEffect, TypeOK, Contract!Move, Contract!Complete
<1>3. CASE t # current[w]
    BY <1>3 DEF FinishEffect, TypeOK, Contract!Move
<1> QED BY <1>2, <1>3

LEMMA StepMoves ==
    ASSUME TypeOK, OrderInv, Effect, NEW t \in Tasks PROVE Contract!Move(t)
<1>1. CASE UNCHANGED <<desc, state>> BY <1>1 DEF Contract!Move
<1> QED BY <1>1, SubmitMoves, CancelMoves, FailEffectMoves, StartMoves, FinishMoves
        DEF Effect, Quiet, RemoveEffect

(* Closing a scope leaves none of its tasks waiting. *)
LEMMA StepCloses ==
    ASSUME TypeOK, OrderInv, Effect, NEW s \in Scopes,
           scopeState[s] \notin {"closing", "gone"}, scopeState'[s] \in {"closing", "gone"}
    PROVE  \A t \in Tasks : desc[t].scope = s => state'[t] # "waiting"
<1>1. ~Quiet BY DEF Quiet
<1>2. scopeState' # scopeState OBVIOUS
<1>3. ASSUME NEW B \in SUBSET retained, RemoveEffect(B)
      PROVE  \A t \in Tasks : desc[t].scope = s => state'[t] # "waiting"
  <2>1. InScope(s) \subseteq B BY <1>3 DEF RemoveEffect
  <2> QED BY <1>3, <2>1 DEF RemoveEffect, InScope, OrderInv, Ledger, Terminal
<1>4. ASSUME NEW S \in SUBSET retained, CancelEffect(S)
      PROVE  \A t \in Tasks : desc[t].scope = s => state'[t] # "waiting"
  <2>1. InScope(s) \subseteq S BY <1>4 DEF CancelEffect
  <2> QED BY <1>4, <2>1 DEF CancelEffect, Waiting, InScope, OrderInv, Ledger
<1> QED BY <1>1, <1>2, <1>3, <1>4 DEF Effect, SubmitEffect, FailEffect, StartEffect, FinishEffect

(* A scope is given back only when it was closed and every task it ever had is over. *)
LEMMA StepReclaims ==
    ASSUME TypeOK, OrderInv, ThreadInv, [Next]_vars, NEW s \in Scopes,
           scopeState[s] # "gone", scopeState'[s] = "gone"
    PROVE  scopeState[s] = "closing" /\ \A t \in Tasks : desc[t].scope = s => state[t] \in Terminal
<1> USE SchedulerAssumption
<1>1. scopeState[s] = "closing" BY StepLanes DEF ThreadInv, LanesEffect
<1>2. PICK B \in SUBSET retained : RemoveEffect(B)
    BY StepEffect DEF Effect, Quiet, CancelEffect, SubmitEffect, FailEffect, StartEffect, FinishEffect
<1>3. InScope(s) \subseteq B BY <1>2 DEF RemoveEffect
<1>4. ASSUME NEW t \in Tasks, desc[t].scope = s PROVE state[t] \in Terminal
  <2>1. t <= accepted BY <1>4 DEF ThreadInv, Blank, SchedulerAssumption, Tasks, TypeOK
  <2>2. t \in retained => state[t] \in Terminal
      BY <1>2, <1>3, <1>4 DEF InScope, RemoveEffect
  <2> QED BY <1>4, <2>1, <2>2 DEF OrderInv, Ledger, TypeOK, States, Tasks
<1> QED BY <1>1, <1>4

LEMMA StepKeepsContract ==
    ASSUME TypeOK, OrderInv, ThreadInv, [Next]_vars PROVE Contract!Next
<1> USE SchedulerAssumption
<1>1. Effect BY StepEffect
<1>2. Tasks = Contract!Tasks /\ Terminal = Contract!Ended
    BY DEF Tasks, Contract!Tasks, Terminal, Contract!Ended
<1>3. accepted' \in {accepted, accepted + 1} /\ accepted' <= MaxTasks
  <2>1. TypeOK' BY StepType
  <2>2. accepted' \in {accepted, accepted + 1}
      BY <1>1 DEF Effect, Quiet, CancelEffect, SubmitEffect, RemoveEffect, FailEffect, StartEffect,
         FinishEffect
  <2> QED BY <2>1, <2>2 DEF TypeOK
<1>4. \A t \in Contract!Tasks : Contract!Move(t) BY <1>1, <1>2, StepMoves
<1> DEFINE closed == {s \in Scopes : scopeState[s] \in {"closing", "gone"}}
           gone == {s \in Scopes : scopeState[s] = "gone"}
<1>5. closed \subseteq closed' /\ \A s \in closed' \ closed : s \in Scopes /\ Contract!Closing(s)
  <2>1. closed \subseteq closed' BY <1>1, StepScopes
  <2>2. \A s \in closed' \ closed : \A t \in Tasks : desc[t].scope = s => state'[t] # "waiting"
      BY <1>1, StepCloses
  <2> QED BY <1>2, <2>1, <2>2 DEF Contract!Closing
<1>6. gone \subseteq gone' /\ \A s \in gone' \ gone : Contract!Reclaiming(s)
  <2>1. gone \subseteq gone' BY <1>1, StepScopes
  <2>2. \A s \in gone' \ gone : s \in closed /\ \A t \in Tasks : desc[t].scope = s => state[t] \in Terminal
      BY StepReclaims
  <2> QED BY <1>2, <2>1, <2>2 DEF Contract!Reclaiming
<1> QED BY <1>3, <1>4, <1>5, <1>6 DEF Contract!Next

(* Every behaviour of the scheduler is one its clients' contract allows (KeepsContract). *)
THEOREM ContractKept == Spec => KeepsContract
<1>1. Init => Contract!Init
    BY DEF Init, Contract!Init, Tasks, Contract!Tasks
<1>2. TypeOK /\ OrderInv /\ ThreadInv /\ [Next]_vars => [Contract!Next]_(Contract!vars)
    BY StepKeepsContract
<1> QED BY <1>1, <1>2, ThreadsCorrect, PTL DEF Spec, KeepsContract, Contract!Spec

-----------------------------------------------------------------------------
(* The budget of background tasks. *)
RunningBackground == {t \in Tasks : state[t] = "running" /\ desc[t].priority = "background"}

\* The counter is exact and within its limit, and the streak bounds the tasks passed by.
BudgetInv ==
    /\ runningBackground = Cardinality(RunningBackground)
    /\ runningBackground <= BackgroundCap
    /\ bypassed <= normalStreak

LEMMA RunningBackgroundFinite ==
    ASSUME SchedulerAssumption, NEW S \in SUBSET Tasks
    PROVE  IsFiniteSet(S) /\ Cardinality(S) \in Nat
<1>1. IsFiniteSet(Tasks) BY FS_Interval DEF Tasks, SchedulerAssumption
<1> QED BY <1>1, FS_Subset, FS_CardinalityType

(* All but three actions leave the budget alone and start and end no body. *)
LEMMA StepBudget ==
    ASSUME TypeOK, SchedulerAssumption, [Next]_vars
    PROVE  \/ UNCHANGED budget /\ RunnersKept
           \/ \E w \in Workers, failed \in SUBSET Waiting, t \in Waiting :
                  StartNormal(w, failed, t) \/ StartBackground(w, failed, t)
           \/ \E w \in Workers, outcome \in {"succeeded", "failed", "cancelled"} : Finish(w, outcome)
<1> USE DEF WorkerPlaces
<1>1. ASSUME Request PROVE UNCHANGED budget /\ RunnersKept
    BY <1>1, WakingKeepsRunners DEF Request, MakeScope, CancelScope, CancelScopeStep,
       MakeSerialQueue, Submit, Cancel, Poll, RequestStop, RequestStopStep, workerVars
<1>2. ASSUME NEW c \in Callers, Caller(c) PROVE UNCHANGED budget /\ RunnersKept
    BY <1>2, WakingKeepsRunners DEF Caller, CloseBegin, TryCloseBegin, CloseCheck, CloseRecheck,
       ReclaimBegin, Erase, CancelScopeStep, workerVars
<1>3. ASSUME StopBegin \/ StopJoin \/ Tick \/ Stopped \/ UNCHANGED vars
      PROVE  UNCHANGED budget /\ RunnersKept
    BY <1>3, WakingKeepsRunners DEF StopBegin, RequestStopStep, StopJoin, Tick, Stopped,
       workerVars, vars, budget
<1>4. ASSUME NEW w \in Workers,
             \/ WorkerExit(w) \/ TimedOut(w) \/ SpuriousWake(w) \/ DriveBegin(w)
             \/ DriveBudgetSpent(w)
             \/ \E failed \in SUBSET Waiting, due \in DueTimes \cup {Never} :
                    SelectNothing(w, failed, due)
      PROVE  UNCHANGED budget /\ RunnersKept
    BY <1>4, WakingKeepsRunners DEF WorkerExit, TimedOut, SpuriousWake, DriveBegin,
       DriveBudgetSpent, SelectNothing, Selecting, RunnersKept
<1> QED BY <1>1, <1>2, <1>3, <1>4 DEF Next, Worker, Select

LEMMA RunningKept ==
    ASSUME TypeOK, OrderInv, Effect, RunnersKept PROVE RunningBackground' = RunningBackground
<1>1. CASE Quiet \/ \E B \in SUBSET retained : RemoveEffect(B)
    BY <1>1 DEF Quiet, RemoveEffect, RunningBackground
<1>2. ASSUME NEW S \in SUBSET retained, CancelEffect(S) PROVE RunningBackground' = RunningBackground
    BY <1>2 DEF CancelEffect, Waiting, TypeOK, RunningBackground
<1>3. ASSUME NEW d \in Description, SubmitEffect(d) PROVE RunningBackground' = RunningBackground
  <2>1. accepted \in Nat /\ accepted + 1 \in Tasks BY <1>3 DEF SubmitEffect, TypeOK
  <2>2. state[accepted + 1] = "absent" BY <2>1 DEF OrderInv, Ledger
  <2>3. /\ state'[accepted + 1] = "waiting"
        /\ \A t \in Tasks : t # accepted + 1 => state'[t] = state[t] /\ desc'[t] = desc[t]
      BY <1>3, <2>1 DEF SubmitEffect, TypeOK
  <2> QED BY <2>2, <2>3 DEF RunningBackground
<1>4. ASSUME NEW failed \in SUBSET Waiting, FailEffect(failed)
      PROVE  RunningBackground' = RunningBackground
    BY <1>4 DEF FailEffect, Waiting, TypeOK, RunningBackground
<1>5. ASSUME NEW w \in Workers, NEW failed \in SUBSET Waiting, NEW t \in Waiting,
             StartEffect(w, failed, t)
      PROVE  FALSE
    BY <1>5 DEF StartEffect, RunnersKept
<1>6. ASSUME NEW w \in Workers, NEW outcome \in {"succeeded", "failed", "cancelled"},
             FinishEffect(w, outcome)
      PROVE  FALSE
    BY <1>6 DEF FinishEffect, RunnersKept
<1> QED BY <1>1, <1>2, <1>3, <1>4, <1>5, <1>6 DEF Effect

LEMMA StartBudget ==
    ASSUME TypeOK, OrderInv, SchedulerAssumption, BudgetInv, NEW w \in Workers,
           NEW failed \in SUBSET Waiting, NEW t \in Waiting,
           StartNormal(w, failed, t) \/ StartBackground(w, failed, t)
    PROVE  BudgetInv'
<1> USE DEF SchedulerAssumption
<1>1. t \in Unblocked(failed)
    BY DEF StartNormal, StartBackground, Oldest, Normals, Backgrounds, Due
<1>2. t \in Tasks /\ state[t] = "waiting" /\ t \notin failed
    BY <1>1, RetainedAccepted DEF Waiting, Unblocked
<1>3. /\ state'[t] = "running" /\ desc' = desc
      /\ \A u \in Tasks \ {t} : state'[u] = "running" <=> state[u] = "running"
    BY <1>2 DEF StartNormal, StartBackground, FailThenStart, settings, Waiting
<1>4. bypassed \in Nat /\ normalStreak \in Nat /\ runningBackground \in Int BY DEF TypeOK
<1>5. CASE StartNormal(w, failed, t)
  <2>1. desc[t].priority = "normal"
      BY <1>5 DEF StartNormal, Oldest, Normals, Due
  <2>2. RunningBackground' = RunningBackground BY <1>2, <1>3, <2>1 DEF RunningBackground
  <2>3. UNCHANGED runningBackground BY <1>5 DEF StartNormal
  <2>4. bypassed' <= normalStreak'
      BY <1>4, <1>5 DEF StartNormal, PreferNormal, BudgetInv, TypeOK
  <2> QED BY <2>2, <2>3, <2>4 DEF BudgetInv
<1>6. CASE StartBackground(w, failed, t)
  <2>1. desc[t].priority = "background" /\ runningBackground < BackgroundCap
      BY <1>6 DEF StartBackground, Oldest, Backgrounds, Due
  <2>2. RunningBackground' = RunningBackground \cup {t} /\ t \notin RunningBackground
      BY <1>2, <1>3, <2>1 DEF RunningBackground
  <2>3. IsFiniteSet(RunningBackground) BY RunningBackgroundFinite DEF RunningBackground
  <2>4. Cardinality(RunningBackground \cup {t}) = Cardinality(RunningBackground) + 1
      BY <2>2, <2>3, FS_AddElement
  <2>5. /\ runningBackground' = runningBackground + 1
        /\ normalStreak' = 0 /\ bypassed' = 0
      BY <1>6 DEF StartBackground
  <2>6. runningBackground' <= BackgroundCap BY <1>4, <2>1, <2>5
  <2>7. runningBackground' = Cardinality(RunningBackground') BY <2>2, <2>4, <2>5 DEF BudgetInv
  <2> QED BY <2>5, <2>6, <2>7 DEF BudgetInv
<1> QED BY <1>5, <1>6

LEMMA FinishBudget ==
    ASSUME TypeOK, OrderInv, SchedulerAssumption, BudgetInv, NEW w \in Workers,
           NEW outcome \in {"succeeded", "failed", "cancelled"}, Finish(w, outcome)
    PROVE  BudgetInv'
<1> DEFINE t == current[w]
<1>1. t \in Tasks /\ state[t] = "running"
    BY DEF OrderInv, OneWorkerPerTask, Finish, TypeOK, Tasks
<1>2. /\ state'[t] = outcome /\ desc' = desc
      /\ \A u \in Tasks \ {t} : state'[u] = state[u]
    BY <1>1 DEF Finish, settings, TypeOK
<1>3. RunningBackground' = RunningBackground \ {t} BY <1>1, <1>2 DEF RunningBackground
<1>4. UNCHANGED <<normalStreak, bypassed>> BY DEF Finish
<1>5. runningBackground \in Int BY DEF TypeOK
<1>6. CASE desc[t].priority = "background"
  <2>1. t \in RunningBackground BY <1>1, <1>6 DEF RunningBackground
  <2>2. IsFiniteSet(RunningBackground) BY RunningBackgroundFinite DEF RunningBackground
  <2>3. Cardinality(RunningBackground \ {t}) = Cardinality(RunningBackground) - 1
      BY <2>1, <2>2, FS_RemoveElement
  <2>4. runningBackground' = runningBackground - 1 BY <1>6 DEF Finish, BudgetAfter
  <2>5. runningBackground' <= BackgroundCap BY <1>5, <2>4 DEF BudgetInv, SchedulerAssumption
  <2>6. runningBackground' = Cardinality(RunningBackground') BY <1>3, <2>3, <2>4 DEF BudgetInv
  <2> QED BY <1>4, <2>5, <2>6 DEF BudgetInv
<1>7. CASE desc[t].priority # "background"
  <2>1. RunningBackground' = RunningBackground BY <1>3, <1>7 DEF RunningBackground
  <2>2. UNCHANGED runningBackground BY <1>7 DEF Finish, BudgetAfter
  <2> QED BY <1>4, <2>1, <2>2 DEF BudgetInv
<1> QED BY <1>6, <1>7

(* running_background is exact and within the limit, and a background task that could start  *)
(* is passed by at most StreakLimit times in a row (BackgroundServed).                        *)
THEOREM BackgroundCorrect == Spec => []BackgroundServed
<1> USE SchedulerAssumption
<1>1. Init => BudgetInv
  <2>1. Init => RunningBackground = {} BY DEF Init, RunningBackground
  <2> QED BY <2>1, FS_EmptySet DEF Init, BudgetInv, SchedulerAssumption
<1>2. TypeOK /\ OrderInv /\ BudgetInv /\ [Next]_vars => BudgetInv'
  <2> SUFFICES ASSUME TypeOK, OrderInv, BudgetInv, [Next]_vars PROVE BudgetInv'  OBVIOUS
  <2>1. CASE UNCHANGED budget /\ RunnersKept
    <3>1. RunningBackground' = RunningBackground BY <2>1, StepEffect, RunningKept
    <3> QED BY <2>1, <3>1 DEF budget, BudgetInv
  <2> QED BY <2>1, StepBudget, StartBudget, FinishBudget
<1>3. TypeOK /\ BudgetInv => BackgroundServed
    BY DEF TypeOK, BudgetInv, BackgroundServed, RunningBackground, SchedulerAssumption
<1> QED BY <1>1, <1>2, <1>3, TablesCorrect, PTL DEF Spec

-----------------------------------------------------------------------------
(* The wakeups nobody may lose.                                               *)

\* Tasks a walk of select() would fail, and whether a worker may sleep until its deadline.
Spoiled == {t \in Waiting : \E p \in desc[t].prereqs : state[p] \in Terminal \ {"succeeded"}}
Held(t, due) ==
    \/ desc[t].due >= due
    \/ desc[t].priority = "background" /\ runningBackground >= BackgroundCap
MaySleep(w) == ~stopping /\ Spoiled = {} /\ \A t \in Unblocked({}) : Held(t, deadline[w])

SleepInv ==
    /\ \A w \in Workers : workerPc[w] = "waiting" => MaySleep(w)
    /\ \A c \in Callers : callerPc[c] = "waiting" => ~ScopeIdle(callerScope[c])

\* Nothing happens that anybody sleeping waits for: tasks may only start.
Calm ==
    /\ UNCHANGED <<desc, stopping>>
    /\ runningBackground' \in {runningBackground, runningBackground + 1}
    /\ \A t \in Tasks : \/ state'[t] = state[t]
                        \/ state[t] = "waiting" /\ state'[t] = "running"
    /\ retained' \subseteq retained /\ \A t \in retained \ retained' : state[t] \in Terminal

LEMMA CalmKeepsIdle ==
    ASSUME TypeOK, OrderInv, Calm, NEW s, ~ScopeIdle(s)
    PROVE  \E t \in retained' : desc'[t].scope = s /\ state'[t] \notin Terminal
<1>1. PICK t \in InScope(s) : state[t] \notin Terminal BY DEF ScopeIdle
<1>2. t \in retained /\ t \in Tasks /\ desc[t].scope = s BY <1>1, RetainedAccepted DEF InScope
<1>3. t \in retained' /\ state'[t] \notin Terminal BY <1>1, <1>2 DEF Calm, Terminal
<1> QED BY <1>2, <1>3 DEF Calm

LEMMA CalmKeepsAsleep ==
    ASSUME TypeOK, OrderInv, Calm, NEW w \in Workers, MaySleep(w), deadline'[w] = deadline[w]
    PROVE  MaySleep(w)'
<1>1. /\ UNCHANGED <<desc, stopping>>
      /\ \A t \in Tasks : /\ state'[t] \in Terminal <=> state[t] \in Terminal
                          /\ state'[t] = "waiting" => state[t] = "waiting"
                          /\ state'[t] \in Terminal => state'[t] = state[t]
    BY DEF Calm, Terminal
<1>2. \A t \in Tasks : desc[t].prereqs \subseteq Tasks BY PrereqsAreTasks
<1>3. Waiting' \subseteq Waiting /\ Waiting \subseteq Tasks
    BY <1>1, RetainedAccepted DEF Waiting, Calm
<1>4. Spoiled' = {}
  <2>1. Spoiled' \subseteq Spoiled BY <1>1, <1>2, <1>3 DEF Spoiled
  <2> QED BY <2>1 DEF MaySleep
<1>5. Unblocked({})' \subseteq Unblocked({})
  <2> SUFFICES ASSUME NEW t \in Unblocked({})' PROVE t \in Unblocked({})  OBVIOUS
  <2>1. t \in Waiting' /\ DependenciesMet(t)' /\ ~SerialBlocked(t, {})' BY DEF Unblocked
  <2>2. t \in Waiting /\ t \in Tasks BY <1>3, <2>1
  <2>3. DependenciesMet(t) BY <1>1, <1>2, <2>1, <2>2 DEF DependenciesMet
  <2>4. \A u \in retained : state[u] \notin Terminal => u \in retained' /\ state'[u] \notin Terminal
      BY <1>1, RetainedAccepted DEF Calm
  <2>5. ~SerialBlocked(t, {}) BY <1>1, <2>1, <2>4 DEF SerialBlocked
  <2> QED BY <2>2, <2>3, <2>5 DEF Unblocked
<1>6. \A t \in Unblocked({})' : Held(t, deadline[w])'
  <2>1. \A t \in Unblocked({})' : Held(t, deadline[w]) BY <1>5 DEF MaySleep
  <2>2. runningBackground >= BackgroundCap => runningBackground' >= BackgroundCap
      BY SchedulerAssumption DEF Calm, TypeOK, SchedulerAssumption
  <2>3. UNCHANGED <<desc>> /\ deadline'[w] = deadline[w] BY <1>1
  <2> QED BY <2>1, <2>2, <2>3 DEF Held
<1> QED BY <1>1, <1>4, <1>6 DEF MaySleep

\* Who is asleep after a step slept before it, and nothing he waits for happened; or he has
\* just looked.
SleepersEffect ==
    /\ \A w \in Workers : workerPc'[w] = "waiting" =>
           \/ Calm /\ workerPc[w] = "waiting" /\ deadline'[w] = deadline[w]
           \/ \E failed \in SUBSET Waiting, due \in DueTimes \cup {Never} :
                  SelectNothing(w, failed, due)
    /\ \A c \in Callers : callerPc'[c] = "waiting" =>
           /\ Calm /\ callerScope'[c] = callerScope[c]
           /\ callerPc[c] = "waiting" \/ ~ScopeIdle(callerScope[c])

\* Nobody sleeps on through the step, and nobody falls asleep in it.
AllUp ==
    /\ \A w \in Workers : workerPc'[w] # "waiting"
    /\ \A c \in Callers : callerPc'[c] # "waiting"
\* Nobody falls asleep in the step.
NoneFalls ==
    /\ \A w \in Workers : workerPc'[w] = "waiting" => workerPc[w] = "waiting" /\ deadline'[w] = deadline[w]
    /\ \A c \in Callers : callerPc'[c] = "waiting" => callerPc[c] = "waiting" /\ callerScope'[c] = callerScope[c]

LEMMA UpOrCalm == ASSUME AllUp \/ (Calm /\ NoneFalls) PROVE SleepersEffect
BY DEF AllUp, NoneFalls, SleepersEffect

LEMMA Hearing ==
    ASSUME TypeOK
    PROVE  /\ WorkersHear(TRUE) => \A w \in Workers : workerPc'[w] # "waiting"
           /\ CallersHear(TRUE) => \A c \in Callers : callerPc'[c] # "waiting"
           /\ WorkersHear(FALSE) => UNCHANGED workerPc
           /\ CallersHear(FALSE) => UNCHANGED callerPc
           /\ \A w \in Workers, place \in WorkerPlaces :
                  /\ WorkerGoes(w, place, TRUE) =>
                         workerPc'[w] = place /\ \A v \in Workers \ {w} : workerPc'[v] # "waiting"
                  /\ WorkerGoes(w, place, FALSE) =>
                         workerPc'[w] = place /\ \A v \in Workers \ {w} : workerPc'[v] = workerPc[v]
           /\ \A c \in Callers, place \in CallerPlaces :
                  /\ CallerGoes(c, place, TRUE) =>
                         callerPc'[c] = place /\ \A b \in Callers \ {c} : callerPc'[b] # "waiting"
                  /\ CallerGoes(c, place, FALSE) =>
                         callerPc'[c] = place /\ \A b \in Callers \ {c} : callerPc'[b] = callerPc[b]
<1>1. /\ WorkersHear(TRUE) => \A w \in Workers : workerPc'[w] # "waiting"
      /\ CallersHear(TRUE) => \A c \in Callers : callerPc'[c] # "waiting"
      /\ WorkersHear(FALSE) => UNCHANGED workerPc
      /\ CallersHear(FALSE) => UNCHANGED callerPc
    BY DEF TypeOK, WorkersHear, CallersHear, WorkersAwake, CallersAwake
<1>2. ASSUME NEW w \in Workers, NEW place \in WorkerPlaces
      PROVE  /\ WorkerGoes(w, place, TRUE) =>
                    workerPc'[w] = place /\ \A v \in Workers \ {w} : workerPc'[v] # "waiting"
             /\ WorkerGoes(w, place, FALSE) =>
                    workerPc'[w] = place /\ \A v \in Workers \ {w} : workerPc'[v] = workerPc[v]
    BY DEF TypeOK, WorkerGoes, WorkersAwake
<1>3. ASSUME NEW c \in Callers, NEW place \in CallerPlaces
      PROVE  /\ CallerGoes(c, place, TRUE) =>
                    callerPc'[c] = place /\ \A b \in Callers \ {c} : callerPc'[b] # "waiting"
             /\ CallerGoes(c, place, FALSE) =>
                    callerPc'[c] = place /\ \A b \in Callers \ {c} : callerPc'[b] = callerPc[b]
    BY DEF TypeOK, CallerGoes, CallersAwake
<1> QED BY <1>1, <1>2, <1>3

(* Where no state changes and only ended tasks leave the table, nothing stirs. *)
LEMMA StillIsCalm ==
    ASSUME TypeOK, UNCHANGED <<desc, stopping, runningBackground, state>>,
           retained' \subseteq retained, \A t \in retained \ retained' : state[t] \in Terminal
    PROVE  Calm
BY DEF Calm

LEMMA NothingDoomed ==
    ASSUME TypeOK, NEW targets, Cancelling(targets), Doomed(targets) = {},
           UNCHANGED <<desc, retained, stopping, runningBackground>>
    PROVE  Calm
<1>1. state' = state BY DEF TypeOK, Cancelling
<1> QED BY <1>1, StillIsCalm

LEMMA RequestSleepers == ASSUME TypeOK, Request PROVE SleepersEffect
<1> USE DEF settings, shelves, budget, workerVars, callerVars
<1>1. ASSUME NEW s \in Scopes, MakeScope(s) \/ \E l \in Lanes : MakeSerialQueue(l, s)
      PROVE  SleepersEffect
  <2>1. Calm BY <1>1, StillIsCalm DEF MakeScope, MakeSerialQueue
  <2>2. NoneFalls BY <1>1 DEF MakeScope, MakeSerialQueue, NoneFalls
  <2> QED BY <2>1, <2>2, UpOrCalm
<1>2. ASSUME NEW s \in Scopes, NEW batch \in SUBSET retained, Poll(s, batch) PROVE SleepersEffect
  <2>1. Calm BY <1>2, StillIsCalm DEF Poll
  <2>2. NoneFalls BY <1>2 DEF Poll, NoneFalls
  <2> QED BY <2>1, <2>2, UpOrCalm
<1>3. ASSUME RequestStop \/ \E d \in Description : Submit(d) PROVE SleepersEffect
  <2>1. AllUp BY <1>3, Hearing DEF RequestStop, RequestStopStep, Submit, AllUp
  <2> QED BY <2>1, UpOrCalm
<1>4. ASSUME NEW t \in Tasks, Cancel(t) PROVE SleepersEffect
  <2>1. CASE Doomed({t}) = {}
    <3>1. Calm BY <1>4, <2>1, NothingDoomed DEF Cancel
    <3>2. NoneFalls BY <1>4, <2>1, Hearing DEF Cancel, NoneFalls
    <3> QED BY <3>1, <3>2, UpOrCalm
  <2>2. CASE Doomed({t}) # {}
    <3>1. AllUp BY <1>4, <2>2, Hearing DEF Cancel, AllUp
    <3> QED BY <3>1, UpOrCalm
  <2> QED BY <2>1, <2>2
<1>5. ASSUME NEW s \in Scopes, CancelScope(s) PROVE SleepersEffect
  <2>1. CASE Doomed(InScope(s)) = {}
    <3>1. Calm BY <1>5, <2>1, NothingDoomed DEF CancelScope, CancelScopeStep
    <3>2. NoneFalls BY <1>5, <2>1, Hearing DEF CancelScope, CancelScopeStep, NoneFalls
    <3> QED BY <3>1, <3>2, UpOrCalm
  <2>2. CASE Doomed(InScope(s)) # {}
    <3>1. AllUp BY <1>5, <2>2, Hearing DEF CancelScope, CancelScopeStep, AllUp
    <3> QED BY <3>1, UpOrCalm
  <2> QED BY <2>1, <2>2
<1> QED BY <1>1, <1>2, <1>3, <1>4, <1>5 DEF Request

LEMMA CallerSleepers == ASSUME TypeOK, NEW c \in Callers, Caller(c) PROVE SleepersEffect
<1> USE DEF settings, shelves, budget, workerVars, callerVars, CallerPlaces
<1>1. ASSUME NEW s, NEW place \in {"checking", "erasing"}, CancelScopeStep(s),
             CallerGoes(c, place, Doomed(InScope(s)) # {}),
             UNCHANGED <<desc, retained, stopping, runningBackground, deadline>>,
             \A b \in Callers \ {c} : callerScope'[b] = callerScope[b]
      PROVE  SleepersEffect
  <2>1. CASE Doomed(InScope(s)) = {}
    <3>1. Calm BY <1>1, <2>1, NothingDoomed DEF CancelScopeStep
    <3>2. UNCHANGED workerPc BY <1>1, <2>1, Hearing DEF CancelScopeStep
    <3>3. callerPc'[c] = place /\ \A b \in Callers \ {c} : callerPc'[b] = callerPc[b]
        BY <1>1, <2>1, Hearing
    <3>4. NoneFalls BY <1>1, <3>2, <3>3 DEF NoneFalls
    <3> QED BY <3>1, <3>4, UpOrCalm
  <2>2. CASE Doomed(InScope(s)) # {}
    <3>1. \A w \in Workers : workerPc'[w] # "waiting"
        BY <1>1, <2>2, Hearing DEF CancelScopeStep
    <3>2. callerPc'[c] = place /\ \A b \in Callers \ {c} : callerPc'[b] # "waiting"
        BY <1>1, <2>2, Hearing
    <3>3. AllUp BY <3>1, <3>2 DEF AllUp
    <3> QED BY <3>3, UpOrCalm
  <2> QED BY <2>1, <2>2
<1>2. ASSUME NEW s \in Scopes, CloseBegin(c, s) PROVE SleepersEffect
  <2>1. \A b \in Callers \ {c} : callerScope'[b] = callerScope[b]
      BY <1>2 DEF TypeOK, CloseBegin
  <2> QED BY <1>1, <1>2, <2>1 DEF CloseBegin
<1>3. ASSUME NEW s \in Scopes, TryCloseBegin(c, s) PROVE SleepersEffect
  <2>1. \A b \in Callers \ {c} : callerScope'[b] = callerScope[b]
      BY <1>3 DEF TypeOK, TryCloseBegin
  <2> QED BY <1>1, <1>3, <2>1 DEF TryCloseBegin
<1>4. ASSUME CloseCheck(c) \/ CloseRecheck(c) PROVE SleepersEffect
  <2>1. Calm BY <1>4, StillIsCalm DEF CloseCheck, CloseRecheck
  <2>2. /\ callerPc'[c] = "waiting" => ~ScopeIdle(callerScope[c])
        /\ \A b \in Callers \ {c} : callerPc'[b] = callerPc[b]
    <3>1. CASE CloseCheck(c) BY <3>1, Hearing DEF CloseCheck
    <3>2. CASE CloseRecheck(c) BY <3>2, Hearing DEF CloseRecheck
    <3> QED BY <1>4, <3>1, <3>2
  <2>3. /\ callerPc'[c] = "waiting" => callerScope'[c] = callerScope[c]
        /\ \A b \in Callers \ {c} : callerScope'[b] = callerScope[b]
    <3>1. CASE CloseCheck(c)
      <4>1. callerPc'[c] = "waiting" => Exists(callerScope[c])
          BY <3>1, Hearing DEF CloseCheck
      <4> QED BY <3>1, <4>1 DEF CloseCheck, TypeOK
    <3>2. CASE CloseRecheck(c) BY <3>2 DEF CloseRecheck
    <3> QED BY <1>4, <3>1, <3>2
  <2>4. UNCHANGED <<workerPc, deadline>> BY <1>4 DEF CloseCheck, CloseRecheck
  <2> QED BY <2>1, <2>2, <2>3, <2>4 DEF SleepersEffect
<1>5. ASSUME ReclaimBegin(c) PROVE SleepersEffect
  <2>1. CASE Exists(callerScope[c])
      BY <1>1, <1>5, <2>1 DEF ReclaimBegin
  <2>2. CASE ~Exists(callerScope[c])
    <3>1. Calm BY <1>5, <2>2, StillIsCalm DEF ReclaimBegin
    <3>2. callerPc'[c] = "erasing" /\ \A b \in Callers \ {c} : callerPc'[b] = callerPc[b]
        BY <1>5, <2>2, Hearing DEF ReclaimBegin
    <3>3. NoneFalls BY <1>5, <2>2, <3>2 DEF ReclaimBegin, NoneFalls
    <3> QED BY <3>1, <3>3, UpOrCalm
  <2> QED BY <2>1, <2>2
<1>6. ASSUME Erase(c) PROVE SleepersEffect
  <2>1. retained' \subseteq retained /\ \A t \in retained \ retained' : state[t] \in Terminal
      BY <1>6 DEF Erase, Erasable, ScopeIdle
  <2>2. Calm BY <1>6, <2>1, StillIsCalm DEF Erase
  <2>3. callerPc'[c] = "ready" /\ \A b \in Callers \ {c} : callerPc'[b] = callerPc[b]
      BY <1>6, Hearing DEF Erase
  <2>4. \A b \in Callers \ {c} : callerScope'[b] = callerScope[b] BY <1>6 DEF TypeOK, Erase
  <2>5. NoneFalls BY <1>6, <2>3, <2>4 DEF Erase, NoneFalls
  <2> QED BY <2>2, <2>5, UpOrCalm
<1> QED BY <1>2, <1>3, <1>4, <1>5, <1>6 DEF Caller

LEMMA WorkerSleepers ==
    ASSUME TypeOK, OrderInv, NEW w \in Workers, Worker(w) PROVE SleepersEffect
<1> USE DEF settings, shelves, budget, workerVars, callerVars, WorkerPlaces
<1>1. ASSUME NEW failed \in SUBSET Waiting, NEW t \in Waiting,
             StartNormal(w, failed, t) \/ StartBackground(w, failed, t)
      PROVE  SleepersEffect
  <2>1. \A v \in Workers \ {w} : deadline'[v] = deadline[v]
      BY <1>1 DEF StartNormal, StartBackground, TypeOK
  <2>2. /\ WorkerGoes(w, "running", failed # {})
        /\ FailThenStart(failed, t) /\ UNCHANGED <<desc, retained, stopping, callerScope>>
        /\ runningBackground' \in {runningBackground, runningBackground + 1}
      BY <1>1 DEF StartNormal, StartBackground
  <2>3. CASE failed = {}
    <3>1. /\ workerPc'[w] = "running"
          /\ \A v \in Workers \ {w} : workerPc'[v] = workerPc[v]
        BY <2>2, <2>3, Hearing
    <3>2. \A u \in Tasks : state'[u] = state[u] \/ (state[u] = "waiting" /\ state'[u] = "running")
        BY <2>2, <2>3 DEF FailThenStart, Waiting
    <3>3. Calm BY <2>2, <3>2 DEF Calm
    <3>4. UNCHANGED callerPc BY <2>2, <2>3, Hearing DEF FailThenStart
    <3>5. NoneFalls BY <2>1, <2>2, <3>1, <3>4 DEF NoneFalls
    <3> QED BY <3>3, <3>5, UpOrCalm
  <2>4. CASE failed # {}
    <3>1. \A v \in Workers : workerPc'[v] # "waiting" BY <2>2, <2>4, Hearing
    <3>2. \A c \in Callers : callerPc'[c] # "waiting" BY <2>2, <2>4, Hearing DEF FailThenStart
    <3>3. AllUp BY <3>1, <3>2 DEF AllUp
    <3> QED BY <3>3, UpOrCalm
  <2> QED BY <2>3, <2>4
<1>2. ASSUME NEW failed \in SUBSET Waiting, NEW due \in DueTimes \cup {Never},
             SelectNothing(w, failed, due)
      PROVE  SleepersEffect
  <2>1. \A v \in Workers \ {w} : deadline'[v] = deadline[v]
      BY <1>2 DEF SelectNothing, TypeOK
  <2>2. PICK place \in WorkerPlaces : WorkerGoes(w, place, failed # {})
      BY <1>2 DEF SelectNothing
  <2>3. CASE failed = {}
    <3>1. \A v \in Workers \ {w} : workerPc'[v] = workerPc[v] BY <2>2, <2>3, Hearing
    <3>2. 0 \notin Tasks BY DEF Tasks
    <3>3. state' = state BY <1>2, <2>3, <3>2 DEF SelectNothing, FailThenStart, TypeOK
    <3>4. Calm BY <1>2, <3>3, StillIsCalm DEF SelectNothing
    <3>5. UNCHANGED callerPc BY <1>2, <2>3, Hearing DEF SelectNothing, FailThenStart
    <3>6. UNCHANGED callerScope BY <1>2 DEF SelectNothing
    <3> QED BY <1>2, <2>1, <3>1, <3>4, <3>5, <3>6 DEF SleepersEffect
  <2>4. CASE failed # {}
    <3>1. \A v \in Workers \ {w} : workerPc'[v] # "waiting" BY <2>2, <2>4, Hearing
    <3>2. \A c \in Callers : callerPc'[c] # "waiting"
        BY <1>2, <2>4, Hearing DEF SelectNothing, FailThenStart
    <3> QED BY <1>2, <3>1, <3>2 DEF SleepersEffect
  <2> QED BY <2>3, <2>4
<1>3. ASSUME NEW outcome \in {"succeeded", "failed", "cancelled"}, Finish(w, outcome)
      PROVE  SleepersEffect
  <2>1. \A v \in Workers : workerPc'[v] # "waiting" BY <1>3, Hearing DEF Finish
  <2>2. \A c \in Callers : callerPc'[c] # "waiting" BY <1>3, Hearing DEF Finish
  <2>3. AllUp BY <2>1, <2>2 DEF AllUp
  <2> QED BY <2>3, UpOrCalm
<1>4. ASSUME \/ WorkerExit(w) \/ TimedOut(w) \/ SpuriousWake(w) \/ DriveBegin(w)
             \/ DriveBudgetSpent(w)
      PROVE  SleepersEffect
  <2>1. Calm
      BY <1>4, StillIsCalm DEF WorkerExit, TimedOut, SpuriousWake, DriveBegin, DriveBudgetSpent
  <2>2. PICK place \in {"exited", "outside", "selecting"} : WorkerGoes(w, place, FALSE)
      BY <1>4 DEF WorkerExit, TimedOut, SpuriousWake, DriveBegin, DriveBudgetSpent
  <2>3. workerPc'[w] = place /\ \A v \in Workers \ {w} : workerPc'[v] = workerPc[v]
      BY <2>2, Hearing
  <2>4. UNCHANGED <<deadline, callerPc, callerScope>>
      BY <1>4 DEF WorkerExit, TimedOut, SpuriousWake, DriveBegin, DriveBudgetSpent
  <2>5. NoneFalls BY <2>3, <2>4 DEF NoneFalls
  <2> QED BY <2>1, <2>5, UpOrCalm
<1> QED BY <1>1, <1>2, <1>3, <1>4 DEF Worker, Select

LEMMA StepSleepers ==
    ASSUME TypeOK, OrderInv, SchedulerAssumption, [Next]_vars PROVE SleepersEffect
<1> USE DEF settings, shelves, budget, workerVars, callerVars, CallerPlaces, SchedulerAssumption
<1>1. ASSUME StopBegin PROVE SleepersEffect
  <2>1. callerPc'[Host] = "joining" /\ \A c \in Callers \ {Host} : callerPc'[c] # "waiting"
      BY <1>1, Hearing DEF StopBegin
  <2>2. \A w \in Workers : workerPc'[w] # "waiting"
      BY <1>1, Hearing DEF StopBegin, RequestStopStep
  <2>3. AllUp BY <2>1, <2>2 DEF AllUp
  <2> QED BY <2>3, UpOrCalm
<1>2. ASSUME StopJoin PROVE SleepersEffect
  <2>1. callerPc'[Host] = "stopped" /\ \A c \in Callers \ {Host} : callerPc'[c] = callerPc[c]
      BY <1>2, Hearing DEF StopJoin
  <2>2. NoneFalls BY <1>2, <2>1 DEF StopJoin, NoneFalls
  <2>3. Calm BY <1>2, StillIsCalm DEF StopJoin
  <2> QED BY <2>2, <2>3, UpOrCalm
<1>3. ASSUME Tick \/ Stopped \/ UNCHANGED vars PROVE SleepersEffect
  <2>1. Calm BY <1>3, StillIsCalm DEF Tick, Stopped, vars
  <2>2. NoneFalls BY <1>3 DEF Tick, Stopped, vars, NoneFalls
  <2> QED BY <2>1, <2>2, UpOrCalm
<1> QED BY <1>1, <1>2, <1>3, RequestSleepers, CallerSleepers, WorkerSleepers DEF Next

(* A worker that found nothing may sleep: what it failed is done with, and each task left is *)
(* held back by its due time or by the background budget.                                     *)
LEMMA FallingAsleep ==
    ASSUME TypeOK, OrderInv, SchedulerAssumption, NEW w \in Workers,
           NEW failed \in SUBSET Waiting, NEW due \in DueTimes \cup {Never},
           SelectNothing(w, failed, due)
    PROVE  MaySleep(w)'
<1>1. /\ UNCHANGED <<desc, stopping, retained, runningBackground, clock>> /\ ~stopping
      /\ DependencyFailed(failed)
      /\ deadline'[w] = due
    BY DEF SelectNothing, Selecting, settings, shelves, budget, TypeOK
<1>2. \A u \in Tasks : /\ u \in failed => state'[u] = "dependency_failed" /\ state[u] = "waiting"
                       /\ u \notin failed => state'[u] = state[u]
  <2>1. 0 \notin Tasks BY DEF Tasks
  <2> QED BY <2>1 DEF SelectNothing, FailThenStart, Waiting
<1>3. Waiting' = Waiting \ failed /\ Waiting \subseteq Tasks
    BY <1>1, <1>2, RetainedAccepted DEF Waiting
<1>4. \A t \in Tasks : desc[t].prereqs \subseteq Tasks BY PrereqsAreTasks
<1>5. ASSUME NEW t \in Waiting', NEW p \in desc[t].prereqs
      PROVE  /\ p \notin failed /\ state'[p] = state[p]
             /\ state[p] \notin Terminal \ {"succeeded"}
  <2>1. t \in Waiting /\ t \notin failed /\ p \in Tasks BY <1>3, <1>4, <1>5
  <2>2. p \notin failed /\ state[p] \notin Terminal \ {"succeeded"}
      BY <1>1, <2>1 DEF DependencyFailed
  <2> QED BY <1>2, <2>1, <2>2
<1>6. Spoiled' = {} BY <1>1, <1>5 DEF Spoiled
<1>7. ASSUME NEW t \in Unblocked({})' PROVE t \in Unblocked(failed)
  <2>1. t \in Waiting' /\ DependenciesMet(t)' /\ ~SerialBlocked(t, {})'
      BY <1>7 DEF Unblocked
  <2>2. t \in Waiting \ failed BY <1>3, <2>1
  <2>3. DependenciesMet(t) BY <1>1, <1>5, <2>1 DEF DependenciesMet
  <2>4. \A u \in retained \ failed : state'[u] = state[u] BY <1>2, RetainedAccepted
  <2>5. ~SerialBlocked(t, failed) BY <1>1, <2>1, <2>4 DEF SerialBlocked
  <2> QED BY <2>2, <2>3, <2>5 DEF Unblocked
<1>8. ASSUME NEW t \in Unblocked({})' PROVE Held(t, deadline[w])'
  <2>1. t \in Unblocked(failed) /\ t \in Tasks /\ t <= accepted
      BY <1>7, <1>8, RetainedAccepted DEF Unblocked, Waiting
  <2>2. desc[t] \in Description BY <2>1 DEF OrderInv, Ledger
  <2>3. desc[t].due \in DueTimes /\ desc[t].priority \in Priorities BY <2>2 DEF Description
  <2>4. /\ desc[t].due \in Int /\ clock \in Int
        /\ desc[t].priority \in {"normal", "background"}
    <3>1. desc[t].due \in 0 .. MaxClock /\ clock \in 0 .. MaxClock
        BY <2>3 DEF SchedulerAssumption, TypeOK
    <3>2. desc[t].priority \in {"normal", "background"} BY <2>3 DEF SchedulerAssumption
    <3> QED BY <3>1, <3>2
  <2>5. CASE desc[t].due > clock
    <3>1. due <= desc[t].due BY <2>1, <2>5 DEF SelectNothing, NextDue
    <3>2. due \in Int BY DEF SchedulerAssumption, Never
    <3> QED BY <1>1, <2>4, <3>1, <3>2 DEF Held
  <2>6. CASE desc[t].due <= clock
    <3>1. t \in Due(failed, desc[t].priority) BY <2>1, <2>6 DEF Due
    <3>2. desc[t].priority = "background"
        BY <2>4, <3>1 DEF SelectNothing, Normals
    <3>3. ~(runningBackground < BackgroundCap)
        BY <3>1, <3>2 DEF SelectNothing, Backgrounds
    <3> QED BY <1>1, <3>2, <3>3 DEF Held, TypeOK, SchedulerAssumption
  <2> QED BY <2>4, <2>5, <2>6
<1> QED BY <1>1, <1>6, <1>8 DEF MaySleep

(* A set of numbers that is not empty has a least one. *)
LEMMA LeastNumber ==
    ASSUME NEW S \in SUBSET Nat, S # {} PROVE \E x \in S : \A y \in S : x <= y
<1> DEFINE R == {p \in Nat \X Nat : p[1] < p[2]}
<1>1. IsWellFoundedOn(R, Nat) BY NatLessThanWellFounded DEF OpToRel
<1>2. PICK x \in S : \A y \in S : ~ (<<y, x>> \in R) BY <1>1, WFMin
<1>3. ASSUME NEW y \in S, y < x PROVE FALSE
  <2>1. <<y, x>> \in R BY <1>3
  <2> QED BY <1>2, <2>1
<1> QED BY <1>3

(* A walk that finds no task with a prerequisite that already ended badly fails none. *)
LEMMA WalkFailsNone ==
    ASSUME TypeOK, OrderInv, Spoiled = {}, NEW failed \in SUBSET Waiting, DependencyFailed(failed)
    PROVE  failed = {}
<1> SUFFICES ASSUME failed # {} PROVE FALSE  OBVIOUS
<1>1. failed \in SUBSET Tasks BY RetainedAccepted DEF Waiting
<1>2. failed \in SUBSET Nat BY <1>1 DEF Tasks
<1>3. PICK t \in failed : \A u \in failed : t <= u BY <1>2, LeastNumber
<1>4. PICK p \in desc[t].prereqs : state[p] \in Terminal \ {"succeeded"} \/ p \in failed
    BY DEF DependencyFailed
<1>5. state[p] \notin Terminal \ {"succeeded"} BY <1>4 DEF Spoiled
<1>6. p \in 1 .. t - 1 BY <1>1, <1>4 DEF OrderInv, Ledger
<1> QED BY <1>2, <1>3, <1>4, <1>5, <1>6

(* Nobody sleeps while there is something for him to do, or through a stop (NoLostWakeup). *)
THEOREM WakeupCorrect == Spec => []NoLostWakeup
<1> USE SchedulerAssumption
<1>1. Init => SleepInv BY DEF Init, SleepInv
<1>2. TypeOK /\ OrderInv /\ SleepInv /\ [Next]_vars => SleepInv'
  <2> SUFFICES ASSUME TypeOK, OrderInv, SleepInv, [Next]_vars PROVE SleepInv'  OBVIOUS
  <2>1. SleepersEffect BY StepSleepers
  <2>2. ASSUME NEW w \in Workers, workerPc'[w] = "waiting" PROVE MaySleep(w)'
    <3>1. ASSUME Calm, workerPc[w] = "waiting", deadline'[w] = deadline[w] PROVE MaySleep(w)'
        BY <3>1, CalmKeepsAsleep DEF SleepInv
    <3>2. ASSUME NEW failed \in SUBSET Waiting,
                 NEW due \in DueTimes \cup {Never}, SelectNothing(w, failed, due)
          PROVE  MaySleep(w)'
        BY <3>2, FallingAsleep
    <3> QED BY <2>1, <2>2, <3>1, <3>2 DEF SleepersEffect
  <2>3. ASSUME NEW c \in Callers, callerPc'[c] = "waiting" PROVE ~ScopeIdle(callerScope[c])'
    <3>1. Calm /\ callerScope'[c] = callerScope[c] /\ ~ScopeIdle(callerScope[c])
        BY <2>1, <2>3 DEF SleepersEffect, SleepInv
    <3>2. \E t \in retained' : desc'[t].scope = callerScope[c] /\ state'[t] \notin Terminal
        BY <3>1, CalmKeepsIdle
    <3> QED BY <3>1, <3>2 DEF ScopeIdle, InScope
  <2> QED BY <2>2, <2>3 DEF SleepInv
<1>3. TypeOK /\ OrderInv /\ SleepInv => NoLostWakeup
  <2> SUFFICES ASSUME TypeOK, OrderInv, SleepInv PROVE NoLostWakeup  OBVIOUS
  <2>1. ASSUME NEW w \in Workers, workerPc[w] = "waiting",
               NEW failed \in SUBSET Waiting, DependencyFailed(failed)
        PROVE  /\ failed = {}
               /\ \A t \in Unblocked(failed) :
                      \/ desc[t].due >= deadline[w]
                      \/ desc[t].priority = "background" /\ runningBackground >= BackgroundCap
    <3>1. MaySleep(w) BY <2>1 DEF SleepInv
    <3>2. failed = {} BY <2>1, <3>1, WalkFailsNone DEF MaySleep
    <3> QED BY <3>1, <3>2 DEF MaySleep, Held
  <2> QED BY <2>1 DEF SleepInv, MaySleep, NoLostWakeup
<1> QED BY <1>1, <1>2, <1>3, TablesCorrect, PTL DEF Spec
=============================================================================
