-------------------------- MODULE RenderServiceProofs --------------------------
(***************************************************************************)
(* Proofs about RenderExecutor and about RenderService, for every number of *)
(* tasks, frames, rooms and clients, textures and faults.  First the        *)
(* executor by itself.  Then the service: whatever it does with its         *)
(* executor is something the executor specifies, so all that is proved of   *)
(* the executor holds of it inside the service; then the material's views,  *)
(* the answers of the calls and the picture.                                *)
(***************************************************************************)
EXTENDS RenderService, SequenceTheorems, FiniteSetTheorems, WellFoundedInduction, TLAPS

(***************************************************************************)
(* The three ways a queue changes, by what it contains afterwards.         *)
(***************************************************************************)
LEMMA AppendContains ==
  ASSUME NEW S, NEW q \in Seq(S), NEW x \in S
  PROVE  /\ Append(q, x) \in Seq(S) /\ Len(Append(q, x)) = Len(q) + 1
         /\ \A i \in 1 .. Len(q) : Append(q, x)[i] = q[i]
         /\ Append(q, x)[Len(q) + 1] = x
         /\ \A y : Contains(Append(q, x), y) <=> Contains(q, y) \/ y = x
         /\ Injective(q) /\ ~Contains(q, x) => Injective(Append(q, x))
<1> DEFINE r == Append(q, x)
<1>1. /\ Len(q) \in Nat /\ r \in Seq(S) /\ Len(r) = Len(q) + 1
      /\ \A i \in 1 .. Len(q) : r[i] = q[i]
      /\ r[Len(q) + 1] = x
  BY LenProperties, AppendProperties
<1> HIDE DEF r
<1>2. ASSUME NEW y PROVE Contains(r, y) <=> Contains(q, y) \/ y = x
  BY <1>1 DEF Contains
<1>3. ASSUME Injective(q), ~Contains(q, x) PROVE Injective(r)
  BY <1>1, <1>3 DEF Contains, Injective
<1> QED BY <1>1, <1>2, <1>3 DEF r

LEMMA TailContains ==
  ASSUME NEW S, NEW q \in Seq(S), q # <<>>
  PROVE  /\ Head(q) \in S /\ Head(q) = q[1] /\ Len(q) \in Nat \ {0}
         /\ Tail(q) \in Seq(S) /\ Len(Tail(q)) = Len(q) - 1
         /\ \A i \in 1 .. Len(q) - 1 : Tail(q)[i] = q[i + 1]
         /\ \A y : Contains(q, y) <=> Contains(Tail(q), y) \/ y = Head(q)
         /\ Injective(q) => Injective(Tail(q)) /\ ~Contains(Tail(q), Head(q))
<1> DEFINE r == Tail(q)
<1>1. /\ Len(q) \in Nat \ {0} /\ r \in Seq(S) /\ Len(r) = Len(q) - 1
      /\ Head(q) \in S /\ Head(q) = q[1]
      /\ \A i \in 1 .. Len(q) - 1 : r[i] = q[i + 1]
  BY EmptySeq, HeadTailProperties
<1> HIDE DEF r
<1>2. ASSUME NEW y PROVE Contains(q, y) <=> Contains(r, y) \/ y = Head(q)
  <2>1. ASSUME NEW i \in 1 .. Len(q), q[i] = y, i # 1 PROVE r[i - 1] = y /\ i - 1 \in 1 .. Len(r)
    BY <1>1, <2>1
  <2>2. ASSUME NEW i \in 1 .. Len(r), r[i] = y PROVE q[i + 1] = y /\ i + 1 \in 1 .. Len(q)
    BY <1>1, <2>2
  <2> QED BY <1>1, <2>1, <2>2 DEF Contains
<1>3. ASSUME Injective(q) PROVE Injective(r) /\ ~Contains(r, Head(q))
  BY <1>1, <1>3 DEF Contains, Injective
<1> QED BY <1>1, <1>2, <1>3 DEF r

LEMMA SameLength ==
  ASSUME NEW m \in Nat, NEW n \in Nat, 1 .. m = 1 .. n
  PROVE  m = n
<1>1. CASE m < n
  <2>1. n \in 1 .. n /\ n \notin 1 .. m BY <1>1
  <2> QED BY <2>1
<1>2. CASE n < m
  <2>1. m \in 1 .. m /\ m \notin 1 .. n BY <1>2
  <2> QED BY <2>1
<1> QED BY <1>1, <1>2

LEMMA WithoutContains ==
  ASSUME NEW S, pending \in Seq(S), NEW i \in 1 .. Len(pending), Injective(pending)
  PROVE  /\ Without(i) \in Seq(S) /\ Len(Without(i)) = Len(pending) - 1
         /\ \A j \in 1 .. Len(pending) - 1 :
                Without(i)[j] = IF j < i THEN pending[j] ELSE pending[j + 1]
         /\ \A y : Contains(Without(i), y) <=> Contains(pending, y) /\ y # pending[i]
         /\ Injective(Without(i))
<1> DEFINE r == Without(i)
<1>1. Len(pending) \in Nat /\ pending \in [1 .. Len(pending) -> S] BY LenProperties
<1>2. r \in [1 .. Len(pending) - 1 -> S] BY <1>1 DEF Without
<1>3. r \in Seq(S) BY <1>1, <1>2, SeqDef
<1>4. Len(r) = Len(pending) - 1
  <2>1. Len(r) \in Nat /\ DOMAIN r = 1 .. Len(r) BY <1>3, LenProperties
  <2>2. DOMAIN r = 1 .. Len(pending) - 1 BY <1>2
  <2>3. Len(pending) - 1 \in Nat BY <1>1
  <2> HIDE DEF r
  <2> QED BY <2>1, <2>2, <2>3, SameLength
<1>5. \A j \in 1 .. Len(pending) - 1 : r[j] = IF j < i THEN pending[j] ELSE pending[j + 1]
  BY <1>1 DEF Without
<1> HIDE DEF r
<1>6. ASSUME NEW y PROVE Contains(r, y) <=> Contains(pending, y) /\ y # pending[i]
  <2>1. ASSUME NEW j \in 1 .. Len(r), r[j] = y PROVE Contains(pending, y) /\ y # pending[i]
    BY <1>1, <1>4, <1>5, <2>1 DEF Contains, Injective
  <2>2. ASSUME NEW j \in 1 .. Len(pending), pending[j] = y, y # pending[i]
        PROVE  Contains(r, y)
    <3>1. CASE j < i BY <1>1, <1>4, <1>5, <2>2, <3>1 DEF Contains
    <3>2. CASE j > i
      <4>1. j - 1 \in 1 .. Len(r) /\ r[j - 1] = y BY <1>1, <1>4, <1>5, <2>2, <3>2
      <4> QED BY <4>1 DEF Contains
    <3> QED BY <1>1, <2>2, <3>1, <3>2
  <2> QED BY <2>1, <2>2 DEF Contains
<1>7. Injective(r)
  BY <1>1, <1>4, <1>5 DEF Injective
<1> QED BY <1>3, <1>4, <1>5, <1>6, <1>7 DEF r
(***************************************************************************)
(* The inductive invariant, in named parts.  The properties of the runs    *)
(* speak of where a task is; they are inductive only together with what    *)
(* the render thread's place says of the task in its hands.                *)
(***************************************************************************)
QueueTypes ==
  /\ accepted \in 0 .. MaxSequence
  /\ kind \in [Tasks -> Kinds \cup {"none"}]
  /\ pending \in Seq(1 .. accepted)
  /\ completedFrames \in Seq(1 .. accepted) /\ completedCommands \in Seq(1 .. accepted)
  /\ taken \in SUBSET (1 .. accepted) /\ dropped \in SUBSET (1 .. accepted)
  /\ current \in 0 .. accepted
ControlTypes ==
  /\ executing \in BOOLEAN /\ stopping \in BOOLEAN
  /\ yields \in [Tasks -> 0 .. MaxYields]
  /\ commandStatus \in [sequence : 0 .. accepted, active : BOOLEAN]
  /\ workerPc \in WorkerPlaces /\ clientPc \in [Clients -> ClientPlaces]

(* No queue holds a task twice, and no task is in two places or in none. *)
Located(s) ==
  /\ \/ Contains(pending, s) \/ current = s
     \/ Contains(completedFrames, s) \/ Contains(completedCommands, s) \/ s \in taken
  /\ Contains(pending, s) \/ current = s =>
         ~Contains(completedFrames, s) /\ ~Contains(completedCommands, s) /\ s \notin taken
  /\ Contains(pending, s) => current # s
  /\ Contains(completedFrames, s) => ~Contains(completedCommands, s) /\ s \notin taken
  /\ Contains(completedCommands, s) => s \notin taken
Places ==
  /\ Injective(pending) /\ Injective(completedFrames) /\ Injective(completedCommands)
  /\ \A s \in 1 .. accepted : Located(s)

(* Where the render thread is, and which kind of task it holds there. *)
Hands ==
  /\ executing <=> current # 0
  /\ current # 0 <=> workerPc \in {"frame", "preparing", "command", "publishing"}
  /\ current # 0 => (workerPc = "frame" <=> IsFrame(current))

(* Receipts are of their own kind, and frames are dropped for a newer one. *)
OfAKind ==
  /\ \A s \in 1 .. accepted : /\ Contains(completedFrames, s) => IsFrame(s)
                              /\ Contains(completedCommands, s) => ~IsFrame(s)
  /\ \A s \in dropped : kind[s] = "replaceable" /\ \E t \in s + 1 .. accepted : IsFrame(t)

Ranked(s) == kind[s] # "resumable"
(* The queue is sorted but for the resumable commands, and has not been overtaken. *)
Sorted ==
  \A i, j \in 1 .. Len(pending) :
      i < j /\ Ranked(pending[i]) /\ Ranked(pending[j]) => pending[i] < pending[j]
InOrder == Sorted /\ SubmissionOrder

(* An active status is of a command still in the queue or running. *)
Status ==
  commandStatus.active =>
    LET s == commandStatus.sequence IN
    /\ s # 0 /\ ~IsFrame(s)
    /\ Contains(pending, s) \/ (current = s /\ workerPc \in {"preparing", "command"})

Stops ==
  /\ workerPc = "exited" => stopping /\ pending = <<>>
  /\ ~Alive => stopping
  /\ clientPc[Owner] = "stopped" => workerPc = "exited"

-----------------------------------------------------------------------------
(***************************************************************************)
(* What the steps do to the queues.                                        *)
(***************************************************************************)

(* A frame or a command joins the end of the queue, which has a place for it. *)
Entered ==
  /\ ~stopping /\ accepted < MaxSequence /\ accepted' = accepted + 1
  /\ IF kind'[accepted + 1] \in FrameKinds THEN ~FramesFull
     ELSE Len(pending) < MaxPendingFrames + CommandRoom
  /\ kind' \in [Tasks -> Kinds \cup {"none"}]
  /\ \A s \in 1 .. accepted : kind'[s] = kind[s]
  /\ pending' = Append(pending, accepted + 1)
  /\ WorkerHears
  /\ UNCHANGED <<current, executing, stopping, receipts, dropped, yields, commandStatus, clientPc>>

(* A frame joins it, and the oldest replaceable frame leaves with its receipt. *)
Replaced(i) ==
  /\ ~stopping /\ accepted < MaxSequence /\ accepted' = accepted + 1
  /\ kind' \in [Tasks -> Kinds \cup {"none"}]
  /\ \A s \in 1 .. accepted : kind'[s] = kind[s]
  /\ kind'[accepted + 1] = "replaceable"
  /\ i \in 1 .. Len(pending) /\ kind[pending[i]] = "replaceable"
  /\ pending' = Append(Without(i), accepted + 1)
  /\ completedFrames' = Append(completedFrames, pending[i])
  /\ dropped' = dropped \cup {pending[i]}
  /\ WorkerHears
  /\ UNCHANGED <<current, executing, stopping, completedCommands, taken, yields,
                 commandStatus, clientPc>>

(* No task moves. *)
Still ==
  UNCHANGED <<accepted, kind, pending, dropped, current, executing, receipts, yields>>
Waits == Sleep \/ SpuriousWake \/ Exit \/ Report \/ Unpause \/ CompleteStatus
Calls == StopBegin \/ MarkStopping \/ Join \/ \E c \in Clients : FlushBegin(c) \/ FlushCheck(c)

LEMMA PolicyRange ==
  ASSUME QueueTypes, NEW policy \in Kinds, accepted < MaxSequence
  PROVE  LET k == [kind EXCEPT ![accepted + 1] = policy] IN
         /\ k \in [Tasks -> Kinds \cup {"none"}] /\ k[accepted + 1] = policy
         /\ \A s \in 1 .. accepted : k[s] = kind[s]
<1>1. accepted \in Nat /\ accepted + 1 \in Tasks /\ 1 .. accepted \subseteq Tasks
  BY ExecutorAssumption DEF QueueTypes, Tasks, ExecutorAssumption
<1>2. \A s \in 1 .. accepted : s # accepted + 1 BY <1>1
<1> QED BY <1>1, <1>2 DEF QueueTypes

LEMMA StepKinds ==
  ASSUME QueueTypes, Next
  PROVE  \/ Entered \/ \E i \in 1 .. Len(pending) : Replaced(i)
         \/ TryTakeFrame \/ TryTakeCommand \/ TakeWork \/ FinishFrame \/ Yield \/ PublishCommand
         \/ Waits \/ Calls \/ UNCHANGED vars
<1>1. ASSUME NEW policy \in FrameKinds, SubmitFrame(policy) PROVE Entered
  <2>1. policy \in Kinds /\ accepted < MaxSequence
    BY <1>1 DEF SubmitFrame, Accept, Kinds, FrameKinds
  <2> QED BY <1>1, <2>1, PolicyRange DEF SubmitFrame, Accept, Entered, receipts
<1>2. ASSUME NEW policy \in Kinds \ FrameKinds, SubmitCommand(policy) PROVE Entered
  <2>1. policy \in Kinds /\ accepted < MaxSequence BY <1>2 DEF SubmitCommand, Accept
  <2> QED BY <1>2, <2>1, PolicyRange DEF SubmitCommand, Accept, Entered, receipts
<1>3. ASSUME NEW i \in 1 .. Len(pending), ReplaceFrame(i) PROVE Replaced(i)
  <2>1. "replaceable" \in Kinds /\ accepted < MaxSequence
    BY <1>3 DEF ReplaceFrame, Accept, Kinds
  <2> QED BY <1>3, <2>1, PolicyRange DEF ReplaceFrame, Replaceable, Accept, Replaced
<1> QED
  BY <1>1, <1>2, <1>3
  DEF Next, Request, Worker, EndCommand, Waits, Calls, Stopped

LEMMA StillSteps == (Waits => Still) /\ (Calls => Still)
BY DEF Waits, Calls, Still, Sleep, SpuriousWake, Exit, Report, Unpause, CompleteStatus, StopBegin,
   MarkStopping, Join, FlushBegin, FlushCheck, queues, receipts

LEMMA InQueue ==
  ASSUME QueueTypes, NEW s, \/ Contains(pending, s) \/ Contains(completedFrames, s)
                       \/ Contains(completedCommands, s)
  PROVE  s \in 1 .. accepted
<1>1. ASSUME NEW q \in Seq(1 .. accepted), Contains(q, s) PROVE s \in 1 .. accepted
  BY <1>1, ElementOfSeq DEF Contains
<1> QED BY <1>1 DEF QueueTypes

LEMMA Wider ==
  ASSUME QueueTypes, accepted' = accepted + 1
  PROVE  /\ accepted \in Nat /\ 1 .. accepted \subseteq 1 .. accepted'
         /\ accepted' \in 1 .. accepted' /\ accepted' \notin 1 .. accepted
         /\ \A s \in 1 .. accepted' : s \in 1 .. accepted \/ s = accepted'
         /\ \A q \in Seq(1 .. accepted) : q \in Seq(1 .. accepted')
<1>1. accepted \in Nat /\ 1 .. accepted \subseteq 1 .. accepted'
  BY ExecutorAssumption DEF QueueTypes, ExecutorAssumption
<1> QED BY <1>1, SeqMonotonic

(* The number a task is given is in no place yet. *)
LEMMA NumberIsNew ==
  ASSUME QueueTypes, accepted' = accepted + 1
  PROVE  /\ ~Contains(completedFrames, accepted') /\ ~Contains(completedCommands, accepted')
         /\ accepted' \notin taken /\ current # accepted'
<1>1. accepted \in Nat /\ accepted' \notin 1 .. accepted /\ accepted' # 0 BY Wider
<1>2. accepted' \notin taken /\ current # accepted' BY <1>1 DEF QueueTypes
<1> QED BY <1>1, <1>2, InQueue

LEMMA EnteredQueue ==
  ASSUME QueueTypes, Places, Entered
  PROVE  /\ pending' \in Seq(1 .. accepted') /\ Injective(pending')
         /\ \A s : Contains(pending', s) <=> Contains(pending, s) \/ s = accepted'
<1>1. pending \in Seq(1 .. accepted') /\ accepted' \in 1 .. accepted'
      /\ accepted' = accepted + 1 /\ accepted' \notin 1 .. accepted
  BY Wider DEF Entered, QueueTypes
<1>2. ~Contains(pending, accepted') BY <1>1, InQueue
<1> QED BY <1>1, <1>2, AppendContains DEF Entered, Places

LEMMA ReplacedQueue ==
  ASSUME QueueTypes, Places, NEW i \in 1 .. Len(pending), Replaced(i)
  PROVE  /\ pending[i] \in 1 .. accepted /\ Contains(pending, pending[i])
         /\ pending' \in Seq(1 .. accepted') /\ Injective(pending')
         /\ \A s : Contains(pending', s)
                <=> (Contains(pending, s) /\ s # pending[i]) \/ s = accepted'
         /\ completedFrames' \in Seq(1 .. accepted') /\ Injective(completedFrames')
         /\ \A s : Contains(completedFrames', s) <=> Contains(completedFrames, s) \/ s = pending[i]
<1>1. /\ accepted' = accepted + 1 /\ accepted' \in 1 .. accepted' /\ accepted' \notin 1 .. accepted
      /\ pending \in Seq(1 .. accepted') /\ completedFrames \in Seq(1 .. accepted')
      /\ 1 .. accepted \subseteq 1 .. accepted'
  BY Wider DEF Replaced, QueueTypes
<1>2. pending[i] \in 1 .. accepted /\ Contains(pending, pending[i])
  BY ElementOfSeq DEF QueueTypes, Contains
<1>3. /\ Without(i) \in Seq(1 .. accepted') /\ Injective(Without(i))
      /\ \A s : Contains(Without(i), s) <=> Contains(pending, s) /\ s # pending[i]
  BY <1>1, WithoutContains DEF Places
<1>4. ~Contains(Without(i), accepted') BY <1>1, <1>3, InQueue
<1>5. ~Contains(completedFrames, pending[i]) BY <1>2 DEF Places, Located
<1>6. /\ pending' \in Seq(1 .. accepted') /\ Injective(pending')
      /\ \A s : Contains(pending', s)
                <=> (Contains(pending, s) /\ s # pending[i]) \/ s = accepted'
  BY <1>1, <1>3, <1>4, AppendContains DEF Replaced
<1>7. /\ completedFrames' \in Seq(1 .. accepted') /\ Injective(completedFrames')
      /\ \A s : Contains(completedFrames', s) <=> Contains(completedFrames, s) \/ s = pending[i]
  BY <1>1, <1>2, <1>5, AppendContains DEF Replaced, Places
<1> QED BY <1>2, <1>6, <1>7
LEMMA InHand ==
  ASSUME QueueTypes, Hands, workerPc \in {"frame", "preparing", "command", "publishing"}
  PROVE  current \in 1 .. accepted /\ accepted \in Nat
BY ExecutorAssumption DEF QueueTypes, Hands, ExecutorAssumption

LEMMA TakeWorkQueue ==
  ASSUME QueueTypes, Places, TakeWork
  PROVE  /\ current' = Head(pending) /\ current' \in 1 .. accepted
         /\ pending' \in Seq(1 .. accepted) /\ Injective(pending')
         /\ \A s : Contains(pending, s) <=> Contains(pending', s) \/ s = current'
         /\ ~Contains(pending', current')
         /\ current' = pending[1] /\ Len(pending) \in Nat /\ Len(pending') = Len(pending) - 1
         /\ \A i \in 1 .. Len(pending) - 1 : pending'[i] = pending[i + 1]
BY TailContains DEF QueueTypes, Places, TakeWork

LEMMA YieldQueue ==
  ASSUME QueueTypes, Places, Hands, Yield
  PROVE  /\ pending' \in Seq(1 .. accepted) /\ Injective(pending')
         /\ \A s : Contains(pending', s) <=> Contains(pending, s) \/ s = current
         /\ current \in 1 .. accepted
BY InHand, AppendContains DEF QueueTypes, Places, Located, Yield

LEMMA FinishFrameQueue ==
  ASSUME QueueTypes, Places, Hands, FinishFrame
  PROVE  /\ completedFrames' \in Seq(1 .. accepted) /\ Injective(completedFrames')
         /\ \A s : Contains(completedFrames', s) <=> Contains(completedFrames, s) \/ s = current
         /\ current \in 1 .. accepted
<1>1. current \in 1 .. accepted BY InHand DEF FinishFrame
<1>2. /\ completedFrames \in Seq(1 .. accepted) /\ Injective(completedFrames)
      /\ ~Contains(completedFrames, current)
  BY <1>1 DEF QueueTypes, Places, Located
<1>3. completedFrames' = Append(completedFrames, current) BY DEF FinishFrame
<1> QED BY <1>1, <1>2, <1>3, AppendContains

LEMMA PublishCommandQueue ==
  ASSUME QueueTypes, Places, Hands, PublishCommand
  PROVE  /\ completedCommands' \in Seq(1 .. accepted) /\ Injective(completedCommands')
         /\ \A s : Contains(completedCommands', s) <=> Contains(completedCommands, s) \/ s = current
         /\ current \in 1 .. accepted
BY InHand, AppendContains DEF QueueTypes, Places, Located, PublishCommand

LEMMA TryTakeFrameQueue ==
  ASSUME QueueTypes, Places, TryTakeFrame
  PROVE  \E r \in 1 .. accepted :
         /\ taken' = taken \cup {r} /\ ~Contains(completedFrames', r)
         /\ completedFrames' \in Seq(1 .. accepted) /\ Injective(completedFrames')
         /\ \A s : Contains(completedFrames, s) <=> Contains(completedFrames', s) \/ s = r
<1>1. completedFrames \in Seq(1 .. accepted) /\ completedFrames # <<>> /\ Injective(completedFrames)
  BY DEF QueueTypes, Places, TryTakeFrame
<1>2. Head(completedFrames) \in 1 .. accepted BY <1>1, TailContains
<1> WITNESS Head(completedFrames) \in 1 .. accepted
<1> QED BY <1>1, TailContains DEF TryTakeFrame

LEMMA TryTakeCommandQueue ==
  ASSUME QueueTypes, Places, TryTakeCommand
  PROVE  \E r \in 1 .. accepted :
         /\ taken' = taken \cup {r} /\ ~Contains(completedCommands', r)
         /\ completedCommands' \in Seq(1 .. accepted) /\ Injective(completedCommands')
         /\ \A s : Contains(completedCommands, s) <=> Contains(completedCommands', s) \/ s = r
<1>1. completedCommands \in Seq(1 .. accepted) /\ completedCommands # <<>> /\ Injective(completedCommands)
  BY DEF QueueTypes, Places, TryTakeCommand
<1>2. Head(completedCommands) \in 1 .. accepted BY <1>1, TailContains
<1> WITNESS Head(completedCommands) \in 1 .. accepted
<1> QED BY <1>1, TailContains DEF TryTakeCommand

-----------------------------------------------------------------------------
(***************************************************************************)
(* Each part of the invariant is kept.                                     *)
(***************************************************************************)
LEMMA TypesInit == Init => QueueTypes /\ ControlTypes
<1> SUFFICES ASSUME Init PROVE QueueTypes /\ ControlTypes OBVIOUS
<1>1. QueueTypes BY ExecutorAssumption, EmptySeq DEF Init, QueueTypes, ExecutorAssumption, Tasks
<1>2. ControlTypes
  <2>1. yields \in [Tasks -> 0 .. MaxYields]
    BY ExecutorAssumption DEF Init, ExecutorAssumption
  <2>2. commandStatus \in [sequence : 0 .. accepted, active : BOOLEAN] BY DEF Init
  <2>3. workerPc \in WorkerPlaces /\ clientPc \in [Clients -> ClientPlaces]
    BY DEF Init, WorkerPlaces, ClientPlaces
  <2> QED BY <2>1, <2>2, <2>3 DEF Init, ControlTypes
<1> QED BY <1>1, <1>2

LEMMA QueueTypesKept == ASSUME QueueTypes, Places, Hands, Next PROVE QueueTypes'
<1>0. 0 \in 0 .. accepted BY ExecutorAssumption DEF QueueTypes, ExecutorAssumption
<1>1. CASE Entered
  <2>1. accepted' \in 0 .. MaxSequence /\ 0 .. accepted \subseteq 0 .. accepted'
    BY <1>1, ExecutorAssumption DEF Entered, QueueTypes, ExecutorAssumption
  <2> QED
    BY <1>1, <2>1, EnteredQueue, Wider DEF Entered, QueueTypes, receipts
<1>2. ASSUME NEW i \in 1 .. Len(pending), Replaced(i) PROVE QueueTypes'
  <2>1. accepted' \in 0 .. MaxSequence /\ 0 .. accepted \subseteq 0 .. accepted'
    BY <1>2, ExecutorAssumption DEF Replaced, QueueTypes, ExecutorAssumption
  <2>2. 1 .. accepted \subseteq 1 .. accepted' BY <1>2, Wider DEF Replaced
  <2>3. completedCommands' \in Seq(1 .. accepted') BY <1>2, Wider DEF Replaced, QueueTypes
  <2>4. /\ pending' \in Seq(1 .. accepted') /\ completedFrames' \in Seq(1 .. accepted')
        /\ pending[i] \in 1 .. accepted
    BY <1>2, ReplacedQueue
  <2>5. taken' \in SUBSET (1 .. accepted') /\ dropped' \in SUBSET (1 .. accepted')
    BY <1>2, <2>2, <2>4 DEF Replaced, QueueTypes
  <2> QED BY <1>2, <2>1, <2>3, <2>4, <2>5 DEF Replaced, QueueTypes
<1>3. CASE TryTakeFrame BY <1>3, TryTakeFrameQueue DEF TryTakeFrame, QueueTypes, queues
<1>4. CASE TryTakeCommand BY <1>4, TryTakeCommandQueue DEF TryTakeCommand, QueueTypes, queues
<1>5. CASE TakeWork BY <1>5, TakeWorkQueue DEF TakeWork, QueueTypes, receipts
<1>6. CASE FinishFrame
  BY <1>0, <1>6, FinishFrameQueue DEF FinishFrame, Finished, QueueTypes, queues
<1>7. CASE Yield BY <1>0, <1>7, YieldQueue DEF Yield, QueueTypes, receipts
<1>8. CASE PublishCommand
  BY <1>0, <1>8, PublishCommandQueue DEF PublishCommand, Finished, QueueTypes, queues
<1>9. CASE Still BY <1>9 DEF Still, QueueTypes, receipts
<1>10. CASE UNCHANGED vars BY <1>10 DEF vars, QueueTypes
<1> QED
  BY <1>1, <1>2, <1>3, <1>4, <1>5, <1>6, <1>7, <1>8, <1>9, <1>10, StepKinds, StillSteps

LEMMA ControlTypesKept ==
  ASSUME QueueTypes, ControlTypes, Places, Hands, Next
  PROVE  ControlTypes'
<1> USE DEF WorkerPlaces, ClientPlaces
<1>0. accepted \in Nat BY ExecutorAssumption DEF QueueTypes, ExecutorAssumption
<1>1. CASE Entered \/ \E i \in 1 .. Len(pending) : Replaced(i)
  <2>1. 0 .. accepted \subseteq 0 .. accepted' BY <1>0, <1>1 DEF Entered, Replaced
  <2> QED BY <1>1, <2>1 DEF Entered, Replaced, ControlTypes, WorkerHears
<1>2. CASE TryTakeFrame \/ TryTakeCommand
  BY <1>2 DEF TryTakeFrame, TryTakeCommand, ControlTypes, queues
<1>3. CASE TakeWork BY <1>3 DEF TakeWork, ControlTypes
<1>4. CASE FinishFrame \/ PublishCommand
  BY <1>4 DEF FinishFrame, PublishCommand, Finished, ClientsHear, ControlTypes, queues
<1>5. CASE Yield
  <2>1. current \in Tasks /\ MaxYields \in Nat
    BY <1>5, InHand, ExecutorAssumption DEF Yield, QueueTypes, ExecutorAssumption, Tasks
  <2>2. yields[current] + 1 \in 0 .. MaxYields BY <1>5, <2>1 DEF Yield, ControlTypes
  <2>3. yields' \in [Tasks -> 0 .. MaxYields] BY <1>5, <2>1, <2>2 DEF Yield, ControlTypes
  <2>4. workerPc' \in WorkerPlaces BY <1>5 DEF Yield
  <2> QED BY <1>5, <2>3, <2>4 DEF Yield, ControlTypes
<1>6. CASE Waits
  <2>1. commandStatus' \in [sequence : 0 .. accepted, active : BOOLEAN]
    <3>1. \/ commandStatus' = commandStatus
          \/ \E a \in BOOLEAN : commandStatus' = [sequence |-> current, active |-> a]
      BY <1>6 DEF Waits, Sleep, SpuriousWake, Exit, Report, Unpause, CompleteStatus
    <3> QED BY <3>1 DEF QueueTypes, ControlTypes
  <2>2. /\ workerPc' \in WorkerPlaces
        /\ UNCHANGED <<accepted, executing, stopping, yields, clientPc>>
    BY <1>6 DEF Waits, Sleep, SpuriousWake, Exit, Report, Unpause, CompleteStatus, queues
  <2> QED BY <2>1, <2>2 DEF ControlTypes
<1>7. CASE Calls
  <2>1. ASSUME NEW c \in Clients, FlushCheck(c) PROVE clientPc' \in [Clients -> ClientPlaces]
    BY <2>1 DEF FlushCheck, ControlTypes
  <2>2. clientPc' \in [Clients -> ClientPlaces]
    BY <1>7, <2>1, ExecutorAssumption
    DEF Calls, StopBegin, MarkStopping, Join, FlushBegin, ControlTypes, ExecutorAssumption
  <2>3. /\ stopping' \in BOOLEAN /\ workerPc' \in WorkerPlaces
        /\ UNCHANGED <<accepted, executing, yields, commandStatus>>
    BY <1>7
    DEF Calls, StopBegin, MarkStopping, Join, FlushBegin, FlushCheck, WorkerHears, ControlTypes,
        queues
  <2> QED BY <2>2, <2>3 DEF ControlTypes
<1>8. CASE UNCHANGED vars BY <1>8 DEF vars, ControlTypes
<1> QED BY <1>1, <1>2, <1>3, <1>4, <1>5, <1>6, <1>7, <1>8, StepKinds
LEMMA PlacesInit == Init => Places
BY DEF Init, Places, Injective

LEMMA PlacesKept == ASSUME QueueTypes, Places, Hands, Next PROVE Places'
<1>1. CASE Entered
  <2>1. /\ ~Contains(completedFrames, accepted') /\ ~Contains(completedCommands, accepted')
        /\ accepted' \notin taken /\ current # accepted'
    BY <1>1, NumberIsNew DEF Entered
  <2>2. UNCHANGED <<current, completedFrames, completedCommands, taken>>
    BY <1>1 DEF Entered, receipts
  <2>3. ASSUME NEW s \in 1 .. accepted' PROVE Located(s)'
    <3>1. s \in 1 .. accepted \/ s = accepted' BY <1>1, Wider DEF Entered
    <3> QED BY <1>1, <2>1, <2>2, <3>1, EnteredQueue DEF Places, Located
  <2> QED BY <1>1, <2>2, <2>3, EnteredQueue DEF Places
<1>2. ASSUME NEW i \in 1 .. Len(pending), Replaced(i) PROVE Places'
  <2>1. /\ ~Contains(completedFrames, accepted') /\ ~Contains(completedCommands, accepted')
        /\ accepted' \notin taken /\ current # accepted'
    BY <1>2, NumberIsNew DEF Replaced
  <2>2. UNCHANGED <<current, completedCommands, taken>> BY <1>2 DEF Replaced
  <2>3. pending[i] \in 1 .. accepted /\ Contains(pending, pending[i]) /\ accepted' # pending[i]
    BY <1>2, ReplacedQueue, Wider DEF Replaced
  <2>4. /\ \A s : Contains(pending', s)
                <=> (Contains(pending, s) /\ s # pending[i]) \/ s = accepted'
        /\ \A s : Contains(completedFrames', s) <=> Contains(completedFrames, s) \/ s = pending[i]
        /\ Injective(pending') /\ Injective(completedFrames')
    BY <1>2, ReplacedQueue
  <2>5. ASSUME NEW s \in 1 .. accepted' PROVE Located(s)'
    <3>1. s \in 1 .. accepted \/ s = accepted' BY <1>2, Wider DEF Replaced
    <3> QED BY <2>1, <2>2, <2>3, <2>4, <3>1 DEF Places, Located
  <2> QED BY <2>2, <2>4, <2>5 DEF Places
<1>3. CASE TryTakeFrame
  BY <1>3, TryTakeFrameQueue DEF TryTakeFrame, Places, Located, queues
<1>4. CASE TryTakeCommand
  BY <1>4, TryTakeCommandQueue DEF TryTakeCommand, Places, Located, queues
<1>5. CASE TakeWork
  <2>1. current = 0 BY <1>5 DEF TakeWork, Hands
  <2> QED BY <1>5, <2>1, TakeWorkQueue DEF TakeWork, Places, Located, receipts
<1>6. CASE FinishFrame
  <2>1. ASSUME NEW s \in 1 .. accepted PROVE Located(s)'
    <3>1. Located(s) /\ current' = 0 /\ s # 0 /\ UNCHANGED <<pending, completedCommands, taken, accepted>>
      BY <1>6 DEF FinishFrame, Finished, Places, queues
    <3> QED BY <1>6, <3>1, FinishFrameQueue DEF Located
  <2> QED BY <1>6, <2>1, FinishFrameQueue DEF FinishFrame, Finished, Places, queues
<1>7. CASE Yield
  <2>1. ASSUME NEW s \in 1 .. accepted PROVE Located(s)'
    <3>1. Located(s) /\ current' = 0 /\ s # 0 /\ UNCHANGED <<completedFrames, completedCommands, taken, accepted>>
      BY <1>7 DEF Yield, Places, receipts
    <3> QED BY <1>7, <3>1, YieldQueue DEF Located
  <2> QED BY <1>7, <2>1, YieldQueue DEF Yield, Places, receipts
<1>8. CASE PublishCommand
  <2>1. ASSUME NEW s \in 1 .. accepted PROVE Located(s)'
    <3>1. Located(s) /\ current' = 0 /\ s # 0 /\ UNCHANGED <<pending, completedFrames, taken, accepted>>
      BY <1>8 DEF PublishCommand, Finished, Places, queues
    <3> QED BY <1>8, <3>1, PublishCommandQueue DEF Located
  <2> QED BY <1>8, <2>1, PublishCommandQueue DEF PublishCommand, Finished, Places, queues
<1>9. CASE Still BY <1>9 DEF Still, Places, Located, receipts
<1>10. CASE UNCHANGED vars BY <1>10 DEF vars, Places, Located
<1> QED
  BY <1>1, <1>2, <1>3, <1>4, <1>5, <1>6, <1>7, <1>8, <1>9, <1>10, StepKinds, StillSteps

LEMMA HandsInit == Init => Hands
BY DEF Init, Hands

LEMMA HandsKept == ASSUME QueueTypes, Places, Hands, Next PROVE Hands'
<1>1. CASE Entered \/ \E i \in 1 .. Len(pending) : Replaced(i)
  <2>1. /\ UNCHANGED <<current, executing>>
        /\ workerPc' = workerPc \/ (workerPc = "asleep" /\ workerPc' = "testing")
    BY <1>1 DEF Entered, Replaced, WorkerHears
  <2>2. current # 0 => current \in 1 .. accepted
    BY ExecutorAssumption DEF QueueTypes, ExecutorAssumption
  <2>3. current # 0 => kind'[current] = kind[current]
    BY <1>1, <2>2 DEF Entered, Replaced
  <2> QED BY <2>1, <2>3 DEF Hands, IsFrame
<1>2. CASE TryTakeFrame \/ TryTakeCommand
  BY <1>2 DEF TryTakeFrame, TryTakeCommand, Hands, IsFrame, queues
<1>3. CASE TakeWork
  <2>1. current' \in 1 .. accepted /\ current' = Head(pending) BY <1>3, TakeWorkQueue
  <2>2. current' # 0 BY <2>1
  <2> QED BY <1>3, <2>1, <2>2 DEF TakeWork, Hands, IsFrame
<1>4. CASE FinishFrame \/ PublishCommand
  BY <1>4 DEF FinishFrame, PublishCommand, Finished, Hands
<1>5. CASE Yield BY <1>5 DEF Yield, Hands
<1>6. CASE Waits
  BY <1>6, StillSteps
  DEF Still, Waits, Sleep, SpuriousWake, Exit, Report, Unpause, CompleteStatus, Hands, IsFrame
<1>7. CASE Calls
  <2>1. workerPc' = workerPc \/ (workerPc = "asleep" /\ workerPc' = "testing")
    BY <1>7
    DEF Calls, StopBegin, MarkStopping, Join, FlushBegin, FlushCheck, WorkerHears
  <2> QED BY <1>7, <2>1, StillSteps DEF Still, Hands, IsFrame
<1>8. CASE UNCHANGED vars BY <1>8 DEF vars, Hands, IsFrame
<1> QED BY <1>1, <1>2, <1>3, <1>4, <1>5, <1>6, <1>7, <1>8, StepKinds

LEMMA OfAKindInit == Init => OfAKind
BY DEF Init, OfAKind, Contains

LEMMA OfAKindKept == ASSUME QueueTypes, Places, Hands, OfAKind, Next PROVE OfAKind'
<1>1. CASE Entered
  <2>1. ~Contains(completedFrames, accepted') /\ ~Contains(completedCommands, accepted')
    BY <1>1, InQueue, Wider DEF Entered
  <2>2. \A s \in 1 .. accepted : IsFrame(s)' <=> IsFrame(s) BY <1>1 DEF Entered, IsFrame
  <2>3. ASSUME NEW s \in dropped
        PROVE  kind'[s] = "replaceable" /\ \E t \in s + 1 .. accepted' : IsFrame(t)'
    <3>1. PICK t \in s + 1 .. accepted : IsFrame(t) BY DEF OfAKind
    <3>2. t \in s + 1 .. accepted' /\ t \in 1 .. accepted /\ s \in 1 .. accepted
      BY <1>1, Wider DEF Entered, QueueTypes
    <3> QED BY <1>1, <2>2, <3>1, <3>2 DEF Entered, OfAKind
  <2>4. UNCHANGED <<completedFrames, completedCommands, dropped>> BY <1>1 DEF Entered, receipts
  <2>5. \A s \in 1 .. accepted' : s \in 1 .. accepted \/ s = accepted' BY <1>1, Wider DEF Entered
  <2> QED BY <2>1, <2>2, <2>3, <2>4, <2>5 DEF OfAKind
<1>2. ASSUME NEW i \in 1 .. Len(pending), Replaced(i) PROVE OfAKind'
  <2>1. ~Contains(completedFrames, accepted') /\ ~Contains(completedCommands, accepted')
    BY <1>2, InQueue, Wider DEF Replaced
  <2>2. \A s \in 1 .. accepted : kind'[s] = kind[s] /\ (IsFrame(s)' <=> IsFrame(s))
    BY <1>2 DEF Replaced, IsFrame
  <2>3. pending[i] \in 1 .. accepted /\ kind[pending[i]] = "replaceable" /\ IsFrame(pending[i])
    BY <1>2, ReplacedQueue DEF Replaced, IsFrame, FrameKinds
  <2>4. kind'[accepted'] \in FrameKinds BY <1>2 DEF Replaced, FrameKinds
  <2>5. ASSUME NEW s \in dropped'
        PROVE  kind'[s] = "replaceable" /\ \E t \in s + 1 .. accepted' : IsFrame(t)'
    <3>1. s \in 1 .. accepted /\ kind[s] = "replaceable"
      BY <1>2, <2>3 DEF Replaced, QueueTypes, OfAKind
    <3>2. accepted' \in s + 1 .. accepted' BY <1>2, <3>1, Wider DEF Replaced
    <3> QED BY <2>2, <2>4, <3>1, <3>2 DEF IsFrame
  <2>6. \A s \in 1 .. accepted' : s \in 1 .. accepted \/ s = accepted' BY <1>2, Wider DEF Replaced
  <2>7. /\ completedCommands' = completedCommands
        /\ \A s : Contains(completedFrames', s) <=> Contains(completedFrames, s) \/ s = pending[i]
    BY <1>2, ReplacedQueue DEF Replaced
  <2> QED BY <2>1, <2>2, <2>3, <2>5, <2>6, <2>7 DEF OfAKind
<1>3. CASE TryTakeFrame BY <1>3, TryTakeFrameQueue DEF TryTakeFrame, OfAKind, IsFrame, queues
<1>4. CASE TryTakeCommand
  BY <1>4, TryTakeCommandQueue DEF TryTakeCommand, OfAKind, IsFrame, queues
<1>5. CASE TakeWork BY <1>5 DEF TakeWork, OfAKind, IsFrame, receipts
<1>6. CASE FinishFrame
  <2>1. IsFrame(current) BY <1>6 DEF FinishFrame, Hands
  <2> QED
    BY <1>6, <2>1, FinishFrameQueue DEF FinishFrame, Finished, OfAKind, IsFrame, queues
<1>7. CASE Yield BY <1>7 DEF Yield, OfAKind, IsFrame, receipts
<1>8. CASE PublishCommand
  <2>1. ~IsFrame(current) BY <1>8 DEF PublishCommand, Hands
  <2> QED
    BY <1>8, <2>1, PublishCommandQueue
    DEF PublishCommand, Finished, OfAKind, IsFrame, queues
<1>9. CASE Still BY <1>9 DEF Still, OfAKind, IsFrame, receipts
<1>10. CASE UNCHANGED vars BY <1>10 DEF vars, OfAKind, IsFrame
<1> QED
  BY <1>1, <1>2, <1>3, <1>4, <1>5, <1>6, <1>7, <1>8, <1>9, <1>10, StepKinds, StillSteps
LEMMA InOrderInit == Init => InOrder
BY DEF Init, InOrder, Sorted, SubmissionOrder, Contains

(* A step that begins no task and puts back none but resumable ones overtakes nothing. *)
LEMMA NothingOvertaken ==
  ASSUME SubmissionOrder, accepted \in Nat,
         accepted' = accepted \/ (accepted' = accepted + 1 /\ Contains(pending', accepted')),
         \A s \in 1 .. accepted : kind'[s] = kind[s],
         \A s \in 1 .. accepted : Begun(s)' => Begun(s),
         \A s \in 1 .. accepted : Contains(pending', s) /\ kind[s] # "resumable"
                                      => Contains(pending, s)
  PROVE  SubmissionOrder'
<1>1. ASSUME NEW s \in 1 .. accepted', NEW t \in 1 .. accepted', s < t,
             kind'[s] # "resumable", kind'[t] # "resumable", Contains(pending', s), Begun(t)'
      PROVE  FALSE
  <2>1. t \in 1 .. accepted
    <3>1. t # accepted' \/ t \in 1 .. accepted BY <1>1 DEF Begun
    <3> QED BY <3>1
  <2>2. s \in 1 .. accepted BY <1>1, <2>1
  <2> QED BY <1>1, <2>1, <2>2 DEF SubmissionOrder
<1> QED BY <1>1 DEF SubmissionOrder

LEMMA InOrderKept == ASSUME QueueTypes, Places, Hands, InOrder, Next PROVE InOrder'
<1>1. CASE Entered
  <2>1. /\ accepted \in Nat /\ accepted' = accepted + 1
        /\ \A s \in 1 .. accepted : kind'[s] = kind[s]
    BY <1>1, Wider DEF Entered
  <2>2. /\ Len(pending) \in Nat /\ Len(pending') = Len(pending) + 1
        /\ \A i \in 1 .. Len(pending) : pending'[i] = pending[i] /\ pending[i] \in 1 .. accepted
        /\ pending'[Len(pending) + 1] = accepted + 1
    <3>1. pending \in Seq(1 .. accepted') /\ accepted + 1 \in 1 .. accepted'
      BY <1>1, Wider DEF Entered, QueueTypes
    <3>2. \A i \in 1 .. Len(pending) : pending[i] \in 1 .. accepted BY ElementOfSeq DEF QueueTypes
    <3> QED BY <1>1, <3>1, <3>2, AppendContains, LenProperties DEF Entered
  <2>3. Sorted'
    <3>1. ASSUME NEW i \in 1 .. Len(pending'), NEW j \in 1 .. Len(pending'), i < j,
                 Ranked(pending[i]), j \in 1 .. Len(pending) => Ranked(pending[j])
          PROVE  pending'[i] < pending'[j]
      <4>1. CASE j \in 1 .. Len(pending)
        BY <2>2, <3>1, <4>1 DEF InOrder, Sorted
      <4>2. CASE j = Len(pending) + 1
        <5>1. i \in 1 .. Len(pending) BY <2>2, <3>1, <4>2
        <5> QED BY <2>1, <2>2, <4>2, <5>1
      <4> QED BY <2>2, <4>1, <4>2
    <3>2. ASSUME NEW i \in 1 .. Len(pending), kind'[pending'[i]] # "resumable"
          PROVE  Ranked(pending[i])
      BY <2>1, <2>2, <3>2 DEF Ranked
    <3>3. ASSUME NEW i \in 1 .. Len(pending'), NEW j \in 1 .. Len(pending'), i < j
          PROVE  i \in 1 .. Len(pending)
      BY <2>2, <3>3
    <3> QED BY <3>1, <3>2, <3>3 DEF Sorted, Ranked
  <2>4. ASSUME NEW s \in 1 .. accepted PROVE Begun(s)' => Begun(s)
    BY <1>1, EnteredQueue DEF Begun, Entered
  <2>5. \A s \in 1 .. accepted : Contains(pending', s) => Contains(pending, s)
    BY <1>1, EnteredQueue, Wider DEF Entered
  <2>6. accepted' = accepted + 1 /\ Contains(pending', accepted')
    BY <1>1, EnteredQueue DEF Entered
  <2> QED BY <2>1, <2>3, <2>4, <2>5, <2>6, NothingOvertaken DEF InOrder<1>2. ASSUME NEW i \in 1 .. Len(pending), Replaced(i) PROVE InOrder'
  <2> DEFINE n == Len(pending)
             left == Without(i)
  <2>1. /\ accepted \in Nat /\ accepted' = accepted + 1
        /\ \A s \in 1 .. accepted : kind'[s] = kind[s]
    BY <1>2, Wider DEF Replaced
  <2>2. n \in Nat /\ \A j \in 1 .. n : pending[j] \in 1 .. accepted
    BY ElementOfSeq, LenProperties DEF QueueTypes
  <2>3. /\ left \in Seq(1 .. accepted') /\ Len(left) = n - 1
        /\ \A j \in 1 .. n - 1 : left[j] = IF j < i THEN pending[j] ELSE pending[j + 1]
    BY <1>2, Wider, WithoutContains DEF Replaced, QueueTypes, Places
  <2> HIDE DEF left
  <2>4. /\ Len(pending') = n
        /\ \A j \in 1 .. n - 1 : pending'[j] = left[j]
        /\ pending'[n] = accepted + 1
    <3>1. pending' = Append(left, accepted + 1) /\ accepted + 1 \in 1 .. accepted'
      BY <1>2, <2>1 DEF Replaced, left
    <3> QED BY <2>2, <2>3, <3>1, AppendContains
  <2>5. Sorted'
    <3>1. ASSUME NEW j \in 1 .. n, NEW k \in 1 .. n, j < k,
                 kind'[pending'[j]] # "resumable", kind'[pending'[k]] # "resumable"
          PROVE  pending'[j] < pending'[k]
      <4>1. PICK a \in 1 .. n : a = IF j < i THEN j ELSE j + 1 BY <2>2, <3>1
      <4>2. pending'[j] = pending[a] /\ Ranked(pending[a])
        <5>1. j \in 1 .. n - 1 BY <2>2, <3>1
        <5>2. pending'[j] = pending[a] BY <2>3, <2>4, <4>1, <5>1
        <5> QED BY <2>1, <2>2, <3>1, <5>2 DEF Ranked
      <4>3. CASE k = n BY <2>1, <2>2, <2>4, <4>2, <4>3
      <4>4. CASE k < n
        <5>1. PICK b \in 1 .. n : b = IF k < i THEN k ELSE k + 1 BY <2>2, <4>4
        <5>2. pending'[k] = pending[b] /\ Ranked(pending[b])
          <6>1. k \in 1 .. n - 1 BY <2>2, <4>4
          <6>2. pending'[k] = pending[b] BY <2>3, <2>4, <5>1, <6>1
          <6> QED BY <2>1, <2>2, <3>1, <6>2 DEF Ranked
        <5>3. a < b BY <2>2, <3>1, <4>1, <5>1
        <5> QED BY <4>2, <5>2, <5>3 DEF InOrder, Sorted
      <4> QED BY <2>2, <4>3, <4>4
    <3> QED BY <2>4, <3>1 DEF Sorted, Ranked
  <2>6. ASSUME NEW s \in 1 .. accepted PROVE Begun(s)' => Begun(s)
    BY <1>2, ReplacedQueue DEF Begun, Replaced
  <2>7. \A s \in 1 .. accepted : Contains(pending', s) => Contains(pending, s)
    BY <1>2, ReplacedQueue, Wider DEF Replaced
  <2>8. accepted' = accepted + 1 /\ Contains(pending', accepted')
    BY <1>2, ReplacedQueue DEF Replaced
  <2> QED BY <2>1, <2>5, <2>6, <2>7, <2>8, NothingOvertaken DEF InOrder
<1>3. CASE TakeWork
  <2>1. UNCHANGED <<accepted, kind, dropped>> BY <1>3 DEF TakeWork
  <2>2. Sorted'
    <3>1. /\ Len(pending) \in Nat /\ Len(pending') = Len(pending) - 1
          /\ \A i \in 1 .. Len(pending) - 1 : pending'[i] = pending[i + 1]
      BY <1>3, TakeWorkQueue
    <3> SUFFICES ASSUME NEW i \in 1 .. Len(pending'), NEW j \in 1 .. Len(pending'), i < j,
                        kind'[pending'[i]] # "resumable", kind'[pending'[j]] # "resumable"
                 PROVE  pending'[i] < pending'[j]
      BY DEF Sorted, Ranked
    <3>2. /\ i + 1 \in 1 .. Len(pending) /\ j + 1 \in 1 .. Len(pending) /\ i + 1 < j + 1
          /\ pending'[i] = pending[i + 1] /\ pending'[j] = pending[j + 1]
      BY <3>1
    <3>3. Ranked(pending[i + 1]) /\ Ranked(pending[j + 1]) BY <2>1, <3>2 DEF Ranked
    <3> QED BY <3>2, <3>3 DEF InOrder, Sorted
  <2>3. ASSUME NEW s \in 1 .. accepted, NEW t \in 1 .. accepted, s < t, Ranked(s), Ranked(t),
               Contains(pending', s), Begun(t)'
        PROVE  FALSE
    <3>1. t = pending[1] \/ Begun(t) BY <1>3, <2>1, <2>3, TakeWorkQueue DEF Begun
    <3>2. PICK j \in 1 .. Len(pending) - 1 : pending[j + 1] = s
      BY <1>3, <2>3, TakeWorkQueue DEF Contains
    <3>3. 1 \in 1 .. Len(pending) /\ j + 1 \in 1 .. Len(pending) /\ 1 < j + 1
      BY <1>3, <3>2, TakeWorkQueue
    <3>4. CASE t = pending[1] BY <2>3, <3>2, <3>3, <3>4 DEF InOrder, Sorted
    <3>5. CASE Begun(t) BY <1>3, <2>3, <3>5, TakeWorkQueue DEF InOrder, SubmissionOrder, Ranked
    <3> QED BY <3>1, <3>4, <3>5
  <2>4. SubmissionOrder' BY <2>1, <2>3 DEF SubmissionOrder, Ranked
  <2> QED BY <2>2, <2>4 DEF InOrder
<1>4. CASE Yield
  <2>1. UNCHANGED <<accepted, kind, dropped>> /\ kind[current] = "resumable" BY <1>4 DEF Yield
  <2>2. /\ Len(pending) \in Nat /\ Len(pending') = Len(pending) + 1
        /\ \A i \in 1 .. Len(pending) : pending'[i] = pending[i]
        /\ pending'[Len(pending) + 1] = current
    <3>1. pending \in Seq(1 .. accepted) /\ current \in 1 .. accepted
      BY <1>4, YieldQueue DEF QueueTypes
    <3> QED BY <1>4, <3>1, AppendContains, LenProperties DEF Yield
  <2>3. Sorted' BY <2>1, <2>2 DEF InOrder, Sorted, Ranked
  <2>4. ASSUME NEW s \in 1 .. accepted PROVE Begun(s)' => Begun(s)
    BY <1>4, <2>1, YieldQueue DEF Begun
  <2>5. \A s \in 1 .. accepted : Contains(pending', s) /\ kind[s] # "resumable"
                                     => Contains(pending, s)
    BY <1>4, <2>1, YieldQueue
  <2>6. accepted \in Nat BY ExecutorAssumption DEF QueueTypes, ExecutorAssumption
  <2> QED BY <2>1, <2>3, <2>4, <2>5, <2>6, NothingOvertaken DEF InOrder
<1>5. CASE UNCHANGED <<accepted, kind, pending, dropped>>
  BY <1>5 DEF InOrder, Sorted, SubmissionOrder, Ranked, Begun
<1>6. /\ TryTakeFrame \/ TryTakeCommand \/ FinishFrame \/ PublishCommand =>
             UNCHANGED <<accepted, kind, pending, dropped>>
      /\ Still \/ UNCHANGED vars => UNCHANGED <<accepted, kind, pending, dropped>>
  BY DEF TryTakeFrame, TryTakeCommand, FinishFrame, PublishCommand, Finished, Still, queues, vars
<1> QED BY <1>1, <1>2, <1>3, <1>4, <1>5, <1>6, StepKinds, StillSteps

LEMMA StatusInit == Init => Status
BY DEF Init, Status

LEMMA StatusKept ==
  ASSUME QueueTypes, ControlTypes, Places, Hands, Status, Next
  PROVE  Status'
<1> DEFINE n == commandStatus.sequence
<1>0. /\ n \in 0 .. accepted /\ accepted \in Nat
      /\ commandStatus.active => n \in 1 .. accepted
  BY ExecutorAssumption DEF QueueTypes, ControlTypes, Status, ExecutorAssumption
<1>1. CASE Entered
  <2>1. UNCHANGED <<current, commandStatus>> /\ (workerPc \in {"preparing", "command"} =>
                                                 workerPc' = workerPc)
    BY <1>1 DEF Entered, WorkerHears
  <2>2. ASSUME commandStatus.active PROVE ~IsFrame(n)'
    BY <1>0, <1>1, <2>2 DEF Entered, Status, IsFrame
  <2> QED BY <1>1, <2>1, <2>2, EnteredQueue DEF Status
<1>2. ASSUME NEW i \in 1 .. Len(pending), Replaced(i) PROVE Status'
  <2>1. UNCHANGED <<current, commandStatus>> /\ (workerPc \in {"preparing", "command"} =>
                                                 workerPc' = workerPc)
    BY <1>2 DEF Replaced, WorkerHears
  <2>2. ASSUME commandStatus.active PROVE kind'[n] = kind[n] /\ n # pending[i]
    BY <1>0, <1>2, <2>2 DEF Replaced, Status, IsFrame, FrameKinds
  <2> QED BY <1>2, <2>1, <2>2, ReplacedQueue DEF Status, IsFrame
<1>3. CASE TryTakeFrame \/ TryTakeCommand
  BY <1>3 DEF TryTakeFrame, TryTakeCommand, Status, IsFrame, queues
<1>4. CASE TakeWork
  <2>1. current = 0 /\ UNCHANGED <<kind, commandStatus>> BY <1>4 DEF TakeWork, Hands
  <2>2. ASSUME commandStatus.active PROVE Contains(pending, n) /\ ~IsFrame(n)
    BY <2>1, <2>2 DEF Status
  <2>3. current' = n /\ ~IsFrame(n) => workerPc' = "preparing"
    BY <1>4, TakeWorkQueue DEF TakeWork
  <2> QED BY <1>4, <2>1, <2>2, <2>3, TakeWorkQueue DEF Status, IsFrame
<1>5. CASE FinishFrame \/ PublishCommand
  <2>1. UNCHANGED <<kind, pending, commandStatus>> /\ workerPc \notin {"preparing", "command"}
    BY <1>5 DEF FinishFrame, PublishCommand, Finished, queues
  <2> QED BY <2>1 DEF Status, IsFrame
<1>6. CASE Yield
  <2>1. UNCHANGED <<kind, commandStatus>> BY <1>6 DEF Yield
  <2> QED BY <1>6, <2>1, YieldQueue DEF Status, IsFrame
<1>7. CASE Waits
  <2>1. CASE Report
    <3>1. current \in 1 .. accepted /\ ~IsFrame(current) BY <2>1, InHand DEF Report, Hands
    <3> QED BY <2>1, <3>1 DEF Report, Status, IsFrame, queues
  <2>2. CASE CompleteStatus BY <2>2 DEF CompleteStatus, Status
  <2>3. CASE Sleep \/ SpuriousWake \/ Exit \/ Unpause
    BY <2>3 DEF Sleep, SpuriousWake, Exit, Unpause, Status, IsFrame, queues
  <2> QED BY <1>7, <2>1, <2>2, <2>3 DEF Waits
<1>8. CASE Calls
  BY <1>8 DEF Calls, StopBegin, MarkStopping, Join, FlushBegin, FlushCheck, WorkerHears, Status,
              IsFrame, queues
<1>9. CASE UNCHANGED vars BY <1>9 DEF vars, Status, IsFrame
<1> QED BY <1>1, <1>2, <1>3, <1>4, <1>5, <1>6, <1>7, <1>8, <1>9, StepKinds

LEMMA StopsInit == Init => Stops
BY ExecutorAssumption DEF Init, Stops, Alive, ExecutorAssumption

LEMMA StopsKept ==
  ASSUME QueueTypes, ControlTypes, Hands, Stops, Next
  PROVE  Stops'
<1>1. CASE Entered \/ \E i \in 1 .. Len(pending) : Replaced(i)
  BY <1>1 DEF Entered, Replaced, WorkerHears, Stops, Alive
<1>2. CASE TryTakeFrame \/ TryTakeCommand
  BY <1>2 DEF TryTakeFrame, TryTakeCommand, Stops, Alive, queues
<1>3. CASE TakeWork BY <1>3 DEF TakeWork, Stops, Alive
<1>4. CASE FinishFrame \/ PublishCommand
  <2>1. clientPc'[Owner] \in {"joining", "stopped"} => clientPc'[Owner] = clientPc[Owner]
    BY <1>4, ExecutorAssumption
    DEF FinishFrame, PublishCommand, Finished, ClientsHear, ExecutorAssumption
  <2>2. /\ UNCHANGED stopping /\ workerPc' = "testing"
        /\ workerPc \in {"frame", "publishing"}
    BY <1>4 DEF FinishFrame, PublishCommand, Finished
  <2> QED BY <2>1, <2>2 DEF Stops, Alive
<1>5. CASE Yield BY <1>5 DEF Yield, Stops, Alive
<1>6. CASE Waits
  BY <1>6 DEF Waits, Sleep, SpuriousWake, Exit, Report, Unpause, CompleteStatus, Stops, Alive,
              queues
<1>7. CASE Calls
  <2>1. CASE StopBegin BY <2>1 DEF StopBegin, Stops, Alive, queues, ControlTypes
  <2>2. CASE MarkStopping
    BY <2>2 DEF MarkStopping, WorkerHears, Stops, Alive, queues, ControlTypes
  <2>3. CASE Join BY <2>3 DEF Join, Stops, Alive, queues, ControlTypes
  <2>4. ASSUME NEW c \in Clients, FlushBegin(c) PROVE Stops'
    BY <2>4 DEF FlushBegin, Stops, Alive, queues, ControlTypes
  <2>5. ASSUME NEW c \in Clients, FlushCheck(c) PROVE Stops'
    BY <2>5 DEF FlushCheck, Stops, Alive, queues, ControlTypes
  <2> QED BY <1>7, <2>1, <2>2, <2>3, <2>4, <2>5 DEF Calls
<1>8. CASE UNCHANGED vars BY <1>8 DEF vars, Stops, Alive
<1> QED BY <1>1, <1>2, <1>3, <1>4, <1>5, <1>6, <1>7, <1>8, StepKinds
-----------------------------------------------------------------------------
(***************************************************************************)
(* The bound on the queue, counted in tasks rather than in places.         *)
(***************************************************************************)
Waiting == {s \in 1 .. accepted : Contains(pending, s)}
FrameSet == {s \in Waiting : IsFrame(s)}
CommandSet == {s \in 1 .. accepted : (Contains(pending, s) \/ current = s) /\ ~IsFrame(s)}
(* The command in the render thread's hands counts: it may come back. *)
Room ==
  /\ Cardinality(FrameSet) <= MaxPendingFrames
  /\ Cardinality(CommandSet) <= MaxPendingFrames + CommandRoom + 1

LEMMA FiniteSets ==
  ASSUME QueueTypes
  PROVE  /\ \A S \in SUBSET (1 .. accepted) : IsFiniteSet(S) /\ Cardinality(S) \in Nat
         /\ FrameSet \in SUBSET (1 .. accepted) /\ CommandSet \in SUBSET (1 .. accepted)
         /\ Waiting \in SUBSET (1 .. accepted)
<1>1. accepted \in Int BY ExecutorAssumption DEF QueueTypes, ExecutorAssumption
<1>2. IsFiniteSet(1 .. accepted) BY <1>1, FS_Interval
<1> QED BY <1>2, FS_Subset, FS_CardinalityType DEF FrameSet, CommandSet, Waiting

LEMMA OneMore ==
  ASSUME NEW S, NEW x, IsFiniteSet(S)
  PROVE  /\ IsFiniteSet(S \cup {x}) /\ Cardinality(S) \in Nat
         /\ Cardinality(S \cup {x}) \in Nat /\ Cardinality(S \cup {x}) <= Cardinality(S) + 1
<1>1. IsFiniteSet(S \cup {x}) BY FS_AddElement
<1>2. Cardinality(S) \in Nat /\ Cardinality(S \cup {x}) \in Nat BY <1>1, FS_CardinalityType
<1>3. \/ Cardinality(S \cup {x}) = Cardinality(S)
      \/ Cardinality(S \cup {x}) = Cardinality(S) + 1
  BY FS_AddElement
<1> QED BY <1>1, <1>2, <1>3

(* As no task is twice in the queue, its places are as many as its tasks. *)
LEMMA PlacesCounted ==
  ASSUME QueueTypes, Places
  PROVE  /\ Cardinality(FramePlaces) = Cardinality(FrameSet)
         /\ Cardinality(1 .. Len(pending) \ FramePlaces) <= Cardinality(CommandSet)
         /\ Cardinality(Waiting) = Len(pending)
<1>1. /\ Len(pending) \in Nat /\ Injective(pending)
      /\ \A i \in 1 .. Len(pending) : pending[i] \in 1 .. accepted /\ Contains(pending, pending[i])
  BY LenProperties, ElementOfSeq DEF QueueTypes, Places, Contains
<1>2. IsFiniteSet(1 .. Len(pending)) /\ Cardinality(1 .. Len(pending)) = Len(pending)
  BY <1>1, FS_Interval
<1>3. Cardinality(Waiting) = Len(pending)
  <2> DEFINE f == [i \in 1 .. Len(pending) |-> pending[i]]
  <2>1. f \in Bijection(1 .. Len(pending), Waiting)
    <3>1. f \in [1 .. Len(pending) -> Waiting] BY <1>1 DEF Waiting
    <3>2. \A i, j \in 1 .. Len(pending) : f[i] = f[j] => i = j BY <1>1 DEF Injective
    <3>3. \A s \in Waiting : \E i \in 1 .. Len(pending) : f[i] = s
      BY DEF Waiting, Contains
    <3> QED BY <3>1, <3>2, <3>3 DEF Bijection, Injection, Surjection, IsInjective
  <2>2. ExistsBijection(1 .. Len(pending), Waiting) BY <2>1 DEF ExistsBijection
  <2> QED BY <1>2, <2>2, FS_Bijection
<1>4. Cardinality(FramePlaces) = Cardinality(FrameSet)
  <2> DEFINE f == [i \in FramePlaces |-> pending[i]]
  <2>1. FramePlaces \subseteq 1 .. Len(pending) BY DEF FramePlaces
  <2>2. f \in Bijection(FramePlaces, FrameSet)
    <3>1. f \in [FramePlaces -> FrameSet] BY <1>1 DEF FrameSet, Waiting, FramePlaces
    <3>2. \A i, j \in FramePlaces : f[i] = f[j] => i = j BY <1>1, <2>1 DEF Injective
    <3>3. \A s \in FrameSet : \E i \in FramePlaces : f[i] = s
      BY DEF FrameSet, Waiting, FramePlaces, Contains
    <3> QED BY <3>1, <3>2, <3>3 DEF Bijection, Injection, Surjection, IsInjective
  <2>3. ExistsBijection(FramePlaces, FrameSet) BY <2>2 DEF ExistsBijection
  <2>4. IsFiniteSet(FramePlaces) BY <1>2, <2>1, FS_Subset
  <2> QED BY <2>3, <2>4, FS_Bijection
<1>5. Cardinality(1 .. Len(pending) \ FramePlaces) <= Cardinality(CommandSet)
  <2> DEFINE rest == 1 .. Len(pending) \ FramePlaces
             f == [i \in rest |-> pending[i]]
  <2>1. f \in Injection(rest, CommandSet)
    <3>1. f \in [rest -> CommandSet] BY <1>1 DEF CommandSet, FramePlaces
    <3>2. \A i, j \in rest : f[i] = f[j] => i = j BY <1>1 DEF Injective
    <3> QED BY <3>1, <3>2 DEF Injection, IsInjective
  <2>2. IsFiniteSet(CommandSet) BY FiniteSets
  <2> QED BY <2>1, <2>2, FS_Injection
<1> QED BY <1>3, <1>4, <1>5

LEMMA RoomInit == Init => Room
<1> SUFFICES ASSUME Init PROVE Room OBVIOUS
<1>1. FrameSet = {} /\ CommandSet = {} BY DEF Init, FrameSet, CommandSet, Waiting
<1> QED BY <1>1, FS_EmptySet, ExecutorAssumption DEF Room, ExecutorAssumption

(* A step after which no task waits that did not wait before keeps the bound. *)
LEMMA FewerWait ==
  ASSUME QueueTypes, Room, FrameSet' \subseteq FrameSet, CommandSet' \subseteq CommandSet
  PROVE  Room'
<1>1. /\ Cardinality(FrameSet') <= Cardinality(FrameSet)
      /\ Cardinality(CommandSet') <= Cardinality(CommandSet)
      /\ Cardinality(FrameSet') \in Nat /\ Cardinality(CommandSet') \in Nat
      /\ Cardinality(FrameSet) \in Nat /\ Cardinality(CommandSet) \in Nat
  BY FiniteSets, FS_Subset, FS_CardinalityType
<1> QED BY <1>1, ExecutorAssumption DEF Room, ExecutorAssumption

LEMMA RoomKept == ASSUME QueueTypes, Places, Hands, Room, Next PROVE Room'
<1> USE ExecutorAssumption DEF ExecutorAssumption
<1>1. CASE Entered
  <2>1. /\ \A s \in 1 .. accepted : IsFrame(s)' <=> IsFrame(s)
        /\ current' = current /\ current # accepted'
        /\ \A s \in 1 .. accepted' : s \in 1 .. accepted \/ s = accepted'
        /\ 1 .. accepted \subseteq 1 .. accepted' /\ accepted' \in 1 .. accepted'
    BY <1>1, Wider DEF Entered, IsFrame, QueueTypes
  <2>2. /\ IsFiniteSet(FrameSet) /\ IsFiniteSet(CommandSet) /\ IsFiniteSet(Waiting)
        /\ Cardinality(FrameSet) \in Nat /\ Cardinality(CommandSet) \in Nat
    BY FiniteSets
  <2>3. CASE kind'[accepted'] \in FrameKinds
    <3>1. FrameSet' = FrameSet \cup {accepted'} /\ CommandSet' = CommandSet
      BY <1>1, <2>1, <2>3, EnteredQueue DEF FrameSet, CommandSet, Waiting, IsFrame
    <3>2. Cardinality(FrameSet) < MaxPendingFrames
      BY <1>1, <2>2, <2>3, PlacesCounted DEF Entered, FramesFull
    <3>3. Cardinality(FrameSet') <= Cardinality(FrameSet) + 1
      BY <2>2, <3>1, OneMore
    <3>4. Cardinality(FrameSet') \in Nat BY <2>2, <3>1, OneMore
    <3> QED BY <2>2, <3>1, <3>2, <3>3, <3>4 DEF Room
  <2>4. CASE kind'[accepted'] \notin FrameKinds
    <3>1. FrameSet' = FrameSet
      BY <1>1, <2>1, <2>4, EnteredQueue DEF FrameSet, Waiting, IsFrame
    <3>2. CommandSet' \subseteq (Waiting \cup {current}) \cup {accepted'}
      BY <1>1, <2>1, EnteredQueue DEF CommandSet, Waiting
    <3>3. Cardinality(Waiting) \in Nat /\ Cardinality(Waiting) < MaxPendingFrames + CommandRoom
      BY <1>1, <2>2, <2>4, PlacesCounted, FiniteSets DEF Entered
    <3>4. /\ IsFiniteSet(Waiting \cup {current})
          /\ Cardinality(Waiting \cup {current}) \in Nat
          /\ Cardinality(Waiting \cup {current}) <= Cardinality(Waiting) + 1
      BY <2>2, <3>3, OneMore
    <3>5. /\ IsFiniteSet((Waiting \cup {current}) \cup {accepted'})
          /\ Cardinality((Waiting \cup {current}) \cup {accepted'}) \in Nat
          /\ Cardinality((Waiting \cup {current}) \cup {accepted'})
                 <= Cardinality(Waiting \cup {current}) + 1
      BY <3>4, OneMore
    <3>6. /\ Cardinality(CommandSet') \in Nat
          /\ Cardinality(CommandSet') <= Cardinality((Waiting \cup {current}) \cup {accepted'})
      BY <3>2, <3>5, FS_Subset, FS_CardinalityType
    <3>7. Cardinality(CommandSet') <= MaxPendingFrames + CommandRoom + 1
      BY <3>3, <3>4, <3>5, <3>6
    <3> QED BY <3>1, <3>7 DEF Room
  <2> QED BY <2>3, <2>4
<1>2. ASSUME NEW i \in 1 .. Len(pending), Replaced(i) PROVE Room'
  <2>1. /\ \A s \in 1 .. accepted : IsFrame(s)' <=> IsFrame(s)
        /\ current' = current /\ current # accepted' /\ kind'[accepted'] \in FrameKinds
        /\ \A s \in 1 .. accepted' : s \in 1 .. accepted \/ s = accepted'
        /\ 1 .. accepted \subseteq 1 .. accepted' /\ accepted' \in 1 .. accepted'
        /\ IsFrame(pending[i])
    BY <1>2, Wider DEF Replaced, IsFrame, QueueTypes, FrameKinds
  <2>2. /\ FrameSet' = (FrameSet \ {pending[i]}) \cup {accepted'} /\ pending[i] \in FrameSet
        /\ CommandSet' = CommandSet
    BY <1>2, <2>1, ReplacedQueue DEF FrameSet, CommandSet, Waiting, IsFrame
  <2>3. IsFiniteSet(FrameSet) /\ Cardinality(FrameSet) \in Nat BY FiniteSets
  <2>4. /\ IsFiniteSet(FrameSet \ {pending[i]})
        /\ Cardinality(FrameSet \ {pending[i]}) = Cardinality(FrameSet) - 1
    BY <2>2, <2>3, FS_RemoveElement
  <2>5. /\ Cardinality(FrameSet') \in Nat
        /\ Cardinality(FrameSet') <= Cardinality(FrameSet \ {pending[i]}) + 1
    BY <2>2, <2>4, OneMore
  <2> QED BY <2>2, <2>3, <2>4, <2>5 DEF Room
<1>3. CASE TakeWork
  <2>1. FrameSet' \subseteq FrameSet /\ CommandSet' \subseteq CommandSet
    BY <1>3, TakeWorkQueue DEF TakeWork, FrameSet, CommandSet, Waiting, IsFrame
  <2> QED BY <2>1, FewerWait
<1>4. CASE Yield
  <2>1. ~IsFrame(current) BY <1>4 DEF Yield, IsFrame, FrameKinds
  <2>2. UNCHANGED <<accepted, kind>> /\ current' = 0 BY <1>4 DEF Yield
  <2>3. FrameSet' \subseteq FrameSet /\ CommandSet' \subseteq CommandSet
    BY <1>4, <2>1, <2>2, YieldQueue DEF FrameSet, CommandSet, Waiting, IsFrame
  <2> QED BY <2>3, FewerWait
<1>5. CASE FinishFrame \/ PublishCommand
  <2>1. UNCHANGED <<accepted, kind, pending>> /\ current' = 0
    BY <1>5 DEF FinishFrame, PublishCommand, Finished, queues
  <2>2. FrameSet' \subseteq FrameSet /\ CommandSet' \subseteq CommandSet
    BY <2>1 DEF FrameSet, CommandSet, Waiting, IsFrame
  <2> QED BY <2>2, FewerWait
<1>6. CASE TryTakeFrame \/ TryTakeCommand \/ Still \/ UNCHANGED vars
  <2>1. UNCHANGED <<accepted, kind, pending, current>>
    BY <1>6 DEF TryTakeFrame, TryTakeCommand, Still, vars, queues
  <2> QED BY <2>1, FewerWait DEF FrameSet, CommandSet, Waiting, IsFrame
<1> QED BY <1>1, <1>2, <1>3, <1>4, <1>5, <1>6, StepKinds, StillSteps
-----------------------------------------------------------------------------
ExecutorInv ==
  QueueTypes /\ ControlTypes /\ Places /\ Hands /\ OfAKind /\ InOrder /\ Status /\ Stops /\ Room

LEMMA ExecutorInductive == Spec => []ExecutorInv
<1>1. Init => ExecutorInv
  BY TypesInit, PlacesInit, HandsInit, OfAKindInit, InOrderInit, StatusInit, StopsInit, RoomInit
  DEF ExecutorInv
<1>2. ASSUME ExecutorInv, [Next]_vars PROVE ExecutorInv'
  <2>1. CASE Next
    <3> USE <1>2, <2>1 DEF ExecutorInv
    <3>1. QueueTypes' BY QueueTypesKept
    <3>2. ControlTypes' BY ControlTypesKept
    <3>3. Places' BY PlacesKept
    <3>4. Hands' BY HandsKept
    <3>5. OfAKind' BY OfAKindKept
    <3>6. InOrder' BY InOrderKept
    <3>7. Status' BY StatusKept
    <3>8. Stops' BY StopsKept
    <3>9. Room' BY RoomKept
    <3> QED BY <3>1, <3>2, <3>3, <3>4, <3>5, <3>6, <3>7, <3>8, <3>9
  <2>2. CASE UNCHANGED vars
    BY <1>2, <2>2
    DEF vars, ExecutorInv, QueueTypes, ControlTypes, Places, Located, Hands, OfAKind, InOrder,
        Sorted, SubmissionOrder, Begun, Ranked, Status, Stops, Alive, Room, FrameSet, CommandSet,
        Waiting, IsFrame
  <2> QED BY <1>2, <2>1, <2>2
<1> QED BY <1>1, <1>2, PTL DEF Spec

(* The queue of frames and commands stays within its bounds, and every variable has its type. *)
THEOREM TypeCorrect == Spec => []TypeOK
<1>1. ASSUME ExecutorInv PROVE TypeOK
  <2>1. /\ Cardinality(FramePlaces) = Cardinality(FrameSet)
        /\ Cardinality(1 .. Len(pending) \ FramePlaces) <= Cardinality(CommandSet)
    BY <1>1, PlacesCounted DEF ExecutorInv
  <2>2. /\ Cardinality(1 .. Len(pending) \ FramePlaces) \in Nat
        /\ Cardinality(CommandSet) \in Nat
    <3>1. Len(pending) \in Nat BY <1>1, LenProperties DEF ExecutorInv, QueueTypes
    <3>2. IsFiniteSet(1 .. Len(pending)) BY <3>1, FS_Interval
    <3>3. IsFiniteSet(1 .. Len(pending) \ FramePlaces) BY <3>2, FS_Subset
    <3> QED BY <1>1, <3>3, FS_CardinalityType, FiniteSets DEF ExecutorInv
  <2>3. Bounded
    BY <1>1, <2>1, <2>2, ExecutorAssumption DEF ExecutorInv, Room, Bounded, ExecutorAssumption
  <2> QED BY <1>1, <2>3 DEF ExecutorInv, QueueTypes, ControlTypes, TypeOK
<1> QED BY <1>1, ExecutorInductive, PTL

(* Every accepted frame and command is in exactly one place: none is lost, executed or     *)
(* receipted twice, however the queue is replaced into, yielded to and stopped.            *)
THEOREM OnceCorrect == Spec => []EveryTaskOnce
<1>1. ASSUME ExecutorInv, NEW s \in 1 .. accepted PROVE InOnePlaceOnly(s)
  <2> DEFINE places == {p \in 1 .. 5 :
            CASE p = 1 -> Contains(pending, s) [] p = 2 -> current = s
              [] p = 3 -> Contains(completedFrames, s) [] p = 4 -> Contains(completedCommands, s)
              [] p = 5 -> s \in taken}
  <2>1. Located(s) BY <1>1 DEF ExecutorInv, Places
  <2>2. /\ 1 \in places <=> Contains(pending, s)
        /\ 2 \in places <=> current = s
        /\ 3 \in places <=> Contains(completedFrames, s)
        /\ 4 \in places <=> Contains(completedCommands, s)
        /\ 5 \in places <=> s \in taken
    OBVIOUS
  <2>3. \A p \in places : p = 1 \/ p = 2 \/ p = 3 \/ p = 4 \/ p = 5 OBVIOUS
  <2> HIDE DEF places
  <2>4. \E p \in 1 .. 5 : places = {p} BY <2>1, <2>2, <2>3 DEF Located
  <2>5. Cardinality(places) = 1 BY <2>4, FS_Singleton
  <2> QED BY <2>5 DEF InOnePlaceOnly, places
<1>2. ASSUME ExecutorInv PROVE EveryTaskOnce
  BY <1>1, <1>2 DEF ExecutorInv, Places, OfAKind, EveryTaskOnce
<1> QED BY <1>2, ExecutorInductive, PTL

(* Frames and commands begin in the order of submission, but for resumable commands. *)
THEOREM OrderCorrect == Spec => []SubmissionOrder
<1>1. ExecutorInv => SubmissionOrder BY DEF ExecutorInv, InOrder
<1> QED BY <1>1, ExecutorInductive, PTL

(* The status of a command is final before its receipt can be taken. *)
THEOREM StatusCorrect == Spec => []StatusPrecedesReceipt
<1>1. ASSUME ExecutorInv PROVE StatusPrecedesReceipt
  <2> DEFINE s == commandStatus.sequence
  <2>1. CASE commandStatus.active
    <3>1. s \in 1 .. accepted /\ (Contains(pending, s) \/ current = s)
      BY <1>1, <2>1, ExecutorAssumption
      DEF ExecutorInv, Status, ControlTypes, QueueTypes, ExecutorAssumption
    <3>2. Located(s) BY <1>1, <3>1 DEF ExecutorInv, Places
    <3> QED BY <3>1, <3>2 DEF Located, StatusPrecedesReceipt, Receipted
  <2>2. CASE ~commandStatus.active BY <2>2 DEF StatusPrecedesReceipt
  <2> QED BY <2>1, <2>2
<1> QED BY <1>1, ExecutorInductive, PTL

(* When stop() returns, every accepted task has been executed or dropped and has its receipt. *)
THEOREM StopCorrect == Spec => []StopDrains
<1>1. ASSUME ExecutorInv, clientPc[Owner] = "stopped"
      PROVE  workerPc = "exited" /\ \A s \in 1 .. accepted : Receipted(s)
  <2>1. workerPc = "exited" /\ pending = <<>> /\ current = 0
    BY <1>1 DEF ExecutorInv, Stops, Hands
  <2>2. \A s : ~Contains(pending, s) BY <2>1 DEF Contains
  <2> QED BY <1>1, <2>1, <2>2 DEF ExecutorInv, Places, Located, Receipted
<1>2. ExecutorInv => StopDrains BY <1>1 DEF StopDrains
<1> QED BY <1>2, ExecutorInductive, PTL

(* Everything the executor promises its users, together. *)
THEOREM SoundCorrect == Spec => []ExecutorIsSound
BY OnceCorrect, OrderCorrect, StatusCorrect, StopCorrect, PTL DEF ExecutorIsSound
(***************************************************************************)
(* The service is a behaviour of the executor.                             *)
(***************************************************************************)
(* What only changes the scene, or waits in the host, is no step of the executor. *)
LEMMA ChangesStutter == ASSUME Changes PROVE UNCHANGED vars
BY DEF Changes, Change, ReplaceTexture, ReplaceMaterial, Resize

LEMMA FlushIsAStep == ASSUME FlushBegin(Owner) \/ FlushCheck(Owner) PROVE Next
BY ExecutorAssumption DEF ExecutorAssumption, Next

(* Each call of the service makes one call of the executor at a time, or none. *)
LEMMA HostIsAStep == ASSUME Host PROVE [Next]_vars
<1>1. CASE RenderBegin \/ CaptureBegin \/ EndBegin \/ ShutdownBegin
  BY <1>1 DEF RenderBegin, CaptureBegin, EndBegin, ShutdownBegin
<1>2. CASE RequestEnvironment
  BY <1>2 DEF RequestEnvironment, Next, Request, Kinds, FrameKinds
<1>3. CASE CollectCommand \/ CollectFrame
  BY <1>3 DEF CollectCommand, CollectFrame, Next, Request
<1>4. CASE CommandsDone \/ FramesDone \/ RenderGate \/ RenderFails \/ FinishAgain \/ EndDone
  BY <1>4 DEF CommandsDone, FramesDone, RenderGate, RenderFails, FinishAgain, EndDone
<1>5. CASE RenderSubmit \/ CaptureSubmit
  BY <1>5 DEF RenderSubmit, CaptureSubmit, Next, Request, FrameKinds
<1>6. CASE CaptureFails \/ CaptureDone
  BY <1>6 DEF CaptureFails, CaptureDone, CaptureAnswers
<1>7. CASE Flush \/ ShutdownFlush
  BY <1>7, FlushIsAStep DEF Flush, ShutdownFlush
<1>8. CASE ShutdownSubmit
  BY <1>8 DEF ShutdownSubmit, Next, Request, Kinds, FrameKinds
<1>9. CASE ShutdownTake \/ ShutdownStop
  BY <1>9 DEF ShutdownTake, ShutdownStop, Next, Request
<1>10. CASE ShutdownDone BY <1>10 DEF ShutdownDone
<1> QED
  BY <1>1, <1>2, <1>3, <1>4, <1>5, <1>6, <1>7, <1>8, <1>9, <1>10 DEF Host, HostStep

LEMMA ThreadIsAStep ==
    ASSUME RunFrame \/ RunEnvironment \/ RunRelease \/ ExecutorStep \/ Directly
    PROVE  Next
<1>1. CASE RunFrame BY <1>1 DEF RunFrame, Next, Worker
<1>2. CASE RunEnvironment \/ RunRelease
  BY <1>2 DEF RunEnvironment, RunRelease, Next, Worker, EndCommand
<1>3. CASE ExecutorStep BY <1>3, FlushIsAStep DEF ExecutorStep, Next, Worker
<1>4. CASE Directly BY <1>4 DEF Directly
<1> QED BY <1>1, <1>2, <1>3, <1>4

(* The service is a user of the executor as RenderExecutor specifies it: every step of its
   calls, of its frames and of its shutdown is a step of the executor or leaves it alone. *)
THEOREM ServiceImplements == ServiceSpec => Spec
<1>1. ServiceInit => Init BY DEF ServiceInit
<1>2. [ServiceNext]_serviceVars => [Next]_vars
  <2>1. CASE UNCHANGED serviceVars BY <2>1 DEF serviceVars
  <2>2. CASE Changes BY <2>2, ChangesStutter
  <2>3. CASE Host BY <2>3, HostIsAStep
  <2>4. CASE RunFrame \/ RunEnvironment \/ RunRelease \/ ExecutorStep \/ Directly
    BY <2>4, ThreadIsAStep
  <2>5. CASE Closed BY <2>5 DEF Closed, serviceVars
  <2>6. CASE \E t \in Textures : UploadEnds(t) BY <2>6 DEF UploadEnds
  <2> QED BY <2>1, <2>2, <2>3, <2>4, <2>5, <2>6 DEF ServiceNext
<1> QED BY <1>1, <1>2, PTL DEF ServiceSpec, Spec

(* In the service each frame and command is done once, in order, with its receipt, and the
   shutdown leaves none behind. *)
THEOREM ServiceSound == ServiceSpec => []ExecutorIsSound
BY ServiceImplements, SoundCorrect, PTL

-----------------------------------------------------------------------------
(* A material holds the mirror whose view it binds. *)
Held == material.held.view = material.view

LEMMA PrepareKeepsHeld ==
    ASSUME Held, NEW p, NEW faults, Prepare(p, faults) PROVE Held'
<1>1. CASE p.scene = Hidden
  BY <1>1 DEF Prepare, Held, NoMaterial, NoMirror
<1>2. CASE p.scene # Hidden
  <2>1. PICK r \in Refreshes(p) : \E b \in Rebuilds(p, r.mirror) : material' = b.material
    BY <1>2 DEF Prepare
  <2>2. PICK b \in Rebuilds(p, r.mirror) : material' = b.material BY <2>1
  <2>3. b.material.held.view = b.material.view
    BY <2>2 DEF Rebuilds, Hold, Held
  <2> QED BY <2>2, <2>3 DEF Held
<1> QED BY <1>1, <1>2

(* What the material binds is always alive, whatever was released, replaced or failed. *)
THEOREM ServiceDrawn == ServiceSpec => []DrawnIsAlive
<1>1. ServiceInit => Held BY DEF ServiceInit, Held, NoMaterial, NoMirror
<1>2. Held /\ [ServiceNext]_serviceVars => Held'
  <2> SUFFICES ASSUME Held, [ServiceNext]_serviceVars PROVE Held' OBVIOUS
  <2>1. CASE UNCHANGED material BY <2>1 DEF Held
  <2>2. CASE RunFrame
    <3>1. CASE ExecuteFrame(current) BY <3>1, PrepareKeepsHeld DEF ExecuteFrame
    <3>2. CASE RecreateFails(current) BY <3>2, <2>1 DEF RecreateFails
    <3> QED BY <2>2, <3>1, <3>2 DEF RunFrame
  <2>3. CASE RunRelease BY <2>3 DEF RunRelease, Held, NoMaterial, NoMirror
  <2>4. CASE Changes
    BY <2>4, <2>1 DEF Changes, Change, ReplaceTexture, ReplaceMaterial, Resize, gpu
  <2>5. CASE Host
    <3>1. HostStep => UNCHANGED material
      BY DEF HostStep, CollectCommand, CommandsDone, CollectFrame, FramesDone, RenderGate,
             RenderFails, RenderSubmit, CaptureSubmit, CaptureFails, CaptureDone,
             CaptureAnswers, Flush, FinishAgain, EndDone, ShutdownSubmit, ShutdownFlush,
             ShutdownTake, ShutdownStop, ShutdownDone, Idling, gpu
    <3> QED BY <2>5, <2>1, <3>1 DEF Host, RenderBegin, CaptureBegin, EndBegin, ShutdownBegin,
                                    RequestEnvironment, Idling, gpu
  <2>6. CASE ExecutorStep \/ Directly \/ Closed \/ RunEnvironment
    BY <2>6, <2>1 DEF ExecutorStep, Directly, Closed, RunEnvironment, serviceVars, service, gpu
  <2>7. CASE \E t \in Textures : UploadEnds(t) BY <2>7, <2>1 DEF UploadEnds
  <2>8. CASE UNCHANGED serviceVars BY <2>8, <2>1 DEF serviceVars, service, gpu
  <2> QED BY <2>2, <2>3, <2>4, <2>5, <2>6, <2>7, <2>8 DEF ServiceNext
<1>3. Held => DrawnIsAlive BY DEF Held, DrawnIsAlive
<1> QED BY <1>1, <1>2, <1>3, PTL DEF ServiceSpec

-----------------------------------------------------------------------------
(***************************************************************************)
(* The answers of the host's calls.                                         *)
(***************************************************************************)
Outcomes == {"none", "ok", "late", "failed", "internal"}
CallOps == {"none", "render", "capture", "end", "shutdown"}
LastPlaces == {"flushRelease", "take", "stop", "stopping"}
CallPlaces == {"returned", "flush", "commands", "frames", "collected"} \cup LastPlaces
Calling ==
    [op : CallOps, at : CallPlaces, turn : {0, 1, 2}, status : Outcomes, found : Outcomes,
     frame : 0 .. MaxSequence, own : Outcomes, saw : BOOLEAN]

OutcomeType == outcome \in [Tasks -> Outcomes]

(* A failure that was seen is remembered: where the collection is only just over, in the
   status of the collection, and later in what finish_frames() or shutdown() has found. *)
SawKept ==
    /\ call.saw => \/ call.at = "collected" /\ call.status = "failed"
                   \/ call.found # "ok"
                   \/ call.at = "returned" /\ call.status # "ok"
    /\ call.found # "ok" => \/ call.op = "end"
                            \/ call.op = "capture" /\ call.turn = 2
                            \/ call.op = "shutdown" /\ call.at \in LastPlaces
    /\ call.at = "returned" => call.found = "ok"

(* Who calls, and when. *)
CallsInOrder ==
    /\ call.op # "none" => user = "service"
    /\ call.op = "shutdown" => phase # "running"
    /\ call.at \in LastPlaces => call.op = "shutdown"

(* What the other actors leave alone. *)
LEMMA Bystanders ==
    ASSUME ServiceNext, ~Host PROVE UNCHANGED <<user, phase, call, required>>
<1>1. CASE Changes
  BY <1>1 DEF Changes, Change, ReplaceTexture, ReplaceMaterial, Resize, inbox
<1>2. CASE ExecutorStep \/ Directly \/ Closed
  BY <1>2 DEF ExecutorStep, Directly, Closed, serviceVars, service, inbox
<1>3. CASE RunFrame \/ RunEnvironment \/ RunRelease
  BY <1>3 DEF RunFrame, RunEnvironment, RunRelease, inbox
<1>4. CASE \E t \in Textures : UploadEnds(t) BY <1>4 DEF UploadEnds, inbox
<1> QED BY <1>1, <1>2, <1>3, <1>4 DEF ServiceNext

LEMMA TaskOf ==
    ASSUME QueueTypes
    PROVE  /\ current # 0 => current \in Tasks
           /\ completedFrames # <<>> => Head(completedFrames) \in Tasks
           /\ completedCommands # <<>> => Head(completedCommands) \in Tasks
           /\ accepted \in Nat /\ accepted <= MaxSequence
<1>1. accepted \in Nat /\ accepted <= MaxSequence /\ 1 .. accepted \subseteq Tasks
  BY ExecutorAssumption DEF QueueTypes, Tasks, ExecutorAssumption
<1>2. current # 0 => current \in Tasks BY <1>1 DEF QueueTypes
<1>3. completedFrames # <<>> => Head(completedFrames) \in Tasks
  BY <1>1, TailContains DEF QueueTypes
<1>4. completedCommands # <<>> => Head(completedCommands) \in Tasks
  BY <1>1, TailContains DEF QueueTypes
<1> QED BY <1>1, <1>2, <1>3, <1>4

LEMMA OutcomeKept ==
    ASSUME QueueTypes, OutcomeType, [ServiceNext]_serviceVars PROVE OutcomeType'
<1>1. CASE UNCHANGED outcome BY <1>1 DEF OutcomeType
<1>2. ASSUME NEW s \in Tasks, NEW how \in Outcomes, outcome' = [outcome EXCEPT ![s] = how]
      PROVE  OutcomeType'
  BY <1>2 DEF OutcomeType
<1>3. CASE RunFrame
  <2>1. current \in Tasks \/ current = 0 BY TaskOf
  <2>2. PICK status \in Outcomes : outcome' = [outcome EXCEPT ![current] = status]
    <3>1. CASE RecreateFails(current)
      <4>1. PICK status \in {"ok", "failed"} : outcome' = [outcome EXCEPT ![current] = status]
        BY <3>1 DEF RecreateFails, Ran
      <4>2. status \in Outcomes BY DEF Outcomes
      <4> QED BY <4>1, <4>2
    <3>2. CASE ExecuteFrame(current)
      <4>1. PICK end \in Ends(packet[current], IF packet[current].recreate
                                               THEN packet[current].size ELSE swapchain) :
              outcome' = [outcome EXCEPT ![current] = end.status]
        BY <3>2 DEF ExecuteFrame, Ran
      <4>2. end.status \in Outcomes BY <4>1 DEF Ends, Outcomes
      <4> QED BY <4>1, <4>2
    <3> QED BY <1>3, <3>1, <3>2 DEF RunFrame
  <2>3. CASE current \in Tasks BY <1>2, <2>2, <2>3
  <2>4. CASE current = 0
    <3>1. 0 \notin Tasks BY DEF Tasks
    <3> QED BY <2>2, <2>4, <3>1 DEF OutcomeType
  <2> QED BY <2>1, <2>3, <2>4
<1>4. CASE RunEnvironment \/ RunRelease
  <2>1. current \in Tasks \/ current = 0 BY TaskOf
  <2>2. PICK status \in {"ok", "failed"} : Ran(current, status, FALSE)
    BY <1>4 DEF RunEnvironment, RunRelease
  <2>3. CASE current \in Tasks BY <1>2, <2>2, <2>3 DEF Ran, Outcomes
  <2>4. CASE current = 0
    <3>1. 0 \notin Tasks BY DEF Tasks
    <3> QED BY <2>2, <2>4, <3>1 DEF Ran, OutcomeType
  <2> QED BY <2>1, <2>3, <2>4
<1>5. CASE CollectCommand
  BY <1>2, <1>5, TaskOf DEF CollectCommand, TryTakeCommand, Receive, Outcomes
<1>6. CASE CollectFrame
  BY <1>2, <1>6, TaskOf DEF CollectFrame, TryTakeFrame, Receive, Outcomes
<1>7. CASE Host /\ ~CollectCommand /\ ~CollectFrame
  <2>1. HostStep => UNCHANGED outcome
    BY <1>7 DEF HostStep, CommandsDone, FramesDone, RenderGate, RenderFails, RenderSubmit,
           CaptureSubmit, CaptureFails, CaptureDone, CaptureAnswers, Flush, FinishAgain, EndDone,
           ShutdownSubmit, ShutdownFlush, ShutdownTake, ShutdownStop, ShutdownDone, Idling, work,
           Submitted
  <2> QED BY <1>1, <1>7, <2>1 DEF Host, RenderBegin, CaptureBegin, EndBegin, ShutdownBegin,
                                  RequestEnvironment, Idling, work
<1>8. CASE Changes \/ ExecutorStep \/ Directly \/ Closed \/ UNCHANGED serviceVars
           \/ \E t \in Textures : UploadEnds(t)
  BY <1>1, <1>8 DEF Changes, Change, ReplaceTexture, ReplaceMaterial, Resize, ExecutorStep,
     Directly, Closed, UploadEnds, serviceVars, service, work
<1> QED BY <1>3, <1>4, <1>5, <1>6, <1>7, <1>8 DEF ServiceNext

CallType == call \in Calling

(* The completions kept for captures are of frames whose receipts were taken, each once. *)
Completion == [frame : Tasks, status : Outcomes]
RequiredOK ==
    /\ required \in Seq(Completion)
    /\ \A i \in 1 .. Len(required) : required[i].frame \in taken
    /\ \A i, j \in 1 .. Len(required) : required[i].frame = required[j].frame => i = j

LEMMA OwnStatusType == ASSUME RequiredOK PROVE OwnStatus \in Outcomes
<1> DEFINE mine == {i \in 1 .. Len(required) : required[i].frame = call.frame}
<1>1. CASE mine = {} BY <1>1 DEF OwnStatus, Outcomes
<1>2. CASE mine # {}
  <2> DEFINE k == CHOOSE i \in mine : TRUE
  <2>1. k \in mine BY <1>2
  <2>2. OwnStatus = required[k].status BY <1>2 DEF OwnStatus
  <2> HIDE DEF k
  <2>3. required[k] \in Completion BY <2>1, ElementOfSeq DEF RequiredOK
  <2> QED BY <2>2, <2>3 DEF Completion
<1> QED BY <1>1, <1>2

(* A capture that finds its own completion in front is answered with it. *)
LEMMA OwnIsFirst == ASSUME RequiredOK, OwnCompletion PROVE OwnStatus = "ok"
<1> DEFINE mine == {i \in 1 .. Len(required) : required[i].frame = call.frame}
<1>1. /\ Len(required) \in Nat \ {0} /\ Head(required) = required[1]
      /\ required[1].frame = call.frame /\ required[1].status = "ok"
  BY TailContains DEF RequiredOK, OwnCompletion
<1>2. mine = {1} BY <1>1 DEF RequiredOK
<1> DEFINE k == CHOOSE i \in mine : TRUE
<1>3. k = 1 BY <1>2
<1>4. OwnStatus = required[k].status BY <1>2 DEF OwnStatus
<1> QED BY <1>1, <1>3, <1>4

(* How a call goes on: its record keeps its type, and what it has seen is kept. *)
LEMMA SawStep ==
    ASSUME QueueTypes, OutcomeType, CallType, SawKept, RequiredOK, Host
    PROVE  CallType' /\ SawKept'
<1> USE DEF CallType, Calling, SawKept
<1>1. call.status \in Outcomes /\ call.found \in Outcomes /\ call.op \in CallOps BY DEF CallType
<1>2. accepted < MaxSequence => accepted + 1 \in 0 .. MaxSequence
  BY TaskOf, ExecutorAssumption DEF ExecutorAssumption
<1>3. 0 \in 0 .. MaxSequence BY ExecutorAssumption DEF ExecutorAssumption
<1>4. ASSUME NEW status \in Outcomes, Answers(status), call.saw => status # "ok"
      PROVE  CallType' /\ SawKept'
  BY <1>1, <1>3, <1>4 DEF Answers, NoCall, CallPlaces, Outcomes
<1>5. ASSUME NEW op \in CallOps, NEW at \in {"flush", "commands"}, Enters(op, at)
      PROVE  CallType' /\ SawKept'
  BY <1>3, <1>5 DEF Enters, NoCall, CallPlaces, Outcomes
<1>6. ASSUME NEW at \in CallPlaces, Goes(at), call.at # "collected", call.at # "returned", at # "returned",
             call.at \in LastPlaces => at \in LastPlaces
      PROVE  CallType' /\ SawKept'
  BY <1>6 DEF Goes
<1>7. ASSUME NEW s \in Tasks, Receive(s), call.at \in {"commands", "frames"}
      PROVE  CallType' /\ SawKept'
  <2>1. outcome[s] \in Outcomes BY DEF OutcomeType
  <2>2. CASE UNCHANGED call BY <2>2
  <2>3. CASE call' = [call EXCEPT !.at = "collected", !.status = outcome[s],
                                  !.saw = call.saw \/ outcome[s] = "failed"]
    <3>1. (call.saw \/ outcome[s] = "failed") \in BOOLEAN OBVIOUS
    <3>2. CallType' BY <2>1, <2>3, <3>1 DEF CallPlaces
    <3>3. SawKept' BY <1>7, <2>3 DEF LastPlaces
    <3> QED BY <3>2, <3>3
  <2> QED BY <1>7, <2>2, <2>3 DEF Receive
<1>8. CASE RenderBegin \/ CaptureBegin \/ EndBegin \/ ShutdownBegin
  BY <1>5, <1>8 DEF RenderBegin, CaptureBegin, EndBegin, ShutdownBegin, CallOps
<1>9. CASE RequestEnvironment BY <1>9 DEF RequestEnvironment
<1>10. CASE CollectCommand
  BY <1>7, <1>10, TaskOf DEF CollectCommand, TryTakeCommand
<1>11. CASE CollectFrame
  BY <1>7, <1>11, TaskOf DEF CollectFrame, TryTakeFrame
<1>12. CASE CommandsDone BY <1>6, <1>12 DEF CommandsDone, CallPlaces, LastPlaces
<1>13. CASE FramesDone
  <2>1. call.at = "frames" /\ call' = [call EXCEPT !.at = "collected", !.status = "ok"]
    BY <1>13 DEF FramesDone
  <2> QED BY <2>1 DEF CallPlaces, LastPlaces, Outcomes
<1>14. CASE RenderGate
  <2>1. call.at = "collected" /\ call.op = "render" /\ call.status = "ok" BY <1>14 DEF RenderGate, After
  <2>2. ~call.saw BY <2>1
  <2>3. CASE Answers("ok") BY <1>4, <2>2, <2>3 DEF Outcomes
  <2>4. CASE call' = [call EXCEPT !.at = "commands", !.turn = 2]
    BY <2>1, <2>2, <2>4 DEF CallPlaces
  <2> QED BY <1>14, <2>3, <2>4 DEF RenderGate
<1>15. CASE RenderFails BY <1>1, <1>4, <1>15 DEF RenderFails
<1>16. CASE RenderSubmit
  <2>1. call.at = "collected" /\ call.op = "render" /\ call.status = "ok" /\ Answers("ok")
    BY <1>16 DEF RenderSubmit, After
  <2> QED BY <1>4, <2>1 DEF Outcomes
<1>17. CASE CaptureSubmit
  <2>1. /\ call.at = "collected" /\ call.op = "capture" /\ call.turn = 1 /\ call.status = "ok"
        /\ call' = [call EXCEPT !.at = "flush", !.turn = 2, !.frame = accepted + 1]
        /\ accepted < MaxSequence
    BY <1>17 DEF CaptureSubmit, After, SubmitFrame, Accept
  <2>2. ~call.saw BY <2>1
  <2> QED BY <1>2, <2>1, <2>2 DEF CallPlaces
<1>18. CASE CaptureFails \/ CaptureDone
  <2>1. PICK result \in Outcomes :
          (\E rest : CaptureAnswers(result, rest)) /\ (call.saw => result # "ok")
    <3>1. CASE After("capture", 1) /\ call.status # "ok" /\ CaptureAnswers(call.status, required)
      BY <1>1, <3>1
    <3>2. CASE After("capture", 2) /\ call.status = "ok" /\ call.found # "ok"
              /\ CaptureAnswers(call.found, required)
      BY <1>1, <3>2
    <3>3. CASE CaptureDone
      <4>1. ~call.saw BY <3>3 DEF CaptureDone, After
      <4>2. PICK result \in Outcomes : \E rest : CaptureAnswers(result, rest)
        BY <3>3 DEF CaptureDone, Outcomes
      <4> QED BY <4>1, <4>2
    <3> QED BY <1>18, <3>1, <3>2, <3>3 DEF CaptureFails
  <2>2. call' = [NoCall EXCEPT !.op = "capture", !.status = result, !.own = OwnStatus,
                               !.saw = call.saw]
    BY <2>1 DEF CaptureAnswers
  <2>3. OwnStatus \in Outcomes BY OwnStatusType
  <2> QED BY <1>3, <2>1, <2>2, <2>3 DEF NoCall, CallPlaces, CallOps, Outcomes
<1>19. CASE Flush
  BY <1>6, <1>19 DEF Flush, CallPlaces, LastPlaces
<1>20. CASE FinishAgain
  <2>1. /\ call.at = "collected" /\ call.status # "ok"
        /\ call.op = "end" \/ (call.op = "capture" /\ call.turn = 2)
        /\ call' = [call EXCEPT !.at = "commands", !.found = KeepFailure]
    BY <1>20 DEF FinishAgain, Finishing, After
  <2>2. KeepFailure \in Outcomes BY <1>1 DEF KeepFailure
  <2>3. call.saw => KeepFailure # "ok" BY <2>1 DEF KeepFailure
  <2> QED BY <2>1, <2>2, <2>3 DEF CallPlaces
<1>21. CASE EndDone
  <2>1. call.at = "collected" /\ call.status = "ok" /\ Answers(call.found) BY <1>21 DEF EndDone, After
  <2> QED BY <1>1, <1>4, <2>1
<1>22. CASE ShutdownSubmit
  <2>1. /\ call.at = "collected" /\ call.op = "shutdown"
        /\ call' = [call EXCEPT !.at = "flushRelease", !.found = call.status, !.frame = accepted + 1]
        /\ accepted < MaxSequence
    BY <1>22 DEF ShutdownSubmit, After, SubmitCommand, Accept
  <2>2. call.found = "ok" BY <2>1 DEF LastPlaces
  <2>3. CallType' BY <1>1, <1>2, <2>1 DEF CallPlaces, LastPlaces
  <2>4. SawKept' BY <2>1, <2>2 DEF LastPlaces
  <2> QED BY <2>3, <2>4
<1>23. CASE ShutdownFlush
  BY <1>6, <1>23 DEF ShutdownFlush, CallPlaces, LastPlaces
<1>24. CASE ShutdownTake
  <2>1. /\ call.at = "take" /\ Head(completedCommands) \in Tasks
        /\ call' = [call EXCEPT !.at = "stop",
                      !.status = IF Head(completedCommands) = call.frame
                                 THEN outcome[Head(completedCommands)] ELSE "internal"]
    BY <1>24, TaskOf DEF ShutdownTake, TryTakeCommand
  <2>2. outcome[Head(completedCommands)] \in Outcomes BY <2>1 DEF OutcomeType
  <2> QED BY <2>1, <2>2 DEF CallPlaces, LastPlaces, Outcomes
<1>25. CASE ShutdownStop
  BY <1>6, <1>25 DEF ShutdownStop, CallPlaces, LastPlaces
<1>26. CASE ShutdownDone
  <2>1. call.at = "stopping" /\ Answers(IF call.found # "ok" THEN call.found ELSE call.status)
    BY <1>26 DEF ShutdownDone
  <2>2. call.saw => call.found # "ok" BY <2>1
  <2> QED BY <1>1, <1>4, <2>1, <2>2
<1> QED
  BY <1>8, <1>9, <1>10, <1>11, <1>12, <1>13, <1>14, <1>15, <1>16, <1>17, <1>18, <1>19, <1>20,
     <1>21, <1>22, <1>23, <1>24, <1>25, <1>26 DEF Host, HostStep

(* Receipts that were taken stay taken. *)
LEMMA TakenGrows == ASSUME [ServiceNext]_serviceVars PROVE taken \subseteq taken'
<1>1. [Next]_vars => taken \subseteq taken'
  BY DEF Next, Request, SubmitFrame, ReplaceFrame, SubmitCommand, Accept, TryTakeFrame,
         TryTakeCommand, Worker, TakeWork, Sleep, SpuriousWake, Exit, FinishFrame, Finished, Report,
         EndCommand, Yield, CompleteStatus, Unpause, PublishCommand, StopBegin, MarkStopping, Join,
         Stopped, FlushBegin, FlushCheck, vars, receipts
<1>2. [Next]_vars
  <2>1. CASE UNCHANGED serviceVars BY <2>1 DEF serviceVars
  <2>2. CASE Changes BY <2>2, ChangesStutter
  <2>3. CASE Host BY <2>3, HostIsAStep
  <2>4. CASE RunFrame \/ RunEnvironment \/ RunRelease \/ ExecutorStep \/ Directly
    BY <2>4, ThreadIsAStep
  <2>5. CASE Closed BY <2>5 DEF Closed, serviceVars
  <2>6. CASE \E t \in Textures : UploadEnds(t) BY <2>6 DEF UploadEnds
  <2> QED BY <2>1, <2>2, <2>3, <2>4, <2>5, <2>6 DEF ServiceNext
<1> QED BY <1>1, <1>2

LEMMA RequiredKept ==
    ASSUME QueueTypes, Places, OutcomeType, RequiredOK, [ServiceNext]_serviceVars
    PROVE  RequiredOK'
<1>1. taken \subseteq taken' BY TakenGrows
<1>2. CASE UNCHANGED required BY <1>1, <1>2 DEF RequiredOK
<1>3. CASE required # <<>> /\ required' = Tail(required)
  <2>1. /\ Len(required) \in Nat /\ required' \in Seq(Completion)
        /\ Len(required') = Len(required) - 1
        /\ \A i \in 1 .. Len(required) - 1 : required'[i] = required[i + 1]
    BY <1>3, TailContains DEF RequiredOK
  <2>2. \A i \in 1 .. Len(required') : i + 1 \in 1 .. Len(required) /\ required'[i] = required[i + 1]
    BY <2>1
  <2>3. \A i \in 1 .. Len(required') : required'[i].frame \in taken'
    BY <1>1, <2>2 DEF RequiredOK
  <2>4. ASSUME NEW i \in 1 .. Len(required'), NEW j \in 1 .. Len(required'),
               required'[i].frame = required'[j].frame
        PROVE  i = j
    <3>1. i + 1 = j + 1 BY <2>2, <2>4 DEF RequiredOK
    <3> QED BY <2>1, <3>1
  <2> QED BY <2>1, <2>3, <2>4 DEF RequiredOK
<1>4. CASE required' = <<>> BY <1>4 DEF RequiredOK
<1>5. CASE CollectFrame
  <2> DEFINE s == Head(completedFrames)
             c == [frame |-> s, status |-> outcome[s]]
  <2>1. /\ completedFrames # <<>> /\ s \in Tasks /\ s \in taken'
        /\ required' = required \/ required' = Append(required, c)
    BY <1>5, TaskOf DEF CollectFrame, TryTakeFrame
  <2>2. CASE required' = required BY <1>2, <2>2
  <2>3. CASE required' = Append(required, c)
    <3>1. outcome[s] \in Outcomes BY <2>1 DEF OutcomeType
    <3>2. c \in Completion /\ c.frame = s BY <2>1, <3>1 DEF Completion
    <3>3. s \notin taken
      <4>1. Contains(completedFrames, s) /\ s \in 1 .. accepted BY <2>1, TailContains DEF QueueTypes
      <4> QED BY <4>1 DEF Places, Located
    <3> HIDE DEF c, s
    <3>4. /\ Len(required) \in Nat /\ required' \in Seq(Completion)
          /\ Len(required') = Len(required) + 1
          /\ \A i \in 1 .. Len(required) : required'[i] = required[i]
          /\ required'[Len(required) + 1] = c
      BY <2>3, <3>2, AppendContains DEF RequiredOK
    <3>5. \A i \in 1 .. Len(required') : i \in 1 .. Len(required) \/ i = Len(required) + 1 BY <3>4
    <3>6. \A i \in 1 .. Len(required') : required'[i].frame \in taken'
      BY <1>1, <2>1, <3>2, <3>4, <3>5 DEF RequiredOK
    <3>7. \A i, j \in 1 .. Len(required') : required'[i].frame = required'[j].frame => i = j
      BY <3>2, <3>3, <3>4, <3>5 DEF RequiredOK
    <3> QED BY <3>4, <3>6, <3>7 DEF RequiredOK
  <2> QED BY <2>1, <2>2, <2>3
<1>6. CASE CaptureFails \/ CaptureDone \/ ShutdownDone
  BY <1>2, <1>3, <1>4, <1>6 DEF CaptureFails, CaptureDone, CaptureAnswers, ShutdownDone
<1>7. CASE Host /\ ~CollectFrame /\ ~CaptureFails /\ ~CaptureDone /\ ~ShutdownDone
  <2>1. HostStep => UNCHANGED required
    BY <1>7 DEF HostStep, CollectCommand, CommandsDone, FramesDone, RenderGate, RenderFails,
           RenderSubmit, CaptureSubmit, Flush, FinishAgain, EndDone,
           ShutdownSubmit, ShutdownFlush, ShutdownTake, ShutdownStop, Idling, inbox
  <2> QED BY <1>2, <1>7, <2>1 DEF Host, RenderBegin, CaptureBegin, EndBegin, ShutdownBegin,
                                  RequestEnvironment, Idling, inbox
<1>8. CASE UNCHANGED serviceVars BY <1>2, <1>8 DEF serviceVars, service, inbox
<1>9. CASE ServiceNext /\ ~Host BY <1>2, <1>9, Bystanders
<1> QED BY <1>5, <1>6, <1>7, <1>8, <1>9 DEF ServiceNext

LEMMA InOrderStep ==
    ASSUME CallType, CallsInOrder, Host PROVE CallsInOrder'
<1> USE DEF CallType, Calling, CallsInOrder, LastPlaces
<1>1. CASE RenderBegin \/ CaptureBegin \/ EndBegin \/ ShutdownBegin
  BY <1>1 DEF RenderBegin, CaptureBegin, EndBegin, ShutdownBegin, AtLoop, Enters, NoCall, Idling
<1>2. CASE RequestEnvironment BY <1>2 DEF RequestEnvironment
<1>3. CASE CollectCommand \/ CollectFrame
  BY <1>3 DEF CollectCommand, CollectFrame, Receive
<1>4. CASE CommandsDone \/ FramesDone \/ FinishAgain
  BY <1>4 DEF CommandsDone, FramesDone, FinishAgain, Goes, Idling
<1>5. CASE RenderGate \/ RenderSubmit \/ EndDone
  BY <1>5 DEF RenderGate, RenderSubmit, EndDone, After, Answers, NoCall, Idling
<1>6. CASE RenderFails BY <1>6 DEF RenderFails, Answers, NoCall
<1>7. CASE CaptureSubmit BY <1>7 DEF CaptureSubmit, After
<1>8. CASE CaptureFails \/ CaptureDone
  BY <1>8 DEF CaptureFails, CaptureDone, CaptureAnswers, After, NoCall
<1>9. CASE Flush \/ ShutdownFlush \/ ShutdownStop
  BY <1>9 DEF Flush, ShutdownFlush, ShutdownStop, Goes, Idling
<1>10. CASE ShutdownSubmit BY <1>10 DEF ShutdownSubmit, After
<1>11. CASE ShutdownTake BY <1>11 DEF ShutdownTake, Idling
<1>12. CASE ShutdownDone BY <1>12 DEF ShutdownDone, Answers, NoCall
<1> QED
  BY <1>1, <1>2, <1>3, <1>4, <1>5, <1>6, <1>7, <1>8, <1>9, <1>10, <1>11, <1>12 DEF Host, HostStep

(* A capture that answers `ok' was drawn. *)
CaptureIsOwn ==
    call.at = "returned" /\ call.op = "capture" /\ call.status = "ok" => call.own = "ok"

LEMMA CaptureStep ==
    ASSUME CallType, RequiredOK, CallsInOrder, CaptureIsOwn, Host PROVE CaptureIsOwn'
<1> USE DEF CallType, Calling, CaptureIsOwn
<1>1. CASE RenderBegin \/ CaptureBegin \/ EndBegin \/ ShutdownBegin
  BY <1>1 DEF RenderBegin, CaptureBegin, EndBegin, ShutdownBegin, Enters, NoCall
<1>2. CASE RequestEnvironment BY <1>2 DEF RequestEnvironment
<1>3. CASE CollectCommand \/ CollectFrame
  BY <1>3 DEF CollectCommand, CollectFrame, Receive
<1>4. CASE CommandsDone \/ FramesDone \/ FinishAgain
  BY <1>4 DEF CommandsDone, FramesDone, FinishAgain, Goes
<1>5. CASE RenderGate \/ RenderSubmit \/ EndDone
  BY <1>5 DEF RenderGate, RenderSubmit, EndDone, After, Answers, NoCall
<1>6. CASE RenderFails BY <1>6 DEF RenderFails, Answers, NoCall
<1>7. CASE CaptureSubmit BY <1>7 DEF CaptureSubmit, After
<1>8. CASE CaptureFails
  BY <1>8 DEF CaptureFails, CaptureAnswers, NoCall
<1>9. CASE CaptureDone
  <2>1. call'.status = (IF OwnCompletion THEN "ok" ELSE "internal") /\ call'.own = OwnStatus
    BY <1>9 DEF CaptureDone, CaptureAnswers, NoCall
  <2> QED BY <2>1, OwnIsFirst
<1>10. CASE Flush \/ ShutdownFlush \/ ShutdownStop
  BY <1>10 DEF Flush, ShutdownFlush, ShutdownStop, Goes
<1>11. CASE ShutdownSubmit BY <1>11 DEF ShutdownSubmit, After
<1>12. CASE ShutdownTake BY <1>12 DEF ShutdownTake
<1>13. CASE ShutdownDone
  <2>1. call.op = "shutdown" BY <1>13 DEF ShutdownDone, CallsInOrder, LastPlaces
  <2> QED BY <1>13, <2>1 DEF ShutdownDone, Answers, NoCall
<1> QED
  BY <1>1, <1>2, <1>3, <1>4, <1>5, <1>6, <1>7, <1>8, <1>9, <1>10, <1>11, <1>12, <1>13
  DEF Host, HostStep

-----------------------------------------------------------------------------
(* The shutdown: after each of its flushes the executor has nothing to do, and after its
   collection and its release every task it has accepted has had its receipt taken. *)
Silent == pending = <<>> /\ current = 0
AllTaken == 1 .. accepted \subseteq taken
ShutdownOK ==
    call.op = "shutdown" =>
        /\ call.at = "commands" /\ clientPc[Owner] = "ready" => Silent
        /\ call.at \in {"frames", "collected"} => clientPc[Owner] = "ready" /\ Silent
        /\ call.at = "frames" => completedCommands = <<>>
        /\ call.at = "collected" /\ call.status = "ok" => AllTaken
        /\ call.at \in {"flushRelease", "take"} /\ call.found = "ok" =>
               1 .. accepted \subseteq taken \cup {call.frame}
        /\ call.at \in {"stop", "stopping"} /\ call.found = "ok" => AllTaken
        /\ call.at = "returned" /\ call.status = "ok" => AllTaken

LEMMA QuietStep ==
    ASSUME QueueTypes, ControlTypes, Hands, user = "service", ServiceNext, ~Host
    PROVE  /\ accepted' = accepted
           /\ Silent => Silent' /\ completedCommands' = completedCommands
           /\ clientPc[Owner] = "ready" => clientPc'[Owner] = "ready"
           /\ clientPc'[Owner] = "ready" => clientPc[Owner] = "ready" \/ Silent'
<1> USE ExecutorAssumption DEF ExecutorAssumption, Silent
<1>1. CASE UNCHANGED vars BY <1>1 DEF vars
<1>2. CASE TakeWork BY <1>2 DEF TakeWork, receipts
<1>3. CASE Sleep \/ SpuriousWake \/ Exit \/ Report \/ CompleteStatus
  BY <1>3 DEF Sleep, SpuriousWake, Exit, Report, CompleteStatus, queues, receipts
<1>4. CASE PublishCommand \/ FinishFrame
  <2>1. /\ ~Silent /\ accepted' = accepted
        /\ clientPc'[Owner] = clientPc[Owner]
             \/ (clientPc'[Owner] # "ready" /\ clientPc[Owner] # "ready")
    BY <1>4 DEF PublishCommand, FinishFrame, Finished, ClientsHear, queues, Hands, ControlTypes
  <2> QED BY <2>1
<1>5. CASE FlushCheck(Owner)
  BY <1>5 DEF FlushCheck, queues, receipts, Idle, Hands, ControlTypes
<1>6. CASE MarkStopping \/ Join
  BY <1>6 DEF MarkStopping, Join, queues, receipts, ControlTypes
<1>7. CASE Changes \/ Closed \/ \E t \in Textures : UploadEnds(t)
  BY <1>1, <1>7, ChangesStutter DEF Closed, serviceVars, UploadEnds
<1>8. CASE ExecutorStep BY <1>2, <1>3, <1>4, <1>5, <1>6, <1>8 DEF ExecutorStep
<1>9. CASE RunFrame \/ RunEnvironment \/ RunRelease
  BY <1>3, <1>4, <1>9 DEF RunFrame, RunEnvironment, RunRelease
<1>10. ~Directly BY DEF Directly
<1> QED BY <1>7, <1>8, <1>9, <1>10 DEF ServiceNext

(* Nothing left in the executor: every receipt was taken. *)
LEMMA EmptyIsTaken ==
    ASSUME Places, Silent, completedFrames = <<>>, completedCommands = <<>>
    PROVE  AllTaken
<1>1. \A s : ~Contains(pending, s) /\ ~Contains(completedFrames, s) /\ ~Contains(completedCommands, s)
  BY DEF Silent, Contains
<1>2. \A s \in 1 .. accepted : s # current BY DEF Silent
<1> QED BY <1>1, <1>2 DEF Places, Located, AllTaken

LEMMA ShutdownStep ==
    ASSUME QueueTypes, ControlTypes, Places, Hands, CallType, CallsInOrder, SawKept, ShutdownOK,
           [ServiceNext]_serviceVars
    PROVE  ShutdownOK'
<1>1. taken \subseteq taken' BY TakenGrows
<1>2. CASE UNCHANGED serviceVars
  BY <1>2 DEF serviceVars, service, vars, ShutdownOK, Silent, AllTaken
<1>3. CASE ServiceNext /\ ~Host
  <2>1. UNCHANGED <<user, call>> BY <1>3, Bystanders
  <2> SUFFICES ASSUME call.op = "shutdown" PROVE ShutdownOK' BY <2>1 DEF ShutdownOK
  <2>2. user = "service" BY DEF CallsInOrder
  <2> QED BY <1>1, <1>3, <2>1, <2>2, QuietStep DEF ShutdownOK, AllTaken
<1>4. CASE Host
  <2> USE DEF CallType, Calling
  <2>1. CASE RenderBegin \/ CaptureBegin \/ EndBegin \/ ShutdownBegin
    BY <2>1 DEF RenderBegin, CaptureBegin, EndBegin, ShutdownBegin, Enters, NoCall, ShutdownOK
  <2>2. CASE RequestEnvironment
    BY <2>2 DEF RequestEnvironment, AtLoop, CallsInOrder, ShutdownOK
  <2>3. CASE CollectCommand
    <3>1. /\ call.at = "commands" /\ clientPc[Owner] = "ready" /\ completedCommands # <<>>
          /\ UNCHANGED <<pending, current, accepted, clientPc>>
          /\ call' = call \/ (call'.op = call.op /\ call'.at = "collected" /\ call'.status # "ok")
      BY <2>3 DEF CollectCommand, Ready, Receive, TryTakeCommand, queues
    <3> QED BY <1>1, <3>1 DEF ShutdownOK, Silent
  <2>4. CASE CollectFrame
    <3>1. /\ call.at = "frames"
          /\ UNCHANGED <<pending, current, accepted, clientPc, completedCommands>>
          /\ call' = call \/ (call'.op = call.op /\ call'.at = "collected" /\ call'.status # "ok")
      BY <2>4 DEF CollectFrame, Ready, Receive, TryTakeFrame, queues
    <3> QED BY <1>1, <3>1 DEF ShutdownOK, Silent
  <2>5. CASE CommandsDone
    <3>1. /\ call.at = "commands" /\ clientPc[Owner] = "ready" /\ completedCommands = <<>>
          /\ call'.op = call.op /\ call'.at = "frames"
          /\ UNCHANGED vars
      BY <2>5 DEF CommandsDone, Ready, Goes
    <3> QED BY <3>1 DEF ShutdownOK, Silent, vars
  <2>6. CASE FramesDone
    <3>1. /\ call.at = "frames" /\ completedFrames = <<>>
          /\ call'.op = call.op /\ call'.at = "collected"
          /\ UNCHANGED vars
      BY <2>6 DEF FramesDone
    <3>2. call.op = "shutdown" => Silent /\ completedCommands = <<>> BY <3>1 DEF ShutdownOK
    <3>3. call.op = "shutdown" => AllTaken BY <3>1, <3>2, EmptyIsTaken
    <3> QED BY <3>1, <3>3 DEF ShutdownOK, Silent, AllTaken, vars
  <2>7. CASE RenderGate \/ RenderSubmit \/ EndDone
    BY <2>7 DEF RenderGate, RenderSubmit, EndDone, After, Answers, NoCall, ShutdownOK
  <2>8. CASE RenderFails BY <2>8 DEF RenderFails, Answers, NoCall, ShutdownOK
  <2>9. CASE CaptureSubmit BY <2>9 DEF CaptureSubmit, After, ShutdownOK
  <2>10. CASE CaptureFails \/ CaptureDone
    BY <2>10 DEF CaptureFails, CaptureDone, CaptureAnswers, NoCall, ShutdownOK
  <2>11. CASE FinishAgain
    BY <2>11 DEF FinishAgain, Finishing, After, ShutdownOK
  <2>12. CASE Flush
    <3>1. call.at = "flush" /\ call'.op = call.op /\ call'.at = "commands" /\ clientPc'[Owner] = "flushing"
      BY <2>12, ExecutorAssumption DEF Flush, Goes, FlushBegin, ControlTypes, ExecutorAssumption
    <3> QED BY <3>1 DEF ShutdownOK
  <2>13. CASE ShutdownSubmit
    <3>1. /\ call.at = "collected" /\ call.op = "shutdown" /\ accepted' = accepted + 1
          /\ call' = [call EXCEPT !.at = "flushRelease", !.found = call.status, !.frame = accepted + 1]
      BY <2>13 DEF ShutdownSubmit, After, SubmitCommand, Accept
    <3>2. call'.at = "flushRelease" /\ call'.found = call.status /\ call'.frame = accepted'
      BY <3>1
    <3>3. \A s \in 1 .. accepted' : s \in 1 .. accepted \/ s = accepted' BY <3>1, Wider
    <3>4. call.status = "ok" => AllTaken BY <3>1 DEF ShutdownOK
    <3> QED BY <1>1, <3>2, <3>3, <3>4 DEF ShutdownOK, AllTaken
  <2>14. CASE ShutdownFlush
    <3>1. /\ call.at = "flushRelease" /\ call' = [call EXCEPT !.at = "take"] /\ accepted' = accepted
      BY <2>14 DEF ShutdownFlush, Goes, FlushBegin, queues
    <3> QED BY <1>1, <3>1 DEF ShutdownOK
  <2>15. CASE ShutdownTake
    <3> DEFINE s == Head(completedCommands)
    <3>1. /\ call.at = "take" /\ completedCommands # <<>> /\ s \in taken' /\ accepted' = accepted
          /\ call' = [call EXCEPT !.at = "stop", !.status = IF s = call.frame THEN outcome[s] ELSE "internal"]
      BY <2>15 DEF ShutdownTake, TryTakeCommand, queues
    <3>2. Contains(completedCommands, s) /\ s \in 1 .. accepted
      BY <3>1, TailContains DEF QueueTypes
    <3>3. s \notin taken BY <3>2 DEF Places, Located
    <3>4. call'.at = "stop" /\ call'.found = call.found /\ call'.op = call.op BY <3>1
    <3> HIDE DEF s
    <3>5. call.op = "shutdown" /\ call.found = "ok" => s = call.frame /\ 1 .. accepted \subseteq taken'
      BY <1>1, <3>1, <3>2, <3>3 DEF ShutdownOK
    <3> QED BY <3>1, <3>4, <3>5 DEF ShutdownOK, AllTaken
  <2>16. CASE ShutdownStop
    <3>1. /\ call.at = "stop" /\ call' = [call EXCEPT !.at = "stopping"] /\ accepted' = accepted
      BY <2>16 DEF ShutdownStop, Goes, StopBegin, queues
    <3> QED BY <1>1, <3>1 DEF ShutdownOK, AllTaken
  <2>17. CASE ShutdownDone
    <3>1. /\ call.at = "stopping" /\ UNCHANGED vars
          /\ call'.status = (IF call.found # "ok" THEN call.found ELSE call.status)
          /\ call'.op = call.op /\ call'.at = "returned"
      BY <2>17 DEF ShutdownDone, Answers, NoCall
    <3> QED BY <3>1 DEF ShutdownOK, AllTaken, vars
  <2> QED
    BY <1>4, <2>1, <2>2, <2>3, <2>4, <2>5, <2>6, <2>7, <2>8, <2>9, <2>10, <2>11, <2>12, <2>13,
       <2>14, <2>15, <2>16, <2>17 DEF Host, HostStep
<1> QED BY <1>2, <1>3, <1>4

AnswersInv ==
    OutcomeType /\ CallType /\ RequiredOK /\ SawKept /\ CallsInOrder /\ CaptureIsOwn /\ ShutdownOK

LEMMA AnswersInit == ServiceInit => AnswersInv
<1> SUFFICES ASSUME ServiceInit PROVE AnswersInv OBVIOUS
<1> USE DEF ServiceInit, NoCall
<1>1. OutcomeType BY DEF OutcomeType, Outcomes
<1>2. CallType
  BY ExecutorAssumption DEF ExecutorAssumption, CallType, Calling, CallOps, CallPlaces, Outcomes
<1>3. RequiredOK BY DEF RequiredOK
<1>4. SawKept /\ CallsInOrder /\ CaptureIsOwn /\ ShutdownOK
  BY DEF SawKept, CallsInOrder, CaptureIsOwn, ShutdownOK, LastPlaces
<1> QED BY <1>1, <1>2, <1>3, <1>4 DEF AnswersInv

LEMMA AnswersStep ==
    ASSUME AnswersInv, ExecutorInv, [ServiceNext]_serviceVars PROVE AnswersInv'
<1> USE DEF AnswersInv, ExecutorInv
<1>1. OutcomeType' BY OutcomeKept
<1>2. RequiredOK' BY RequiredKept
<1>3. ShutdownOK' BY ShutdownStep
<1>4. CASE Host
  <2>1. CallType' /\ SawKept' BY <1>4, SawStep
  <2>2. CallsInOrder' BY <1>4, InOrderStep
  <2>3. CaptureIsOwn' BY <1>4, CaptureStep
  <2> QED BY <1>1, <1>2, <1>3, <2>1, <2>2, <2>3
<1>5. CASE ~Host
  <2>1. UNCHANGED <<user, phase, call>>
    BY <1>5, Bystanders DEF serviceVars, service
  <2>2. CallType' /\ SawKept' /\ CallsInOrder' /\ CaptureIsOwn'
    BY <2>1 DEF CallType, SawKept, CallsInOrder, CaptureIsOwn
  <2> QED BY <1>1, <1>2, <1>3, <2>2
<1> QED BY <1>4, <1>5

(* The answers of render_frame(), of a capture, of the end of a run and of shutdown() are of
   what they asked for: no failure among the receipts a call has taken is forgotten, a capture
   that answers `ok' was drawn itself, and a shutdown that answers `ok' leaves no receipt of
   a failure behind (render_service.cpp). *)
THEOREM ServiceAnswers == ServiceSpec => []AnswersAreOwn
<1>1. AnswersInv /\ ExecutorInv => AnswersAreOwn
  <2> SUFFICES ASSUME AnswersInv, ExecutorInv, call.at = "returned", call.status = "ok"
               PROVE  /\ ~call.saw
                      /\ call.op = "capture" => call.own = "ok"
                      /\ call.op = "shutdown" =>
                             \A s \in 1 .. accepted :
                                 Contains(completedFrames \o completedCommands, s) => outcome[s] = "ok"
    BY DEF AnswersAreOwn
  <2>1. ~call.saw BY DEF AnswersInv, SawKept, LastPlaces
  <2>2. call.op = "capture" => call.own = "ok" BY DEF AnswersInv, CaptureIsOwn
  <2>3. ASSUME call.op = "shutdown", NEW s \in 1 .. accepted,
               Contains(completedFrames \o completedCommands, s)
        PROVE  FALSE
    <3>1. s \in taken BY <2>3 DEF AnswersInv, ShutdownOK, AllTaken
    <3>2. completedFrames \in Seq(1 .. accepted) /\ completedCommands \in Seq(1 .. accepted)
      BY DEF ExecutorInv, QueueTypes
    <3>3. Contains(completedFrames, s) \/ Contains(completedCommands, s)
      <4>1. PICK i \in 1 .. Len(completedFrames \o completedCommands) :
              (completedFrames \o completedCommands)[i] = s
        BY <2>3 DEF Contains
      <4>2. /\ Len(completedFrames) \in Nat /\ Len(completedCommands) \in Nat
            /\ Len(completedFrames \o completedCommands) = Len(completedFrames) + Len(completedCommands)
            /\ (completedFrames \o completedCommands)[i] =
                 IF i <= Len(completedFrames) THEN completedFrames[i]
                 ELSE completedCommands[i - Len(completedFrames)]
        BY <3>2, ConcatProperties, LenProperties
      <4>3. CASE i <= Len(completedFrames) BY <4>1, <4>2, <4>3 DEF Contains
      <4>4. CASE i > Len(completedFrames)
        <5>1. i - Len(completedFrames) \in 1 .. Len(completedCommands) BY <4>1, <4>2, <4>4
        <5> QED BY <4>1, <4>2, <4>4, <5>1 DEF Contains
      <4> QED BY <4>1, <4>2, <4>3, <4>4
    <3>4. Located(s) BY DEF ExecutorInv, Places
    <3> QED BY <3>1, <3>3, <3>4 DEF Located
  <2> QED BY <2>1, <2>2, <2>3
<1>2. ServiceSpec => []ExecutorInv BY ServiceImplements, ExecutorInductive, PTL
<1> QED BY <1>1, <1>2, AnswersInit, AnswersStep, PTL DEF ServiceSpec

-----------------------------------------------------------------------------
(***************************************************************************)
(* The picture settles.                                                     *)
(***************************************************************************)
LEMMA LeastNumber ==
    ASSUME NEW S \in SUBSET Nat, S # {} PROVE \E n \in S : \A m \in S : n <= m
<1> DEFINE R == OpToRel(<, Nat)
<1>1. IsWellFoundedOn(R, Nat) BY NatLessThanWellFounded
<1>2. PICK n \in S : \A m \in S : <<m, n>> \notin R BY <1>1, WFMin
<1>3. ASSUME NEW m \in S PROVE n <= m
  <2>1. ~(m < n) BY <1>2 DEF OpToRel
  <2> QED BY <2>1
<1> QED BY <1>2, <1>3

LEMMA Images ==
    ASSUME NEW S, IsFiniteSet(S), NEW f
    PROVE  LET T == {f[x] : x \in S} IN
           IsFiniteSet(T) /\ Cardinality(T) \in Nat /\ Cardinality(T) <= Cardinality(S)
<1> DEFINE T == {f[x] : x \in S}
           g == [x \in S |-> f[x]]
<1>1. g \in Surjection(S, T) BY DEF Surjection
<1> HIDE DEF T, g
<1>2. IsFiniteSet(T) /\ Cardinality(T) <= Cardinality(S) BY <1>1, FS_Surjection
<1> QED BY <1>2, FS_CardinalityType DEF T

(* There is always a number left for one more view. *)
LEMMA NewViewIsThere ==
    ASSUME NEW p PROVE NewView(p) \in Nat /\ NewView(p) # 0
<1> DEFINE n == Cardinality(Textures)
           M == {KeptMirror(p, t).view : t \in Textures}
           U == {KeptUpload(p, t).view : t \in Textures}
           H == {material.held.view}
<1>1. IsFiniteSet(Textures) /\ n \in Nat
  BY ServiceAssumption, FS_CardinalityType DEF ServiceAssumption
<1>2. IsFiniteSet(M) /\ Cardinality(M) \in Nat /\ Cardinality(M) <= n
  <2> DEFINE f == [t \in Textures |-> KeptMirror(p, t).view]
  <2>1. M = {f[t] : t \in Textures} OBVIOUS
  <2> HIDE DEF f, M
  <2> QED BY <1>1, <2>1, Images
<1>3. IsFiniteSet(U) /\ Cardinality(U) \in Nat /\ Cardinality(U) <= n
  <2> DEFINE f == [t \in Textures |-> KeptUpload(p, t).view]
  <2>1. U = {f[t] : t \in Textures} OBVIOUS
  <2> HIDE DEF f, U
  <2> QED BY <1>1, <2>1, Images
<1>4. IsFiniteSet(H) /\ Cardinality(H) = 1 BY FS_Singleton
<1>5. Used(p) = M \cup U \cup H BY DEF Used
<1> HIDE DEF M, U, H
<1>6. /\ IsFiniteSet(M \cup U) /\ Cardinality(M \cup U) \in Nat /\ Cardinality(M \cup U) <= 2 * n
  <2>1. IsFiniteSet(M \cap U) /\ Cardinality(M \cap U) \in Nat
    BY <1>2, FS_Intersection, FS_CardinalityType
  <2>2. /\ IsFiniteSet(M \cup U)
        /\ Cardinality(M \cup U) = Cardinality(M) + Cardinality(U) - Cardinality(M \cap U)
    BY <1>2, <1>3, FS_Union
  <2> QED BY <1>1, <1>2, <1>3, <2>1, <2>2, FS_CardinalityType
<1>7. /\ IsFiniteSet(Used(p)) /\ Cardinality(Used(p)) \in Nat /\ Cardinality(Used(p)) <= 2 * n + 1
  <2>1. IsFiniteSet((M \cup U) \cap H) /\ Cardinality((M \cup U) \cap H) \in Nat
    BY <1>6, FS_Intersection, FS_CardinalityType
  <2>2. /\ IsFiniteSet(Used(p))
        /\ Cardinality(Used(p)) = Cardinality(M \cup U) + Cardinality(H) - Cardinality((M \cup U) \cap H)
    BY <1>4, <1>5, <1>6, FS_Union
  <2> QED BY <1>1, <1>4, <1>6, <2>1, <2>2, FS_CardinalityType
<1>8. IsFiniteSet(Views) /\ Cardinality(Views) = 2 * n + 2
  <2>1. 1 \in Int /\ 2 * n + 2 \in Int /\ ~(1 > 2 * n + 2) /\ (2 * n + 2) - 1 + 1 = 2 * n + 2 BY <1>1
  <2> QED BY <2>1, FS_Interval DEF Views
<1>9. Views \ Used(p) # {}
  <2> SUFFICES ASSUME Views \subseteq Used(p) PROVE FALSE OBVIOUS
  <2>1. Cardinality(Views) <= Cardinality(Used(p)) BY <1>7, FS_Subset
  <2> QED BY <1>1, <1>7, <1>8, <2>1
<1>10. Views \ Used(p) \in SUBSET Nat BY <1>1 DEF Views
<1>11. \E v \in Views \ Used(p) : \A w \in Views \ Used(p) : v <= w BY <1>9, <1>10, LeastNumber
<1>12. NewView(p) \in Views BY <1>11 DEF NewView
<1> QED BY <1>1, <1>12 DEF Views

Works == {"none", "frame", "capture", "environment", "release"}
Scenes == Textures \cup {Hidden}
Packet == [work : Works, scene : Scenes, version : Nat, size : Nat, recreate : BOOLEAN]
Mirror == [view : Nat, version : Nat]
Upload == [view : Nat, version : Nat, state : {"none", "running", "done", "failed"}]

SceneTypes ==
    /\ scene \in Scenes /\ version \in [Textures -> Nat]
    /\ window \in [size : Nat, recreate : BOOLEAN] /\ pendingRecreate \in BOOLEAN
    /\ needs \in [Tasks -> BOOLEAN] /\ packet \in [Tasks -> Packet]
PictureTypes == last \in Packet /\ calm \in 0 .. 3
GpuTypes == uploads \in [Textures -> Upload] /\ mirrors \in [Textures -> Mirror]

\* The picture shows what p asked for; the content p asked for is on its way; or it has not
\* been begun, and nothing is in its way.
Shows(p) ==
    \/ p.scene = Hidden
    \/ /\ material.scene = p.scene /\ material.view = mirrors[p.scene].view
       /\ p.version = 0 \/ (mirrors[p.scene].version = p.version /\ mirrors[p.scene].view # 0)
Coming(p) ==
    /\ p.scene \in Textures /\ p.version # 0
    /\ uploads[p.scene].state \in {"running", "done"}
    /\ uploads[p.scene].version = p.version /\ uploads[p.scene].view # 0
Open(p) == p.scene \in Textures /\ uploads[p.scene].state = "none"

(* What each undisturbed frame has brought. *)
ContentInv ==
    /\ calm = 1 => Shows(last) \/ Coming(last) \/ Open(last)
    /\ calm = 2 => Shows(last) \/ Coming(last)
    /\ calm = 3 => Shows(last)

(* A frame that goes well binds what it has mirrored. *)
LEMMA PrepareBinds ==
    ASSUME GpuTypes, NEW p \in Packet, p.scene # Hidden, Prepare(p, 0)
    PROVE  /\ p.scene \in Textures
           /\ material'.scene = p.scene /\ material'.view = mirrors'[p.scene].view
           /\ \E r \in Refreshes(p) : /\ r.faults = 0
                  /\ uploads'[p.scene] = r.upload /\ mirrors'[p.scene] = r.mirror
           /\ \A t \in Textures \ {p.scene} :
                  uploads'[t] = KeptUpload(p, t) /\ mirrors'[t] = NoMirror
           /\ DOMAIN uploads' = Textures /\ DOMAIN mirrors' = Textures
<1>1. p.scene \in Textures BY DEF Packet, Scenes
<1>2. PICK r \in Refreshes(p) : \E b \in Rebuilds(p, r.mirror) :
          /\ 0 = r.faults + b.faults
          /\ uploads' = [t \in Textures |-> IF t = p.scene THEN r.upload ELSE KeptUpload(p, t)]
          /\ mirrors' = [t \in Textures |-> IF t = p.scene THEN r.mirror ELSE NoMirror]
          /\ material' = b.material
  BY DEF Prepare
<1>3. PICK b \in Rebuilds(p, r.mirror) : 0 = r.faults + b.faults /\ material' = b.material
  BY <1>2
<1>4. b.faults \in {0, 1} /\ (b.faults = 0 => b.material.scene = p.scene /\ b.material.view = r.mirror.view)
  <2>1. CASE material.scene = p.scene /\ material.view = r.mirror.view
    BY <2>1 DEF Rebuilds
  <2>2. CASE ~(material.scene = p.scene /\ material.view = r.mirror.view)
    BY <2>2 DEF Rebuilds
  <2> QED BY <2>1, <2>2
<1>5. r.faults \in {0, 1} BY DEF Refreshes, Refresh
<1>6. r.faults = 0 /\ b.faults = 0 BY <1>3, <1>4, <1>5
<1>7. uploads'[p.scene] = r.upload /\ mirrors'[p.scene] = r.mirror BY <1>1, <1>2
<1>8. \A t \in Textures \ {p.scene} : uploads'[t] = KeptUpload(p, t) /\ mirrors'[t] = NoMirror
  BY <1>2
<1>9. DOMAIN uploads' = Textures /\ DOMAIN mirrors' = Textures BY <1>2
<1> QED BY <1>1, <1>3, <1>4, <1>6, <1>7, <1>8, <1>9

(* What may become of the texture a frame shows. *)
LEMMA RefreshCases ==
    ASSUME GpuTypes, NEW p \in Packet, p.scene \in Textures, NEW r \in Refreshes(p)
    PROVE  LET t == p.scene IN
           /\ r.upload \in Upload /\ r.mirror \in Mirror
           /\ uploads[t].state = "running" =>
                  r.upload = uploads[t] /\ (p.version # 0 => r.mirror = mirrors[t])
           /\ uploads[t].state # "running" /\ p.version # 0 /\ r.faults = 0 =>
                  \/ /\ mirrors[t].view # 0 /\ mirrors[t].version = p.version
                     /\ r.mirror = mirrors[t] /\ r.upload = uploads[t]
                  \/ /\ uploads[t].state = "none" /\ r.mirror = mirrors[t]
                     /\ r.upload.state = "running" /\ r.upload.version = p.version
                     /\ r.upload.view # 0
                  \/ /\ uploads[t].state = "done" /\ uploads[t].version = p.version
                     /\ r.upload.state = "none" /\ ~(mirrors[t].view # 0 /\ mirrors[t].version = p.version)
                     /\ r.mirror.view = uploads[t].view /\ r.mirror.version = p.version
                  \/ /\ uploads[t].state # "none"
                     /\ ~(uploads[t].state = "done" /\ uploads[t].version = p.version)
                     /\ r.upload.state = "none" /\ ~(mirrors[t].view # 0 /\ mirrors[t].version = p.version)
<1> DEFINE t == p.scene
           upload == KeptUpload(p, t)
           mirror == KeptMirror(p, t)
           new == [view |-> NewView(p), version |-> p.version, state |-> "running"]
           installed == [view |-> upload.view, version |-> upload.version]
           kept == \/ p.version = 0 \/ (mirror.view # 0 /\ mirror.version = p.version)
                   \/ upload.state = "running"
<1>1. NewView(p) \in Nat /\ NewView(p) # 0 BY NewViewIsThere
<1>2. p.version \in Nat BY DEF Packet
<1>3. uploads[t] \in Upload /\ mirrors[t] \in Mirror BY DEF GpuTypes
<1>4. upload \in Upload /\ mirror \in Mirror /\ NoUpload \in Upload
  BY <1>3 DEF KeptUpload, KeptMirror, NoUpload, NoMirror, Upload, Mirror
<1>5. uploads[t].state = "running" => upload = uploads[t] BY DEF KeptUpload
<1>6. p.version # 0 => upload = uploads[t] /\ mirror = mirrors[t]
  BY DEF KeptUpload, KeptMirror, Shown
<1>7. new \in Upload BY <1>1, <1>2 DEF Upload
<1>8. installed \in Mirror BY <1>4 DEF Upload, Mirror
<1>9. \/ kept /\ r.upload = upload /\ r.mirror = mirror
      \/ /\ ~kept /\ upload.state = "none" /\ r.mirror = mirror
         /\ r.upload = new \/ (r.upload = NoUpload /\ r.faults = 1)
      \/ /\ ~kept /\ upload.state # "none" /\ r.upload = NoUpload
         /\ r.mirror = IF InstallCurrent(p, upload) THEN installed ELSE mirror
  <2>1. CASE kept
    <3>1. Refreshes(p) = {Refresh(upload, mirror, 0)} BY <2>1 DEF Refreshes
    <3>2. r = Refresh(upload, mirror, 0) BY <3>1
    <3> QED BY <2>1, <3>2 DEF Refresh
  <2>2. CASE ~kept /\ upload.state = "none" BY <2>2 DEF Refreshes, Refresh
  <2>3. CASE ~kept /\ upload.state # "none"
    <3>1. Refreshes(p) = {Refresh(NoUpload, IF InstallCurrent(p, upload) THEN installed ELSE mirror, 0)}
      BY <2>3 DEF Refreshes
    <3> QED BY <2>3, <3>1 DEF Refresh
  <2> QED BY <2>1, <2>2, <2>3
<1>10. r.upload \in Upload /\ r.mirror \in Mirror BY <1>4, <1>7, <1>8, <1>9
<1>11. uploads[t].state = "running" => r.upload = uploads[t] /\ (p.version # 0 => r.mirror = mirrors[t])
  BY <1>5, <1>6, <1>9
<1>12. ASSUME uploads[t].state # "running", p.version # 0, r.faults = 0
       PROVE  \/ /\ mirrors[t].view # 0 /\ mirrors[t].version = p.version
                 /\ r.mirror = mirrors[t] /\ r.upload = uploads[t]
              \/ /\ uploads[t].state = "none" /\ r.mirror = mirrors[t]
                 /\ r.upload.state = "running" /\ r.upload.version = p.version
                 /\ r.upload.view # 0
              \/ /\ uploads[t].state = "done" /\ uploads[t].version = p.version
                 /\ r.upload.state = "none" /\ ~(mirrors[t].view # 0 /\ mirrors[t].version = p.version)
                 /\ r.mirror.view = uploads[t].view /\ r.mirror.version = p.version
              \/ /\ uploads[t].state # "none"
                 /\ ~(uploads[t].state = "done" /\ uploads[t].version = p.version)
                 /\ r.upload.state = "none" /\ ~(mirrors[t].view # 0 /\ mirrors[t].version = p.version)
  <2>1. upload = uploads[t] /\ mirror = mirrors[t] BY <1>6, <1>12
  <2>2. CASE kept BY <1>9, <1>12, <2>1, <2>2
  <2>3. CASE ~kept /\ upload.state = "none" BY <1>1, <1>9, <1>12, <2>1, <2>3
  <2>4. CASE ~kept /\ upload.state # "none"
    <3>1. r.upload = NoUpload /\ r.mirror = IF InstallCurrent(p, upload) THEN installed ELSE mirror
      BY <1>9, <2>4
    <3> QED BY <2>1, <2>4, <3>1 DEF NoUpload, InstallCurrent
  <2> QED BY <2>2, <2>3, <2>4
<1> QED BY <1>10, <1>11, <1>12

(* An undisturbed frame brings the content it asked for one step nearer. *)
LEMMA ContentStep ==
    ASSUME GpuTypes, PictureTypes, ContentInv, NEW p \in Packet, p.work # "capture",
           Prepare(p, 0), last' = [p EXCEPT !.recreate = FALSE], calm' = Calm(p, 0)
    PROVE  ContentInv' /\ (calm' = 3 => Pictured(p))
<1> DEFINE t == p.scene
           before == IF [p EXCEPT !.recreate = FALSE] = last THEN calm ELSE 0
           running == p.scene \in Textures /\ uploads[p.scene].state = "running"
<1>1. /\ last'.scene = p.scene /\ last'.version = p.version
      /\ p.version \in Nat
  BY DEF Packet
<1>2. before # 0 => before = calm /\ last.scene = p.scene /\ last.version = p.version
  BY <1>1
<1>3. before \in 0 .. 3 /\ calm' = IF before = 3 \/ running THEN before ELSE before + 1
  BY DEF Calm, Settling, PictureTypes
<1> HIDE DEF before
<1>4. CASE p.scene = Hidden
  <2>1. Shows(last)' BY <1>1, <1>4 DEF Shows
  <2> QED BY <1>3, <1>4, <2>1 DEF ContentInv, Pictured
<1>5. CASE p.scene # Hidden
  <2>1. /\ t \in Textures /\ material'.scene = t /\ material'.view = mirrors'[t].view
        /\ \E r \in Refreshes(p) : /\ r.faults = 0
               /\ uploads'[t] = r.upload /\ mirrors'[t] = r.mirror
    BY <1>5, PrepareBinds
  <2>2. PICK r \in Refreshes(p) : r.faults = 0 /\ uploads'[t] = r.upload /\ mirrors'[t] = r.mirror
    BY <2>1
  <2>3. Shows(last)' <=> p.version = 0 \/ (r.mirror.version = p.version /\ r.mirror.view # 0)
    BY <1>1, <1>5, <2>1, <2>2 DEF Shows
  <2>4. Coming(last)' <=> /\ p.version # 0 /\ r.upload.state \in {"running", "done"}
                          /\ r.upload.version = p.version /\ r.upload.view # 0
    BY <1>1, <2>1, <2>2 DEF Coming
  <2>5. Open(last)' <=> r.upload.state = "none" BY <1>1, <2>1, <2>2 DEF Open
  <2>6. calm' = 3 => (Shows(last)' => Pictured(p))
    BY <1>1, <2>1, <2>2, <2>3 DEF Pictured
  <2>7. before # 0 /\ p.version # 0 =>
            /\ Shows(last) => mirrors[t].version = p.version /\ mirrors[t].view # 0
            /\ Coming(last) <=> /\ uploads[t].state \in {"running", "done"}
                                /\ uploads[t].version = p.version /\ uploads[t].view # 0
            /\ Open(last) <=> uploads[t].state = "none"
    BY <1>2, <1>5, <2>1 DEF Shows, Coming, Open
  <2>8. before = 1 => Shows(last) \/ Coming(last) \/ Open(last) BY <1>2 DEF ContentInv
  <2>9. before = 2 => Shows(last) \/ Coming(last) BY <1>2 DEF ContentInv
  <2>10. before = 3 => Shows(last) BY <1>2 DEF ContentInv
  <2>11. CASE p.version = 0
    BY <1>3, <2>3, <2>6, <2>11 DEF ContentInv
  <2>12. CASE p.version # 0 /\ running
    <3>1. r.upload = uploads[t] /\ r.mirror = mirrors[t] /\ calm' = before
      BY <1>3, <2>1, <2>12, RefreshCases
    <3>2. before # 0 => (Shows(last) => Shows(last)') /\ (Coming(last) => Coming(last)') /\ ~Open(last)
      BY <2>3, <2>4, <2>7, <2>12, <3>1
    <3> QED BY <1>3, <2>6, <2>8, <2>9, <2>10, <3>1, <3>2 DEF ContentInv
  <2>13. CASE p.version # 0 /\ ~running
    <3>1. uploads[t].state # "running" /\ calm' = IF before = 3 THEN 3 ELSE before + 1
      BY <1>3, <2>1, <2>13
    <3>2. CASE Shows(last)'
      BY <2>6, <3>2 DEF ContentInv
    <3>3. CASE ~Shows(last)' /\ Coming(last)' /\ uploads[t].state = "none"
      <4>1. ~(mirrors[t].view # 0 /\ mirrors[t].version = p.version)
        BY <2>1, <2>2, <2>3, <2>13, <3>1, <3>3, RefreshCases
      <4>2. before \notin {2, 3} BY <2>7, <2>9, <2>10, <2>13, <3>3, <4>1
      <4> QED BY <1>3, <3>1, <3>3, <4>2 DEF ContentInv
    <3>4. CASE ~Shows(last)' /\ uploads[t].state # "none"
      <4>1. /\ ~(mirrors[t].view # 0 /\ mirrors[t].version = p.version)
            /\ Open(last)'
            /\ ~(uploads[t].state = "done" /\ uploads[t].version = p.version /\ uploads[t].view # 0)
        BY <2>1, <2>2, <2>3, <2>5, <2>13, <3>1, <3>4, RefreshCases
      <4>2. before = 0 BY <1>3, <2>7, <2>8, <2>9, <2>10, <2>13, <3>1, <3>4, <4>1
      <4> QED BY <3>1, <4>1, <4>2 DEF ContentInv
    <3> QED BY <2>1, <2>2, <2>3, <2>4, <2>13, <3>1, <3>2, <3>3, <3>4, RefreshCases
  <2> QED BY <2>11, <2>12, <2>13
<1> QED BY <1>4, <1>5

-----------------------------------------------------------------------------
(* The frame in the render thread's hands, and the frames that wait for it. *)
Holding == workerPc = "frame"

\* A swapchain to be made anew is remembered, or will be when the receipts are collected; and
\* a host about to submit the next frame has collected it.
Debt == pendingRecreate \/ \E s \in Tasks : Contains(completedFrames, s) /\ needs[s]
Busy == call.op = "render" /\ call.turn = 2 /\ call.at # "returned"
Hears == Busy /\ call.at = "collected" /\ call.status = "ok"
SureDebt == Debt /\ (Hears => pendingRecreate)

\* What a step may do that neither submits, begins nor ends a frame, and leaves the GPU alone.
Steady ==
    /\ UNCHANGED <<last, calm, exact, swapchain, uploads, mirrors, material>>
    /\ FrameSet' = FrameSet /\ (Holding' <=> Holding) /\ (Holding => current' = current)
    /\ \A s \in FrameSet : packet'[s] = packet[s]
    /\ Holding => packet'[current] = packet[current]
    /\ Debt => Debt'
    /\ Hears' /\ Debt /\ (Hears => pendingRecreate) => pendingRecreate'
    /\ Busy' => Busy \/ FrameSet = {}

LEMMA FrameJoins ==
    ASSUME QueueTypes, Places, NEW policy \in FrameKinds, SubmitFrame(policy)
    PROVE  /\ accepted + 1 \in Tasks /\ accepted + 1 \notin FrameSet /\ accepted + 1 # current
           /\ FrameSet' = FrameSet \cup {accepted + 1}
           /\ (Holding' <=> Holding) /\ UNCHANGED <<current, completedFrames>>
<1>1. policy \in Kinds /\ accepted < MaxSequence
  BY DEF SubmitFrame, Accept, Kinds, FrameKinds
<1>2. Entered /\ kind' = [kind EXCEPT ![accepted + 1] = policy]
  BY <1>1, PolicyRange DEF SubmitFrame, Accept, Entered, receipts
<1>3. /\ accepted' = accepted + 1 /\ accepted \in Nat /\ accepted + 1 \in Tasks
      /\ accepted + 1 \notin 1 .. accepted
      /\ \A s \in 1 .. accepted' : s \in 1 .. accepted \/ s = accepted'
      /\ 1 .. accepted \subseteq 1 .. accepted' /\ accepted' \in 1 .. accepted'
  BY <1>1, <1>2, Wider, ExecutorAssumption DEF Entered, QueueTypes, ExecutorAssumption, Tasks
<1>4. kind'[accepted + 1] = policy /\ \A s \in 1 .. accepted : kind'[s] = kind[s]
  BY <1>1, <1>2, PolicyRange
<1>5. \A s : Contains(pending', s) <=> Contains(pending, s) \/ s = accepted'
  BY <1>2, EnteredQueue
<1>6. ~Contains(pending, accepted + 1) BY <1>3, InQueue
<1>7. FrameSet' = FrameSet \cup {accepted + 1}
  <2>1. FrameSet' = {s \in 1 .. accepted' : Contains(pending', s) /\ kind'[s] \in FrameKinds}
    BY DEF FrameSet, Waiting, IsFrame
  <2>2. FrameSet = {s \in 1 .. accepted : Contains(pending, s) /\ kind[s] \in FrameKinds}
    BY DEF FrameSet, Waiting, IsFrame
  <2> QED BY <1>3, <1>4, <1>5, <1>6, <2>1, <2>2
<1>8. accepted + 1 \notin FrameSet BY <1>3 DEF FrameSet, Waiting
<1>9. accepted + 1 # current BY <1>3 DEF QueueTypes
<1>10. (Holding' <=> Holding) /\ UNCHANGED <<current, completedFrames>>
  BY <1>2 DEF Entered, WorkerHears, Holding, receipts
<1> QED BY <1>3, <1>7, <1>8, <1>9, <1>10

LEMMA CommandJoins ==
    ASSUME QueueTypes, Places, SubmitCommand("once")
    PROVE  /\ accepted + 1 \in Tasks /\ accepted + 1 \notin FrameSet /\ accepted + 1 # current
           /\ FrameSet' = FrameSet
           /\ (Holding' <=> Holding) /\ UNCHANGED <<current, completedFrames>>
<1>1. "once" \in Kinds /\ "once" \notin FrameKinds /\ accepted < MaxSequence
  BY DEF SubmitCommand, Accept, Kinds, FrameKinds
<1>2. Entered /\ kind' = [kind EXCEPT ![accepted + 1] = "once"]
  BY <1>1, PolicyRange DEF SubmitCommand, Accept, Entered, receipts
<1>3. /\ accepted' = accepted + 1 /\ accepted \in Nat /\ accepted + 1 \in Tasks
      /\ accepted + 1 \notin 1 .. accepted
      /\ \A s \in 1 .. accepted' : s \in 1 .. accepted \/ s = accepted'
      /\ 1 .. accepted \subseteq 1 .. accepted'
  BY <1>1, <1>2, Wider, ExecutorAssumption DEF Entered, QueueTypes, ExecutorAssumption, Tasks
<1>4. kind'[accepted + 1] = "once" /\ \A s \in 1 .. accepted : kind'[s] = kind[s]
  BY <1>1, <1>2, PolicyRange
<1>5. \A s : Contains(pending', s) <=> Contains(pending, s) \/ s = accepted'
  BY <1>2, EnteredQueue
<1>7. FrameSet' = FrameSet
  <2>1. FrameSet' = {s \in 1 .. accepted' : Contains(pending', s) /\ kind'[s] \in FrameKinds}
    BY DEF FrameSet, Waiting, IsFrame
  <2>2. FrameSet = {s \in 1 .. accepted : Contains(pending, s) /\ kind[s] \in FrameKinds}
    BY DEF FrameSet, Waiting, IsFrame
  <2> QED BY <1>1, <1>3, <1>4, <1>5, <2>1, <2>2
<1>8. accepted + 1 \notin FrameSet BY <1>3 DEF FrameSet, Waiting
<1>9. accepted + 1 # current BY <1>3 DEF QueueTypes
<1>10. (Holding' <=> Holding) /\ UNCHANGED <<current, completedFrames>>
  BY <1>2 DEF Entered, WorkerHears, Holding, receipts
<1> QED BY <1>3, <1>7, <1>8, <1>9, <1>10

(* No frame whose receipt is there, or taken, waits any more. *)
LEMMA FramesElsewhere ==
    ASSUME QueueTypes, Places, Hands
    PROVE  /\ FrameSet \subseteq Tasks
           /\ Holding => current \in Tasks /\ current \notin FrameSet
           /\ \A s \in FrameSet : ~Contains(completedFrames, s) /\ ~Contains(completedCommands, s)
           /\ Holding => ~Contains(completedFrames, current) /\ ~Contains(completedCommands, current)
           /\ \A s : Contains(completedCommands, s) => ~Contains(completedFrames, s)
           /\ current # 0 => ~Contains(completedFrames, current)
<1>1. 1 .. accepted \subseteq Tasks
  BY ExecutorAssumption DEF QueueTypes, Tasks, ExecutorAssumption
<1>2. Holding => current \in 1 .. accepted BY InHand DEF Holding
<1>3. current # 0 => current \in 1 .. accepted
  BY ExecutorAssumption DEF QueueTypes, ExecutorAssumption
<1>4. \A s : Contains(completedCommands, s) => ~Contains(completedFrames, s)
  BY InQueue DEF Places, Located
<1>5. \A s \in FrameSet : s \in 1 .. accepted /\ Contains(pending, s) BY DEF FrameSet, Waiting
<1> QED BY <1>1, <1>2, <1>3, <1>4, <1>5 DEF Places, Located

(* The steps of the executor alone, but for the beginning of a frame. *)
LEMMA ExecutorIsSteady ==
    ASSUME QueueTypes, Places, Hands, ExecutorStep, ~(TakeWork /\ Holding') PROVE Steady
<1>1. UNCHANGED <<last, calm, exact, swapchain, uploads, mirrors, material, packet, needs,
                  pendingRecreate, call>>
  BY DEF ExecutorStep, service, gpu, work, inbox
<1>2. UNCHANGED completedFrames /\ (Holding' <=> Holding) /\ (Holding => current' = current)
      /\ FrameSet' = FrameSet
  <2>1. CASE TakeWork
    <3>1. \A s : Contains(pending, s) <=> Contains(pending', s) \/ s = current'
      BY <2>1, TakeWorkQueue
    <3>2. ~IsFrame(current') /\ UNCHANGED <<kind, accepted, completedFrames>> /\ ~Holding
      BY <2>1 DEF TakeWork, Holding, receipts
    <3> QED BY <2>1, <3>1, <3>2 DEF FrameSet, Waiting, IsFrame, Holding
  <2>2. CASE Sleep \/ SpuriousWake \/ Exit \/ Report
    BY <2>2 DEF Sleep, SpuriousWake, Exit, Report, queues, receipts, Holding, FrameSet, Waiting, IsFrame
  <2>3. CASE PublishCommand
    BY <2>3 DEF PublishCommand, Finished, queues, Holding, FrameSet, Waiting, IsFrame
  <2>4. CASE FlushCheck(Owner) \/ MarkStopping \/ Join
    BY <2>4 DEF FlushCheck, MarkStopping, WorkerHears, Join, queues, receipts, Holding, FrameSet,
                Waiting, IsFrame
  <2> QED BY <2>1, <2>2, <2>3, <2>4 DEF ExecutorStep
<1> QED BY <1>1, <1>2 DEF Steady, Debt, Hears, Busy

\* Nothing of the executor that the picture depends on has changed.
Undisturbed ==
    /\ UNCHANGED completedFrames /\ (Holding' <=> Holding) /\ (Holding => current' = current)
    /\ FrameSet' = FrameSet

LEMMA SameIsUndisturbed ==
    ASSUME \/ UNCHANGED vars \/ FlushBegin(Owner) \/ StopBegin \/ TryTakeCommand
           \/ CompleteStatus
    PROVE  Undisturbed
<1> USE DEF Undisturbed, Holding, FrameSet, Waiting, IsFrame
<1>1. CASE UNCHANGED vars BY <1>1 DEF vars
<1>2. CASE FlushBegin(Owner) \/ StopBegin BY <1>2 DEF FlushBegin, StopBegin, queues, receipts
<1>3. CASE TryTakeCommand BY <1>3 DEF TryTakeCommand, queues
<1>4. CASE CompleteStatus BY <1>4 DEF CompleteStatus, queues, receipts
<1> QED BY <1>1, <1>2, <1>3, <1>4

(* The receipts the host collects change nothing for the frames still to come. *)
LEMMA CollectingIsSteady ==
    ASSUME QueueTypes, Places, Hands, SceneTypes, CollectCommand \/ CollectFrame PROVE Steady
<1>1. ASSUME NEW s \in Tasks, Receive(s), call.at \in {"commands", "frames"}
      PROVE  /\ \A t \in Tasks \ {s} : packet'[t] = packet[t] /\ needs'[t] = needs[t]
             /\ ~Hears' /\ (Busy' => Busy)
  <2>1. \A t \in Tasks \ {s} : packet'[t] = packet[t] /\ needs'[t] = needs[t]
    BY <1>1 DEF Receive, SceneTypes
  <2>2. \/ call' = call
        \/ outcome[s] # "ok" /\ call' = [call EXCEPT !.at = "collected", !.status = outcome[s],
                                            !.saw = call.saw \/ outcome[s] = "failed"]
    BY <1>1 DEF Receive
  <2>3. CASE call' = call BY <1>1, <2>1, <2>3 DEF Hears, Busy
  <2>4. CASE call' # call
    <3>1. outcome[s] # "ok" /\ call' = [call EXCEPT !.at = "collected", !.status = outcome[s],
                                            !.saw = call.saw \/ outcome[s] = "failed"]
      BY <2>2, <2>4
    <3>2. Hears' => call'.status = "ok" BY DEF Hears
    <3>3. Busy' => Busy
      <4>1. Busy' <=> call'.op = "render" /\ call'.turn = 2 /\ call'.at # "returned" BY DEF Busy
      <4> QED BY <1>1, <3>1, <4>1 DEF Busy
    <3> QED BY <2>1, <3>1, <3>2, <3>3
  <2> QED BY <2>3, <2>4
<1>2. CASE CollectCommand
  <2> DEFINE s == Head(completedCommands)
  <2>1. /\ s \in Tasks /\ Receive(s) /\ call.at \in {"commands", "frames"}
        /\ Contains(completedCommands, s)
        /\ UNCHANGED <<pendingRecreate, last, calm, exact, swapchain, uploads, mirrors, material>>
        /\ Undisturbed
    <3>1. completedCommands # <<>> BY <1>2 DEF CollectCommand, TryTakeCommand
    <3>2. s \in Tasks BY <3>1, TaskOf
    <3>3. Contains(completedCommands, s) BY <3>1, TailContains DEF QueueTypes
    <3>4. Undisturbed BY <1>2, SameIsUndisturbed DEF CollectCommand
    <3> QED BY <1>2, <3>2, <3>3, <3>4 DEF CollectCommand, inbox, gpu
  <2> HIDE DEF s
  <2>2. /\ \A t \in Tasks \ {s} : packet'[t] = packet[t] /\ needs'[t] = needs[t]
        /\ ~Hears' /\ (Busy' => Busy)
    BY <1>1, <2>1
  <2>3. /\ ~Contains(completedFrames, s) /\ s \notin FrameSet /\ FrameSet \subseteq Tasks
        /\ (Holding => current \in Tasks /\ current # s)
    BY <2>1, FramesElsewhere
  <2>4. Debt => Debt' BY <2>1, <2>2, <2>3 DEF Debt, Undisturbed
  <2> QED BY <2>1, <2>2, <2>3, <2>4 DEF Steady, Undisturbed
<1>3. CASE CollectFrame
  <2> DEFINE s == Head(completedFrames)
  <2>1. /\ s \in Tasks /\ Receive(s) /\ call.at \in {"commands", "frames"}
        /\ Contains(completedFrames, s)
        /\ \A t : Contains(completedFrames, t) <=> Contains(completedFrames', t) \/ t = s
        /\ pendingRecreate' = (pendingRecreate \/ needs[s])
        /\ UNCHANGED <<last, calm, exact, swapchain, uploads, mirrors, material>>
        /\ (Holding' <=> Holding) /\ (Holding => current' = current) /\ FrameSet' = FrameSet
    <3>1. completedFrames # <<>> /\ completedFrames' = Tail(completedFrames)
      BY <1>3 DEF CollectFrame, TryTakeFrame
    <3>2. s \in Tasks BY <3>1, TaskOf
    <3>3. /\ Contains(completedFrames, s)
          /\ \A t : Contains(completedFrames, t) <=> Contains(completedFrames', t) \/ t = s
      BY <3>1, TailContains DEF QueueTypes
    <3>4. (Holding' <=> Holding) /\ (Holding => current' = current) /\ FrameSet' = FrameSet
      BY <1>3 DEF CollectFrame, TryTakeFrame, queues, Holding, FrameSet, Waiting, IsFrame
    <3> QED BY <1>3, <3>2, <3>3, <3>4 DEF CollectFrame, RecreateRemembered, gpu
  <2> HIDE DEF s
  <2>2. /\ \A t \in Tasks \ {s} : packet'[t] = packet[t] /\ needs'[t] = needs[t]
        /\ ~Hears' /\ (Busy' => Busy)
    BY <1>1, <2>1
  <2>3. /\ s \notin FrameSet /\ FrameSet \subseteq Tasks
        /\ (Holding => current \in Tasks /\ current # s)
    BY <2>1, FramesElsewhere
  <2>4. Debt => Debt' BY <2>1, <2>2, <2>3 DEF Debt
  <2> QED BY <2>1, <2>2, <2>3, <2>4 DEF Steady
<1> QED BY <1>2, <1>3

(* The other calls of the host, but for those that submit a frame. *)
LEMMA CallingIsSteady ==
    ASSUME QueueTypes, Places, Hands, SceneTypes, CallType, Host, ~RenderSubmit, ~CaptureSubmit
    PROVE  Steady
<1>1. ASSUME Undisturbed, UNCHANGED <<needs, last, calm, exact, swapchain, uploads, mirrors, material>>,
             pendingRecreate' = pendingRecreate,
             \A s \in FrameSet : packet'[s] = packet[s],
             Holding => packet'[current] = packet[current],
             ~Hears' \/ ~Debt \/ pendingRecreate, Busy' => Busy \/ FrameSet = {}
      PROVE  Steady
  <2>1. Debt => Debt' BY <1>1 DEF Debt, Undisturbed
  <2> QED BY <1>1, <2>1 DEF Steady, Undisturbed
<1>2. ASSUME Undisturbed, Idling, ~Hears', Busy' => Busy \/ FrameSet = {} PROVE Steady
  BY <1>1, <1>2 DEF Idling, inbox, work, gpu
<1>3. \A status : Answers(status) => ~Busy' BY DEF Answers, NoCall, Busy
<1>4. \A op, at : Enters(op, at) => ~Busy' BY DEF Enters, NoCall, Busy
<1>5. ASSUME NEW at, Goes(at), at # "collected", call.at # "returned" PROVE (Busy' => Busy) /\ ~Hears'
  <2>1. call'.op = call.op /\ call'.turn = call.turn /\ call'.at = at
    BY <1>5 DEF Goes, CallType, Calling
  <2> QED BY <1>5, <2>1 DEF Busy, Hears
<1>6. Hears' => Busy' BY DEF Hears
<1>7. CASE UNCHANGED vars /\ (RenderBegin \/ EndBegin \/ ShutdownBegin \/ CaptureBegin)
  <2>1. ~Busy' BY <1>4, <1>7 DEF RenderBegin, EndBegin, ShutdownBegin, CaptureBegin
  <2>2. UNCHANGED <<needs, last, calm, exact, swapchain, uploads, mirrors, material, packet, pendingRecreate>>
    BY <1>7 DEF RenderBegin, EndBegin, ShutdownBegin, CaptureBegin, Idling, inbox, work, gpu
  <2> QED BY <1>1, <1>6, <1>7, <2>1, <2>2, SameIsUndisturbed
<1>8. CASE RenderFails \/ EndDone
  <2>1. ~Busy' BY <1>3, <1>8 DEF RenderFails, EndDone
  <2>2. UNCHANGED <<needs, last, calm, exact, swapchain, uploads, mirrors, material, packet, pendingRecreate>>
    BY <1>8 DEF RenderFails, EndDone, Idling, inbox, work, gpu
  <2>3. UNCHANGED vars BY <1>8 DEF RenderFails, EndDone
  <2> QED BY <1>1, <1>6, <2>1, <2>2, <2>3, SameIsUndisturbed
<1>9. CASE ShutdownDone \/ CaptureFails \/ CaptureDone
  <2>1. ~Busy' BY <1>3, <1>9 DEF ShutdownDone, CaptureFails, CaptureDone, CaptureAnswers, NoCall, Busy
  <2>2. UNCHANGED <<needs, last, calm, exact, swapchain, uploads, mirrors, material, packet, pendingRecreate>>
    BY <1>9 DEF ShutdownDone, CaptureFails, CaptureDone, CaptureAnswers, inbox, work, gpu
  <2>3. UNCHANGED vars BY <1>9 DEF ShutdownDone, CaptureFails, CaptureDone, CaptureAnswers
  <2> QED BY <1>1, <1>6, <2>1, <2>2, <2>3, SameIsUndisturbed
<1>10. CASE CommandsDone \/ Flush \/ ShutdownFlush \/ ShutdownStop
  <2>1. (Busy' => Busy) /\ ~Hears'
    BY <1>5, <1>10 DEF CommandsDone, Flush, ShutdownFlush, ShutdownStop
  <2>2. Undisturbed BY <1>10, SameIsUndisturbed DEF CommandsDone, Flush, ShutdownFlush, ShutdownStop
  <2> QED BY <1>2, <1>10, <2>1, <2>2 DEF CommandsDone, Flush, ShutdownFlush, ShutdownStop
<1>11. CASE FramesDone
  <2>1. /\ call.at = "frames" /\ completedFrames = <<>> /\ Idling /\ UNCHANGED vars
        /\ call'.op = call.op /\ call'.turn = call.turn
    BY <1>11 DEF FramesDone, CallType, Calling
  <2>2. Debt => pendingRecreate BY <2>1 DEF Debt, Contains
  <2>3. Busy' => Busy BY <2>1 DEF Busy
  <2> QED BY <1>1, <2>1, <2>2, <2>3, SameIsUndisturbed DEF Idling, inbox, work, gpu
<1>12. CASE RenderGate
  <2>1. CASE FramePlaces = {} /\ call' = [call EXCEPT !.at = "commands", !.turn = 2]
    <3>1. FrameSet = {} BY <2>1 DEF FrameSet, Waiting, FramePlaces, Contains
    <3>2. ~Hears' BY <2>1 DEF Hears, CallType, Calling
    <3> QED BY <1>2, <1>12, <3>1, <3>2, SameIsUndisturbed DEF RenderGate
  <2>2. CASE Answers("ok")
    BY <1>2, <1>3, <1>6, <1>12, <2>2, SameIsUndisturbed DEF RenderGate
  <2> QED BY <1>12, <2>1, <2>2 DEF RenderGate
<1>13. CASE FinishAgain
  <2>1. /\ call.at = "collected" /\ Idling /\ UNCHANGED vars
        /\ call'.op = call.op /\ call'.turn = call.turn /\ call'.at = "commands"
    BY <1>13 DEF FinishAgain, Finishing, After, CallType, Calling
  <2> QED BY <1>2, <2>1, SameIsUndisturbed DEF Busy, Hears
<1>14. CASE RequestEnvironment \/ ShutdownSubmit
  <2>1. /\ SubmitCommand("once")
        /\ \E how \in Packet : packet' = [packet EXCEPT ![accepted + 1] = how]
        /\ UNCHANGED <<needs, last, calm, exact, swapchain, uploads, mirrors, material, pendingRecreate>>
    <3>1. \A w \in Works : [NoPacket EXCEPT !.work = w] \in Packet
      BY DEF Packet, NoPacket, Scenes
    <3>2. "environment" \in Works /\ "release" \in Works BY DEF Works
    <3> QED BY <1>14, <3>1, <3>2 DEF RequestEnvironment, ShutdownSubmit, inbox, gpu
  <2>2. /\ accepted + 1 \in Tasks /\ accepted + 1 \notin FrameSet /\ accepted + 1 # current
        /\ FrameSet' = FrameSet
        /\ (Holding' <=> Holding) /\ UNCHANGED <<current, completedFrames>>
    BY <2>1, CommandJoins
  <2>3. FrameSet \subseteq Tasks /\ (Holding => current \in Tasks) BY FramesElsewhere
  <2>4. /\ \A s \in FrameSet : packet'[s] = packet[s]
        /\ Holding => packet'[current] = packet[current]
    BY <2>1, <2>2, <2>3 DEF SceneTypes
  <2>5. ~Hears' /\ (Busy' => Busy)
    <3>1. CASE RequestEnvironment BY <3>1 DEF RequestEnvironment, AtLoop, Busy, Hears
    <3>2. CASE ShutdownSubmit
      <4>1. call'.op = "shutdown" BY <3>2 DEF ShutdownSubmit, After, CallType, Calling
      <4> QED BY <4>1 DEF Busy, Hears
    <3> QED BY <1>14, <3>1, <3>2
  <2> QED BY <1>1, <2>1, <2>2, <2>4, <2>5 DEF Undisturbed
<1>15. CASE ShutdownTake
  <2>1. Idling /\ TryTakeCommand /\ call'.at = "stop" /\ call'.op = call.op /\ call'.turn = call.turn
        /\ call.at = "take"
    BY <1>15 DEF ShutdownTake, CallType, Calling
  <2> QED BY <1>2, <2>1, SameIsUndisturbed DEF Busy, Hears
<1>16. CASE CollectCommand \/ CollectFrame BY <1>16, CollectingIsSteady
<1>17. RenderBegin \/ CaptureBegin \/ EndBegin \/ ShutdownBegin => UNCHANGED vars
  BY DEF RenderBegin, CaptureBegin, EndBegin, ShutdownBegin
<1> QED BY <1>7, <1>8, <1>9, <1>10, <1>11, <1>12, <1>13, <1>14, <1>15, <1>16, <1>17
        DEF Host, HostStep

-----------------------------------------------------------------------------
\* No frame that waits asks for the same as the last one without making the swapchain anew.
NoneAlike == \A s \in FrameSet : packet[s] # last

(* As long as the swapchain has another size than the last frame asked for, a frame that makes
   it anew comes before the third one that asks for the same: after one undisturbed frame ... *)
OneMayFollow ==
    \/ Holding /\ packet[current] # last
    \/ Holding /\ (IF FrameSet = {} THEN SureDebt ELSE NoneAlike)
    \/ ~Holding /\ Debt
    \/ ~Holding /\ FrameSet # {} /\ NoneAlike
    \/ ~Holding /\ \E s \in FrameSet : packet[s].work = "capture"
\* ... and after two.
NoneMayFollow ==
    \/ Holding /\ packet[current] # last
    \/ ~Holding /\ (IF FrameSet = {} THEN SureDebt ELSE NoneAlike)
SizeInv ==
    swapchain # last.size =>
        (calm = 1 => OneMayFollow) /\ (calm = 2 => NoneMayFollow) /\ calm # 3

PackedInv ==
    /\ \A s \in FrameSet : packet[s].work \in {"frame", "capture"}
    /\ Holding => packet[current].work \in {"frame", "capture"}
    /\ \A s, t \in FrameSet : packet[s].work = "frame" /\ packet[t].work = "frame" => s = t
LastInv == calm # 0 => last.work = "frame" /\ ~last.recreate
GateInv == Busy => FrameSet = {}

\* The shutdown has submitted its release.
Over == call.op = "shutdown" /\ call.at \in LastPlaces \cup {"returned"}
OverInv ==
    /\ Over => FrameSet = {} /\ ~Holding
    /\ \A s \in Tasks : packet[s].work = "release" => Over
    /\ call.op = "shutdown" /\ call.at = "returned" => phase = "closed"
ExactInv == calm = 3 => exact
ShownInv == Over \/ (SizeInv /\ ContentInv)

LEMMA SteadyKeeps ==
    ASSUME QueueTypes, Places, Hands, PictureTypes, GateInv, SizeInv, ContentInv, Steady
    PROVE  SizeInv' /\ ContentInv'
<1>1. ContentInv' BY DEF Steady, ContentInv, Shows, Coming, Open
<1>2. /\ last' = last /\ calm' = calm /\ swapchain' = swapchain
      /\ FrameSet' = FrameSet /\ (Holding' <=> Holding)
      /\ (Holding => packet'[current'] = packet[current])
      /\ \A s \in FrameSet : packet'[s] = packet[s]
      /\ Debt => Debt'
  BY DEF Steady
<1>3. NoneAlike' <=> NoneAlike BY <1>2 DEF NoneAlike
<1>4. SureDebt => SureDebt' BY DEF Steady, SureDebt
<1>5. OneMayFollow => OneMayFollow' BY <1>2, <1>3, <1>4 DEF OneMayFollow
<1>6. NoneMayFollow => NoneMayFollow' BY <1>2, <1>3, <1>4 DEF NoneMayFollow
<1> QED BY <1>1, <1>2, <1>5, <1>6 DEF SizeInv

LEMMA SteadyKeepsRest ==
    ASSUME PackedInv, LastInv, GateInv, ExactInv, Steady
    PROVE  PackedInv' /\ LastInv' /\ GateInv' /\ ExactInv'
<1>1. PackedInv' BY DEF PackedInv, Steady
<1>2. LastInv' /\ GateInv' /\ ExactInv' BY DEF LastInv, GateInv, ExactInv, Steady
<1> QED BY <1>1, <1>2

(* A frame is submitted: the one of the loop carries the recreation that was remembered. *)
LEMMA SubmitsKeep ==
    ASSUME QueueTypes, Places, Hands, SceneTypes, PictureTypes, CallType, PackedInv, LastInv, GateInv,
           ExactInv, RenderSubmit \/ CaptureSubmit
    PROVE  /\ PackedInv' /\ LastInv' /\ GateInv' /\ ExactInv'
           /\ ContentInv => ContentInv'
           /\ SizeInv => SizeInv'
<1> DEFINE n == accepted + 1
<1>1. /\ n \in Tasks /\ n \notin FrameSet /\ n # current
      /\ FrameSet' = FrameSet \cup {n}
      /\ (Holding' <=> Holding) /\ UNCHANGED <<current, completedFrames>>
  <2>1. "replaceable" \in FrameKinds /\ "required" \in FrameKinds BY DEF FrameKinds
  <2> QED BY <2>1, FrameJoins DEF RenderSubmit, CaptureSubmit
<1>2. FrameSet \subseteq Tasks /\ (Holding => current \in Tasks) BY FramesElsewhere
<1>3. UNCHANGED <<last, calm, exact, swapchain, uploads, mirrors, material, needs>> /\ pendingRecreate' = FALSE
  BY DEF RenderSubmit, CaptureSubmit, Submitted, gpu
<1>4. /\ \A s \in Tasks \ {n} : packet'[s] = packet[s]
      /\ RenderSubmit => packet'[n].work = "frame" /\ (pendingRecreate => packet'[n].recreate)
      /\ CaptureSubmit => packet'[n].work = "capture"
  BY <1>1 DEF RenderSubmit, CaptureSubmit, Submitted, Captured, SceneTypes
<1>5. /\ RenderSubmit => Hears /\ FrameSet = {}
      /\ ~Busy' /\ ~Hears'
  <2>1. CASE RenderSubmit
    <3>1. Hears BY <2>1 DEF RenderSubmit, After, Hears, Busy
    <3>2. call'.at = "returned" BY <2>1 DEF RenderSubmit, Answers, NoCall
    <3> QED BY <2>1, <3>1, <3>2 DEF GateInv, Hears, Busy, CaptureSubmit, RenderSubmit, After
  <2>2. CASE CaptureSubmit /\ ~RenderSubmit
    <3>1. call'.op = "capture" BY <2>2 DEF CaptureSubmit, After, CallType, Calling
    <3> QED BY <2>2, <3>1 DEF Hears, Busy
  <2> QED BY <2>1, <2>2
<1> HIDE DEF n
<1>6. PackedInv'
  <2>1. \A s \in FrameSet' : packet'[s].work \in {"frame", "capture"}
    BY <1>1, <1>2, <1>4 DEF PackedInv
  <2>2. Holding' => packet'[current'].work \in {"frame", "capture"}
    BY <1>1, <1>2, <1>4 DEF PackedInv
  <2>3. ASSUME NEW s \in FrameSet', NEW t \in FrameSet', packet'[s].work = "frame", packet'[t].work = "frame"
        PROVE  s = t
    BY <1>1, <1>2, <1>4, <1>5, <2>3 DEF PackedInv
  <2> QED BY <2>1, <2>2, <2>3 DEF PackedInv
<1>7. LastInv' /\ GateInv' /\ ExactInv' BY <1>3, <1>5 DEF LastInv, GateInv, ExactInv
<1>8. ContentInv => ContentInv' BY <1>3 DEF ContentInv, Shows, Coming, Open
<1>9. ASSUME SizeInv, swapchain # last.size, calm # 0
      PROVE  (calm = 1 => OneMayFollow') /\ (calm = 2 => NoneMayFollow') /\ calm # 3
  <2>1. last.work = "frame" /\ ~last.recreate BY <1>9 DEF LastInv
  <2>2. (NoneAlike /\ FrameSet # {}) \/ pendingRecreate \/ CaptureSubmit =>
            (NoneAlike \/ FrameSet = {} => NoneAlike')
    BY <1>1, <1>2, <1>3, <1>4, <1>5, <2>1 DEF NoneAlike
  <2>4. FrameSet' # {} BY <1>1
  <2>5. CASE Holding /\ packet[current] # last
    <3>1. Holding' /\ packet'[current'] # last' BY <1>1, <1>2, <1>3, <1>4, <2>5
    <3> QED BY <1>9, <3>1 DEF SizeInv, OneMayFollow, NoneMayFollow
  <2>6. CASE ~(Holding /\ packet[current] # last) /\ IF FrameSet = {} THEN SureDebt ELSE NoneAlike
    <3>1. NoneAlike' BY <1>4, <1>5, <2>2, <2>6 DEF SureDebt
    <3>2. OneMayFollow' BY <1>1, <2>4, <3>1 DEF OneMayFollow
    <3>3. ~Holding => NoneMayFollow' BY <1>1, <2>4, <3>1 DEF NoneMayFollow
    <3>4. calm = 2 => ~Holding BY <1>9, <2>6 DEF SizeInv, NoneMayFollow
    <3> QED BY <1>9, <3>2, <3>3, <3>4 DEF SizeInv
  <2>7. CASE ~Holding /\ Debt /\ calm = 1
    <3>1. CASE pendingRecreate /\ RenderSubmit
      BY <1>1, <1>5, <2>2, <2>4, <2>7, <3>1 DEF OneMayFollow
    <3>2. CASE CaptureSubmit BY <1>1, <1>4, <2>7, <3>2 DEF OneMayFollow
    <3>3. CASE ~pendingRecreate
      <4>1. Debt' BY <1>1, <1>3, <2>7, <3>3 DEF Debt
      <4> QED BY <1>1, <2>7, <4>1 DEF OneMayFollow
    <3> QED BY <3>1, <3>2, <3>3
  <2>8. CASE ~Holding /\ calm = 1 /\ \E s \in FrameSet : packet[s].work = "capture"
    <3>1. \E s \in FrameSet' : packet'[s].work = "capture" BY <1>1, <1>2, <1>4, <2>8
    <3> QED BY <1>1, <2>8, <3>1 DEF OneMayFollow
  <2> QED BY <1>9, <2>5, <2>6, <2>7, <2>8 DEF SizeInv, OneMayFollow, NoneMayFollow, PictureTypes
<1>10. SizeInv => SizeInv'
  <2>1. swapchain' = swapchain /\ last' = last /\ calm' = calm BY <1>3
  <2> QED BY <1>9, <2>1 DEF SizeInv
<1> QED BY <1>6, <1>7, <1>8, <1>10

LEMMA FrameBeginsKeeps ==
    ASSUME QueueTypes, Places, Hands, PictureTypes, PackedInv, LastInv, GateInv, ExactInv,
           ExecutorStep, TakeWork, Holding'
    PROVE  /\ PackedInv' /\ LastInv' /\ GateInv' /\ ExactInv'
           /\ ContentInv => ContentInv'
           /\ SizeInv => SizeInv'
<1>1. UNCHANGED <<last, calm, exact, swapchain, uploads, mirrors, material, packet, needs,
                  pendingRecreate, call>>
  BY DEF ExecutorStep, service, gpu, work, inbox
<1>2. /\ FrameSet = FrameSet' \cup {current'} /\ current' \notin FrameSet'
      /\ ~Holding /\ completedFrames' = completedFrames
  <2>1. /\ \A s : Contains(pending, s) <=> Contains(pending', s) \/ s = current'
        /\ ~Contains(pending', current') /\ current' \in 1 .. accepted
    BY TakeWorkQueue
  <2>2. IsFrame(current') /\ UNCHANGED <<kind, accepted, completedFrames>> /\ ~Holding
    BY DEF TakeWork, Holding, receipts
  <2> QED BY <2>1, <2>2 DEF FrameSet, Waiting, IsFrame
<1>3. PackedInv' BY <1>1, <1>2 DEF PackedInv
<1>4. LastInv' /\ ExactInv' /\ GateInv' BY <1>1, <1>2 DEF LastInv, ExactInv, GateInv, Busy
<1>5. ContentInv => ContentInv' BY <1>1 DEF ContentInv, Shows, Coming, Open
<1>6. ~Hears' /\ (Debt => SureDebt')
  <2>1. ~Busy BY <1>2 DEF GateInv
  <2> QED BY <1>1, <1>2, <2>1 DEF Hears, Busy, Debt, SureDebt
<1>7. ASSUME SizeInv, swapchain # last.size, calm # 0
      PROVE  (calm = 1 => OneMayFollow') /\ (calm = 2 => NoneMayFollow') /\ calm # 3
  <2>1. FrameSet # {} /\ current' \in FrameSet BY <1>2
  <2>2. NoneAlike => packet'[current'] # last' BY <1>1, <2>1 DEF NoneAlike
  <2>3. CASE calm = 2 BY <1>2, <1>7, <2>1, <2>2, <2>3 DEF SizeInv, NoneMayFollow
  <2>4. CASE calm = 1 /\ packet'[current'] = last'
    <3>1. packet[current'].work = "frame" BY <1>1, <1>7, <2>4 DEF LastInv
    <3>2. ASSUME NEW s \in FrameSet', packet[s] = last PROVE FALSE
      <4>1. packet[s].work = "frame" BY <1>7, <3>2 DEF LastInv
      <4> QED BY <1>2, <2>1, <3>1, <4>1 DEF PackedInv
    <3>3. NoneAlike' BY <1>1, <3>2 DEF NoneAlike
    <3>4. CASE Debt
      <4>1. SureDebt' BY <1>6, <3>4
      <4>2. (IF FrameSet = {} THEN SureDebt ELSE NoneAlike)' BY <3>3, <4>1
      <4> QED BY <2>4, <4>2 DEF OneMayFollow
    <3>5. CASE ~Debt
      <4>1. \E s \in FrameSet : packet[s].work = "capture"
        BY <1>2, <1>7, <2>2, <2>4, <3>5 DEF SizeInv, OneMayFollow
      <4>2. FrameSet' # {} BY <1>2, <3>1, <4>1
      <4> QED BY <2>4, <3>3, <4>2 DEF OneMayFollow
    <3> QED BY <2>4, <3>4, <3>5
  <2>5. CASE calm = 1 /\ packet'[current'] # last' BY <2>5 DEF OneMayFollow
  <2> QED BY <1>7, <2>3, <2>4, <2>5 DEF PictureTypes, SizeInv
<1>8. SizeInv => SizeInv'
  <2>1. swapchain' = swapchain /\ last' = last /\ calm' = calm BY <1>1
  <2> QED BY <1>7, <2>1 DEF SizeInv
<1> QED BY <1>3, <1>4, <1>5, <1>8

LEMMA PrepareTypes ==
    ASSUME GpuTypes, NEW p \in Packet, NEW faults, Prepare(p, faults) PROVE GpuTypes'
<1>1. \A t \in Textures : KeptUpload(p, t) \in Upload /\ NoMirror \in Mirror
  BY DEF GpuTypes, KeptUpload, NoUpload, NoMirror, Upload, Mirror
<1>2. CASE p.scene = Hidden BY <1>1, <1>2 DEF Prepare, GpuTypes
<1>3. CASE p.scene # Hidden
  <2>1. p.scene \in Textures BY <1>3 DEF Packet, Scenes
  <2>2. PICK r \in Refreshes(p) :
          /\ uploads' = [t \in Textures |-> IF t = p.scene THEN r.upload ELSE KeptUpload(p, t)]
          /\ mirrors' = [t \in Textures |-> IF t = p.scene THEN r.mirror ELSE NoMirror]
    BY <1>3 DEF Prepare
  <2>3. r.upload \in Upload /\ r.mirror \in Mirror BY <2>1, RefreshCases
  <2> QED BY <1>1, <2>2, <2>3 DEF GpuTypes
<1> QED BY <1>2, <1>3

(* A frame has run. *)
LEMMA FrameEndsKeeps ==
    ASSUME QueueTypes, Places, Hands, SceneTypes, PictureTypes, GpuTypes, PackedInv, LastInv, GateInv,
           ExactInv, SizeInv, ContentInv, RunFrame
    PROVE  /\ PictureTypes' /\ GpuTypes'
           /\ PackedInv' /\ LastInv' /\ GateInv' /\ ExactInv' /\ ContentInv' /\ SizeInv'
<1> DEFINE p == packet[current]
           size == IF p.recreate THEN p.size ELSE swapchain
<1>1. /\ Holding /\ ~Holding' /\ FrameSet' = FrameSet /\ current \in Tasks
      /\ Contains(completedFrames', current)
      /\ UNCHANGED <<call, packet, pendingRecreate>>
  <2>1. /\ Contains(completedFrames', current) /\ current \in Tasks
    BY FinishFrameQueue, FramesElsewhere DEF RunFrame, FinishFrame, Holding
  <2> QED BY <2>1 DEF RunFrame, FinishFrame, Finished, Holding, FrameSet, Waiting, IsFrame, queues,
                   inbox
<1>2. p \in Packet /\ p.work \in {"frame", "capture"} BY <1>1 DEF SceneTypes, PackedInv
<1>3. PackedInv' /\ GateInv' BY <1>1 DEF PackedInv, GateInv, Busy
<1>4. ASSUME calm' = 0 PROVE LastInv' /\ ExactInv' /\ ContentInv' /\ SizeInv'
  BY <1>4 DEF LastInv, ExactInv, ContentInv, SizeInv
<1>5. CASE RecreateFails(current)
  <2>1. calm' = 0 /\ UNCHANGED <<uploads, mirrors, last>> BY <1>5 DEF RecreateFails
  <2>2. PictureTypes' /\ GpuTypes' BY <2>1 DEF PictureTypes, GpuTypes
  <2> QED BY <1>3, <1>4, <2>1, <2>2
<1>6. CASE ExecuteFrame(current)
  <2>1. PICK end \in Ends(p, size), faults \in 0 .. 3 :
          /\ Prepare(p, faults)
          /\ needs' = [needs EXCEPT ![current] = end.recreate] /\ swapchain' = size
          /\ calm' = Calm(p, faults + end.faults)
          /\ IF p.work = "capture" THEN UNCHANGED <<last, exact>>
             ELSE last' = [p EXCEPT !.recreate = FALSE] /\ exact' = (end.shown /\ Pictured(p))
    BY <1>6 DEF ExecuteFrame, Ran
  <2> HIDE DEF p, size
  <2>2. GpuTypes' BY <1>2, <2>1, PrepareTypes
  <2>3. end.faults \in {0, 1} BY DEF Ends
  <2>4. calm' \in 0 .. 3 BY <2>1 DEF Calm, Settling, PictureTypes
  <2>5. last' \in Packet BY <1>2, <2>1 DEF PictureTypes, Packet
  <2>6. PictureTypes' BY <2>4, <2>5 DEF PictureTypes
  <2>7. CASE p.work = "capture" \/ faults # 0 \/ end.faults # 0
    <3>1. faults + end.faults # 0 \/ p.work = "capture" BY <2>3, <2>7
    <3>2. calm' = 0 BY <2>1, <3>1 DEF Calm
    <3> QED BY <1>3, <1>4, <2>2, <2>6, <3>2
  <2>8. CASE p.work = "frame" /\ faults = 0 /\ end.faults = 0
    <3>1. /\ end.recreate = (p.size # size) /\ end.shown = (p.size = size)
      BY <2>8 DEF Ends
    <3>2. /\ Prepare(p, 0) /\ calm' = Calm(p, 0) /\ last' = [p EXCEPT !.recreate = FALSE]
          /\ exact' = (end.shown /\ Pictured(p)) /\ p.work # "capture"
      BY <2>1, <2>8
    <3>3. ContentInv' /\ (calm' = 3 => Pictured(p)) BY <1>2, <3>2, ContentStep
    <3>4. LastInv' BY <1>2, <2>8, <3>2 DEF LastInv, Packet
    <3>5. last'.size = p.size BY <1>2, <3>2 DEF Packet
    <3>6. ASSUME swapchain' # last'.size
          PROVE  (calm' = 1 => OneMayFollow') /\ (calm' = 2 => NoneMayFollow') /\ calm' # 3
      <4>1. p.size # size /\ ~p.recreate /\ size = swapchain BY <2>1, <3>5, <3>6 DEF size
      <4>2. needs'[current] = TRUE BY <1>1, <2>1, <3>1, <4>1 DEF SceneTypes
      <4>3. Debt' BY <1>1, <4>2 DEF Debt
      <4>4. p = [p EXCEPT !.recreate = FALSE] BY <1>2, <4>1 DEF Packet
      <4>5. CASE p # last
        <5>1. [p EXCEPT !.recreate = FALSE] # last BY <4>4, <4>5
        <5>2. calm' \in {0, 1} BY <3>2, <5>1 DEF Calm, Settling
        <5> QED BY <1>1, <4>3, <5>2 DEF OneMayFollow
      <4>6. CASE p = last
        <5>1. swapchain # last.size /\ packet[current] = last BY <4>1, <4>6 DEF p
        <5>2. calm # 3 /\ calm # 2 BY <1>1, <5>1 DEF SizeInv, NoneMayFollow
        <5>3. calm' \in {0, 1, 2} /\ (calm' = 2 => calm = 1)
          BY <3>2, <4>4, <4>6, <5>2 DEF Calm, Settling, PictureTypes
        <5>4. ASSUME calm' = 2 PROVE NoneMayFollow'
          <6>1. IF FrameSet = {} THEN SureDebt ELSE NoneAlike
            BY <1>1, <5>1, <5>3, <5>4 DEF SizeInv, OneMayFollow
          <6>2. NoneAlike => NoneAlike' BY <1>1, <3>2, <4>4, <4>6 DEF NoneAlike
          <6>3. SureDebt => SureDebt' BY <1>1, <4>3 DEF SureDebt, Hears, Busy
          <6> QED BY <1>1, <6>1, <6>2, <6>3 DEF NoneMayFollow
        <5> QED BY <1>1, <4>3, <5>3, <5>4 DEF OneMayFollow
      <4> QED BY <4>5, <4>6
    <3>7. SizeInv' BY <3>6 DEF SizeInv
    <3>8. ExactInv'
      <4>1. calm' = 3 => size = p.size BY <2>1, <3>5, <3>6
      <4> QED BY <3>1, <3>2, <3>3, <4>1 DEF ExactInv
    <3> QED BY <1>3, <2>2, <2>6, <3>3, <3>4, <3>7, <3>8
  <2> QED BY <1>2, <2>7, <2>8
<1> QED BY <1>5, <1>6 DEF RunFrame

-----------------------------------------------------------------------------
(* Once the release is submitted the shutdown never goes back. *)
LEMMA OverStep ==
    ASSUME CallType, CallsInOrder, OverInv, Host
    PROVE  /\ Over => Over'
           /\ Over' => Over \/ ShutdownSubmit
           /\ ShutdownSubmit => Over'
           /\ call'.op = "shutdown" /\ call'.at = "returned" => phase' = "closed"
<1> USE DEF CallType, Calling, Over, LastPlaces
<1>1. Over => phase # "running" /\ (call.at = "returned" => phase = "closed")
  BY DEF CallsInOrder, OverInv
<1>2. CASE RenderBegin \/ CaptureBegin \/ EndBegin \/ ShutdownBegin
  BY <1>1, <1>2 DEF RenderBegin, CaptureBegin, EndBegin, ShutdownBegin, AtLoop, Enters, NoCall, ShutdownSubmit, After
<1>3. CASE RequestEnvironment
  BY <1>1, <1>3 DEF RequestEnvironment, OverInv, AtLoop, ShutdownSubmit, After
<1>4. CASE CollectCommand \/ CollectFrame
  BY <1>4 DEF CollectCommand, CollectFrame, Receive, ShutdownSubmit, After
<1>5. CASE CommandsDone \/ FramesDone \/ FinishAgain
  BY <1>5 DEF CommandsDone, FramesDone, FinishAgain, Finishing, After, Goes, ShutdownSubmit
<1>6. CASE RenderGate \/ RenderSubmit \/ EndDone \/ RenderFails
  BY <1>6 DEF RenderGate, RenderSubmit, EndDone, RenderFails, After, Answers, NoCall, ShutdownSubmit
<1>7. CASE CaptureSubmit BY <1>7 DEF CaptureSubmit, After, ShutdownSubmit
<1>8. CASE CaptureFails \/ CaptureDone
  BY <1>8 DEF CaptureFails, CaptureDone, CaptureAnswers, After, NoCall, ShutdownSubmit
<1>9. CASE Flush BY <1>9 DEF Flush, Goes, ShutdownSubmit, After
<1>10. CASE ShutdownFlush \/ ShutdownStop
  BY <1>10 DEF ShutdownFlush, ShutdownStop, Goes, CallsInOrder, ShutdownSubmit, After
<1>11. CASE ShutdownSubmit BY <1>11 DEF ShutdownSubmit, After
<1>12. CASE ShutdownTake BY <1>12 DEF ShutdownTake, CallsInOrder, ShutdownSubmit, After
<1>13. CASE ShutdownDone
  <2>1. /\ call.at = "stopping" /\ call.op = "shutdown" /\ phase' = "closed"
        /\ call'.at = "returned" /\ call'.op = "shutdown"
    BY <1>13 DEF ShutdownDone, CallsInOrder, Answers, NoCall
  <2> QED BY <2>1 DEF ShutdownSubmit, After
<1> QED
  BY <1>2, <1>3, <1>4, <1>5, <1>6, <1>7, <1>8, <1>9, <1>10, <1>11, <1>12, <1>13
  DEF Host, HostStep

(* The packets and what the host sees keep their types, and no release is packed before that. *)
LEMMA PacketsKept ==
    ASSUME QueueTypes, SceneTypes, CallType, Host
    PROVE  /\ SceneTypes'
           /\ \A s \in Tasks : packet'[s].work = "release" => packet[s].work = "release" \/ ShutdownSubmit
<1> DEFINE Kept == UNCHANGED <<scene, version, window, pendingRecreate, needs, packet>>
<1>1. ASSUME Kept
      PROVE  /\ SceneTypes'
             /\ \A s \in Tasks : packet'[s].work = "release" => packet[s].work = "release" \/ ShutdownSubmit
  BY <1>1 DEF SceneTypes
<1>2. NoPacket \in Packet /\ NoPacket.work = "none" BY DEF NoPacket, Packet, Works, Scenes
<1>3. ASSUME NEW s \in Tasks, Receive(s), UNCHANGED <<scene, version, window>>,
             pendingRecreate' \in BOOLEAN
      PROVE  /\ SceneTypes'
             /\ \A t \in Tasks : packet'[t].work = "release" => packet[t].work = "release" \/ ShutdownSubmit
  <2>1. packet' = [packet EXCEPT ![s] = NoPacket] /\ needs' = [needs EXCEPT ![s] = FALSE]
    BY <1>3 DEF Receive
  <2> QED BY <1>2, <1>3, <2>1 DEF SceneTypes
<1>4. CASE CollectCommand
  BY <1>3, <1>4, TaskOf DEF CollectCommand, TryTakeCommand, content, inbox, SceneTypes
<1>5. CASE CollectFrame
  <2>1. Head(completedFrames) \in Tasks BY <1>5, TaskOf DEF CollectFrame, TryTakeFrame
  <2>2. pendingRecreate' \in BOOLEAN BY <1>5, <2>1 DEF CollectFrame, RecreateRemembered, SceneTypes
  <2> QED BY <1>3, <1>5, <2>1, <2>2 DEF CollectFrame, content
<1>6. ASSUME NEW how \in Packet, accepted + 1 \in Tasks, packet' = [packet EXCEPT ![accepted + 1] = how],
             UNCHANGED <<scene, version, needs>>, pendingRecreate' \in BOOLEAN,
             window' \in [size : Nat, recreate : BOOLEAN], how.work = "release" => ShutdownSubmit
      PROVE  /\ SceneTypes'
             /\ \A t \in Tasks : packet'[t].work = "release" => packet[t].work = "release" \/ ShutdownSubmit
  BY <1>6 DEF SceneTypes
<1>7. \A policy : SubmitFrame(policy) \/ SubmitCommand(policy) => accepted + 1 \in Tasks
  BY ExecutorAssumption DEF SubmitFrame, SubmitCommand, Accept, QueueTypes, Tasks, ExecutorAssumption
<1>8. \A w \in Works : [NoPacket EXCEPT !.work = w] \in Packet /\ [NoPacket EXCEPT !.work = w].work = w
  BY DEF Packet, NoPacket, Scenes
<1>9. \A w \in Works, size \in Nat, recreate \in BOOLEAN :
          Captured(w, size, recreate) \in Packet /\ Captured(w, size, recreate).work = w
  <2>1. (IF scene = Hidden THEN 0 ELSE version[scene]) \in Nat BY DEF SceneTypes, Scenes
  <2> QED BY <2>1 DEF Captured, Packet, SceneTypes
<1>10. CASE RequestEnvironment
  <2>1. "environment" \in Works BY DEF Works
  <2> QED BY <1>6, <1>7, <1>8, <1>10, <2>1 DEF RequestEnvironment, inbox, SceneTypes
<1>11. CASE ShutdownSubmit
  <2>1. "release" \in Works BY DEF Works
  <2> QED BY <1>6, <1>7, <1>8, <1>11, <2>1 DEF ShutdownSubmit, inbox, content, SceneTypes
<1>12. CASE RenderSubmit
  <2>1. "frame" \in Works /\ window.size \in Nat /\ (window.recreate \/ pendingRecreate) \in BOOLEAN
    BY DEF Works, SceneTypes
  <2>2. Captured("frame", window.size, window.recreate \/ pendingRecreate) \in Packet
    BY <1>9, <2>1
  <2>3. window' \in [size : Nat, recreate : BOOLEAN] BY <1>12 DEF RenderSubmit, SceneTypes
  <2>4. Captured("frame", window.size, window.recreate \/ pendingRecreate).work # "release"
    BY DEF Captured
  <2> QED BY <1>6, <1>7, <1>12, <2>2, <2>3, <2>4 DEF RenderSubmit, Submitted
<1>13. CASE CaptureSubmit
  <2>1. "capture" \in Works /\ CaptureSize \in Nat /\ (FALSE \/ pendingRecreate) \in BOOLEAN
    BY DEF Works, SceneTypes, CaptureSize
  <2>2. Captured("capture", CaptureSize, FALSE \/ pendingRecreate) \in Packet
    BY <1>9, <2>1
  <2>4. Captured("capture", CaptureSize, FALSE \/ pendingRecreate).work # "release"
    BY DEF Captured
  <2> QED BY <1>6, <1>7, <1>13, <2>2, <2>4 DEF CaptureSubmit, Submitted, content, SceneTypes
<1>14. CASE CaptureBegin BY <1>1, <1>14 DEF CaptureBegin, inbox, work
<1>15. CASE Host /\ ~CollectCommand /\ ~CollectFrame /\ ~RequestEnvironment /\ ~ShutdownSubmit
            /\ ~RenderSubmit /\ ~CaptureSubmit /\ ~CaptureBegin
  <2>1. RenderBegin \/ EndBegin \/ ShutdownBegin => Kept
    BY DEF RenderBegin, EndBegin, ShutdownBegin, Idling, content, inbox, work
  <2>2. CommandsDone \/ FramesDone \/ RenderGate \/ RenderFails \/ Flush \/ FinishAgain \/ EndDone => Kept
    BY DEF CommandsDone, FramesDone, RenderGate, RenderFails, Flush, FinishAgain, EndDone, Idling,
           content, inbox, work
  <2>3. CaptureFails \/ CaptureDone \/ ShutdownFlush \/ ShutdownTake \/ ShutdownStop \/ ShutdownDone => Kept
    BY DEF CaptureFails, CaptureDone, CaptureAnswers, ShutdownFlush, ShutdownTake, ShutdownStop,
           ShutdownDone, Idling, content, inbox, work
  <2> HIDE DEF Kept
  <2> QED BY <1>1, <1>15, <2>1, <2>2, <2>3 DEF Host, HostStep
<1> QED BY <1>4, <1>5, <1>10, <1>11, <1>12, <1>13, <1>14, <1>15

PictureInv ==
    SceneTypes /\ PictureTypes /\ GpuTypes /\ PackedInv /\ LastInv /\ GateInv /\ ExactInv /\ OverInv
    /\ ShownInv

LEMMA SteadyTypes ==
    ASSUME PictureTypes, GpuTypes, Steady PROVE PictureTypes' /\ GpuTypes'
BY DEF PictureTypes, GpuTypes, Steady

LEMMA PictureHostStep ==
    ASSUME ExecutorInv, AnswersInv, PictureInv, Host PROVE PictureInv'
<1> USE DEF ExecutorInv, AnswersInv, PictureInv
<1>1. SceneTypes' BY PacketsKept
<1>2. CASE RenderSubmit \/ CaptureSubmit
  <2>1. ~Over /\ ~ShutdownSubmit
    BY <1>2 DEF RenderSubmit, CaptureSubmit, ShutdownSubmit, After, Over
  <2>2. ~Over' /\ (call'.op = "shutdown" /\ call'.at = "returned" => phase' = "closed")
    BY <2>1, OverStep
  <2>3. \A s \in Tasks : packet'[s].work # "release" BY <2>1, PacketsKept DEF OverInv
  <2>4. OverInv' BY <2>2, <2>3 DEF OverInv
  <2>5. ShownInv' BY <1>2, <2>1, SubmitsKeep DEF ShownInv
  <2>6. UNCHANGED <<last, calm, uploads, mirrors>> BY <1>2 DEF RenderSubmit, CaptureSubmit, gpu
  <2>7. PictureTypes' /\ GpuTypes' BY <2>6 DEF PictureTypes, GpuTypes
  <2>8. PackedInv' /\ LastInv' /\ GateInv' /\ ExactInv' BY <1>2, SubmitsKeep
  <2> QED BY <1>1, <2>4, <2>5, <2>7, <2>8
<1>3. CASE ~RenderSubmit /\ ~CaptureSubmit
  <2>1. Steady BY <1>3, CallingIsSteady
  <2>2. PackedInv' /\ LastInv' /\ GateInv' /\ ExactInv' BY <2>1, SteadyKeepsRest
  <2>3. PictureTypes' /\ GpuTypes' BY <2>1, SteadyTypes
  <2>4. /\ Over => Over'
        /\ Over' => Over \/ ShutdownSubmit
        /\ ShutdownSubmit => Over'
        /\ call'.op = "shutdown" /\ call'.at = "returned" => phase' = "closed"
    BY OverStep
  <2>5. ShownInv' BY <2>1, <2>4, SteadyKeeps DEF ShownInv
  <2>6. ShutdownSubmit => FrameSet = {} /\ ~Holding
    <3> SUFFICES ASSUME ShutdownSubmit PROVE FrameSet = {} /\ ~Holding OBVIOUS
    <3>1. Silent BY DEF ShutdownSubmit, After, ShutdownOK
    <3> QED BY <3>1 DEF Silent, FrameSet, Waiting, Contains, Holding, Hands
  <2>7. Over' => FrameSet' = {} /\ ~Holding' BY <2>1, <2>4, <2>6 DEF OverInv, Steady
  <2>8. \A s \in Tasks : packet'[s].work = "release" => Over' BY <2>4, PacketsKept DEF OverInv
  <2>9. OverInv' BY <2>4, <2>7, <2>8 DEF OverInv
  <2> QED BY <1>1, <2>2, <2>3, <2>5, <2>9
<1> QED BY <1>2, <1>3

LEMMA EndField ==
    ASSUME NEW a, NEW b \in BOOLEAN, NEW c, NEW d
    PROVE  [status |-> a, recreate |-> b, shown |-> c, faults |-> d].recreate \in BOOLEAN
OBVIOUS

\* Whether a frame owes a recreation is said, however it ends.
LEMMA EndsTypes ==
    ASSUME NEW p, NEW size
    PROVE  \A end \in Ends(p, size) : end.recreate \in BOOLEAN
<1> DEFINE fits == p.size = size
           tall == p.work = "frame" /\ ~fits
           wide == ~fits
           E(status, recreate, shown, faults) ==
               [status |-> status, recreate |-> recreate, shown |-> shown, faults |-> faults]
<1>1. tall \in BOOLEAN /\ wide \in BOOLEAN OBVIOUS
<1>2. Ends(p, size) \subseteq {E("failed", tall, FALSE, 1), E("late", FALSE, FALSE, 1),
          E("ok", FALSE, FALSE, 0), E("ok", wide, fits, 0), E("ok", TRUE, fits, 1),
          E("ok", TRUE, FALSE, 1)}
  BY Zenon DEF Ends
<1> HIDE DEF tall, wide, fits
<1>3. /\ E("failed", tall, FALSE, 1).recreate \in BOOLEAN
      /\ E("late", FALSE, FALSE, 1).recreate \in BOOLEAN
      /\ E("ok", FALSE, FALSE, 0).recreate \in BOOLEAN
      /\ E("ok", wide, fits, 0).recreate \in BOOLEAN
      /\ E("ok", TRUE, fits, 1).recreate \in BOOLEAN
      /\ E("ok", TRUE, FALSE, 1).recreate \in BOOLEAN
  BY <1>1, EndField
<1> HIDE DEF E
<1> QED BY <1>2, <1>3, Zenon

LEMMA PictureThreadStep ==
    ASSUME ExecutorInv, AnswersInv, PictureInv,
           ExecutorStep \/ RunFrame \/ RunEnvironment \/ RunRelease
    PROVE  PictureInv'
<1> USE DEF ExecutorInv, PictureInv
<1>1. UNCHANGED <<call, phase, packet>>
  BY DEF ExecutorStep, service, work, RunFrame, RunEnvironment, RunRelease
<1>2. Over' <=> Over BY <1>1 DEF Over
<1>3. ASSUME Over => FrameSet' = {} /\ ~Holding' PROVE OverInv'
  BY <1>1, <1>2, <1>3 DEF OverInv
<1>4. UNCHANGED <<scene, version, window, pendingRecreate>>
  BY DEF ExecutorStep, service, content, inbox, RunFrame, RunEnvironment, RunRelease
<1>5. ASSUME needs' \in [Tasks -> BOOLEAN] PROVE SceneTypes'
  BY <1>1, <1>4, <1>5 DEF SceneTypes
<1>6. ASSUME Steady, needs' \in [Tasks -> BOOLEAN] PROVE PictureInv'
  <2>1. SceneTypes' BY <1>5, <1>6
  <2>2. PackedInv' /\ LastInv' /\ GateInv' /\ ExactInv' BY <1>6, SteadyKeepsRest
  <2>3. PictureTypes' /\ GpuTypes' BY <1>6, SteadyTypes
  <2>4. OverInv' BY <1>3, <1>6 DEF OverInv, Steady
  <2>5. ShownInv' BY <1>2, <1>6, SteadyKeeps DEF ShownInv
  <2> QED BY <2>1, <2>2, <2>3, <2>4, <2>5
<1>7. needs \in [Tasks -> BOOLEAN] BY DEF SceneTypes
<1>8. CASE ExecutorStep /\ ~(TakeWork /\ Holding')
  <2>1. Steady BY <1>8, ExecutorIsSteady
  <2>2. needs' = needs BY <1>8 DEF ExecutorStep, service, work
  <2> QED BY <1>6, <1>7, <2>1, <2>2
<1>9. CASE ExecutorStep /\ TakeWork /\ Holding'
  <2>1. UNCHANGED <<needs, last, calm, uploads, mirrors>> BY <1>9 DEF ExecutorStep, service, work, gpu
  <2>2. ~Over
    <3>1. /\ Contains(pending, current') /\ current' \in 1 .. accepted
      BY <1>9, TakeWorkQueue
    <3>2. IsFrame(current') BY <1>9 DEF TakeWork, Holding
    <3>3. FrameSet # {} BY <3>1, <3>2 DEF FrameSet, Waiting
    <3> QED BY <3>3 DEF OverInv
  <2>3. SceneTypes' /\ OverInv' BY <1>3, <1>5, <1>7, <2>1, <2>2
  <2>4. PictureTypes' /\ GpuTypes' BY <2>1 DEF PictureTypes, GpuTypes
  <2>5. PackedInv' /\ LastInv' /\ GateInv' /\ ExactInv' BY <1>9, FrameBeginsKeeps
  <2>6. ShownInv' BY <1>9, <2>2, FrameBeginsKeeps DEF ShownInv
  <2> QED BY <2>3, <2>4, <2>5, <2>6
<1>10. CASE RunFrame
  <2>1. Holding BY <1>10 DEF RunFrame, FinishFrame, Holding
  <2>2. ~Over BY <2>1 DEF OverInv
  <2>3. SizeInv /\ ContentInv BY <2>2 DEF ShownInv
  <2>4. /\ PictureTypes' /\ GpuTypes'
        /\ PackedInv' /\ LastInv' /\ GateInv' /\ ExactInv' /\ ContentInv' /\ SizeInv'
    BY <1>10, <2>3, FrameEndsKeeps
  <2>5. needs' \in [Tasks -> BOOLEAN]
    <3>1. CASE RecreateFails(current) BY <1>7, <3>1 DEF RecreateFails, Ran
    <3>2. CASE ExecuteFrame(current)
      <4>1. PICK end \in Ends(packet[current], IF packet[current].recreate
                                               THEN packet[current].size ELSE swapchain) :
              needs' = [needs EXCEPT ![current] = end.recreate]
        BY <3>2 DEF ExecuteFrame, Ran
      <4>2. end.recreate \in BOOLEAN BY <4>1, EndsTypes
      <4> QED BY <1>7, <4>1, <4>2
    <3> QED BY <1>10, <3>1, <3>2 DEF RunFrame
  <2> QED BY <1>3, <1>5, <2>2, <2>4, <2>5 DEF ShownInv
<1>11. CASE RunEnvironment \/ RunRelease
  <2>1. /\ CompleteStatus /\ needs' = [needs EXCEPT ![current] = FALSE]
        /\ UNCHANGED <<last, calm, exact, swapchain>>
    BY <1>11 DEF RunEnvironment, RunRelease, Ran, gpu
  <2>2. Undisturbed /\ current \in Tasks /\ ~Contains(completedFrames, current)
    <3>1. workerPc = "command" BY <2>1 DEF CompleteStatus
    <3>2. current # 0 BY <3>1 DEF Hands
    <3> QED BY <2>1, <3>2, SameIsUndisturbed, TaskOf, FramesElsewhere
  <2>3. needs' \in [Tasks -> BOOLEAN] BY <1>7, <2>1
  <2>4. CASE RunEnvironment
    <3>1. UNCHANGED <<uploads, mirrors, material>> BY <2>4 DEF RunEnvironment, gpu
    <3>2. \A s \in Tasks : Contains(completedFrames, s) => needs'[s] = needs[s]
      BY <1>7, <2>1, <2>2
    <3>3. Debt => Debt' BY <1>4, <2>2, <3>2 DEF Debt, Undisturbed
    <3>4. (Hears' <=> Hears) /\ (Busy' <=> Busy) BY <1>1 DEF Hears, Busy
    <3>5. Steady BY <1>1, <1>4, <2>1, <2>2, <3>1, <3>3, <3>4 DEF Steady, Undisturbed
    <3> QED BY <1>6, <2>3, <3>5
  <2>5. CASE RunRelease
    <3>1. Over BY <2>2, <2>5 DEF RunRelease, OverInv
    <3>2. ShownInv' BY <1>2, <3>1 DEF ShownInv
    <3>3. OverInv' /\ SceneTypes' BY <1>3, <1>5, <2>2, <2>3 DEF OverInv, Undisturbed
    <3>4. PackedInv' /\ GateInv' BY <1>1, <2>2 DEF PackedInv, GateInv, Busy, Undisturbed
    <3>5. LastInv' /\ ExactInv' /\ PictureTypes' BY <2>1 DEF LastInv, ExactInv, PictureTypes
    <3>6. GpuTypes'
      <4>1. NoUpload \in Upload /\ NoMirror \in Mirror BY DEF NoUpload, NoMirror, Upload, Mirror
      <4> QED BY <2>5, <4>1 DEF RunRelease, GpuTypes
    <3> QED BY <3>2, <3>3, <3>4, <3>5, <3>6
  <2> QED BY <1>11, <2>4, <2>5
<1> QED BY <1>8, <1>9, <1>10, <1>11

LEMMA PictureOtherStep ==
    ASSUME PictureInv, Changes \/ (\E t \in Textures : UploadEnds(t)) \/ UNCHANGED serviceVars
    PROVE  PictureInv'
<1> USE DEF PictureInv
<1> DEFINE Same == UNCHANGED <<vars, call, phase, packet, needs, pendingRecreate, mirrors, material,
                               swapchain, last, exact>>
<1>1. ASSUME Same
      PROVE  /\ PackedInv' /\ GateInv' /\ OverInv' /\ (Over' <=> Over)
             /\ (OneMayFollow' <=> OneMayFollow) /\ (NoneMayFollow' <=> NoneMayFollow)
  <2>1. FrameSet' = FrameSet /\ (Holding' <=> Holding) BY <1>1 DEF vars, FrameSet, Waiting, IsFrame, Holding
  <2>2. UNCHANGED <<current, completedFrames>> BY <1>1 DEF vars
  <2> HIDE DEF Same
  <2>3. UNCHANGED <<call, phase, packet, needs, pendingRecreate, last>> BY <1>1 DEF Same
  <2>4. PackedInv' BY <2>1, <2>2, <2>3 DEF PackedInv
  <2>5. GateInv' BY <2>1, <2>3 DEF GateInv, Busy
  <2>6. Over' <=> Over BY <2>3 DEF Over
  <2>7. OverInv' BY <2>1, <2>3, <2>6 DEF OverInv
  <2>8. NoneAlike' <=> NoneAlike BY <2>1, <2>3 DEF NoneAlike
  <2>9. (Debt' <=> Debt) /\ (SureDebt' <=> SureDebt) BY <2>2, <2>3 DEF Debt, SureDebt, Hears, Busy
  <2>10. OneMayFollow' <=> OneMayFollow BY <2>1, <2>2, <2>3, <2>8, <2>9 DEF OneMayFollow
  <2>11. NoneMayFollow' <=> NoneMayFollow BY <2>1, <2>2, <2>3, <2>8, <2>9 DEF NoneMayFollow
  <2> QED BY <2>4, <2>5, <2>6, <2>7, <2>10, <2>11
<1>2. CASE Changes \/ UNCHANGED serviceVars
  <2>1. Same /\ UNCHANGED <<uploads, calm>>
    BY <1>2 DEF Changes, Change, ReplaceTexture, ReplaceMaterial, Resize, gpu, work, inbox, serviceVars,
                service
  <2>2. SceneTypes'
    <3>1. CASE UNCHANGED <<scene, version, window>> BY <2>1, <3>1 DEF SceneTypes
    <3>2. CASE \E t \in Textures : ReplaceTexture(t) BY <2>1, <3>2 DEF ReplaceTexture, SceneTypes
    <3>3. CASE \E s \in Scenes : ReplaceMaterial(s) BY <2>1, <3>3 DEF ReplaceMaterial, SceneTypes
    <3>4. CASE \E size \in WindowSizes : Resize(size)
      BY <2>1, <3>4 DEF Resize, SceneTypes, WindowSizes
    <3> QED BY <1>2, <3>1, <3>2, <3>3, <3>4 DEF Changes, Scenes, serviceVars, service, content
  <2>3. PictureTypes' /\ GpuTypes' /\ LastInv' /\ ExactInv' /\ ContentInv' = ContentInv
    BY <2>1 DEF PictureTypes, GpuTypes, LastInv, ExactInv, ContentInv, Shows, Coming, Open
  <2>4. ShownInv' BY <1>1, <2>1, <2>3 DEF ShownInv, SizeInv
  <2> QED BY <1>1, <2>1, <2>2, <2>3, <2>4
<1>3. CASE \E t \in Textures : UploadEnds(t)
  <2>1. PICK t \in Textures, failed \in BOOLEAN :
          /\ uploads[t].state = "running"
          /\ uploads' = [uploads EXCEPT ![t].state = IF failed THEN "failed" ELSE "done"]
          /\ calm' = IF failed THEN 0 ELSE calm
    BY <1>3 DEF UploadEnds
  <2>2. Same /\ UNCHANGED <<scene, version, window>> BY <1>3 DEF UploadEnds, work, inbox
  <2> DEFINE new == [view |-> uploads[t].view, version |-> uploads[t].version,
                     state |-> IF failed THEN "failed" ELSE "done"]
  <2>3. uploads' = [uploads EXCEPT ![t] = new] /\ new \in Upload
    <3>1. uploads \in [Textures -> Upload] /\ uploads[t] \in Upload BY DEF GpuTypes
    <3>2. uploads[t] = [view |-> uploads[t].view, version |-> uploads[t].version,
                        state |-> uploads[t].state]
      BY <3>1 DEF Upload
    <3>3. [uploads[t] EXCEPT !.state = IF failed THEN "failed" ELSE "done"] = new BY <3>2
    <3>4. new \in Upload BY <3>1 DEF Upload
    <3> HIDE DEF new
    <3>5. uploads' = [uploads EXCEPT ![t] = new] BY <2>1, <3>1, <3>3
    <3> QED BY <3>4, <3>5
  <2>4. GpuTypes' BY <2>2, <2>3 DEF GpuTypes
  <2>5. SceneTypes' BY <2>2 DEF SceneTypes
  <2>6. PictureTypes' /\ LastInv' /\ ExactInv'
    BY <2>1, <2>2 DEF PictureTypes, LastInv, ExactInv
  <2>7. ContentInv => ContentInv'
    <3>1. CASE failed BY <2>1, <3>1 DEF ContentInv
    <3>2. CASE ~failed
      <4>1. calm' = calm /\ last' = last BY <2>1, <2>2, <3>2
      <4>2. Shows(last) => Shows(last)' BY <2>2 DEF Shows
      <4>3. Coming(last) => Coming(last)' BY <2>2, <2>3, <3>2 DEF Coming, GpuTypes
      <4>4. Open(last) => Open(last)' BY <2>1, <2>2, <2>3 DEF Open, GpuTypes
      <4> QED BY <4>1, <4>2, <4>3, <4>4 DEF ContentInv
    <3> QED BY <3>1, <3>2
  <2>8. ShownInv' BY <1>1, <2>1, <2>2, <2>7 DEF ShownInv, SizeInv
  <2> QED BY <1>1, <2>2, <2>4, <2>5, <2>6, <2>8
<1> QED BY <1>2, <1>3

LEMMA PictureInit == ServiceInit => PictureInv
<1> SUFFICES ASSUME ServiceInit PROVE PictureInv OBVIOUS
<1>1. NoPacket \in Packet BY DEF NoPacket, Packet, Works, Scenes
<1>2. SceneTypes
  <2>1. scene \in Scenes /\ pendingRecreate \in BOOLEAN BY DEF ServiceInit, Scenes
  <2>2. version \in [Textures -> Nat]
    <3>1. version \in [Textures -> {0, 1}] BY DEF ServiceInit
    <3> QED BY <3>1
  <2>3. window \in [size : Nat, recreate : BOOLEAN] BY DEF ServiceInit
  <2>4. needs \in [Tasks -> BOOLEAN] BY DEF ServiceInit
  <2>5. packet \in [Tasks -> Packet]
    <3>1. packet = [s \in Tasks |-> NoPacket] BY DEF ServiceInit
    <3> HIDE DEF NoPacket
    <3> QED BY <1>1, <3>1
  <2> QED BY <2>1, <2>2, <2>3, <2>4, <2>5 DEF SceneTypes
<1>3. PictureTypes /\ calm = 0 BY <1>1 DEF ServiceInit, PictureTypes
<1>4. GpuTypes
  <2>1. NoUpload \in Upload /\ NoMirror \in Mirror BY DEF NoUpload, NoMirror, Upload, Mirror
  <2>2. uploads = [t \in Textures |-> NoUpload] /\ mirrors = [t \in Textures |-> NoMirror]
    BY DEF ServiceInit
  <2> QED BY <2>1, <2>2 DEF GpuTypes
<1>5. FrameSet = {} /\ ~Holding
  BY ExecutorAssumption DEF ServiceInit, Init, FrameSet, Waiting, Contains, Holding
<1>6. call.op = "none" BY DEF ServiceInit, NoCall
<1>7. PackedInv /\ GateInv BY <1>5, <1>6 DEF PackedInv, GateInv, Busy
<1>8. LastInv /\ ExactInv /\ SizeInv /\ ContentInv
  BY <1>3 DEF LastInv, ExactInv, SizeInv, ContentInv
<1>9. OverInv
  <2>1. \A s \in Tasks : packet[s].work = "none" BY DEF ServiceInit, NoPacket
  <2> QED BY <1>5, <1>6, <2>1 DEF OverInv, Over
<1> QED BY <1>2, <1>3, <1>4, <1>7, <1>8, <1>9 DEF PictureInv, ShownInv

\* Threads that use the executor directly leave the picture alone.
AloneInv == calm = 0 /\ call.at = "returned" /\ \A t \in Textures : uploads[t].state = "none"
ServedInv == (user = "service" => PictureInv) /\ (user # "service" => AloneInv)

LEMMA ServedStep ==
    ASSUME ExecutorInv, AnswersInv, ServedInv, [ServiceNext]_serviceVars PROVE ServedInv'
<1>1. user' = user
  <2>1. CASE Host
    BY <2>1 DEF Host, HostStep, CollectCommand, CommandsDone, CollectFrame, FramesDone, RenderGate,
                RenderFails, RenderSubmit, CaptureSubmit, CaptureFails, CaptureDone, CaptureAnswers,
                Flush, FinishAgain, EndDone, ShutdownSubmit, ShutdownFlush, ShutdownTake, ShutdownStop,
                ShutdownDone, RenderBegin, CaptureBegin, EndBegin, ShutdownBegin, RequestEnvironment,
                Idling
  <2>2. CASE ~Host BY <2>2, Bystanders DEF serviceVars, service
  <2> QED BY <2>1, <2>2
<1>2. CASE user = "service"
  <2>1. PictureInv /\ ~Directly BY <1>2 DEF ServedInv, Directly
  <2>2. PictureInv'
    <3>1. CASE Host BY <2>1, <3>1, PictureHostStep
    <3>2. CASE ExecutorStep \/ RunFrame \/ RunEnvironment \/ RunRelease
      BY <2>1, <3>2, PictureThreadStep
    <3>3. CASE Changes \/ (\E t \in Textures : UploadEnds(t)) \/ UNCHANGED serviceVars
      BY <2>1, <3>3, PictureOtherStep
    <3> QED BY <2>1, <3>1, <3>2, <3>3 DEF ServiceNext, Closed
  <2> QED BY <1>1, <1>2, <2>2 DEF ServedInv
<1>3. CASE user # "service"
  <2>1. AloneInv BY <1>3 DEF ServedInv
  <2>2. ~Changes
    BY <1>3 DEF Changes, ReplaceTexture, ReplaceMaterial, Resize, Change, AtLoop
  <2>3. ~Host
    BY <1>3, <2>1 DEF Host, HostStep, AloneInv, CollectCommand, CommandsDone, CollectFrame, FramesDone,
                RenderGate, RenderFails, RenderSubmit, CaptureSubmit, CaptureFails, CaptureDone,
                Flush, FinishAgain, EndDone, ShutdownSubmit, ShutdownFlush, ShutdownTake, ShutdownStop,
                ShutdownDone, RenderBegin, CaptureBegin, EndBegin, ShutdownBegin, RequestEnvironment,
                Ready, AtLoop, After, Finishing
  <2>4. ~ExecutorStep /\ ~RunFrame /\ ~RunEnvironment /\ ~RunRelease
    BY <1>3 DEF ExecutorStep, RunFrame, RunEnvironment, RunRelease
  <2>5. ~ \E t \in Textures : UploadEnds(t) BY <2>1 DEF AloneInv, UploadEnds
  <2>6. Directly \/ UNCHANGED serviceVars BY <2>2, <2>3, <2>4, <2>5 DEF ServiceNext, Closed
  <2>7. UNCHANGED <<calm, call, uploads>> BY <2>6 DEF Directly, serviceVars, service, gpu
  <2>8. AloneInv' BY <2>1, <2>7 DEF AloneInv
  <2> QED BY <1>1, <1>3, <2>8 DEF ServedInv
<1> QED BY <1>2, <1>3

(* The picture catches up with the scene, however many textures, frames and faults there are:
   three frames that asked for the same, nothing having gone wrong meanwhile, are enough for the
   content and the size, although each was captured before the host had heard of the one before
   (render_service.cpp, refresh_texture(), needs_recreate). *)
THEOREM ServicePicture == ServiceSpec => []PictureSettles
<1>1. ServiceInit => ServedInv
  <2> SUFFICES ASSUME ServiceInit PROVE ServedInv OBVIOUS
  <2>1. AloneInv BY DEF ServiceInit, AloneInv, NoCall, NoUpload
  <2> QED BY <2>1, PictureInit DEF ServedInv
<1>2. ServedInv => PictureSettles
  <2> SUFFICES ASSUME ServedInv, calm >= Settling PROVE exact BY DEF PictureSettles
  <2>1. user = "service" BY DEF ServedInv, AloneInv, Settling
  <2>2. calm = 3 BY <2>1 DEF ServedInv, PictureInv, PictureTypes, Settling
  <2> QED BY <2>1, <2>2 DEF ServedInv, PictureInv, ExactInv
<1>3. ServiceSpec => []ExecutorInv BY ServiceImplements, ExecutorInductive, PTL
<1> QED BY <1>1, <1>2, <1>3, AnswersInit, AnswersStep, ServedStep, PTL DEF ServiceSpec
=============================================================================
