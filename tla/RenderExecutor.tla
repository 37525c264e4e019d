---------------------------- MODULE RenderExecutor ----------------------------
(***************************************************************************)
(* engine/function/render/render_executor.{hpp,cpp}: the queue of frames    *)
(* and commands in front of the render thread (threaded_render_executor).   *)
(* One mutex guards everything, so each critical section is one action; the *)
(* render thread releases it to run a frame or a command, between the two   *)
(* sections that end a command, and in its waits.                           *)
(*                                                                          *)
(* A task is its sequence number.  Its packet, its result, the progress it  *)
(* reports and the statistics are left out: no decision depends on them.    *)
(***************************************************************************)
EXTENDS Integers, Sequences, FiniteSets

CONSTANTS
    MaxSequence,       \* bound: how many tasks are ever accepted
    MaxPendingFrames,  \* maximum_pending_frames
    CommandRoom,       \* places in the queue beyond the frames' (8 in the code)
    MaxYields,         \* bound: how often one resumable command is not ready
    Clients, Owner     \* the threads that flush; the Owner also stops the executor

Tasks == 1 .. MaxSequence
Kinds == {"replaceable", "required", "once", "resumable"}
FrameKinds == {"replaceable", "required"}

ASSUME ExecutorAssumption ==
    /\ MaxSequence \in Nat /\ MaxYields \in Nat /\ CommandRoom \in Nat
    /\ MaxPendingFrames \in Nat \ {0} /\ Owner \in Clients

VARIABLES
    accepted,         \* next_sequence - 1
    kind,             \* policy of each accepted frame or command
    pending,          \* the deque of tasks not begun, or yielded
    current,          \* the task the render thread holds, 0 if none
    executing, stopping,
    completedFrames, completedCommands,  \* receipts not yet taken
    taken, dropped,   \* history: receipts handed out; frames replaced before they ran
    yields,           \* history: how often each resumable command was not ready
    commandStatus,    \* sequence and `active' of command_status
    workerPc, clientPc

queues == <<accepted, kind, pending, dropped>>
receipts == <<completedFrames, completedCommands, taken>>
vars == <<accepted, kind, pending, current, executing, stopping, completedFrames,
          completedCommands, taken, dropped, yields, commandStatus, workerPc, clientPc>>

WorkerPlaces == {"testing", "asleep", "frame", "preparing", "command", "publishing",
                 "pausing", "exited"}
ClientPlaces == {"ready", "flushing", "flushAsleep", "stopFlushing", "stopAsleep", "marking",
                 "joining", "stopped"}

Init ==
    /\ accepted = 0 /\ kind = [s \in Tasks |-> "none"] /\ pending = <<>>
    /\ current = 0 /\ executing = FALSE /\ stopping = FALSE
    /\ completedFrames = <<>> /\ completedCommands = <<>> /\ taken = {} /\ dropped = {}
    /\ yields = [s \in Tasks |-> 0]
    /\ commandStatus = [sequence |-> 0, active |-> FALSE]
    /\ workerPc = "testing" /\ clientPc = [c \in Clients |-> "ready"]

-----------------------------------------------------------------------------
IsFrame(s) == kind[s] \in FrameKinds
Contains(queue, s) == \E i \in 1 .. Len(queue) : queue[i] = s
FramePlaces == {i \in 1 .. Len(pending) : IsFrame(pending[i])}
FramesFull == Cardinality(FramePlaces) >= MaxPendingFrames

\* The place of the oldest frame that may be replaced.
Replaceable(i) ==
    /\ i \in 1 .. Len(pending) /\ kind[pending[i]] = "replaceable"
    /\ \A j \in 1 .. i - 1 : kind[pending[j]] # "replaceable"
\* The queue without its i-th task.
Without(i) ==
    [j \in 1 .. Len(pending) - 1 |-> IF j < i THEN pending[j] ELSE pending[j + 1]]

\* stop() frees the state after the join, so nobody may call any more once it joins.
Alive == clientPc[Owner] \notin {"joining", "stopped"}

\* work_ready and idle are notified under the mutex.
WorkerHears == workerPc' = IF workerPc = "asleep" THEN "testing" ELSE workerPc
ClientsDeaf == clientPc' = clientPc
ClientsHear ==
    clientPc' = [c \in Clients |-> CASE clientPc[c] = "flushAsleep" -> "flushing"
                                     [] clientPc[c] = "stopAsleep" -> "stopFlushing"
                                     [] OTHER -> clientPc[c]]

Accept(policy, queue) ==
    LET s == accepted + 1 IN
    /\ accepted < MaxSequence
    /\ accepted' = s
    /\ kind' = [kind EXCEPT ![s] = policy]
    /\ pending' = queue
    /\ WorkerHears
    /\ UNCHANGED <<current, executing, stopping, completedCommands, taken, yields,
                   commandStatus, clientPc>>

(* Calls of any thread.  A refused call changes nothing but statistics.     *)

SubmitFrame(policy) ==
    /\ Alive /\ ~stopping /\ ~FramesFull
    /\ Accept(policy, Append(pending, accepted + 1))
    /\ UNCHANGED <<completedFrames, dropped>>

\* The queue of frames is full: a replaceable frame takes the place in the count, not in the
\* order, of the oldest replaceable one, whose receipt is there at once.
ReplaceInPlace(i) ==
    /\ Alive /\ ~stopping /\ FramesFull /\ Replaceable(i)
    /\ Accept("replaceable", [pending EXCEPT ![i] = accepted + 1])
    /\ completedFrames' = Append(completedFrames, pending[i])
    /\ dropped' = dropped \cup {pending[i]}
ReplaceFrame(i) ==
    /\ Alive /\ ~stopping /\ FramesFull /\ Replaceable(i)
    /\ Accept("replaceable", Append(Without(i), accepted + 1))
    /\ completedFrames' = Append(completedFrames, pending[i])
    /\ dropped' = dropped \cup {pending[i]}

SubmitCommand(policy) ==
    /\ Alive /\ ~stopping /\ Len(pending) < MaxPendingFrames + CommandRoom
    /\ Accept(policy, Append(pending, accepted + 1))
    /\ UNCHANGED <<completedFrames, dropped>>

TryTakeFrame ==
    /\ Alive /\ completedFrames # <<>>
    /\ taken' = taken \cup {Head(completedFrames)}
    /\ completedFrames' = Tail(completedFrames)
    /\ UNCHANGED <<queues, current, executing, stopping, completedCommands, yields,
                   commandStatus, workerPc, clientPc>>
TryTakeCommand ==
    /\ Alive /\ completedCommands # <<>>
    /\ taken' = taken \cup {Head(completedCommands)}
    /\ completedCommands' = Tail(completedCommands)
    /\ UNCHANGED <<queues, current, executing, stopping, completedFrames, yields,
                   commandStatus, workerPc, clientPc>>

-----------------------------------------------------------------------------
(* The render thread: state::run().                                         *)

TakeWork ==
    /\ workerPc = "testing" /\ pending # <<>>
    /\ current' = Head(pending) /\ pending' = Tail(pending)
    /\ executing' = TRUE
    /\ workerPc' = IF IsFrame(Head(pending)) THEN "frame" ELSE "preparing"
    /\ UNCHANGED <<accepted, kind, dropped, stopping, receipts, yields, commandStatus, clientPc>>

Sleep ==
    /\ workerPc = "testing" /\ pending = <<>> /\ ~stopping
    /\ workerPc' = "asleep"
    /\ UNCHANGED <<queues, current, executing, stopping, receipts, yields, commandStatus, clientPc>>
SpuriousWake ==
    /\ workerPc = "asleep" /\ workerPc' = "testing"
    /\ UNCHANGED <<queues, current, executing, stopping, receipts, yields, commandStatus, clientPc>>

Exit ==
    /\ workerPc = "testing" /\ pending = <<>> /\ stopping
    /\ workerPc' = "exited"
    /\ UNCHANGED <<queues, current, executing, stopping, receipts, yields, commandStatus, clientPc>>

\* The common end of the last critical section.
Finished ==
    /\ current' = 0 /\ executing' = FALSE /\ workerPc' = "testing"
    /\ IF pending = <<>> THEN ClientsHear ELSE UNCHANGED clientPc
    /\ UNCHANGED <<queues, stopping, taken, yields>>

FinishFrame ==
    /\ workerPc = "frame"
    /\ completedFrames' = Append(completedFrames, current)
    /\ Finished /\ UNCHANGED <<completedCommands, commandStatus>>

\* The command has begun; what it reports later is the same for this model.
Report ==
    /\ workerPc = "preparing"
    /\ commandStatus' = [sequence |-> current, active |-> TRUE]
    /\ workerPc' = "command"
    /\ UNCHANGED <<queues, current, executing, stopping, receipts, yields, clientPc>>

\* A resumable command was not ready: it goes to the end of the queue, with neither a receipt
\* nor a notification; alone in the queue it is not tried again before a pause.
Yield ==
    /\ workerPc = "command" /\ kind[current] = "resumable" /\ yields[current] < MaxYields
    /\ pending' = Append(pending, current)
    /\ current' = 0 /\ executing' = FALSE
    /\ yields' = [yields EXCEPT ![current] = @ + 1]
    /\ workerPc' = IF pending = <<>> THEN "pausing" ELSE "testing"
    /\ UNCHANGED <<accepted, kind, dropped, stopping, receipts, commandStatus, clientPc>>
\* wait_for: a millisecond has passed, or there is more work.
Unpause ==
    /\ workerPc = "pausing" /\ workerPc' = "testing"
    /\ UNCHANGED <<queues, current, executing, stopping, receipts, yields, commandStatus, clientPc>>

\* The command has ended; its status and its receipt are two critical sections.
CompleteStatus ==
    /\ workerPc = "command"
    /\ commandStatus' = [sequence |-> current, active |-> FALSE]
    /\ workerPc' = "publishing"
    /\ UNCHANGED <<queues, current, executing, stopping, receipts, yields, clientPc>>
PublishCommand ==
    /\ workerPc = "publishing"
    /\ completedCommands' = Append(completedCommands, current)
    /\ Finished /\ UNCHANGED <<completedFrames, commandStatus>>

-----------------------------------------------------------------------------
(* flush() and stop().                                                      *)

FlushBegin(c) ==
    /\ Alive /\ clientPc[c] = "ready"
    /\ clientPc' = [clientPc EXCEPT ![c] = "flushing"]
    /\ UNCHANGED <<queues, current, executing, stopping, receipts, yields, commandStatus, workerPc>>

StopBegin ==
    /\ clientPc[Owner] = "ready"
    /\ clientPc' = [clientPc EXCEPT ![Owner] = "stopFlushing"]
    /\ UNCHANGED <<queues, current, executing, stopping, receipts, yields, commandStatus, workerPc>>

Idle == pending = <<>> /\ ~executing

\* The predicate of the wait on `idle'.
FlushCheck(c) ==
    /\ clientPc[c] \in {"flushing", "stopFlushing"}
    /\ clientPc' = [clientPc EXCEPT ![c] =
           CASE @ = "flushing" -> IF Idle THEN "ready" ELSE "flushAsleep"
             [] @ = "stopFlushing" -> IF Idle THEN "marking" ELSE "stopAsleep"]
    /\ UNCHANGED <<queues, current, executing, stopping, receipts, yields, commandStatus, workerPc>>

MarkStopping ==
    /\ clientPc[Owner] = "marking"
    /\ stopping' = TRUE /\ WorkerHears
    /\ clientPc' = [clientPc EXCEPT ![Owner] = "joining"]
    /\ UNCHANGED <<queues, current, executing, receipts, yields, commandStatus>>

\* The thread is joined and the state freed; no other thread may be inside a call then.
Join ==
    /\ clientPc[Owner] = "joining" /\ workerPc = "exited"
    /\ \A c \in Clients \ {Owner} : clientPc[c] = "ready"
    /\ clientPc' = [clientPc EXCEPT ![Owner] = "stopped"]
    /\ UNCHANGED <<queues, current, executing, stopping, receipts, yields, commandStatus, workerPc>>

Stopped == clientPc[Owner] = "stopped" /\ UNCHANGED vars

Request ==
    \/ \E policy \in FrameKinds : SubmitFrame(policy)
    \/ \E i \in 1 .. Len(pending) : ReplaceFrame(i)
    \/ \E policy \in Kinds \ FrameKinds : SubmitCommand(policy)
    \/ TryTakeFrame \/ TryTakeCommand

EndCommand == Yield \/ CompleteStatus
Worker ==
    \/ TakeWork \/ Sleep \/ SpuriousWake \/ Exit \/ FinishFrame
    \/ Report \/ EndCommand \/ Unpause \/ PublishCommand

Next ==
    \/ Request \/ Worker \/ StopBegin \/ MarkStopping \/ Join \/ Stopped
    \/ \E c \in Clients : FlushBegin(c) \/ FlushCheck(c)

Spec == Init /\ [][Next]_vars

\* The render thread runs, the callbacks of frames and commands return, and a resumable
\* command is ready in the end; a thread inside flush() or stop() gets the mutex.
Fairness ==
    /\ WF_vars(TakeWork) /\ WF_vars(Exit) /\ WF_vars(FinishFrame) /\ WF_vars(Report)
    /\ WF_vars(EndCommand) /\ WF_vars(Unpause) /\ WF_vars(PublishCommand)
    /\ \A c \in Clients : WF_vars(FlushCheck(c))
    /\ WF_vars(MarkStopping) /\ WF_vars(Join)
FairSpec == Spec /\ Fairness

-----------------------------------------------------------------------------
(* Properties *)

\* Frames waiting stay within maximum_pending_frames, and commands within the room of the
\* queue and the one that may come back to it.
Bounded ==
    /\ Cardinality(FramePlaces) <= MaxPendingFrames
    /\ Cardinality(1 .. Len(pending) \ FramePlaces) <= MaxPendingFrames + CommandRoom + 1

\* Every variable has its type, and the queue its bounds.
TypeOK ==
    /\ Bounded
    /\ accepted \in 0 .. MaxSequence
    /\ kind \in [Tasks -> Kinds \cup {"none"}]
    /\ \A queue \in {pending, completedFrames, completedCommands} : queue \in Seq(1 .. accepted)
    /\ taken \in SUBSET (1 .. accepted) /\ dropped \in SUBSET (1 .. accepted)
    /\ current \in 0 .. accepted /\ executing \in BOOLEAN /\ stopping \in BOOLEAN
    /\ yields \in [Tasks -> 0 .. MaxYields]
    /\ commandStatus \in [sequence : 0 .. accepted, active : BOOLEAN]
    /\ workerPc \in WorkerPlaces /\ clientPc \in [Clients -> ClientPlaces]

InOnePlaceOnly(s) ==
    LET places == {p \in 1 .. 5 :
            CASE p = 1 -> Contains(pending, s) [] p = 2 -> current = s
              [] p = 3 -> Contains(completedFrames, s) [] p = 4 -> Contains(completedCommands, s)
              [] p = 5 -> s \in taken}
    IN Cardinality(places) = 1
Injective(queue) == \A i, j \in 1 .. Len(queue) : queue[i] = queue[j] => i = j

\* No task is lost and none is executed or receipted twice, through replacements, yields and
\* stops: each accepted sequence number is in the queue, in the render thread's hands, or has
\* one receipt of its own kind.  Only replaceable frames are dropped, and only for a newer one.
EveryTaskOnce ==
    /\ \A s \in 1 .. accepted : InOnePlaceOnly(s)
    /\ Injective(pending) /\ Injective(completedFrames) /\ Injective(completedCommands)
    /\ \A s \in 1 .. accepted :
           /\ Contains(completedFrames, s) => IsFrame(s)
           /\ Contains(completedCommands, s) => ~IsFrame(s)
    /\ \A s \in dropped : /\ kind[s] = "replaceable"
                          /\ \E t \in s + 1 .. accepted : IsFrame(t)

Begun(s) == s \in 1 .. accepted /\ ~Contains(pending, s) /\ s \notin dropped

\* Frames and commands begin in the order of submission, whatever was replaced or has yielded
\* in between; only a resumable command may fall behind its successors.
SubmissionOrder ==
    \A s, t \in 1 .. accepted :
        s < t /\ kind[s] # "resumable" /\ kind[t] # "resumable" /\ Contains(pending, s)
            => ~Begun(t)

Receipted(s) ==
    Contains(completedFrames, s) \/ Contains(completedCommands, s) \/ s \in taken

\* Whoever holds the receipt of a command never reads that it is still active.
StatusPrecedesReceipt ==
    Receipted(commandStatus.sequence) => ~commandStatus.active

\* stop() loses nothing: when it returns, every task accepted before or during it, also
\* between its flush and its mark, has been executed or dropped and has its receipt.
StopDrains ==
    clientPc[Owner] = "stopped" =>
        workerPc = "exited" /\ \A s \in 1 .. accepted : Receipted(s)

\* What the executor promises whoever uses it: each task accepted is done once, in order and
\* with a receipt, also through stop(), and a receipt is never ahead of the status.
ExecutorIsSound == EveryTaskOnce /\ SubmissionOrder /\ StatusPrecedesReceipt /\ StopDrains

\* flush() and stop() return, also while a resumable command keeps coming back and whoever
\* submits between the flush of stop() and its mark: no wakeup of either thread is lost.
CallsReturn ==
    /\ \A c \in Clients : clientPc[c] = "flushing" ~> clientPc[c] = "ready"
    /\ clientPc[Owner] = "stopFlushing" ~> clientPc[Owner] = "stopped"
=============================================================================
