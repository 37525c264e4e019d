----------------------------- MODULE IpcSession -----------------------------
(***************************************************************************)
(* One play session: the editor starts the game in a process of its own    *)
(* and drives it over a loopback connection.  Three parts of the code meet *)
(* here: runtime_process with editor_ipc_session on the editor's main      *)
(* thread, runtime_ipc_session on the game's main thread, and the two      *)
(* transport threads that carry envelopes between them.                    *)
(*                                                                         *)
(* An envelope is its operation.  Scenes, assets, properties, inspection,  *)
(* statistics and log lines travel on the same connection and are left     *)
(* out; so are full queues, which belong to the transport.  Clocks are     *)
(* left to chance: a timeout may strike whenever the code would look at it.*)
(***************************************************************************)
EXTENDS Naturals, Sequences, SequencesExt

CONSTANTS
  MaxSessions,   \* bound: how often the editor presses play
  MaxCommands,   \* bound: envelopes on their way to the game
  MaxUnread,     \* bound: envelopes the editor may leave unread and go on asking
  MaxPoll,       \* events one update takes from the transport
  SocketRoom,    \* envelopes the socket holds for a game that goes away
  Timeouts       \* whether handshakes and heartbeats are ever late

ASSUME BoundsAssumption ==
  /\ MaxSessions \in Nat \ {0} /\ MaxCommands \in Nat \ {0} /\ MaxUnread \in Nat
  /\ MaxPoll \in Nat \ {0} /\ SocketRoom \in Nat /\ Timeouts \in BOOLEAN

VARIABLES
  alive,             \* the editor has not crashed
  sessions,          \* how many times it pressed play
  view,              \* is_running(), as of its last update
  authenticated,     \* is_authenticated
  control,           \* control_state
  shutdownComplete,  \* ipc_shutdown_complete
  deadline,          \* stop_deadline: not set, set, or in the past
  link,              \* the editor's transport
  events,            \* what its transport thread has read
  wire,              \* what the game has written, not read yet
  commands,          \* what the editor has written
  stopFile,          \* the stop file exists
  process,           \* the operating system's process: its exit code once ended
  phase,             \* where main() of the game is
  exit,              \* why it leaves its loop
  rlink,             \* the game's transport has connected
  rstate,            \* current_state of its session
  hung               \* its main thread no longer comes round

editorVars == <<view, authenticated, control, shutdownComplete, deadline>>
gameVars == <<phase, exit, rlink, rstate, hung>>
vars == <<alive, sessions, editorVars, link, events, wire, commands, stopFile,
          process, gameVars>>

States == {"ready", "running", "paused", "stopping"}
Envelopes == States \cup {"hello", "pong", "error", "shutdown"}
Commands == {"connected", "ack", "ping", "pause", "resume", "stop", "eof"}

Init ==
  /\ alive = TRUE /\ sessions = 0
  /\ view = FALSE /\ authenticated = FALSE /\ control = "stopped"
  /\ shutdownComplete = FALSE /\ deadline = "none"
  /\ link = "stopped" /\ events = <<>> /\ wire = <<>> /\ commands = <<>>
  /\ stopFile = FALSE /\ process = "none"
  /\ phase = "loop" /\ exit = "none" /\ rlink = FALSE /\ rstate = "stopped"
  /\ hung = FALSE

(***************************************************************************)
(* The connection                                                          *)
(***************************************************************************)
\* The game's writes reach the editor only while its transport holds the peer.
Sent(sequence) == IF link = "connected" THEN wire \o sequence ELSE wire

\* What is left of the writes when the game's end closes: those the socket
\* took, and then the end of the stream.
Closed(sequence) ==
  IF link # "connected" \/ Contains(sequence, "eof") THEN {sequence}
  ELSE {Append(SubSeq(sequence, 1, kept), "eof") :
          kept \in {k \in 0 .. Len(sequence) : k >= SocketRoom \/ k = Len(sequence)}}

\* The editor's transport thread reads the next envelope, or the end.
Arrive ==
  /\ alive /\ wire # <<>>
  /\ wire' = Tail(wire)
  /\ events' = Append(events, IF Head(wire) = "eof" THEN "disconnected" ELSE Head(wire))
  /\ link' = IF Head(wire) = "eof" THEN "listening" ELSE link
  /\ UNCHANGED <<alive, sessions, editorVars, commands, stopFile, process, gameVars>>

(***************************************************************************)
(* The editor                                                              *)
(***************************************************************************)
\* Play: everything of the last session is reset, the transport listens, and
\* the process starts or does not.
Start ==
  /\ alive /\ ~view /\ sessions < MaxSessions
  /\ sessions' = sessions + 1
  /\ shutdownComplete' = FALSE /\ deadline' = "none" /\ authenticated' = FALSE
  /\ wire' = <<>> /\ commands' = <<>> /\ events' = <<>> /\ stopFile' = FALSE
  /\ phase' = "loop" /\ exit' = "none" /\ rlink' = FALSE /\ hung' = FALSE
  /\ \/ /\ view' = TRUE /\ process' = "running" /\ rstate' = "connecting"
        /\ control' = "connecting" /\ link' = "listening"
     \/ /\ view' = FALSE /\ process' = "none" /\ rstate' = "stopped"
        /\ control' = "failed" /\ link' = "stopped"
  /\ UNCHANGED alive

\* The bound on pings and on the player's impatience.
Room == Len(commands) < MaxCommands /\ Len(wire) + Len(events) <= MaxUnread

StopDeadlineLate(sent) == IF sent /\ deadline = "none" THEN "set" ELSE deadline

\* A stop is given its two seconds whether or not the game hears of it.
StopDeadline(sent) == IF deadline = "none" THEN "set" ELSE deadline

MayCommand == authenticated /\ link = "connected"

\* request_stop(): by command, or else by the stop file.
RequestStop ==
  /\ alive /\ view
  /\ deadline' = StopDeadline(MayCommand)
  /\ \/ /\ MayCommand /\ Room
        /\ commands' = Append(commands, "stop") /\ control' = "stopping"
        /\ UNCHANGED stopFile
     \/ /\ ~MayCommand
        /\ stopFile' \in {stopFile, TRUE}
        /\ UNCHANGED <<commands, control>>
  /\ UNCHANGED <<alive, sessions, view, authenticated, shutdownComplete, link, events,
                 wire, process, gameVars>>

\* request_pause() and request_resume().
RequestPause(command, from) ==
  /\ alive /\ MayCommand /\ control = from /\ Room
  /\ commands' = Append(commands, command)
  /\ UNCHANGED <<alive, sessions, editorVars, link, events, wire, stopFile, process,
                 gameVars>>

\* Two seconds have passed since the stop was asked for.
DeadlinePasses ==
  /\ alive /\ deadline = "set"
  /\ deadline' = "passed"
  /\ UNCHANGED <<alive, sessions, view, authenticated, control, shutdownComplete, link,
                 events, wire, commands, stopFile, process, gameVars>>

(***************************************************************************)
(* One update of the editor: it looks at the process, takes what the       *)
(* transport has, and either fails the session or applies all of it.       *)
(* due: the next ping is due; late: the handshake or the heartbeat is.     *)
(***************************************************************************)
Taken == SubSeq(events, 1, IF Len(events) < MaxPoll THEN Len(events) ELSE MaxPoll)
Left == SubSeq(events, Len(Taken) + 1, Len(events))
Running == process = "running"

\* The envelopes taken, by their places.  Until the hello is accepted, the first
\* must be one, and the answer must go out.
Received == {i \in 1 .. Len(Taken) : Taken[i] # "disconnected"}
IsFirst(i) == \A j \in Received : i <= j
Greeted == ~authenticated /\ Received # {}
Rejected ==
  Greeted /\ (link # "connected" \/ \E i \in Received : IsFirst(i) /\ Taken[i] # "hello")
Decoded == {i \in Received : ~Rejected /\ (Greeted => ~IsFirst(i))}
Known == authenticated \/ (Greeted /\ ~Rejected)

Told == \E i \in Decoded : Taken[i] = "shutdown"
Gone == Running /\ Contains(Taken, "disconnected") /\ ~Told
Quiet == Rejected \/ Gone \/ Told \/ ~Running   \* no ping and no timeout then

Expired(due, late) ==
  ~Quiet /\ (\/ ~Known /\ late
             \/ Known /\ due /\ link # "connected"
             \/ Known /\ late /\ Received = {})

Fails(due, late) == Rejected \/ Gone \/ Expired(due, late)

Pings(due) == ~Quiet /\ Known /\ due /\ link = "connected"

Answers(due) ==
  (IF Greeted /\ ~Rejected THEN <<"ack">> ELSE <<>>)
    \o (IF Pings(due) THEN <<"ping">> ELSE <<>>)

ShownAs(envelope) ==
  CASE envelope = "ready" -> "connecting"
    [] envelope = "shutdown" -> "stopping"
    [] OTHER -> envelope

\* The last state the envelopes tell of.
Tells(envelope) == envelope \in States \cup {"shutdown"}
Applied ==
  LET told == {i \in Decoded : Tells(Taken[i])}
  IN  IF told = {} THEN control ELSE ShownAs(Taken[Max(told)])

IsShutdownEarly == \E i \in Decoded : Taken[i] = "stopping"

IsShutdown == \E i \in Decoded : Taken[i] = "shutdown"

\* fail_ipc() gives the game two seconds, too.
FailDeadline(failed) == IF failed /\ deadline = "none" THEN "set" ELSE deadline

StoppedSession == FALSE

\* The process has ended: the session ends with it, and whatever its transport
\* thread still reads before it stops stays among the events.
Finish(failed) ==
  /\ view' = FALSE /\ deadline' = "none"
  /\ authenticated' = StoppedSession /\ link' = "stopped"
  /\ wire' = <<>>
  /\ \E read \in {n \in 0 .. Len(wire) : \A i \in 1 .. n : wire[i] # "eof"} :
        events' = Left \o SubSeq(wire, 1, read)
  /\ control' = IF failed \/ Applied = "failed" \/ process = "bad"
                THEN "failed" ELSE "stopped"
  /\ UNCHANGED process

\* It runs on, unless its time is over.
GoOn(failed) ==
  /\ view' = TRUE /\ authenticated' = Known /\ events' = Left
  /\ control' = IF failed THEN "failed" ELSE Applied
  /\ deadline' = FailDeadline(failed)
  /\ IF deadline = "passed"
     THEN process' = "bad" /\ wire' \in Closed(wire)
     ELSE UNCHANGED <<process, wire>>
  /\ UNCHANGED link

Update(due, late) ==
  /\ alive /\ process # "none"
  /\ due => Room \/ link # "connected"
  /\ commands' = commands \o Answers(due)
  /\ shutdownComplete' =
       (shutdownComplete \/ (IsShutdown /\ ~Fails(due, late)))
  /\ IF Running THEN GoOn(Fails(due, late)) ELSE Finish(Fails(due, late))
  /\ UNCHANGED <<alive, sessions, stopFile, gameVars>>

\* The editor's process goes away; the game's transport sees the end.
EditorCrash ==
  /\ alive /\ view
  /\ alive' = FALSE
  /\ link' = "stopped" /\ events' = <<>> /\ wire' = <<>>
  /\ commands' = IF rlink THEN Append(commands, "eof") ELSE commands
  /\ UNCHANGED <<sessions, editorVars, stopFile, process, gameVars>>

(***************************************************************************)
(* The game                                                                *)
(***************************************************************************)
Plays == process = "running" /\ ~hung
Pumps == Plays /\ phase = "loop" /\ rstate \notin {"failed", "stopped"}
editorSide == <<alive, sessions, editorVars, events, stopFile, process>>

\* The connection is made, or refused because nobody listens any more.
Connect ==
  /\ Pumps /\ ~rlink
  /\ \/ /\ link = "listening"
        /\ rlink' = TRUE /\ link' = "connected" /\ commands' = <<"connected">>
        /\ UNCHANGED <<rstate, exit>>
     \/ /\ link # "listening"
        /\ rstate' = "failed" /\ exit' = "failed"
        /\ UNCHANGED <<rlink, link, commands>>
  /\ UNCHANGED <<editorSide, wire, phase, hung>>

PauseInSilence == <<>>

\* What a handler tells the editor of the state it enters.
PauseTold == <<"paused">>

\* One event of pump(): the answer, the new state and the wish to leave.
Handled(command) ==
  CASE command = "connected" -> [says |-> <<"hello">>, state |-> "authenticating"]
    [] command = "eof" -> [says |-> <<>>, state |-> "failed"]
    [] rstate = "authenticating" /\ command = "ack" ->
         [says |-> <<"ready", "running">>, state |-> "running"]
    [] rstate = "authenticating" /\ command \notin {"connected", "eof", "ack"} ->
         [says |-> <<>>, state |-> "failed"]
    [] rstate # "authenticating" /\ command = "ping" -> [says |-> <<"pong">>, state |-> rstate]
    [] rstate = "running" /\ command = "pause" -> [says |-> PauseTold, state |-> "paused"]
    [] rstate = "paused" /\ command = "resume" -> [says |-> <<"running">>, state |-> "running"]
    [] rstate \in {"running", "paused"} /\ command = "stop" ->
         [says |-> <<"stopping">>, state |-> "stopping"]
    [] rstate = "stopping" /\ command = "stop" -> [says |-> <<>>, state |-> "stopping"]
    [] OTHER -> [says |-> <<"error">>, state |-> rstate]

ExitAfterStopOnly(state, command) ==
  IF state = "stopping" /\ command = "stop" THEN "asked" ELSE exit

ExitAfter(state, command) ==
  IF state = "failed" THEN "failed"
  ELSE IF state = "stopping" /\ command = "stop" THEN "asked" ELSE exit

HandleCommand ==
  /\ Pumps /\ commands # <<>>
  /\ commands' = Tail(commands)
  /\ LET handled == Handled(Head(commands))
     IN  /\ wire' = Sent(handled.says)
         /\ rstate' = handled.state
         /\ exit' = ExitAfter(handled.state, Head(commands))
  /\ UNCHANGED <<editorSide, link, phase, rlink, hung>>

\* The handshake or the heartbeat of the game's side is late.
Timeout ==
  /\ Timeouts /\ Pumps /\ rstate # "stopping" /\ commands = <<>>
  /\ rstate' = "failed" /\ exit' = "failed"
  /\ UNCHANGED <<editorSide, link, wire, commands, phase, rlink, hung>>

\* The stop file is there, or the player closes the window.
AskExit ==
  /\ Plays /\ phase = "loop" /\ exit = "none"
  /\ exit' = "asked"
  /\ stopFile' \in {stopFile, FALSE}
  /\ UNCHANGED <<alive, sessions, editorVars, link, events, wire, commands, process,
                 phase, rlink, rstate, hung>>

\* main() leaves the loop: unless the session failed it says farewell, and in
\* any case it closes the session before the application shuts down.
LeaveLoop ==
  /\ Plays /\ phase = "loop" /\ exit # "none"
  /\ phase' = "closing" /\ rstate' = "stopped"
  /\ wire' \in IF ~rlink THEN {wire}
               ELSE Closed(Sent(IF exit = "failed" THEN <<>> ELSE <<"stopping", "shutdown">>))
  /\ UNCHANGED <<editorSide, link, commands, exit, rlink, hung>>

\* The application has shut down and main() returns.
Exit ==
  /\ Plays /\ phase = "closing"
  /\ process' \in IF exit = "failed" THEN {"bad"} ELSE {"clean", "bad"}
  /\ UNCHANGED <<alive, sessions, editorVars, link, events, wire, commands, stopFile,
                 gameVars>>

\* The game dies, or stops coming round.
Crash ==
  /\ process = "running"
  /\ process' = "bad" /\ wire' \in Closed(wire)
  /\ UNCHANGED <<alive, sessions, editorVars, link, events, commands, stopFile, gameVars>>

Hang ==
  /\ Plays
  /\ hung' = TRUE
  /\ UNCHANGED <<editorSide, link, wire, commands, phase, exit, rlink, rstate>>

(***************************************************************************)
(* The two processes together                                              *)
(***************************************************************************)
Updates == \E due \in BOOLEAN, late \in {FALSE, Timeouts} : Update(due, late)

Player == Start \/ RequestStop \/ RequestPause("pause", "running")
            \/ RequestPause("resume", "paused")

Game == Connect \/ HandleCommand \/ LeaveLoop \/ Exit

Faults == EditorCrash \/ Timeout \/ AskExit \/ Crash \/ Hang

Next == Arrive \/ DeadlinePasses \/ Updates \/ Player \/ Game \/ Faults

Spec == Init /\ [][Next]_vars

\* The editor's loop comes round and time passes; so does the game's loop,
\* unless it hangs.  Nobody must press a button, and no timeout must strike.
Fairness ==
  /\ WF_vars(Updates) /\ WF_vars(DeadlinePasses)
  /\ WF_vars(Connect) /\ WF_vars(HandleCommand) /\ WF_vars(LeaveLoop) /\ WF_vars(Exit)

FairSpec == Spec /\ Fairness

(***************************************************************************)
(* Properties                                                              *)
(***************************************************************************)
\* The types, and what hangs together on the editor's side: a session is
\* authenticated only over a transport, and a deadline only exists for a
\* process believed to run.
TypeOK ==
  /\ alive \in BOOLEAN /\ sessions \in 0 .. MaxSessions
  /\ view \in BOOLEAN /\ authenticated \in BOOLEAN /\ shutdownComplete \in BOOLEAN
  /\ control \in {"stopped", "connecting", "running", "paused", "stopping", "failed"}
  /\ deadline \in {"none", "set", "passed"}
  /\ link \in {"stopped", "listening", "connected"}
  /\ events \in Seq(Envelopes \cup {"disconnected"})
  /\ wire \in Seq(Envelopes \cup {"eof"})
  /\ commands \in Seq(Commands) /\ Len(commands) <= MaxCommands + 2
  /\ stopFile \in BOOLEAN /\ process \in {"none", "running", "clean", "bad"}
  /\ phase \in {"loop", "closing"} /\ exit \in {"none", "asked", "failed"}
  /\ rlink \in BOOLEAN /\ hung \in BOOLEAN
  /\ rstate \in {"connecting", "authenticating", "running", "paused", "stopping",
                 "failed", "stopped"}
  /\ alive /\ authenticated => link # "stopped"
  /\ deadline # "none" => view

\* Once everything either side has said has been heard, and the session has
\* not failed, the editor shows the state the game is in; and the first thing
\* the game hears after its hello is the answer to it, overtaken by no command.
ControlAgrees ==
  /\ TypeOK
  /\ rstate = "authenticating" /\ commands # <<>> => Head(commands) \in {"ack", "eof"}
  /\ (/\ alive /\ authenticated /\ control # "failed" /\ process = "running"
      /\ events = <<>> /\ wire = <<>> /\ commands = <<>>
      /\ rstate \in {"running", "paused", "stopping"})
     => control = rstate

\* The editor never takes a shutdown for complete while the game still runs
\* its loop, not even one of an earlier session.
ShutdownTruthful ==
  shutdownComplete => process # "running" \/ phase = "closing"

\* A stop that was asked for, by command or by file, or a session that failed,
\* ends the process within the editor's patience, even one that hangs or never
\* connected.
FailureEnds ==
  (view /\ (control = "failed" \/ stopFile \/ deadline # "none")) ~> (~view \/ ~alive)

\* No game outlives the editor that started it, unless it hangs.
NoOrphan == ~alive ~> (process # "running" \/ hung)

\* What editor_ipc_session.cpp:193 asks for: a terminal frame the editor has
\* received is not masked afterwards by the peer having closed.
TerminalStateStands ==
  shutdownComplete /\ ~view /\ process = "clean" => control = "stopped"
=============================================================================
