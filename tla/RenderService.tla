---------------------------- MODULE RenderService ----------------------------
(***************************************************************************)
(* engine/function/render/render_service.cpp over its executor, and the     *)
(* calls application.cpp makes of it: frames of the loop, captures, the     *)
(* environment, the end of a run and the shutdown.  The host thread makes   *)
(* all of them; frames and commands run on the render thread, which owns    *)
(* the mirrors of resources on the GPU and the swapchain.                   *)
(*                                                                          *)
(* A scene is what its one material draws: a texture handle, or nothing.    *)
(* Contents are version numbers, 0 for a handle still being loaded; meshes  *)
(* and the pictures themselves are left out.  The GPU library is external:  *)
(* any of its calls may fail.                                               *)
(*                                                                          *)
(* The executor has a second kind of user, threads that call it directly    *)
(* (`threads'), for whom its promises must hold as well.                    *)
(***************************************************************************)
EXTENDS RenderExecutor

CONSTANTS
    Textures,     \* handles of textures
    Hidden,       \* the scene that draws nothing
    Users,        \* who may use the executor: "service", "threads"
    DirectTasks,  \* bound: how many tasks the threads submit
    MaxChanges,   \* bound: changes of the scene, its textures and the window
    MaxExtras,    \* bound: captures asked for, environments, and textures still loading at first
    MaxFaults     \* bound: calls of the GPU library that do not succeed

ASSUME ServiceAssumption ==
    /\ Hidden \notin Textures /\ IsFiniteSet(Textures) /\ Users \subseteq {"service", "threads"}
    /\ DirectTasks \in 0 .. MaxSequence
    /\ MaxChanges \in Nat /\ MaxExtras \in Nat /\ MaxFaults \in Nat

VARIABLES
    user,              \* who uses the executor
    phase,             \* application::run: running, ended; then closed
    call,              \* the host's call in progress and where it is, or its last answer
    scene, version,    \* what the material draws, the content of each texture
    window,            \* native_window_info: its size, and needs_recreate
    bounds,            \* history: changes, extras and faults so far
    packet,            \* what waits to run, or has run, under each sequence number
    outcome, needs,    \* status and needs_recreate of what has run
    pendingRecreate,   \* pending_recreate_
    required,          \* required_frame_completions_
    uploads,           \* pending_textures_
    mirrors,           \* texture_mirrors_
    material,          \* the one entry of material_mirrors_
    swapchain,         \* the size of its images
    last, exact, calm  \* history: what the last frame asked for, whether the picture shows
                       \* it, and how many frames ran undisturbed since

content == <<scene, version, window, bounds>>
inbox == <<pendingRecreate, required>>
work == <<packet, outcome, needs>>
gpu == <<uploads, mirrors, material, swapchain, last, exact, calm>>
service == <<user, phase, call, content, inbox, work, gpu>>
serviceVars == <<vars, service>>

WindowSizes == {1, 2}
CaptureSize == 3
\* frame is the task a call waits for; history: own is what became of it, saw is whether a
\* receipt the call has taken was of a failure.
NoCall == [op |-> "none", at |-> "returned", turn |-> 0, status |-> "ok", found |-> "ok",
           frame |-> 0, own |-> "none", saw |-> FALSE]
NoPacket == [work |-> "none", scene |-> Hidden, version |-> 0, size |-> 0, recreate |-> FALSE]
NoMirror == [view |-> 0, version |-> 0]
NoUpload == [view |-> 0, version |-> 0, state |-> "none"]
NoMaterial == [scene |-> Hidden, view |-> 0, held |-> NoMirror]

ServiceInit ==
    /\ Init
    /\ user \in Users /\ phase = "running" /\ call = NoCall
    /\ scene \in Textures /\ version \in [Textures -> {0, 1}]
    /\ window = [size |-> 1, recreate |-> FALSE]
    /\ user = "threads" => \A t \in Textures : version[t] = 0
    /\ bounds = [changes |-> 0, faults |-> 0,
                 extras |-> Cardinality({t \in Textures : version[t] = 0})]
    /\ packet = [s \in Tasks |-> NoPacket]
    /\ outcome = [s \in Tasks |-> "none"] /\ needs = [s \in Tasks |-> FALSE]
    /\ pendingRecreate = FALSE /\ required = <<>>
    /\ uploads = [t \in Textures |-> NoUpload] /\ mirrors = [t \in Textures |-> NoMirror]
    /\ material = NoMaterial /\ swapchain = 1
    /\ last = NoPacket /\ exact = FALSE /\ calm = 0

-----------------------------------------------------------------------------
(* What changes between two calls.                                          *)

AtLoop == user = "service" /\ phase = "running" /\ call.at = "returned"
Change ==
    /\ AtLoop /\ bounds.changes < MaxChanges
    /\ bounds' = [bounds EXCEPT !.changes = @ + 1]
    /\ UNCHANGED <<vars, user, phase, call, inbox, work, gpu>>

ReplaceTexture(t) ==
    /\ Change /\ version' = [version EXCEPT ![t] = @ + 1]
    /\ UNCHANGED <<scene, window>>
ReplaceMaterial(s) ==
    /\ Change /\ s # scene /\ scene' = s
    /\ UNCHANGED <<version, window>>
Resize(size) ==
    /\ Change /\ size # window.size
    /\ window' = [size |-> size, recreate |-> TRUE]
    /\ UNCHANGED <<scene, version>>

-----------------------------------------------------------------------------
(* The host's calls; in the executor each goes one critical section at a    *)
(* time.  Many begin with collect_completions(), which takes receipts, of   *)
(* commands and then of frames, until one has failed or none is left.       *)

Idling == UNCHANGED <<user, phase, content, inbox, work, gpu>>
Ready == user = "service" /\ clientPc[Owner] = "ready"
Goes(at) == call' = [call EXCEPT !.at = at]
Answers(status) ==
    call' = [NoCall EXCEPT !.op = call.op, !.at = "returned", !.status = status, !.saw = call.saw]
Enters(op, at) == call' = [NoCall EXCEPT !.op = op, !.at = at, !.turn = 1]

Receive(s) ==
    /\ IF outcome[s] = "ok" \/ s \in dropped THEN UNCHANGED call
       ELSE call' = [call EXCEPT !.at = "collected", !.status = outcome[s],
                                 !.saw = @ \/ outcome[s] = "failed"]
    /\ packet' = [packet EXCEPT ![s] = NoPacket]
    /\ outcome' = [outcome EXCEPT ![s] = "none"]
    /\ needs' = [needs EXCEPT ![s] = FALSE]
CollectCommand ==
    /\ call.at = "commands" /\ Ready /\ TryTakeCommand
    /\ Receive(Head(completedCommands))
    /\ UNCHANGED <<user, phase, content, inbox, gpu>>
CommandsDone ==
    /\ call.at = "commands" /\ Ready /\ completedCommands = <<>>
    /\ Goes("frames") /\ Idling /\ UNCHANGED vars
RecreateRemembered(s) == pendingRecreate' = (pendingRecreate \/ needs[s])
CollectFrame ==
    LET s == Head(completedFrames) IN
    /\ call.at = "frames" /\ Ready /\ TryTakeFrame
    /\ Receive(s) /\ RecreateRemembered(s)
    /\ required' = IF kind[s] = "required"
                   THEN Append(required, [frame |-> s, status |-> outcome[s]]) ELSE required
    /\ UNCHANGED <<user, phase, content, gpu>>
FramesDone ==
    /\ call.at = "frames" /\ Ready /\ completedFrames = <<>>
    /\ call' = [call EXCEPT !.at = "collected", !.status = "ok"]
    /\ Idling /\ UNCHANGED vars

\* The turn-th collection of a call is over.
After(op, turn) == call.at = "collected" /\ call.op = op /\ call.turn = turn

\* render_frame(): nothing is captured while the render thread has not yet taken the frame
\* before; submit() collects once more.  A failure ends the run, a delay only the frame.
RoomForCall == accepted < MaxSequence - 1
RenderBegin ==
    /\ AtLoop /\ Ready /\ RoomForCall
    /\ Enters("render", "commands") /\ Idling /\ UNCHANGED vars
RenderGate ==
    /\ After("render", 1) /\ call.status = "ok"
    /\ IF FramePlaces = {} THEN call' = [call EXCEPT !.at = "commands", !.turn = 2] ELSE Answers("ok")
    /\ Idling /\ UNCHANGED vars
RenderFails ==
    /\ call.at = "collected" /\ call.op = "render" /\ call.status # "ok"
    /\ Answers(call.status)
    /\ phase' = IF call.status = "late" THEN phase ELSE "ended"
    /\ UNCHANGED <<vars, user, content, inbox, work, gpu>>

\* A packet shares what the host sees now; submit() adds the recreation still owed.
Captured(what, size, recreate) ==
    [work |-> what, scene |-> scene, size |-> size, recreate |-> recreate,
     version |-> IF scene = Hidden THEN 0 ELSE version[scene]]
SubmittedAsSeen(what, size, recreate) ==
    /\ packet' = [packet EXCEPT ![accepted + 1] = Captured(what, size, recreate)]
    /\ pendingRecreate' = FALSE
    /\ UNCHANGED <<outcome, needs>>
Submitted(what, size, recreate) ==
    /\ packet' = [packet EXCEPT ![accepted + 1] =
           Captured(what, size, recreate \/ pendingRecreate)]
    /\ pendingRecreate' = FALSE
    /\ UNCHANGED <<outcome, needs>>
RenderSubmit ==
    /\ After("render", 2) /\ call.status = "ok"
    /\ SubmitFrame("replaceable")
    /\ Submitted("frame", window.size, window.recreate)
    /\ window' = [window EXCEPT !.recreate = FALSE]
    /\ Answers("ok")
    /\ UNCHANGED <<user, phase, scene, version, bounds, required, gpu>>

CaptureBegin ==
    /\ AtLoop /\ Ready /\ RoomForCall /\ bounds.extras < MaxExtras
    /\ bounds' = [bounds EXCEPT !.extras = @ + 1]
    /\ Enters("capture", "commands")
    /\ UNCHANGED <<vars, user, phase, scene, version, window, inbox, work, gpu>>
CaptureSubmit ==
    /\ After("capture", 1) /\ call.status = "ok"
    /\ SubmitFrame("required") /\ Submitted("capture", CaptureSize, FALSE)
    /\ call' = [call EXCEPT !.at = "flush", !.turn = 2, !.frame = accepted + 1]
    /\ UNCHANGED <<user, phase, content, required, gpu>>

\* The window asks to close: run() leaves its loop.
EndBegin ==
    /\ AtLoop /\ Enters("end", "flush") /\ phase' = "ended"
    /\ UNCHANGED <<vars, user, content, inbox, work, gpu>>
ShutdownBegin ==
    /\ user = "service" /\ phase = "ended" /\ call.at = "returned"
    /\ Enters("shutdown", "flush")
    /\ Idling /\ UNCHANGED vars
Flush == call.at = "flush" /\ Ready /\ FlushBegin(Owner) /\ Goes("commands") /\ Idling

\* finish_frames(): it collects until nothing is wrong, and tells the first failure that is
\* not only a delay.
ForgetFailure == call.found
KeepFailure == IF call.found = "ok" /\ call.status # "late" THEN call.status ELSE call.found
Finishing == After("end", 1) \/ After("capture", 2)
FinishAgain ==
    /\ Finishing /\ call.status # "ok"
    /\ call' = [call EXCEPT !.at = "commands", !.found = KeepFailure]
    /\ Idling /\ UNCHANGED vars
EndDone ==
    /\ After("end", 1) /\ call.status = "ok"
    /\ Answers(call.found) /\ Idling /\ UNCHANGED vars

\* What became of the frame a capture asked for, and its answer.
OwnStatus ==
    LET mine == {i \in 1 .. Len(required) : required[i].frame = call.frame}
    IN IF mine = {} THEN "none" ELSE required[CHOOSE i \in mine : TRUE].status
OwnCompletion ==
    required # <<>> /\ Head(required).frame = call.frame /\ Head(required).status = "ok"
CaptureAnswers(result, rest) ==
    /\ call' = [NoCall EXCEPT !.op = "capture", !.status = result, !.own = OwnStatus,
                              !.saw = call.saw]
    /\ required' = rest
    /\ UNCHANGED <<vars, user, phase, content, pendingRecreate, work, gpu>>
CaptureFails ==
    \/ After("capture", 1) /\ call.status # "ok" /\ CaptureAnswers(call.status, required)
    \/ After("capture", 2) /\ call.status = "ok" /\ call.found # "ok"
           /\ CaptureAnswers(call.found, required)
\* finish_frames() has left nothing for try_take_required_completion() to collect.
CaptureDone ==
    /\ After("capture", 2) /\ call.status = "ok" /\ call.found = "ok"
    /\ CaptureAnswers(IF OwnCompletion THEN "ok" ELSE "internal",
                      IF required = <<>> THEN required ELSE Tail(required))

\* request_environment(), once the asset has been read.
RequestEnvironment ==
    /\ AtLoop /\ Ready /\ bounds.extras < MaxExtras /\ RoomForCall
    /\ SubmitCommand("once")
    /\ bounds' = [bounds EXCEPT !.extras = @ + 1]
    /\ packet' = [packet EXCEPT ![accepted + 1] = [NoPacket EXCEPT !.work = "environment"]]
    /\ UNCHANGED <<user, phase, call, scene, version, window, inbox, outcome, needs, gpu>>

\* shutdown(): one collection, the command that releases everything, its completion, stop().
ShutdownSubmit ==
    /\ After("shutdown", 1)
    /\ SubmitCommand("once")
    /\ packet' = [packet EXCEPT ![accepted + 1] = [NoPacket EXCEPT !.work = "release"]]
    /\ call' = [call EXCEPT !.at = "flushRelease", !.found = call.status, !.frame = accepted + 1]
    /\ UNCHANGED <<user, phase, content, inbox, outcome, needs, gpu>>
ShutdownFlush == call.at = "flushRelease" /\ FlushBegin(Owner) /\ Goes("take") /\ Idling
ShutdownTake ==
    LET s == Head(completedCommands) IN
    /\ call.at = "take" /\ Ready /\ TryTakeCommand
    /\ call' = [call EXCEPT !.at = "stop", !.status = IF s = call.frame THEN outcome[s] ELSE "internal"]
    /\ Idling
ShutdownStop == call.at = "stop" /\ StopBegin /\ Goes("stopping") /\ Idling
ShutdownDone ==
    /\ call.at = "stopping" /\ clientPc[Owner] = "stopped"
    /\ Answers(IF call.found # "ok" THEN call.found ELSE call.status)
    /\ required' = <<>> /\ phase' = "closed"
    /\ UNCHANGED <<vars, user, content, pendingRecreate, work, gpu>>

-----------------------------------------------------------------------------
(* The render thread.  What it asks of the GPU may fail, MaxFaults times.   *)

\* What the packet shows of the textures; the others are released, uploads once they end.
Shown(p) == IF p.version = 0 THEN {} ELSE {p.scene}
KeptUpload(p, t) ==
    IF t \notin Shown(p) /\ uploads[t].state # "running" THEN NoUpload ELSE uploads[t]
KeptMirror(p, t) == IF t \in Shown(p) THEN mirrors[t] ELSE NoMirror

\* A view's number is free again when nobody holds the view.
Views == 1 .. 2 * Cardinality(Textures) + 2
Used(p) == {KeptMirror(p, t).view : t \in Textures} \cup {KeptUpload(p, t).view : t \in Textures}
               \cup {material.held.view}
NewView(p) == CHOOSE v \in Views \ Used(p) : \A w \in Views \ Used(p) : v <= w

\* refresh_texture(): what may become of the upload and the mirror of the texture shown.
Refresh(upload, mirror, faults) == [upload |-> upload, mirror |-> mirror, faults |-> faults]
InstallCurrent(p, upload) == upload.state = "done" /\ upload.version = p.version
Refreshes(p) ==
    LET t == p.scene
        upload == KeptUpload(p, t)
        mirror == KeptMirror(p, t)
    IN IF \/ p.version = 0 \/ upload.state = "running"
          \/ mirror.view # 0 /\ mirror.version = p.version
       THEN {Refresh(upload, mirror, 0)}
       ELSE IF upload.state = "none"
       THEN {Refresh([view |-> NewView(p), version |-> p.version, state |-> "running"], mirror, 0),
             Refresh(NoUpload, mirror, 1)}
       ELSE {Refresh(NoUpload, IF InstallCurrent(p, upload)
                     THEN [view |-> upload.view, version |-> upload.version] ELSE mirror, 0)}

\* The material is made anew when it or a view it binds has changed, and holds the mirrors
\* it binds; failing, the old one stays.
HoldNothing(mirror) == NoMirror
Hold(mirror) == mirror
Rebuilds(p, mirror) ==
    IF material.scene = p.scene /\ material.view = mirror.view
    THEN {[material |-> material, faults |-> 0]}
    ELSE {[material |-> [scene |-> p.scene, view |-> mirror.view, held |-> Hold(mirror)],
           faults |-> 0],
          [material |-> material, faults |-> 1]}

\* The mirrors once execute_frame has prepared the resources of p.
Prepare(p, faults) ==
    IF p.scene = Hidden
    THEN /\ uploads' = [t \in Textures |-> KeptUpload(p, t)]
         /\ mirrors' = [t \in Textures |-> NoMirror]
         /\ material' = NoMaterial /\ faults = 0
    ELSE \E r \in Refreshes(p) : \E b \in Rebuilds(p, r.mirror) :
         /\ faults = r.faults + b.faults
         /\ uploads' = [t \in Textures |-> IF t = p.scene THEN r.upload ELSE KeptUpload(p, t)]
         /\ mirrors' = [t \in Textures |-> IF t = p.scene THEN r.mirror ELSE NoMirror]
         /\ material' = b.material

\* How a frame ends: a capture reads the picture back; another is presented, unless the
\* images have a different size or are out of date.
Ends(p, size) ==
    LET End(status, recreate, shown, faults) ==
            [status |-> status, recreate |-> recreate, shown |-> shown, faults |-> faults]
        fits == p.size = size
    IN {End("failed", p.work = "frame" /\ ~fits, FALSE, 1), End("late", FALSE, FALSE, 1)} \cup
       IF p.work = "capture" THEN {End("ok", FALSE, FALSE, 0)}
       ELSE {End("ok", ~fits, fits, 0), End("ok", TRUE, fits, 1), End("ok", TRUE, FALSE, 1)}

Faults(n) ==
    /\ bounds.faults + n <= MaxFaults
    /\ bounds' = [bounds EXCEPT !.faults = @ + n]
Ran(s, status, recreate) ==
    /\ outcome' = [outcome EXCEPT ![s] = status]
    /\ needs' = [needs EXCEPT ![s] = recreate]

\* Frames undisturbed since the request last changed, those that waited for an upload aside.
Settling == 3
Calm(p, faults) ==
    LET before == IF [p EXCEPT !.recreate = FALSE] = last THEN calm ELSE 0
    IN IF p.work = "capture" \/ faults # 0 THEN 0
       ELSE IF before = Settling \/ (p.scene \in Textures /\ uploads[p.scene].state = "running")
       THEN before
       ELSE before + 1
Pictured(p) ==
    \/ p.scene = Hidden
    \/ /\ material'.scene = p.scene /\ material'.view = mirrors'[p.scene].view
       /\ p.version = 0 \/ mirrors'[p.scene].version = p.version

ExecuteFrame(s) ==
    LET p == packet[s]
        size == IF p.recreate THEN p.size ELSE swapchain
    IN \E end \in Ends(p, size), faults \in 0 .. 3 :
        /\ Prepare(p, faults) /\ Faults(faults + end.faults)
        /\ Ran(s, end.status, end.recreate) /\ swapchain' = size
        /\ calm' = Calm(p, faults + end.faults)
        /\ IF p.work = "capture" THEN UNCHANGED <<last, exact>>
           ELSE last' = [p EXCEPT !.recreate = FALSE] /\ exact' = (end.shown /\ Pictured(p))
\* The swapchain could not be made anew, for the moment or at all: nothing else is done.
RecreateFails(s) ==
    /\ packet[s].recreate /\ Faults(1)
    /\ \E status \in {"ok", "failed"} : Ran(s, status, TRUE)
    /\ calm' = 0 /\ UNCHANGED <<uploads, mirrors, material, swapchain, last, exact>>

RunFrame ==
    /\ user = "service" /\ FinishFrame
    /\ ExecuteFrame(current) \/ RecreateFails(current)
    /\ UNCHANGED <<user, phase, call, scene, version, window, inbox, packet>>

\* A broken environment asset falls back to the built-in one; that may fail as well.
RunEnvironment ==
    /\ user = "service" /\ CompleteStatus /\ packet[current].work = "environment"
    /\ \E failed \in BOOLEAN : /\ Faults(IF failed THEN 1 ELSE 0)
                               /\ Ran(current, IF failed THEN "failed" ELSE "ok", FALSE)
    /\ UNCHANGED <<user, phase, call, scene, version, window, inbox, packet, gpu>>
\* shutdown_gpu() waits for the uploads; what is still alive then is an error.
RunRelease ==
    /\ user = "service" /\ CompleteStatus /\ packet[current].work = "release"
    /\ \A t \in Textures : uploads[t].state # "running"
    /\ uploads' = [t \in Textures |-> NoUpload] /\ mirrors' = [t \in Textures |-> NoMirror]
    /\ material' = NoMaterial
    /\ \E failed \in BOOLEAN : /\ Faults(IF failed THEN 1 ELSE 0)
                               /\ Ran(current, IF failed THEN "failed" ELSE "ok", FALSE)
    /\ UNCHANGED <<user, phase, call, scene, version, window, inbox, packet, swapchain, last,
                   exact, calm>>

\* The GPU has finished an upload.
UploadEnds(t) ==
    /\ uploads[t].state = "running"
    /\ \E failed \in BOOLEAN :
           /\ Faults(IF failed THEN 1 ELSE 0)
           /\ uploads' = [uploads EXCEPT ![t].state = IF failed THEN "failed" ELSE "done"]
           /\ calm' = IF failed THEN 0 ELSE calm
    /\ UNCHANGED <<vars, user, phase, call, scene, version, window, inbox, work, mirrors, material,
                   swapchain, last, exact>>

-----------------------------------------------------------------------------
Changes ==
    \/ \E t \in Textures : ReplaceTexture(t)
    \/ \E s \in Textures \cup {Hidden} : ReplaceMaterial(s)
    \/ \E size \in WindowSizes : Resize(size)
HostStep ==
    \/ CollectCommand \/ CommandsDone \/ CollectFrame \/ FramesDone
    \/ RenderGate \/ RenderFails \/ RenderSubmit
    \/ CaptureSubmit \/ CaptureFails \/ CaptureDone \/ Flush \/ FinishAgain \/ EndDone
    \/ ShutdownSubmit \/ ShutdownFlush \/ ShutdownTake \/ ShutdownStop \/ ShutdownDone
Host == RenderBegin \/ CaptureBegin \/ EndBegin \/ ShutdownBegin \/ RequestEnvironment \/ HostStep

\* The executor by itself: between the steps above, and with threads as its users.
ExecutorStep ==
    /\ user = "service"
    /\ \/ TakeWork \/ Sleep \/ SpuriousWake \/ Exit \/ Report \/ PublishCommand
       \/ FlushCheck(Owner) \/ MarkStopping \/ Join
    /\ UNCHANGED service
Directly ==
    /\ user = "threads" /\ Next /\ accepted' <= DirectTasks
    /\ UNCHANGED service
Closed == phase = "closed" /\ UNCHANGED serviceVars

ServiceNext ==
    \/ Changes \/ Host \/ ExecutorStep \/ Directly \/ Closed
    \/ RunFrame \/ RunEnvironment \/ RunRelease \/ \E t \in Textures : UploadEnds(t)

ServiceSpec == ServiceInit /\ [][ServiceNext]_serviceVars

\* As for the executor; the host goes on with a call it has begun, and uploads end.
ServiceFairSpec ==
    /\ ServiceSpec /\ Fairness
    /\ WF_serviceVars(HostStep) /\ \A t \in Textures : WF_serviceVars(UploadEnds(t))

-----------------------------------------------------------------------------
(* Properties *)

\* The picture catches up with the scene: once three frames have asked for the same and
\* nothing went wrong, the frame presented shows the texture's current content in the window's
\* current size, whatever uploads, discarded contents, captures and resizes came before, and
\* although the frames are captured before the host hears what became of the last ones.
PictureSettles == calm >= Settling => exact

\* What the material binds is a view somebody still holds: of the mirror it was built with,
\* through releases, replaced contents and failed rebuilds.
DrawnIsAlive ==
    material.view # 0 =>
        \/ material.held.view = material.view
        \/ \E t \in Textures : mirrors[t].view = material.view

\* A call whose receipts tell of a failed frame or command answers with a failure; a capture
\* answers `ok' only when its own frame was drawn; and a shutdown only when, besides, every
\* receipt that nobody has taken is of a success.
AnswersAreOwn ==
    call.at = "returned" /\ call.status = "ok" =>
        /\ ~call.saw
        /\ call.op = "capture" => call.own = "ok"
        /\ call.op = "shutdown" =>
               \A s \in 1 .. accepted : Contains(completedFrames \o completedCommands, s)
                   => outcome[s] = "ok"

\* Calls return, in the service as well: no frame, capture or shutdown waits for ever.
ServiceReturns == CallsReturn /\ (call.at # "returned" ~> call.at = "returned")
=============================================================================
