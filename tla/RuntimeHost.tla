------------------------------- MODULE RuntimeHost -------------------------------
(***************************************************************************)
(* The game's process around the scene service: Application's main loop    *)
(* and shutdown (application.cpp), what the host does in every frame       *)
(* (runtime_application.cpp), and the two coordinators it does it with     *)
(* (runtime_scene_loader.cpp, runtime_asset_reloader.cpp).                 *)
(*                                                                         *)
(* A frame takes the commands the editor has sent, moves the resource I/O, *)
(* works on the asset command at the head of the queue, and then on the    *)
(* scene that is being loaded.  An edit that prepares resources of its own *)
(* (editor_prefab_edit.cpp) uses the service between two frames.           *)
(***************************************************************************)
EXTENDS SceneService, Sequences

CONSTANTS
  MaxCommands,     \* bound: asset commands
  MaxQueue,        \* pending_assets: 16
  MaxEdits,        \* bound: times an edit prepares resources
  HasEnvironment   \* the project names an environment asset

ASSUME HostAssumption ==
  MaxCommands \in Nat /\ MaxQueue \in Nat \ {0} /\ MaxEdits \in Nat /\ HasEnvironment \in BOOLEAN

Commands == 1 .. MaxCommands

VARIABLES
  stage,        \* what of the frame runs: "frame", "assets", "scene", "over"
  environment,  \* environment_: its read
  loader,       \* runtime_scene_loader: active_, request_, and what it tells
  queue,        \* pending_assets: [command, kind]
  sent,         \* asset commands so far
  waiting,      \* asset_waiting and runtime_asset_reloader::pending_
  asked,        \* asset_request # 0
  structural,   \* structural_reload is there and is not ignored
  cancelling,   \* asset_cancelled
  answer,       \* what each asset command was told
  edits,        \* times an edit has prepared resources
  editing,      \* it waits for them
  exit,         \* why the loop ends
  others,       \* the asset manager and the file service have stopped
  closed        \* shutdown_complete_

hostVars == <<stage, environment, loader, queue, sent, waiting, asked, structural, cancelling,
              answer, edits, editing, exit, others, closed>>
vars == <<service, pc, hostVars>>

Init ==
  /\ InitService
  /\ stage = "frame" /\ environment = (IF HasEnvironment THEN "reading" ELSE "none")
  /\ loader = [busy |-> FALSE, request |-> 0, told |-> "none"]
  /\ queue = <<>> /\ sent = 0 /\ waiting = FALSE /\ asked = FALSE /\ structural = FALSE
  /\ cancelling = FALSE /\ answer = [c \in Commands |-> "none"]
  /\ edits = 0 /\ editing = FALSE /\ exit = "none" /\ others = FALSE /\ closed = FALSE

(***************************************************************************)
(* Commands, between two frames                                            *)
(***************************************************************************)
AtCommands == stage = "frame" /\ pc = "host" /\ exit = "none"

\* The loader accepts one scene at a time, and none while assets are waiting.
RequestedScene ==
  /\ AtCommands /\ ~waiting /\ queue = <<>> /\ ~loader.busy
  /\ CanRequestScene
  /\ RequestScene
  /\ loader' = [busy |-> TRUE, request |-> sequence', told |-> "none"]
  /\ UNCHANGED <<pc, stage, environment, queue, sent, waiting, asked, structural, cancelling,
                 answer, edits, editing, exit, others, closed>>

CancelledScene ==
  /\ AtCommands /\ loader.busy
  /\ CancelScene(loader.request)
  /\ UNCHANGED <<pc, hostVars>>

IsFull == Len(queue) >= MaxQueue

AssetCommand(kind) ==
  /\ AtCommands /\ sent < MaxCommands
  /\ sent' = sent + 1
  /\ IF IsFull
     THEN answer' = [answer EXCEPT ![sent'] = "failed"] /\ UNCHANGED queue
     ELSE queue' = Append(queue, [command |-> sent', kind |-> kind]) /\ UNCHANGED answer
  /\ UNCHANGED <<service, pc, stage, environment, loader, waiting, asked, structural, cancelling,
                 edits, editing, exit, others, closed>>

\* Only the batch that is running, and only while it is still loading.
CancelledAssets ==
  /\ AtCommands /\ waiting /\ asked /\ Owns("assets") /\ group.state = "preparing"
  /\ group' = Cancelled(group)
  /\ cancelling' = TRUE
  /\ UNCHANGED <<active, retired, sequence, load, completed, visuals, reload, stopping, attached,
                 pc, stage, environment, loader, queue, sent, waiting, asked, structural, answer,
                 edits, editing, exit, others, closed>>

Edit(change) ==
  /\ AtCommands
  /\ change
  /\ UNCHANGED <<active, retired, sequence, load, completed, visuals, reload, stopping, attached,
                 pc, stage, environment, loader, queue, sent, waiting, asked, structural,
                 cancelling, answer, exit, others, closed>>

EditPrepares ==
  Edit(/\ ~editing /\ edits < MaxEdits /\ MayPrepare
       /\ Begins("edit") /\ editing' = TRUE /\ edits' = edits + 1)

EditPolls ==
  Edit(/\ editing /\ UNCHANGED edits
       /\ \E g \in AfterAdvance(group) :
            IF Owns("edit") /\ HasEnded(g)
            THEN group' = NoGroup /\ editing' = FALSE
            ELSE group' = (IF Owns("edit") THEN g ELSE group) /\ UNCHANGED editing)

EditDiscards == Edit(editing /\ Discard("edit") /\ editing' = FALSE /\ UNCHANGED edits)

(***************************************************************************)
(* The frame                                                               *)
(***************************************************************************)
\* advance_resource_io(): the environment's read is looked at by whoever runs it.
ResourceIoFails == environment = "unreadable"
ResourceIo == environment' = IF environment \in {"unreadable", "read"} THEN "none" ELSE environment

Stops(why) == exit' = why /\ stage' = "over"

\* run(), after the window's events: a request to close may come with them.
BeginFrame ==
  /\ AtCommands
  /\ ResourceIo
  /\ IF ResourceIoFails THEN Stops("io") ELSE stage' = "assets" /\ UNCHANGED exit
  /\ UNCHANGED <<service, pc, loader, queue, sent, waiting, asked, structural, cancelling, answer,
                 edits, editing, others, closed>>

RequestExit ==
  /\ AtCommands
  /\ Stops("asked")
  /\ UNCHANGED <<service, pc, environment, loader, queue, sent, waiting, asked, structural,
                 cancelling, answer, edits, editing, others, closed>>

CanWorkOnAssets == queue # <<>> /\ ~VisualLoading /\ ~loader.busy

AtAssets == stage = "assets" /\ pc = "host"

SkipAssets ==
  /\ AtAssets /\ ~CanWorkOnAssets
  /\ stage' = "scene"
  /\ UNCHANGED <<service, pc, environment, loader, queue, sent, waiting, asked, structural,
                 cancelling, answer, edits, editing, exit, others, closed>>

\* The head of the queue is told and leaves.
Answered(how) ==
  /\ answer' = [answer EXCEPT ![Head(queue).command] = IF cancelling THEN "cancelled" ELSE how]
  /\ queue' = Tail(queue)
  /\ waiting' = FALSE /\ cancelling' = FALSE

\* execute(): the request is accepted, or the command fails at once.
ExecuteAssets ==
  /\ AtAssets /\ CanWorkOnAssets /\ ~waiting
  /\ stage' = "scene"
  /\ \/ /\ Head(queue).kind = "batch" /\ CanRequestAssets
        /\ Begins("assets")
        /\ asked' = TRUE /\ waiting' = TRUE
        /\ UNCHANGED <<active, retired, sequence, load, completed, visuals, reload, stopping,
                       attached, queue, structural, cancelling, answer>>
     \/ /\ Head(queue).kind = "structure" /\ CanReload
        /\ RequestReload
        /\ structural' = TRUE /\ waiting' = TRUE
        /\ UNCHANGED <<queue, asked, cancelling, answer>>
     \/ /\ Head(queue).kind = "batch" => ~CanRequestAssets
        /\ Head(queue).kind = "structure" => ~CanReload
        /\ Answered("failed")
        /\ UNCHANGED <<service, asked, structural>>
  /\ UNCHANGED <<pc, environment, loader, sent, edits, editing, exit, others, closed>>

\* poll_scene_reload() fails before it looks at the service: the receipt is
\* given up and the editor is told so.
IoFailsReload ==
  /\ AtAssets /\ CanWorkOnAssets /\ waiting /\ structural /\ ResourceIoFails
  /\ ResourceIo
  /\ Answered("failed")
  /\ structural' = FALSE
  /\ stage' = "scene"
  /\ UNCHANGED <<service, pc, loader, sent, asked, edits, editing, exit, others, closed>>

\* advance_scene_load() does not advance the service then, and says nothing.
IoFailsBatch ==
  /\ AtAssets /\ CanWorkOnAssets /\ waiting /\ ~structural /\ ResourceIoFails
  /\ ResourceIo
  /\ pc' = "answer"
  /\ UNCHANGED <<service, stage, loader, queue, sent, waiting, asked, structural, cancelling,
                 answer, edits, editing, exit, others, closed>>

Advances ==
  /\ BeginAdvance
  /\ UNCHANGED <<group, active, sequence, load, completed, visuals, reload, stopping, attached>>

AdvanceForAssets ==
  /\ AtAssets /\ CanWorkOnAssets /\ waiting /\ ~ResourceIoFails
  /\ ResourceIo
  /\ Advances
  /\ UNCHANGED <<stage, loader, queue, sent, waiting, asked, structural, cancelling, answer,
                 edits, editing, exit, others, closed>>

AdvanceService ==
  /\ AdvanceVisuals \/ AdvanceSceneLoad \/ AdvanceReload
  /\ UNCHANGED hostVars

\* report_visual_completion(): after every advance but that for a structural reload.
VisualsReported == [visuals EXCEPT !.done = "none"]

PollReload ==
  /\ stage = "assets" /\ pc = "answer" /\ structural
  /\ IF reload.phase = "done"
     THEN /\ Answered(IF reload.result = "ok" THEN "applied" ELSE "failed")
          /\ reload' = NoReload /\ structural' = FALSE
     ELSE UNCHANGED <<queue, waiting, cancelling, answer, reload, structural>>
  /\ pc' = "host" /\ stage' = "scene"
  /\ UNCHANGED <<group, active, retired, sequence, load, completed, visuals, stopping, attached,
                 environment, loader, sent, asked, edits, editing, exit, others, closed>>

PollBatch ==
  /\ stage = "assets" /\ pc = "answer" /\ ~structural
  /\ visuals' = VisualsReported
  /\ IF ~Owns("assets")
     THEN Answered("failed") /\ asked' = FALSE /\ UNCHANGED group
     ELSE \E g \in AfterAdvance(group) :
            IF HasEnded(g)
            THEN /\ Answered(IF g.state = "applied" THEN "applied" ELSE "failed")
                 /\ group' = NoGroup /\ asked' = FALSE
            ELSE group' = g /\ UNCHANGED <<queue, waiting, cancelling, answer, asked>>
  /\ pc' = "host" /\ stage' = "scene"
  /\ UNCHANGED <<active, retired, sequence, load, completed, reload, stopping, attached,
                 environment, loader, sent, structural, edits, editing, exit, others, closed>>

AtScene == stage = "scene" /\ pc = "host"

\* runtime_scene_loader::advance(): poll_scene() advances the service.
AdvanceForScene ==
  /\ AtScene
  /\ ResourceIo
  /\ IF ResourceIoFails
     THEN Stops("io") /\ UNCHANGED <<service, pc>>
     ELSE Advances /\ UNCHANGED <<stage, exit>>
  /\ UNCHANGED <<loader, queue, sent, waiting, asked, structural, cancelling, answer, edits,
                 editing, others, closed>>

AtLoader == stage = "scene" /\ pc = "answer"

Told(how) == loader' = [loader EXCEPT !.busy = FALSE, !.told = how]

NextFrame ==
  /\ pc' = "host" /\ stage' = "frame" /\ exit' = "none"
  /\ UNCHANGED <<environment, queue, sent, waiting, asked, structural, cancelling, answer, edits,
                 editing, others, closed>>

LoaderFinishes ==
  /\ AtLoader /\ completed # "none"
  /\ completed' = "none"
  /\ IF loader.busy THEN Told(completed) ELSE UNCHANGED loader
  /\ visuals' = VisualsReported
  /\ NextFrame
  /\ UNCHANGED <<group, active, retired, sequence, load, reload, stopping, attached>>

LoaderWaits ==
  /\ AtLoader /\ completed = "none"
  /\ ~loader.busy \/ load.phase # "ready" \/ ~CanActivate
  /\ visuals' = VisualsReported
  /\ NextFrame
  /\ UNCHANGED <<loader, group, active, retired, sequence, load, completed, reload, stopping,
                 attached>>

\* An activation that is refused is an error of the frame, which ends the loop.
LoaderActivates ==
  /\ AtLoader /\ completed = "none" /\ loader.busy /\ load.phase = "ready" /\ CanActivate
  /\ IF MayActivate(loader.request)
     THEN Activate(VisualsReported) /\ Told("applied") /\ NextFrame
     ELSE /\ Stops("refused") /\ pc' = "host"
          /\ UNCHANGED <<service, environment, loader, queue, sent, waiting, asked, structural,
                         cancelling, answer, edits, editing, others, closed>>

(***************************************************************************)
(* Stopping                                                                *)
(***************************************************************************)
\* After run() the host discards the assets it has asked for.
DiscardAssets ==
  /\ stage = "over" /\ asked
  /\ Discard("assets") /\ asked' = FALSE
  /\ UNCHANGED <<active, retired, sequence, load, completed, visuals, reload, stopping, attached,
                 pc, stage, environment, loader, queue, sent, waiting, structural, cancelling,
                 answer, edits, editing, exit, others, closed>>

RequestShutdown ==
  /\ stage = "over" /\ ~asked /\ ~stopping
  /\ RequestStop
  /\ UNCHANGED <<pc, hostVars>>

EditGivesUp ==
  /\ stopping /\ editing
  /\ Discard("edit") /\ editing' = FALSE
  /\ UNCHANGED <<active, retired, sequence, load, completed, visuals, reload, stopping, attached,
                 pc, stage, environment, loader, queue, sent, waiting, asked, structural,
                 cancelling, answer, edits, exit, others, closed>>

AdvanceShutdown ==
  /\ stopping /\ ~HasStopped
  /\ AdvanceStop
  /\ UNCHANGED <<pc, hostVars>>

OthersStop ==
  /\ stopping /\ ~others
  /\ others' = TRUE
  /\ UNCHANGED <<service, pc, stage, environment, loader, queue, sent, waiting, asked, structural,
                 cancelling, answer, edits, editing, exit, closed>>

CloseApplication ==
  /\ HasStopped /\ others /\ ~closed
  /\ closed' = TRUE
  /\ UNCHANGED <<service, pc, stage, environment, loader, queue, sent, waiting, asked, structural,
                 cancelling, answer, edits, editing, exit, others>>

ReadEnvironment ==
  /\ environment = "reading"
  /\ environment' \in {"read", "unreadable"}
  /\ UNCHANGED <<service, pc, stage, loader, queue, sent, waiting, asked, structural, cancelling,
                 answer, edits, editing, exit, others, closed>>

Other == Answers /\ UNCHANGED hostVars

Frame ==
  \/ BeginFrame \/ SkipAssets \/ ExecuteAssets \/ IoFailsReload \/ IoFailsBatch
  \/ AdvanceForAssets \/ AdvanceService \/ PollReload \/ PollBatch
  \/ AdvanceForScene \/ LoaderFinishes \/ LoaderWaits \/ LoaderActivates

Ending == DiscardAssets \/ RequestShutdown \/ AdvanceShutdown \/ CloseApplication

Next ==
  \/ RequestedScene \/ CancelledScene \/ CancelledAssets \/ RequestExit
  \/ \E kind \in {"batch", "structure"} : AssetCommand(kind)
  \/ EditPrepares \/ EditPolls \/ EditDiscards \/ EditGivesUp
  \/ Frame \/ Ending \/ OthersStop \/ ReadEnvironment \/ Other

Spec == Init /\ [][Next]_vars

\* The loop runs frames until it ends, and then shuts down; the threads that read
\* and prepare go on, so that the executor is not full forever; an edit polls what
\* it has asked for.
Fairness ==
  /\ SF_vars(BeginFrame) /\ WF_vars(Frame) /\ WF_vars(Ending) /\ WF_vars(OthersStop)
  /\ WF_vars(AnswerItem /\ UNCHANGED hostVars) /\ WF_vars(AnswerScene /\ UNCHANGED hostVars)
  /\ WF_vars(AnswerReload /\ UNCHANGED hostVars) /\ WF_vars(ReadEnvironment)
  /\ SF_vars(EditPolls)
  /\ SF_vars(AdvanceSceneLoad /\ load'.phase # "submitting" /\ UNCHANGED hostVars)

FairSpec == Spec /\ Fairness

(***************************************************************************)
(* Properties                                                              *)
(***************************************************************************)
TypeOK ==
  /\ ServiceTypeOK
  /\ pc \in {"host", "visuals", "load", "reload", "answer"}
  /\ stage \in {"frame", "assets", "scene", "over"}
  /\ environment \in {"none", "reading", "read", "unreadable"}
  /\ loader \in [busy : BOOLEAN, request : 0 .. sequence, told : {"none", "applied", "failed", "cancelled"}]
  /\ sent \in 0 .. MaxCommands /\ Len(queue) <= MaxQueue
  /\ \A i \in DOMAIN queue : queue[i] \in [command : 1 .. sent, kind : {"batch", "structure"}]
  /\ answer \in [Commands -> {"none", "applied", "failed", "cancelled"}]
  /\ {waiting, asked, structural, cancelling, editing, others, closed} \subseteq BOOLEAN
  /\ edits \in 0 .. MaxEdits /\ exit \in {"none", "asked", "io", "refused"}

\* The answer in the group belongs to exactly one of those who wait for one, so
\* nobody takes another's, and nobody waits for an answer that is gone; and the
\* frame in which a scene is ready never ends the game: whatever has been
\* cancelled, replaced or asked for meanwhile, the activation is not refused.
GroupHasOneUser ==
  /\ TypeOK
  /\ exit # "refused"
  /\ ~stopping =>
       /\ visuals.pending <=> Owns("visual")
       /\ reload.pending <=> Owns("reload")
       /\ asked <=> Owns("assets")
       /\ editing <=> Owns("edit")

\* A scene load whose cancelling was accepted ends as cancelled, and not with
\* its world in the place of the old one.
CancelIsHonoured ==
  \A s \in 1 .. MaxScenes :
    (load.request = s /\ load.cancelled /\ ~stopping)
      ~> (exit # "none" \/ (loader.request = s /\ loader.told = "cancelled"))

\* Every scene and every asset command is answered, or the game ends; an end
\* that was begun comes to its end, with the answers of nobody outstanding.
EverythingIsAnswered ==
  /\ loader.busy ~> ~loader.busy \/ exit # "none"
  /\ \A c \in Commands : (sent >= c) ~> (answer[c] # "none" \/ exit # "none")
  /\ (exit # "none") ~> closed
=============================================================================
