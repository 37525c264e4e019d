------------------------------ MODULE SceneService ------------------------------
(***************************************************************************)
(* The scene service (scene_service.cpp, scene_service_loading.cpp) and    *)
(* the one load group it shares out (resource_load_group.hpp).             *)
(*                                                                         *)
(* A scene is loaded beside the active world and takes its place when the  *)
(* host says so; its meshes and materials come afterwards, one by one,     *)
(* through the group.  The group has room for one answer: the visuals of   *)
(* the active scene, a reload of the active scene, assets the editor asks  *)
(* the game to take again, and resources an edit needs all want it.        *)
(*                                                                         *)
(* Everything runs on the owner's thread.  One call of advance() is four   *)
(* steps here (pc), between which only the file, asset and task threads    *)
(* move.  A scene's description is one read, an outcome is ok or failed.   *)
(***************************************************************************)
EXTENDS Naturals

CONSTANTS
  MaxScenes,     \* bound: scenes that are requested
  MaxVisuals,    \* bound: render resources of a scene
  MaxItems,      \* bound: assets of a batch
  Batch          \* references reserved in one advance(): 64

ASSUME SceneAssumption ==
  MaxScenes \in Nat /\ MaxVisuals \in Nat /\ MaxItems \in Nat \ {0} /\ Batch \in Nat \ {0}

VARIABLES
  group,       \* completion_ and current_ of the load group
  active,      \* the request whose world is active_; 0 for the first, empty one
  retired,     \* retired_ holds the world that was active before
  sequence,    \* sequence_
  load,        \* pending_
  completed,   \* completed_: how the last load that was not activated ended
  visuals,     \* visual_queue_, visual_pending_ and visual_completion_
  reload,      \* reload_
  stopping,    \* stopping_
  attached,    \* executor_, loading_ and active_ are there
  pc           \* the step of advance() that comes next, or "host"

service == <<group, active, retired, sequence, load, completed, visuals, reload, stopping, attached>>

NoGroup == [user |-> "none", state |-> "none", left |-> 0, bad |-> FALSE, item |-> "none"]
NoLoad == [request |-> 0, phase |-> "none", step |-> "none", cancelled |-> FALSE, size |-> 0, todo |-> 0]
NoVisuals == [open |-> FALSE, left |-> 0, pending |-> FALSE, done |-> "none"]
NoReload == [phase |-> "none", step |-> "none", left |-> 0, pending |-> FALSE, result |-> "none"]

InitService ==
  /\ group = NoGroup /\ active = 0 /\ retired = FALSE /\ sequence = 0
  /\ load = NoLoad /\ completed = "none" /\ visuals = NoVisuals /\ reload = NoReload
  /\ stopping = FALSE /\ attached = TRUE /\ pc = "host"

(***************************************************************************)
(* The load group                                                          *)
(***************************************************************************)
IsBusy == group.user # "none"

Submitted(user, count) ==
  [user |-> user, state |-> "preparing", left |-> count, bad |-> FALSE, item |-> "none"]

CanSubmit == ~stopping /\ ~IsBusy

\* An item has an answer: it is counted, and after the last one the group has ended.
AfterItem(g, ok) ==
  LET bad == g.bad \/ ~ok
  IN  [g EXCEPT !.left = @ - 1, !.bad = bad, !.item = "none",
                !.state = IF g.left > 1 THEN "preparing" ELSE IF bad THEN "failed" ELSE "applied"]

\* advance(): asks for the item, or takes its answer, which may be there at once.
AfterAdvance(g) ==
  IF g.state # "preparing" \/ g.item = "asked" THEN {g}
  ELSE IF g.item = "none"
  THEN {[g EXCEPT !.item = "asked"]} \cup {AfterItem(g, ok) : ok \in BOOLEAN}
  ELSE {AfterItem(g, g.item = "ok")}

HasSettled(g) == g.state \in {"applied", "failed"}

HasEnded(g) == g.state \in {"applied", "failed", "cancelled"}

Cancelled(g) ==
  IF g.state = "preparing" THEN [g EXCEPT !.state = "cancelled", !.item = "none"] ELSE g

Owns(user) == group.user = user

(***************************************************************************)
(* Questions                                                               *)
(***************************************************************************)
IsReloading == reload.phase # "none"
IsLoading == load.phase # "none" \/ completed # "none"
VisualLoading == visuals.pending \/ visuals.open

CanStartLoad ==
  ~stopping /\ ~IsReloading /\ ~retired /\ attached /\ (~IsBusy \/ visuals.pending)

CanActivate == ~stopping /\ ~IsReloading /\ ~retired /\ attached /\ ~IsBusy

(***************************************************************************)
(* Loading a scene                                                         *)
(***************************************************************************)
CanRequestScene == CanStartLoad /\ ~IsLoading /\ sequence < MaxScenes

LeavesVisuals ==
  /\ visuals' = [visuals EXCEPT !.open = FALSE, !.left = 0, !.pending = FALSE]
  /\ group' = IF visuals.pending THEN Cancelled(group) ELSE group

\* The old scene's visuals are not loaded any further.
CancelVisuals ==
  /\ visuals' = [visuals EXCEPT !.open = FALSE, !.left = 0]
  /\ group' = IF visuals.pending THEN Cancelled(group) ELSE group

RequestScene ==
  /\ sequence' = sequence + 1
  /\ load' = [NoLoad EXCEPT !.request = sequence + 1, !.phase = "describing", !.step = "reading"]
  /\ CancelVisuals
  /\ UNCHANGED <<active, retired, completed, reload, stopping, attached>>

\* cancel_scene(): a task that is still in the queue will not run.
CancelScene(request) ==
  /\ load.phase # "none" /\ load.request = request
  /\ load' = [load EXCEPT !.cancelled = TRUE]
  /\ UNCHANGED <<group, active, retired, sequence, completed, visuals, reload, stopping, attached>>

Finish(how) == load' = NoLoad /\ completed' = how

\* The executor accepts the task, is full, or refuses it.
SubmitTask ==
  \/ load' = [load EXCEPT !.phase = "preparing", !.step = "queued"] /\ UNCHANGED completed
  \/ load' = [load EXCEPT !.phase = "submitting", !.step = "none"] /\ UNCHANGED completed
  \/ Finish("failed")

Describe ==
  /\ load.phase \in {"describing", "submitting"}
  /\ IF load.cancelled THEN Finish("cancelled")
     ELSE IF load.step = "reading" THEN UNCHANGED <<load, completed>>
     ELSE IF load.step = "failed" THEN Finish("failed")
     ELSE SubmitTask

CollectUnchecked ==
  /\ load.phase = "preparing"
  /\ IF load.step = "queued" THEN UNCHANGED <<load, completed>>
     ELSE \/ Finish("failed")
          \/ load.step = "ok" /\ load' = [load EXCEPT !.phase = "assets"] /\ UNCHANGED completed

\* The task has been polled; the candidate's world may not be made.
Collect ==
  /\ load.phase = "preparing"
  /\ IF load.step = "queued" THEN UNCHANGED <<load, completed>>
     ELSE IF load.cancelled THEN Finish("cancelled")
     ELSE \/ Finish("failed")
          \/ /\ load.step = "ok"
             /\ \E size \in 0 .. MaxVisuals :
                  load' = [load EXCEPT !.phase = "assets", !.size = size, !.todo = size]
             /\ UNCHANGED completed

ReserveReferences ==
  /\ load.phase = "assets"
  /\ IF load.cancelled THEN Finish("cancelled")
     ELSE \/ Finish("failed")
          \/ /\ load' = IF load.todo = 0 THEN [load EXCEPT !.phase = "ready"]
                        ELSE [load EXCEPT !.todo = IF @ > Batch THEN @ - Batch ELSE 0]
             /\ UNCHANGED completed

\* A candidate that is ready waits to be activated.
Await ==
  /\ load.phase \in {"ready", "none"}
  /\ IF load.cancelled THEN Finish("cancelled") ELSE UNCHANGED <<load, completed>>

AdvanceLoad == Describe \/ Collect \/ ReserveReferences \/ Await

MayActivate(request) ==
  attached /\ CanActivate /\ ~load.cancelled /\ load.request = request /\ load.phase = "ready"

\* The visuals of the new scene are queued; of the old ones only a report is left.
Activate(reported) ==
  /\ active' = load.request
  /\ retired' = TRUE
  /\ visuals' = [reported EXCEPT !.open = load.size > 0, !.left = load.size]
  /\ load' = NoLoad
  /\ UNCHANGED <<group, sequence, completed, reload, stopping, attached>>

(***************************************************************************)
(* advance()                                                               *)
(***************************************************************************)
\* The world that was active goes when the service advances again.
BeginAdvance == retired' = FALSE /\ pc' = "visuals"

TakeVisual ==
  \E g \in AfterAdvance(group) :
    IF HasEnded(g)
    THEN group' = NoGroup /\ visuals' = [visuals EXCEPT !.pending = FALSE, !.done = g.state]
    ELSE group' = g /\ UNCHANGED visuals

AdvanceVisuals ==
  /\ pc = "visuals"
  /\ IF visuals.done # "none" THEN UNCHANGED <<group, visuals>>
     ELSE IF visuals.pending THEN TakeVisual
     ELSE IF visuals.left = 0
     THEN visuals' = [visuals EXCEPT !.open = FALSE] /\ UNCHANGED group
     ELSE IF CanSubmit
     THEN group' = Submitted("visual", 1) /\ visuals' = [visuals EXCEPT !.pending = TRUE, !.left = @ - 1]
     ELSE UNCHANGED <<group, visuals>>
  /\ pc' = "load"
  /\ UNCHANGED <<active, retired, sequence, load, completed, reload, stopping, attached>>

AdvanceSceneLoad ==
  /\ pc = "load"
  /\ AdvanceLoad
  /\ pc' = "reload"
  /\ UNCHANGED <<group, active, retired, sequence, visuals, reload, stopping, attached>>

(***************************************************************************)
(* Reloading the structure of the active scene in place                    *)
(***************************************************************************)
\* There is a scene to reload, and nothing is under way.
CanReload ==
  active # 0 /\ ~IsReloading /\ ~IsLoading /\ ~VisualLoading /\ ~IsBusy /\ ~retired /\ ~stopping /\ attached

RequestReload ==
  /\ reload' = [NoReload EXCEPT !.phase = "describing", !.step = "reading"]
  /\ UNCHANGED <<group, active, retired, sequence, load, completed, visuals, stopping, attached>>

Ended(r, how) == [r EXCEPT !.phase = "done", !.result = how]

\* The next asset of the reload is asked for; after the last one it is applied.
NextAsset(r) ==
  IF r.left = 0
  THEN UNCHANGED group /\ \E how \in {"ok", "failed"} : reload' = Ended(r, how)
  ELSE IF CanSubmit
  THEN group' = Submitted("reload", 1) /\ reload' = [r EXCEPT !.pending = TRUE]
  ELSE reload' = r /\ UNCHANGED group

ReloadDescribes ==
  /\ reload.phase = "describing"
  /\ IF reload.step = "reading" THEN UNCHANGED <<group, reload>>
     ELSE \/ reload' = Ended(reload, "failed") /\ UNCHANGED group
          \/ /\ reload.step = "ok"
             /\ \E size \in 0 .. MaxVisuals :
                  NextAsset([reload EXCEPT !.phase = "assets", !.left = size])

TakeReloadAsset(g) ==
  IF ~HasEnded(g) THEN group' = g /\ UNCHANGED reload
  ELSE IF g.state = "applied"
  THEN LET r == [reload EXCEPT !.pending = FALSE, !.left = @ - 1]
       IN  IF r.left = 0
           THEN group' = NoGroup /\ \E how \in {"ok", "failed"} : reload' = Ended(r, how)
           ELSE group' = Submitted("reload", 1) /\ reload' = [r EXCEPT !.pending = TRUE]
  ELSE group' = NoGroup /\ reload' = Ended([reload EXCEPT !.pending = FALSE], "failed")

ReloadAssets ==
  /\ reload.phase = "assets"
  /\ IF reload.pending THEN \E g \in AfterAdvance(group) : TakeReloadAsset(g)
     ELSE NextAsset(reload)

AdvanceReload ==
  /\ pc = "reload"
  /\ \/ ReloadDescribes \/ ReloadAssets
     \/ reload.phase \in {"none", "done"} /\ UNCHANGED <<group, reload>>
  /\ pc' = "answer"
  /\ UNCHANGED <<active, retired, sequence, load, completed, visuals, stopping, attached>>

(***************************************************************************)
(* Assets and prepared resources                                           *)
(***************************************************************************)
CanRequestAssets == ~stopping /\ attached /\ ~IsReloading /\ ~IsLoading /\ ~VisualLoading /\ ~IsBusy

\* prepare_assets(), when something is missing: allow_load.
MayPrepare == CanSubmit /\ attached /\ ~IsReloading /\ ~IsLoading /\ ~VisualLoading /\ ~retired

Begins(user) == \E count \in 1 .. MaxItems : group' = Submitted(user, count)

Discard(user) == group' = IF Owns(user) THEN NoGroup ELSE group

(***************************************************************************)
(* Other threads                                                           *)
(***************************************************************************)
Outcome == {"ok", "failed"}

AnswerItem ==
  /\ group.item = "asked"
  /\ \E how \in Outcome : group' = [group EXCEPT !.item = how]
  /\ UNCHANGED <<active, retired, sequence, load, completed, visuals, reload, stopping, attached, pc>>

AnswerScene ==
  /\ load.step \in {"reading", "queued"}
  /\ \E how \in Outcome : load' = [load EXCEPT !.step = how]
  /\ UNCHANGED <<group, active, retired, sequence, completed, visuals, reload, stopping, attached, pc>>

AnswerReload ==
  /\ reload.step = "reading"
  /\ \E how \in Outcome : reload' = [reload EXCEPT !.step = how]
  /\ UNCHANGED <<group, active, retired, sequence, load, completed, visuals, stopping, attached, pc>>

Answers == AnswerItem \/ AnswerScene \/ AnswerReload

(***************************************************************************)
(* Stopping                                                                *)
(***************************************************************************)
RequestStop ==
  /\ stopping' = TRUE
  /\ reload' = NoReload
  /\ visuals' = [visuals EXCEPT !.open = FALSE, !.left = 0, !.done = "none"]
  /\ group' = Cancelled(group)
  /\ load' = [load EXCEPT !.cancelled = load.phase # "none"]
  /\ UNCHANGED <<active, retired, sequence, completed, attached>>

\* idle(scope_): the task has ended, or there is none.
IsIdle == ~(load.phase = "preparing" /\ load.step = "queued")

Shutdown ==
  /\ group' = NoGroup /\ load' = NoLoad /\ completed' = "none"
  /\ visuals' = NoVisuals /\ reload' = NoReload
  /\ retired' = FALSE /\ attached' = FALSE
  /\ UNCHANGED <<active, sequence, stopping>>

\* advance_stop(): the load goes on until it has seen that it is cancelled.
AdvanceStop ==
  IF IsIdle THEN Shutdown
  ELSE AdvanceLoad /\ UNCHANGED <<group, active, retired, sequence, visuals, reload, stopping, attached>>

HasStopped == stopping /\ ~attached

(***************************************************************************)
(* Properties                                                              *)
(***************************************************************************)
ServiceTypeOK ==
  /\ group \in [user : {"none", "visual", "reload", "assets", "edit"},
                state : {"none", "preparing", "applied", "failed", "cancelled"},
                left : 0 .. MaxItems, bad : BOOLEAN, item : {"none", "asked"} \cup Outcome]
  /\ active \in 0 .. sequence /\ retired \in BOOLEAN /\ sequence \in 0 .. MaxScenes
  /\ load \in [request : 0 .. sequence,
               phase : {"none", "describing", "submitting", "preparing", "assets", "ready"},
               step : {"none", "reading", "queued"} \cup Outcome, cancelled : BOOLEAN,
               size : 0 .. MaxVisuals, todo : 0 .. MaxVisuals]
  /\ completed \in {"none", "failed", "cancelled"}
  /\ visuals \in [open : BOOLEAN, left : 0 .. MaxVisuals, pending : BOOLEAN,
                  done : {"none", "applied", "failed", "cancelled"}]
  /\ reload \in [phase : {"none", "describing", "assets", "done"},
                 step : {"none", "reading"} \cup Outcome, left : 0 .. MaxVisuals,
                 pending : BOOLEAN, result : {"none"} \cup Outcome]
  /\ stopping \in BOOLEAN /\ attached \in BOOLEAN
=============================================================================
