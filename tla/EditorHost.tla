------------------------------- MODULE EditorHost -------------------------------
(***************************************************************************)
(* The editor's frame (update_editor in editor_application.cpp) and what   *)
(* the user does in it, over the documents of EditorDocuments.  A frame    *)
(* advances what is under way and then shows the first of several faces;   *)
(* each returns early and so decides what the user can do: "file" while a  *)
(* file operation waits, "closing", "prefab", "asset" and "loader" while   *)
(* an edit or a load has the screen, "main" otherwise.  A frame takes at   *)
(* most one input ("done" after it).  The window's request to close comes  *)
(* between two frames.                                                     *)
(***************************************************************************)
EXTENDS EditorDocuments

CONSTANT MaxInputs   \* bound: what the user does, requests to close included

ASSUME HostAssumption == MaxInputs \in Nat

VARIABLES
  ui,            \* the face the last frame showed
  action,        \* document_actions::pending_
  saveAndRun,    \* pending_save_and_run
  runAfterSave,  \* run_after_save
  closing,
  game,          \* the game's process: "off", "running", "stopping"
  exited,        \* request_exit()
  inputs,        \* inputs so far
  torn,          \* an operation has failed after some of its instances (history variable)
  consent,       \* the user gave this content up (history variable)
  lost,          \* unsaved content went without it (history variable)
  late           \* the game was started while closing (history variable)

hostVars == <<ui, action, saveAndRun, runAfterSave, closing, game, exited, inputs, torn, consent, lost, late>>
vars == <<documentVars, hostVars>>

Init ==
  /\ InitDocuments
  /\ ui = "done" /\ action = "none" /\ saveAndRun = FALSE /\ runAfterSave = FALSE
  /\ closing = FALSE /\ game = "off" /\ exited = FALSE
  /\ inputs = 0 /\ torn = FALSE /\ consent = FALSE /\ lost = FALSE /\ late = FALSE

FileBusy == fileOp.kind # "none"
Scenes == {document.scene} \cup {e.scene : e \in EntriesOf(history)}

(***************************************************************************)
(* Leaving a document                                                      *)
(***************************************************************************)
Lose(d, given) == lost' = (lost \/ (Unsaved(d) /\ ~given /\ ~torn))

\* document_editing::close() and another document in its place.
Replace(new, d, given) ==
  /\ document' = new /\ history' = NoHistory(TRUE)
  /\ prefab' = NoPrefab /\ asset' = NoAsset
  /\ Lose(d, given) /\ torn' = FALSE /\ consent' = FALSE

Keep(d, h, given) ==
  /\ document' = d /\ history' = h /\ consent' = given
  /\ UNCHANGED <<prefab, asset, lost, torn>>

\* As if a document that was never saved had nothing to lose.
AsksOnlyForItsFile(d) == d.dirty /\ d.uri # Untitled

\* Whether leaving the document waits for the user's answer.
AsksFirst(d) == d.dirty

\* begin_editor_exit(): what is under way is told to stop.
BeginExit(d, h, given) ==
  /\ closing' = TRUE
  /\ IF closing THEN Keep(d, h, given) /\ UNCHANGED loader
     ELSE /\ document' = d
          /\ history' = IF IsPending(h) THEN [h EXCEPT !.cancelled = TRUE] ELSE h
          /\ prefab' = PrefabCancelled /\ asset' = AssetCancelled /\ loader' = LoadCancelled
          /\ consent' = given /\ UNCHANGED <<lost, torn>>

\* perform_document_action(): the file dialog may be cancelled, and a document
\* that is being edited or loaded refuses.
Perform(what, d, h, given) ==
  CASE what = "none" -> Keep(d, h, given) /\ UNCHANGED <<loader, closing>>
    [] what = "new"  -> /\ IF Active THEN Keep(d, h, given) ELSE Replace(Created(d), d, given)
                        /\ UNCHANGED <<loader, closing>>
    [] what = "open" -> /\ Keep(d, h, given)
                        /\ \/ UNCHANGED loader
                           \/ CanRequestLoad /\ \E u \in DOMAIN disk : loader' = RequestedLoad(u)
                        /\ UNCHANGED closing
    [] what = "exit" -> BeginExit(d, h, given)

\* As if only the file was asked for.
CanLaunchUnsaved(d) == d.uri # Untitled

\* inspect_runtime_launch(): a document that is saved, and has a file.
CanLaunch(d) == ~d.dirty /\ d.uri # Untitled

\* As if leaving did not stop the game.
LeavesTheGame(what, launched) ==
  /\ game' = IF launched /\ game = "off" THEN "running" ELSE game
  /\ late' = (late \/ (closing' /\ launched /\ game = "off"))

\* The game, when exit was performed and then a launch wanted.
Game(what, launched) ==
  /\ game' = IF launched /\ game = "off" THEN "running"
             ELSE IF what = "exit" /\ ~closing /\ game = "running" THEN "stopping" ELSE game
  /\ late' = (late \/ (closing' /\ launched /\ game = "off"))

(***************************************************************************)
(* File operations                                                         *)
(***************************************************************************)
\* files::service: the write lands or fails; a new file must not be there.
Answer(ok) ==
  /\ FileBusy /\ ~fileOp.done
  /\ (fileOp.kind = "save" /\ fileOp.fresh /\ fileOp.uri \in DOMAIN disk) => ~ok
  /\ fileOp' = [fileOp EXCEPT !.done = TRUE, !.ok = ok]
  /\ disk' = IF ok /\ fileOp.kind = "save"
             THEN [u \in DOMAIN disk \cup {fileOp.uri} |->
                     IF u = fileOp.uri THEN fileOp.content ELSE disk[u]]
             ELSE disk
  /\ UNCHANGED <<document, history, prefab, asset, loader, drag, hostVars>>

FileAnswers == \E ok \in BOOLEAN : Answer(ok)

\* The frame that finds a save complete: the save point, then what waited for it.
AfterReceipt(h, d) == IF d.dirty THEN h ELSE MarkSaved(h)

SaveCompletes ==
  /\ fileOp.kind = "save" /\ fileOp.done
  /\ fileOp' = NoFileOp /\ runAfterSave' = FALSE
  /\ LET accepted == SaveAccepted(document, fileOp)
         d == IF accepted THEN Saved(document, fileOp) ELSE document
         h == IF accepted THEN AfterReceipt(history, d) ELSE history
         clean == accepted /\ ~d.dirty
         what == IF clean THEN action ELSE "none"
     IN /\ Perform(what, d, h, consent)
        /\ action' = IF clean THEN "none" ELSE action
        /\ saveAndRun' = (saveAndRun /\ ~(clean /\ runAfterSave))
        /\ Game(what, clean /\ runAfterSave /\ CanLaunch(document'))
  /\ UNCHANGED inputs

\* adopt_author_documents(): the prepared scene takes the document's place, as a
\* command, or beyond the reach of undo when the source has been written.
Adopt(after, boundary) ==
  LET scene == Least(Scenes)
      was == document.content
  IN \/ /\ document' = Restored(document, after, scene)
        /\ history' = IF boundary THEN NoHistory(FALSE)
                      ELSE Recorded(history, Command("author", was, after, "none", document))
        /\ consent' = FALSE
     \/ /\ document' = IF boundary THEN [document EXCEPT !.dirty = TRUE] ELSE document
        /\ history' = IF boundary THEN NoHistory(FALSE) ELSE history
        /\ UNCHANGED consent

\* Unpacking reads the source and adopts; applying reads it, writes it, and adopts
\* past a boundary; creating writes it and adopts.
AuthorCompletes ==
  /\ fileOp.kind \in {"unpack", "apply", "write", "create"} /\ fileOp.done
  /\ CASE fileOp.kind = "apply" /\ fileOp.ok /\ game = "off" ->
            /\ fileOp' = [fileOp EXCEPT !.kind = "write", !.done = FALSE, !.ok = FALSE]
            /\ UNCHANGED <<document, history, consent>>
       [] fileOp.kind = "unpack" /\ fileOp.ok /\ game = "off" ->
            fileOp' = NoFileOp /\ Adopt(fileOp.content, FALSE)
       [] fileOp.kind \in {"write", "create"} /\ fileOp.ok ->
            fileOp' = NoFileOp /\ Adopt(fileOp.content, fileOp.kind = "write")
       [] OTHER -> fileOp' = NoFileOp /\ UNCHANGED <<document, history, consent>>
  /\ UNCHANGED <<prefab, asset, loader, action, saveAndRun, runAfterSave, closing, game, inputs,
                 torn, lost, late>>

\* update_editor(), while a file operation is there: nothing else is advanced.
FileFrame ==
  /\ FileBusy /\ ~exited
  /\ ui' = "file"
  /\ \/ SaveCompletes \/ AuthorCompletes
     \/ /\ ~fileOp.done
        /\ UNCHANGED <<document, history, prefab, asset, loader, fileOp, action, saveAndRun,
                       runAfterSave, closing, game, inputs, torn, consent, lost, late>>
  /\ UNCHANGED <<disk, drag, exited>>

(***************************************************************************)
(* What a frame advances                                                   *)
(***************************************************************************)
\* An operation over the instances, on the frame after it was asked for.
Runs(d, cancelled, scene, parts, done) ==
  IF cancelled \/ scene # d.scene THEN d ELSE Edited(d, PartlyApplied(d.content, parts, done))

Tears(d, cancelled, scene, done) ==
  ~(cancelled \/ scene # d.scene) /\ done # {} /\ done # Instances

Succeeds(d, cancelled, scene, done) == ~(cancelled \/ scene # d.scene) /\ done = Instances

\* editor_prefab_edit::advance()
AdvancePrefab ==
  /\ PrefabActive
  /\ CASE prefab.step \in {"preparing", "assets"} ->
            UNCHANGED <<document, history, prefab, torn>>
       [] prefab.step = "refused" ->
            prefab' = PrefabFinished(TRUE) /\ UNCHANGED <<document, history, torn>>
       [] prefab.step = "prepared" ->
            /\ \/ prefab' = PrefabFinished(TRUE)
               \/ /\ ~prefab.cancelled /\ document.scene = prefab.scene
                  /\ \E next \in {"assets", "operation"} : prefab' = [prefab EXCEPT !.step = next]
            /\ UNCHANGED <<document, history, torn>>
       [] prefab.step = "loaded" ->
            /\ \/ prefab' = PrefabFinished(TRUE)
               \/ /\ ~prefab.cancelled /\ document.scene = prefab.scene
                  /\ prefab' = [prefab EXCEPT !.step = "operation"]
            /\ UNCHANGED <<document, history, torn>>
       [] prefab.step = "operation" ->
            \E done \in Prefixes :
              /\ document' = Runs(document, prefab.cancelled, prefab.scene, prefab.parts, done)
              /\ torn' = (torn \/ Tears(document, prefab.cancelled, prefab.scene, done))
              /\ IF Succeeds(document, prefab.cancelled, prefab.scene, done)
                 THEN /\ history' = Recorded(history, Command("parts", document.content,
                                                              document'.content, "none", document))
                      /\ prefab' = PrefabFinished(FALSE)
                 ELSE prefab' = PrefabFinished(TRUE) /\ UNCHANGED history
  /\ UNCHANGED asset

\* editor_command_history::advance_pending(), and what the frame makes of its end;
\* the cleanup before the exit leaves the dirty flag alone.
AdvanceHistory ==
  /\ IsPending(history)
  /\ LET undo == history.pending = "undo"
         command == Target(history, undo)
         to == IF undo THEN command.undo.parts ELSE command.redo.parts
     IN \E done \in Prefixes :
          LET d == Runs(document, history.cancelled, command.scene, to, done)
              h == IF Succeeds(document, history.cancelled, command.scene, done)
                   THEN Moved(history, undo) ELSE history
          IN /\ history' = Settled(h)
             /\ document' = IF closing THEN d ELSE Synchronized(d, h)
             /\ torn' = (torn \/ Tears(document, history.cancelled, command.scene, done))
  /\ UNCHANGED <<prefab, asset>>

\* history.execute(): done first, then recorded.
Execute(command) ==
  /\ document' = Applied(document, command, command.redo, Least(Scenes))
  /\ history' = Recorded(history, command)

\* editor_asset_edit::advance(): commit(), or scene_document_edit::advance().
AdvanceAsset ==
  /\ AssetActive
  /\ CASE asset.step = "preparing" -> UNCHANGED <<document, history, asset>>
       [] asset.step = "refused" \/ (asset.step = "prepared" /\ ~AssetFits) ->
            asset' = [NoAsset EXCEPT !.visible = TRUE] /\ UNCHANGED <<document, history>>
       [] asset.step = "prepared" /\ AssetFits ->
            /\ asset' = NoAsset
            /\ Execute(Command(asset.kind, document.content, asset.after, "none", document))
  /\ UNCHANGED <<prefab, torn>>

\* editor_scene_loader::advance(): nothing while an edit is under way.
AdvanceLoader ==
  /\ ~Active
  /\ CASE loader.step = "loaded" /\ ~loader.cancelled ->
            Replace(Adopted(document, loader.uri), document, consent) /\ loader' = NoLoad /\ drag' = <<>>
       [] loader.step = "queued" ->
            /\ \E next \in {"loading", "none"} : loader' = [loader EXCEPT !.step = next]
            /\ UNCHANGED <<document, history, prefab, asset, drag, torn, consent, lost>>
       [] loader.step \in {"none", "loading"} ->
            UNCHANGED <<document, history, prefab, asset, loader, drag, torn, consent, lost>>
       [] loader.step = "failed" \/ (loader.step = "loaded" /\ loader.cancelled) ->
            /\ loader' = [loader EXCEPT !.step = "none", !.cancelled = FALSE]
            /\ UNCHANGED <<document, history, prefab, asset, drag, torn, consent, lost>>

\* The gizmo is finished before the menus, when the button is up; a drag that
\* changed nothing is not recorded.
FinishDrag ==
  /\ drag # <<>> /\ drag' = <<>>
  /\ history' = IF drag[1] = document.content.name THEN history
                ELSE Recorded(history, Command("name", [document.content EXCEPT !.name = drag[1]],
                                               document.content, "none", document))
  /\ UNCHANGED <<document, prefab, asset, loader, torn, consent, lost>>

\* The face a frame shows.
Face ==
  IF closing THEN "closing"
  ELSE IF prefab'.visible \/ IsPending(history') THEN "prefab"
  ELSE IF asset'.visible THEN "asset"
  ELSE IF loader'.visible \/ loader'.step # "none" THEN "loader" ELSE "main"

Frame ==
  /\ ~FileBusy /\ ~exited
  /\ \/ AdvanceLoader
     \/ /\ Active
        /\ AdvancePrefab \/ AdvanceHistory \/ AdvanceAsset
        /\ consent' = (consent /\ document'.content = document.content)
        /\ UNCHANGED <<loader, drag, lost>>
     \/ /\ ~Active /\ ~LoaderActive /\ ~closing
        /\ ~prefab.visible /\ ~asset.visible /\ ~loader.visible
        /\ FinishDrag
  /\ ui' = Face
  /\ UNCHANGED <<fileOp, disk, action, saveAndRun, runAfterSave, closing, game, exited, inputs, late>>

\* The closing frame that finds everything stopped.
Exit ==
  /\ closing /\ ~exited /\ ~FileBusy
  /\ ~Active /\ ~LoaderActive /\ game = "off"
  /\ exited' = TRUE
  /\ Lose(document, consent)
  /\ UNCHANGED <<documentVars, ui, action, saveAndRun, runAfterSave, closing, game, inputs, torn,
                 consent, late>>

(***************************************************************************)
(* Input                                                                   *)
(***************************************************************************)
Acts == ~exited /\ inputs < MaxInputs /\ ui' = "done" /\ inputs' = inputs + 1 /\ UNCHANGED exited
AtMain == ui = "main"
Keys == AtMain /\ drag = <<>>                             \* shortcuts also work under a dialog
Mouse == Keys /\ action = "none" /\ ~saveAndRun           \* a modal dialog takes the mouse

Used == Acts /\ UNCHANGED torn

Change(content, key) ==
  /\ document' = Edited(document, content)
  /\ history' = Recorded(history, Command("name", document.content, content, key, document))

Edit ==
  /\ Mouse /\ Used
  /\ \E v \in Values \ {document.content.name} :
       LET content == [document.content EXCEPT !.name = v]
       IN \/ \E key \in {"none", "drag"} : Change(content, key) /\ UNCHANGED drag
          \/ /\ document' = Edited(document, content) /\ drag' = <<document.content.name>>
             /\ UNCHANGED history
  /\ consent' = FALSE
  /\ UNCHANGED <<prefab, asset, loader, fileOp, disk, action, saveAndRun, runAfterSave, closing, game,
                 lost, late>>

AskPrefab ==
  /\ Mouse /\ CanRequestPrefab /\ Used
  /\ \E parts \in [Instances -> Values] \ {document.content.parts} : prefab' = RequestedPrefab(parts)
  /\ UNCHANGED <<document, history, asset, loader, fileOp, disk, drag, action, saveAndRun,
                 runAfterSave, closing, game, consent, lost, late>>

\* A mesh that is in the cache is set at once.
AskAsset ==
  /\ Mouse /\ CanRequestAsset /\ Used
  /\ \E kind \in {"mesh", "author"}, v \in Values :
       LET after == IF kind = "mesh" THEN [document.content EXCEPT !.mesh = v]
                    ELSE [document.content EXCEPT !.parts = [i \in Instances |-> v]]
       IN /\ after # document.content
          /\ \/ asset' = RequestedAsset(kind, after) /\ UNCHANGED <<document, history, consent>>
             \/ /\ kind = "mesh" /\ UNCHANGED asset /\ consent' = FALSE
                /\ Execute(Command(kind, document.content, after, "none", document))
  /\ UNCHANGED <<prefab, loader, fileOp, disk, drag, action, saveAndRun, runAfterSave, closing, game,
                 lost, late>>

\* unpack_selected_prefab(), apply_selected_prefab(), create_prefab_from_selected()
AskAuthor ==
  /\ Mouse /\ ~Active /\ Used
  /\ document.uri # Untitled /\ game = "off"
  /\ \E kind \in {"unpack", "apply", "create"}, v \in Values :
       LET after == [document.content EXCEPT !.parts = [i \in Instances |-> v]]
       IN after # document.content /\ fileOp' = [NoFileOp EXCEPT !.kind = kind, !.content = after]
  /\ UNCHANGED <<document, history, prefab, asset, loader, disk, drag, action, saveAndRun,
                 runAfterSave, closing, game, consent, lost, late>>

\* undo_editor_command() and redo_editor_command()
Step(undo) ==
  /\ Keys /\ Used
  /\ IF undo THEN CanUndo(history) ELSE CanRedo(history)
  /\ LET command == Target(history, undo)
         to == IF undo THEN command.undo ELSE command.redo
     IN /\ Accepts(document, command)
        /\ IF command.kind = "parts"
           THEN /\ history' = [history EXCEPT !.pending = IF undo THEN "undo" ELSE "redo"]
                /\ UNCHANGED <<document, consent>>
           ELSE /\ history' = Moved(history, undo)
                /\ document' = Synchronized(Applied(document, command, to, Least(Scenes)), history')
                /\ consent' = FALSE
  /\ UNCHANGED <<prefab, asset, loader, fileOp, disk, drag, action, saveAndRun, runAfterSave, closing,
                 game, lost, late>>

Undo == Step(TRUE)
Redo == Step(FALSE)

\* save_document() and save_document_as(): a document without a file asks for one.
SaveDocument ==
  \/ document.uri # Untitled /\ fileOp' = Saving(document, document.uri, FALSE)
  \/ \E u \in Uris : fileOp' = Saving(document, u, TRUE)

Save ==
  /\ Keys /\ Used
  /\ SaveDocument
  /\ runAfterSave' \in {runAfterSave, runAfterSave \/ saveAndRun}
  /\ UNCHANGED <<document, history, prefab, asset, loader, disk, drag, action, saveAndRun, closing,
                 game, consent, lost, late>>

\* request_document_action()
Request(what) ==
  /\ Keys /\ Used
  /\ IF AsksFirst(document)
     THEN /\ action' = what
          /\ UNCHANGED <<document, history, prefab, asset, loader, closing, game, consent, lost, late>>
     ELSE Perform(what, document, history, consent) /\ Game(what, FALSE) /\ UNCHANGED action
  /\ UNCHANGED <<fileOp, disk, drag, saveAndRun, runAfterSave>>

Requests == \E what \in {"new", "open", "exit"} : Request(what)

\* draw_document_action_panel()
Discard ==
  /\ AtMain /\ drag = <<>> /\ action # "none" /\ Acts
  /\ action' = "none"
  /\ Perform(action, document, history, TRUE) /\ Game(action, FALSE)
  /\ UNCHANGED <<fileOp, disk, drag, saveAndRun, runAfterSave, exited>>

CancelDialog ==
  /\ AtMain /\ drag = <<>> /\ Used
  /\ \/ action # "none" /\ action' = "none" /\ UNCHANGED saveAndRun
     \/ saveAndRun /\ saveAndRun' = FALSE /\ UNCHANGED action
  /\ UNCHANGED <<documentVars, runAfterSave, closing, game, consent, lost, late>>

\* request_runtime_launch(): F6 also works while the gizmo is dragged.
Run ==
  /\ AtMain /\ game = "off" /\ Used
  /\ IF CanLaunch(document) THEN game' = "running" /\ UNCHANGED saveAndRun
                            ELSE saveAndRun' = TRUE /\ UNCHANGED game
  /\ UNCHANGED <<documentVars, action, runAfterSave, closing, consent, lost, late>>

StopGame ==
  /\ AtMain /\ game = "running" /\ Used
  /\ game' = "stopping"
  /\ UNCHANGED <<documentVars, action, saveAndRun, runAfterSave, closing, consent, lost, late>>

\* The dialogs of an edit and of a load.
Modal(face) == ui = face /\ Used /\ UNCHANGED <<disk, drag, fileOp, document>>

PrefabDialog ==
  /\ Modal("prefab")
  /\ IF PrefabActive \/ IsPending(history)
     THEN prefab' = PrefabCancelled /\ history' = HistoryCancelled
     ELSE prefab' = NoPrefab /\ UNCHANGED history
  /\ UNCHANGED <<asset, loader, action, saveAndRun, runAfterSave, closing, game, consent, lost, late>>

AssetDialog ==
  /\ Modal("asset")
  /\ asset' = NoAsset
  /\ UNCHANGED <<history, prefab, loader, action, saveAndRun, runAfterSave, closing, game,
                 consent, lost, late>>

LoaderDialog ==
  /\ Modal("loader")
  /\ IF LoaderActive THEN loader' = LoadCancelled
     ELSE \/ loader' = [loader EXCEPT !.visible = FALSE]
          \/ CanRequestLoad /\ loader' = RequestedLoad(loader.uri)
  /\ UNCHANGED <<history, prefab, asset, action, saveAndRun, runAfterSave, closing, game,
                 consent, lost, late>>

\* handle_close_requested(), between two frames.
CloseRequested ==
  /\ ~closing /\ Acts
  /\ IF FileBusy THEN
          /\ action' = "exit"
          /\ UNCHANGED <<document, history, prefab, asset, loader, closing, game, consent, lost, torn, late>>
     ELSE IF LoaderActive THEN
          /\ Perform("exit", document, history, consent) /\ Game("exit", FALSE) /\ UNCHANGED action
     ELSE IF Active THEN
          /\ prefab' = PrefabCancelled /\ history' = HistoryCancelled /\ asset' = AssetCancelled
          /\ action' = "exit"
          /\ UNCHANGED <<document, loader, closing, game, consent, lost, torn, late>>
     ELSE IF AsksFirst(document) THEN
          /\ prefab' = NoPrefab /\ asset' = NoAsset /\ loader' = [loader EXCEPT !.visible = FALSE]
          /\ action' = "exit"
          /\ UNCHANGED <<document, history, closing, game, consent, lost, torn, late>>
     ELSE Perform("exit", document, history, consent) /\ Game("exit", FALSE) /\ UNCHANGED action
  /\ UNCHANGED <<fileOp, disk, drag, saveAndRun, runAfterSave, exited>>

(***************************************************************************)
(* Answers                                                                 *)
(***************************************************************************)
PrefabAnswers ==
  /\ prefab.step \in {"preparing", "assets"}
  /\ \E ok \in BOOLEAN :
       prefab' = [prefab EXCEPT !.step = IF ~ok THEN "refused"
                                         ELSE IF @ = "preparing" THEN "prepared" ELSE "loaded"]
  /\ UNCHANGED <<document, history, asset, loader, fileOp, disk, drag, hostVars>>

AssetAnswers ==
  /\ asset.step = "preparing"
  /\ \E next \in {"prepared", "refused"} : asset' = [asset EXCEPT !.step = next]
  /\ UNCHANGED <<document, history, prefab, loader, fileOp, disk, drag, hostVars>>

\* The scene service: a load that has been cancelled is not ready any more.
LoadAnswers ==
  /\ loader.step = "loading"
  /\ \E next \in IF loader.cancelled THEN {"failed"} ELSE {"loaded", "failed"} :
       loader' = [loader EXCEPT !.step = next]
  /\ UNCHANGED <<document, history, prefab, asset, fileOp, disk, drag, hostVars>>

GameEnds(was) ==
  /\ game = was /\ game' = "off"
  /\ UNCHANGED <<documentVars, ui, action, saveAndRun, runAfterSave, closing, exited, inputs, torn,
                 consent, lost, late>>

Next ==
  \/ FileAnswers \/ FileFrame \/ Frame \/ Exit
  \/ Edit \/ AskPrefab \/ AskAsset \/ AskAuthor \/ Undo \/ Redo \/ Save \/ Requests \/ Discard
  \/ CancelDialog \/ Run \/ StopGame \/ PrefabDialog \/ AssetDialog \/ LoaderDialog \/ CloseRequested
  \/ PrefabAnswers \/ AssetAnswers \/ LoadAnswers \/ GameEnds("running") \/ GameEnds("stopping")

Spec == Init /\ [][Next]_vars

\* Frames go on, files and resources answer, and a game that is told to stop does.
FairSpec ==
  /\ Spec
  /\ WF_vars(Frame) /\ WF_vars(FileFrame) /\ WF_vars(Exit) /\ WF_vars(FileAnswers)
  /\ WF_vars(PrefabAnswers) /\ WF_vars(AssetAnswers) /\ WF_vars(LoadAnswers)
  /\ WF_vars(GameEnds("stopping"))

(***************************************************************************)
(* Properties                                                              *)
(***************************************************************************)
TypeOK ==
  /\ document \in [uri : Uris \cup {Untitled}, content : Contents, dirty : BOOLEAN, scene : Nat]
  /\ history.cursor \in 0 .. Len(history.entries) /\ Len(history.entries) <= Capacity
  /\ \A e \in EntriesOf(history) : e.undo \in Contents /\ e.redo \in Contents
  /\ \A u \in DOMAIN disk : u \in Uris /\ disk[u] \in Contents
  /\ ui \in {"done", "file", "closing", "prefab", "asset", "loader", "main"}
  /\ action \in {"none", "new", "open", "exit"} /\ game \in {"off", "running", "stopping"}
  /\ inputs \in 0 .. MaxInputs

\* What the dirty flag and the history say is true of the content: a document
\* shown as saved is its file's content, and each end of the history's cursor
\* holds what is in the document.  The flag is computed from state numbers, not
\* from the content, through merges, evictions, dropped redo and save points.
CleanIsSaved == ~document.dirty => ~Unsaved(document)
HistoryFits ==
  /\ history.cursor > 0 => history.entries[history.cursor].redo = document.content
  /\ history.cursor < Len(history.entries) => history.entries[history.cursor + 1].undo = document.content
DirtyIsHonest == torn \/ (CleanIsSaved /\ (drag = <<>> => HistoryFits))

\* One thing at a time changes the document: an edit of several frames, an
\* operation of the history, a load, or a file operation whose save is of the
\* scene and the content that are still there.
OneAtATime ==
  /\ Cardinality({k \in 1 .. 5 : <<PrefabActive, AssetActive, IsPending(history), LoaderActive, FileBusy>>[k]}) <= 1
  /\ fileOp.kind = "save" => fileOp.scene = document.scene /\ fileOp.content = document.content
  /\ PrefabActive => prefab.scene = document.scene

\* Nothing unsaved goes, with a new, another or no document, unless the user
\* has given that content up; and no two operations work on one document.
NothingLost == TypeOK /\ ~lost /\ OneAtATime

\* The game that is started reads the content that is on the screen.
RunsWhatIsShown == [][game = "off" /\ game' = "running" => torn \/ ~Unsaved(document)']_vars

\* Closing ends, whatever was under way, unless the game is started after it began.
ClosingEnds == closing ~> (exited \/ late)
=============================================================================
