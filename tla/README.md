# Gneiss in TLA+

Gneiss is a C++20 game engine with an editor. This directory models the parts of it
where several threads, several processes or several unfinished operations meet, checks
the models with TLC and proves most of their safety properties with TLAPS. Paths
below are relative to the root of the repository; `src/engine` is the engine,
`src/runtime` its main loop, `src/host` the two programs built on it, `src/editor` and
`src/tooling` the editor's libraries.

Every definition that stands for code is listed with its file and lines in
`PROJECT.json` under `map`; `hazards` lists what is hard to test in this code, at its
line, with the property that covers it.

## 1. Inventory

### Components that are modelled

**Task scheduler** (`src/engine/core/tasks`).
*State*: one mutex and one condition variable `wake` over a map of tasks (description,
state, cancellation flag), the scopes and serial queues, `running_background`,
`normal_streak`, `stopping` and the statistics.
*Operations*: `make_scope`, `make_serial_queue`, `submit`, `cancel`, `cancel_scope`,
`poll`, `close_scope` (blocks), `try_close_scope` (does not), `request_stop`, `stop`,
the loop of a worker and, in cooperative mode, `run_ready`.
*Hard*: the mutex is released around each body and inside three blocking calls; one
`select()` orders tasks by lane, prerequisites, due time, priority and budget and fails
dependants on its way; one condition variable serves workers and closers.
*Correct when* lanes and prerequisites order the bodies, a body runs on one worker, the
background budget is exact and normal work cannot starve background work, cancelling
reaches every task, a reclaimed scope is quiet, no wakeup is lost, every accepted task
ends, and `close_scope` and `stop` return.

**Render executor** (`src/engine/function/render/render_executor.cpp`).
*State*: a deque of frames and commands, the task in the render thread's hands, two
queues of receipts, the status of the last command.
*Operations*: submit a frame (append, replace, refuse) or a command (once or
resumable), take a receipt, `flush`, `stop`, and the render thread's loop.
*Hard*: a full queue replaces its oldest replaceable frame; a resumable command comes
back to the end; `stop` flushes before it marks `stopping`; a command's status and its
receipt are published in two critical sections.
*Correct when* every accepted task gets exactly one receipt, order is that of
submission, the status is never older than the receipt, `stop` drains, calls return.

**Render service** (`src/engine/function/render/render_service.cpp`, called from
`src/runtime/application.cpp`).
*State*: on the host's side, what to ask of the next frame (`pending_recreate`,
`force_frame`, `required_frame_completions`, the environment's request); on the render
thread, the mirrors of textures and materials on the GPU, their running uploads and the
swapchain.
*Operations*: the loop's frame (collect receipts, gate, submit), `capture_frame`,
the environment, `finish_frames`, `shutdown`; on the render thread synchronising
mirrors, building a material, recreating the swapchain, drawing.
*Hard*: the host hears what became of a frame only after it may have captured the next;
a texture's content changes while the last upload runs; a material binds views of
mirrors that may be released; captures and frames of the loop share one queue.
*Correct when* the picture catches up with the scene, nothing that was released is
drawn, each call answers for its own work and returns.

**File service** (`src/engine/platform/files/file_service.cpp`, `file_read_stream.cpp`).
*State*: requests with id, reserved bytes and the index of the backend that is asked;
`completion_state` shared with backends; open streams; the closing flag.
*Operations*: read, write, open a stream, read a block, cancel, drop a stream,
`dispatch_completions`, `shutdown`.
*Hard*: backends complete on any thread; a read falls back to the next reader on
`not_found`; callbacks submit and cancel while the dispatch walks the table; a stream
may open after its request was cancelled.
*Correct when* what `cancel` said is what the callback hears, the shutdown callback is
the last thing that happens and nothing stays open, buffers are accounted exactly, and
every accepted call comes back.

**Play session** (`src/host/editor/runtime_process.cpp`,
`src/host/editor/ipc/editor_ipc_session.cpp`,
`src/host/runtime/runtime_ipc_session.cpp`, `src/host/runtime/runtime_application.cpp`,
over `src/engine/platform/ipc/ipc_transport.cpp`).
*State*: the editor's `control_state`, `authenticated`, `shutdown_complete` and
`stop_deadline`; the game's session state; two transports; the stop file; the process.
*Operations*: play, stop, pause, resume and `update` of the editor; `pump`, the command
handlers and the way out of `main` of the game; `poll_events` and `stop` of a transport.
*Hard*: envelopes, the end of the stream, the exit of the process and the stop file
reach the editor by four ways in any order; either process may hang or die; one update
reads a bounded number of events.
*Correct when* the editor shows the state the game is in once everything is heard, a
shutdown is believed only when it happened, no command overtakes the handshake, a stop
or a failed session ends the process, and no game outlives its editor.

**Asset manager and cache** (`src/engine/function/resource/asset_manager.cpp`,
`resource_cache.cpp`, `asset_request.hpp`).
*State*: loads in flight, the request table (generation and a weak pointer to the load
a second request joins), the weak cache.
*Operations*: `request` (join, answer from the cache, read), `store`, `collect_unused`,
`request_stop`, `advance`, and the file and decode callbacks.
*Hard*: loads of one key overlap with stores and reloads, end out of order and lose
their observers; the table and the cache hold weak pointers; a texture reads a second
file; the executor may be full.
*Correct when* only the newest content of a key reaches the cache, the table always
serves the loads in flight, a reload keeps what it would replace until it succeeds, and
every load is answered or given up, also by a stop.

**Resource service and RID tables** (`resource_service.cpp`,
`resource_service_loading.cpp`, `src/engine/resource/resource_retirement_queue.hpp`,
`render_service_resources.cpp`, `src/engine/core/rid_table.hpp`).
*State*: the render service's tables of slots with generations, the objects that own
handles, weak tables of what is loaded, the loads in progress, the retirement queue.
*Operations*: load, reload, make by hand, drop a reference (on any thread), advance,
collect, both stops.
*Hard*: the last reference goes on any thread, and only queues the object; a material
waits for a texture whose load others share; a slot is given back and taken again.
*Correct when* a handle that was given back never denotes anything again, what is ready
is complete, older content never replaces newer and every request is answered.

**Scene service, load group and game host** (`src/runtime/loading`,
`src/runtime/application.cpp`, `src/host/runtime`).
*State*: the pending scene, the active and the retired world, the queue of visuals, the
structural reload, one load group with room for one answer; the host's queue of asset
commands and its scene loader.
*Operations*: request, cancel, activate a scene; reload its structure; asset commands
of the editor; edits that prepare resources; the frame; the two-step shutdown.
*Hard*: four users share the group; a scene may be cancelled, replaced or exited at any
frame; an asset command waits behind scenes, visuals and other commands.
*Correct when* an answer in the group belongs to exactly one of those who wait, a
cancelled scene is not activated, everything is answered and an exit ends.

**Editor documents, commands and host** (`src/editor/documents`, `src/editor/commands`,
`update_editor` of `src/host/editor/editor_application.cpp`, `editor_scene_loader.cpp`).
*State*: the open document, the command history with its save point, a Prefab edit or an
asset edit of several frames, the loader, file operations, what the user is being asked.
*Operations*: edits that merge or not, a drag, author operations, undo and redo, save,
save as, new, open, run, close, and the answers of files, resources and loads.
*Hard*: each operation asks, saves and acts in different frames, with other input in
between; the dirty flag comes from state numbers, not from contents.
*Correct when* a document shown as saved is, nothing unsaved is lost without consent,
the game that is started reads what is shown, and closing ends.

**Scene tree and scene instances** (`src/engine/function/scene`).
*State*: nodes with parent and children links, objects by UUID, the Prefab bindings, a
snapshot of the last deletion.
*Operations*: create, move, edit, delete and restore a subtree, refresh a Prefab
instance, `node_reparent` of a game, reload of the scene in place.
*Hard*: the hierarchy is held twice; a reload applies additions, updates and removals
one after another and takes them back when one is refused; a refresh destroys its
instance with the author's objects moved away first.
*Correct when* the hierarchy is whole, a reload is atomic, a refresh keeps what the
author wrote and an undo restores.

**Editor asset pipeline** (`src/editor/asset_file_watcher.cpp`,
`asset_background_worker.cpp`, `asset_reimport_queue.cpp`,
`asset_import_controller.cpp`, `author_asset_service.cpp`, `author_asset_monitor.cpp`,
`src/tooling/asset_import/asset_import_sdk.cpp`, and the editor's frame around them).
*State*: the watcher's bounded queue of events; the worker's commands, flags, candidates,
sweep and results; the index of imported assets with products and backups; for scenes
and Prefabs a table of fingerprints, commands, one reading and one batch in progress.
*Operations*: changes on the disk, events, sweeps, automatic and manual imports, imports
from outside, cancel, pause for packaging, stop; scans, probes, reloads, saves of the
editor's own and their acknowledgement.
*Hard*: every queue may overrun; a task runs while the frame gives new orders; a file
changes while it is read or imported; the editor's own saves come back as events; each
step of an import's transaction may fail.
*Correct when* no change is missed, no import is torn, the editor's own save is not
taken for somebody else's change, and all of it comes to rest or stops.

### How they interact

    editor ==(process, stop file, loopback connection)== game
    game host --> scene service --> load group --> resource service --> asset manager
    asset manager --> file service --> native, memory or browser backends
    asset manager --> task scheduler (decoding, one scope per manager)
    file backends --> loop executor (uv) or task scheduler
    main loop --> render service --> render executor --> Granit (GPU library, external)
    watcher thread --> editor frame --> background worker, author asset service
    background worker, author asset service --> task scheduler, file service
    editor frame --> documents, history --> scene instance --> scene tree

Services are owned by the main thread and advance when the main loop calls them; work
leaves that thread only through the task scheduler, the loop executor, the render
executor and the watchers, and comes back through queues the main thread polls. So the
concurrency of the program is in the scheduler, the render executor, the completions of
the file service, the loop executor with the transport on it, the watchers' threads and
the two processes of a play session; everything else is operations of many frames that
overlap on one thread.

### Components that are not modelled

`PROJECT.json` lists each with the reason. Codecs, reflection, values, math and protocol
bodies are pure functions that unit tests reach; windows, dynamic libraries, child
processes and file backends wrap the operating system; user interface panels hold
nothing that outlives a frame; the world's tables wrap an external ECS; project
packaging and the offline tools are sequences of file operations. The IPC transport is
two bounded queues over libuv: `IpcSession` takes the connection for two queues of
envelopes that may break, and the transport under it is not modelled.

## 2. Modules

| module | models | reads as |
|---|---|---|
| `TaskScheduler` | the scheduler | one action per critical section, a program counter per thread where the mutex is free |
| `TaskContract` | what `task_executor` promises its clients | the life of a task and of a scope, with no threads; `TaskScheduler` refines it |
| `RenderExecutor` | the render thread and its queue | as the scheduler |
| `RenderService` | the service and the loop's calls over it | extends `RenderExecutor`: the host is one of its clients, the render thread's bodies are filled in; each step is a step of the executor or leaves it alone |
| `FileService` | requests, streams, dispatch | the owner thread with a program counter inside `dispatch_completions`, backends at any time |
| `IpcSession` | editor, connection and game | two processes and the envelopes between them |
| `AssetManager` | loads, table and cache | the main thread with a cursor inside `advance`, files and tasks at any time |
| `ResourceService` | resources, handles, retirement | the owner's thread with a cursor, references dropped at any time |
| `SceneService` | scenes and the load group | operators and actions for `RuntimeHost` to compose |
| `RuntimeHost` | the game's frame | extends `SceneService`: a frame in four stages, and the edits between frames |
| `EditorDocuments` | document, history, edits, loader | operators that say what each call does to its record |
| `EditorHost` | the editor's frame and its user | extends `EditorDocuments`: the face a frame shows decides what the user may do |
| `SceneStructure` | scene tree and scene instance | one action per call; what a call does to the tree, and how it takes that back, is a list of changes made one after another |
| `FileWatcher` | a directory and its watcher | the disk, events and the overrun queue, shared by the next two |
| `SourceImport` | the import of changed sources | extends `FileWatcher`: the frame's calls, and the worker's step as a program counter |
| `AuthorAssets` | scenes and Prefabs that somebody else changes | extends `FileWatcher`: the service's `pump`, its readings and tasks, the frame, the user |
| `EditorAssets` | the three users of files in the editor | extends `FileService`, `AuthorAssets`, `SourceImport`; a behaviour is one of the three |
| `*Proofs` | | theorems about the module each is named after; `RenderServiceProofs` has those about the executor too, `EditorAssetsProofs` those about the file service and both pipelines, `SceneProofs` those about the runtime host and the scene structure |
| `MC*` | | the same modules for TLC; constants come from the `.cfg` files |

State and actions carry the source's names. What each model leaves to abstraction:

- `TaskScheduler`: tasks are numbered in order of acceptance, as `sequence` does;
  scopes and lanes are model values, used once because ids are never reused. There is
  one clock. The counter of refused submissions is left out. `normal_streak` is
  saturated at its limit, beyond which the code does not look. The limits of `run_ready`
  (tasks, time) are a choice at each turn. Bodies are assumed to return.
- `RenderExecutor`: packets, results, progress and statistics are left out; a
  resumable command is not ready at most `MaxYields` times.
- `RenderService`: a scene is what its one material draws; contents are version numbers.
  Meshes, the interface, debug lines, statistics and the failure of initialization are
  left out. Any call of the GPU library may fail. Threads that call the executor
  directly are a second kind of user, so that the executor is exercised beyond what the
  service does.
- `FileService`: bytes are their number. A submission a backend refuses at once is a
  completion with that error, as `begin()` makes it. A mount is its readers in order;
  the table of mounts and directory lists are left out, and so are streams of known
  length. Slots of delivered requests are reset, and no decision looks at them again.
- `IpcSession`: an envelope is its operation. Clocks are left to chance: a handshake or
  heartbeat may be late whenever the code would look at it, which includes every real
  timing. `MaxPoll` stands for the 64 events one update takes, `SocketRoom` for the
  envelopes that still arrive when the other end closes with writes unsent. Scene,
  asset, property, inspection, statistics and log traffic is left out, and so are full
  queues, which belong to the transport.
- `AssetManager`: a load is a number in order of creation; its content is the same
  number, so "newer" is "greater". `"more"` is the outcome of decoding the description
  of a texture, which names a second file. A weak pointer leads to its object while
  something of the model refers to it (`IsHeld`, `Joined`). The file service and the
  task executor are taken by their contracts: each read is answered once, by the
  dispatch; a task runs, or is discarded when it was cancelled before it began, and
  holds its slot until it is polled.
- `ResourceService`: the five texture slots of a material are one, a mesh behaves as a
  texture, contents are the numbers of loads. That an object is queued for retirement is
  not a variable: it is in the tables and nothing refers to it.
- `SceneService`, `RuntimeHost`: a scene's description is one read, an outcome ok or
  failed; one call of `advance()` is four steps. Property edits, inspection, logs,
  rendering and input are left out; the load of a missing asset from a file is of kind
  "asset".
- `EditorDocuments`, `EditorHost`: a content has one value for each way of editing it;
  what the scene does with an edit is `SceneStructure`'s. Windows, panels, layout,
  selection, the material editor, and the routing of messages are left out. A unique
  state number, and a scene handle, is the least number nobody holds, which says the
  same as a counter that never repeats. A frame takes at most one input.
- `SceneStructure`: a node's name, transform and components are one value; a Prefab has
  one inner node. Property overrides, `duplicate_subtree`, the destruction of nodes by
  scripts, the reload of a Prefab's source, the table of 65535 slots and transforms are
  left out.
- `FileWatcher`, `SourceImport`, `AuthorAssets`: a content is the number of the write
  that made it, so no two writes are alike (two writes of equal bytes are excluded); its
  hash is itself. A flat directory stands for the tree, and its listing is one page.
  Delays (debounce, stable read) are the choice of what a tick examines. What the
  importer makes of a source, memory running out, the material's own import and
  Prefabs used by the open scene are left out. `own` is history: what the editor saved and
  the service had room to take note of.
- `EditorAssets`: the two pipelines watch directories of their own, run tasks of their
  own and meet in no variable; so a behaviour is one part, and the others stand still.

## 3. Runs

| run | instance | checks |
|---|---|---|
| `scheduler_order` | 3 tasks, 1 scope, 1 lane, 2 workers, both priorities, budget 1, streak 1 | `ExecutionOrder`, `BackgroundServed` |
| `scheduler_live` | 2 tasks, 2 calling threads, both modes, due times, fair | `CancelReaches`, `GoneIsQuiet`, `NoLostWakeup`, `KeepsContract` (the refinement of `TaskContract`), `EverythingEnds` |
| `render_service` | the loop with a capture, an environment and a shutdown, one change and one fault; or threads with 3 tasks; fair | `ExecutorIsSound`, `PictureSettles`, `DrawnIsAlive`, `AnswersAreOwn`, `ServiceReturns` |
| `editor_assets` | a client with 2 requests over 2 readers; or 2 watched files, one write and one extra, queues of one, fair | `FilesAreHonest`, `NothingMissed`, `ImportIsWhole`, `OwnSaveIsQuiet`, `EverythingSettles` |
| `ipc_session` | 2 sessions, 2 commands and 1 unread envelope, 2 events per update, fair | `ControlAgrees`, `ShutdownTruthful`, `FailureEnds`, `NoOrphan` |
| `asset_manager` | 2 keys, 2 loads or stores, 1 observer, 1 slot, fair | `TableServes`, `OldStays`, `NewestStays`, `EveryLoadEnds` |
| `resource_service` | 1 texture, 1 material that names it, 3 objects, 2 loads, 1 slot of 2 generations, fair | `HandlesAreHonest`, `ReadyIsComplete`, `NewestContent`, `EveryRequestEnds` |
| `runtime_host` | 2 scenes, 2 visuals, 2 asset commands in a queue of 1, 1 edit, an environment, fair | `GroupHasOneUser`, `CancelIsHonoured`, `EverythingIsAnswered` |
| `editor` | 5 inputs, 2 files, 2 instances of a Prefab, a history of 2, fair | `DirtyIsHonest`, `NothingLost`, `RunsWhatIsShown`, `ClosingEnds` |
| `scene_structure` | 2 objects and a Prefab instance, 2 generations of each | `TreeIsSound`, `ReloadIsAtomic`, `RefreshKeepsTheRest`, `UndoRestores` |
| `ipc_terminal` | 1 session, no late clocks, updates that read everything | finds `TerminalStateStands` violated: section 5 |
| `scene_subtree` | as `scene_structure`, without its constraint | finds `DestroyTakesTheSubtree` violated: section 5 |

What the properties say stands beside each definition. The type invariant of the
scheduler, the render executor and the asset manager is a theorem of its own; elsewhere it
is a conjunct of a safety property (`OutcomeIsHonest` within `FilesAreHonest`,
`ControlAgrees`, `HandlesAreHonest`, `GroupHasOneUser`, `NothingLost`, `TreeIsSound`).

Each property has, in `PROJECT.json`, a plausible bug of the code (a dropped guard, a
missing notification, a swapped order) defined beside the definition it would replace;
under it TLC finds the property violated. Those alternatives (`ForgetToBegin`,
`NotifyDropping`, `SkipTheCheck`, ...) are not part of any specification.

### Why the bounds are enough

- *Scheduler.* Three tasks are the least with which a lane has one running, one
  waiting and one arriving task, a prerequisite chain fails in one walk of `select()`,
  and a background task is passed by another. Two workers are the least that race; two
  callers the least with which a scope is reclaimed by one while the other waits for it.
  Capacity is hit. `scheduler_order` takes one order of what commutes (the lane is made
  before the first task) and gives the third task prerequisites only when no task is on
  the lane (`SmallOrder`), so that lanes and chains are each complete, not their product.
  What the theorems prove holds without the constraint.
- *Render service.* Two pending frames are the code's own depth of overlap: one drawn,
  one captured. Five tasks hold an environment, frames before and after one change, and
  a capture or the shutdown with a frame in front. The settling takes three frames. One
  change and one fault at any point give each of the recoveries; a texture whose first
  content is still loading counts as an extra, like a capture and an environment, so one
  run has one of them. With two extras the safety properties were checked once by hand.
- *File service.* Two requests at once: the table and the buffer are both hit, a stream
  has an opening, a block and a competitor; two readers are the least that fall back.
- *Asset pipeline.* Two files: one that changes and one whose event or candidate pushes
  it out of a queue of one. One write by somebody and one extra (a failure, an order, a
  save's edit, a stop) at every point; besides them sources may have changed before the
  start. With two writes and two extras of one file the safety properties of both
  pipelines were checked once by hand (about 9 million states each). The inductive invariants
  behind `MissedCorrect` were checked by hand before they were proved: that of the scenes with
  two writes and two extras of one file, that of the sources with the run's bounds. Of the two sources
  the first is taken as the older (they are alike).
- *Play session.* Two sessions are the least with which something of the first could
  be taken for the second's. Two events per update cut the farewell (`stopping`,
  `shutdown`, end) in two; `ipc_terminal` uses updates that are never cut, so that
  what it finds does not depend on that.
- *Asset manager.* Two loads or stores: one in flight and one that replaces, joins or
  competes with it; one slot makes the executor full with the second.
- *Resource service.* Three objects in tables of one slot with two generations: a slot is
  reused and retired. Two loads: one overtakes, shares or outlives the other.
- *Runtime host.* Two scenes: one replaces or follows the other; two visuals are a queue
  of which one is in the group; the second asset command waits behind the first.
- *Editor.* Five inputs (`MaxInputs`) are an edit, an operation that asks about it, the
  answer, something done meanwhile and a close; a history of two evicts with the third
  edit. One input per frame loses nothing, as each face handles one.
- *Scene.* Three objects make the shapes of a forest that matter (chain, siblings, a
  cycle refused); the fields of two change (`Edited`); two generations tell a restored
  node from the one before; a deletion's snapshot is forgotten by the commands that
  follow it. The
  runs stop where a node is given the parent it has (`NotCrossed`): from there the
  hierarchy is broken by the bug `scene_subtree` finds, and nothing is claimed.

Deadlock is checked where the system is meant to go on (scheduler, render service); the
end of `stop` is a stuttering action there. The others stop by themselves once their
bounds are used up or the program has ended.

### Fairness

Liveness is checked only under what the code justifies: the threads of a pool, the
render thread, the transport threads and the watchers' threads are scheduled by the
operating system; a thread inside `close_scope`, `flush` or `stop` gets the mutex;
bodies and callbacks return, which their contracts demand; backends complete what they
took; main loops come round (the editor's `update` and frame, the game's `pump` unless
it hangs, `dispatch_completions` and `advance` each frame); a game told to stop ends;
time passes. Nobody is obliged to submit, cancel, press a button, answer a dialog or
close, and no timeout has to strike.

Strong fairness is used where one thread makes several calls in turn in each frame, so
that none can be kept out by another being made again and again: the dispatch and the
start of `advance` of the asset manager and of the resource service, the start of a
frame, an edit's polling and a scene's load in `runtime_host` (a task queue that is full
in one frame is not in every frame). In `editor_assets` it is enough that the editor
does not stand still (`Works`) and that the client's backends answer: no part of a
pipeline needs to be favoured over another.

## 4. Theorems

TLC decides small instances; the theorems hold for every number of tasks, scopes,
lanes, workers, callers, clients, textures, keys, slots, sessions, requests, scenes, files
and objects of a scene that the named assumptions of the modules allow. Those say that counts are natural
numbers, that limits are positive, that the values for "none" (`NoScope`, `NoLane`,
`NoKey`, `NoUri`, `NoFile`, `NoNode`, `Hidden`, `Untitled`) are none of the real ones,
that `Workers`, `Textures`, `Files`, `Instances` and `Uuids` are finite where something is
counted, and that UUIDs and generations are ordered as natural numbers are. All obligations
are checked by TLAPS with SMT, Zenon and PTL, and none is omitted.

| theorem | of | states, for all states and steps of the specification |
|---|---|---|
| `TypeCorrect` | scheduler | `TypeOK`: types, table within capacity, counters in range |
| `OrderCorrect` | scheduler | `ExecutionOrder` |
| `CancelReachesAll` | scheduler | `CancelReaches` |
| `GoneQuietCorrect` | scheduler | `GoneIsQuiet` |
| `BackgroundCorrect` | scheduler | `BackgroundServed` |
| `WakeupCorrect` | scheduler | `NoLostWakeup` |
| `ContractKept` | scheduler | `KeepsContract`: the scheduler implements `TaskContract`, an action property |
| `TypeCorrect` | render executor | `TypeOK` with the bound on the queue |
| `OnceCorrect`, `OrderCorrect`, `StatusCorrect`, `StopCorrect` | render executor | `EveryTaskOnce`, `SubmissionOrder`, `StatusPrecedesReceipt`, `StopDrains` |
| `SoundCorrect` | render executor | `ExecutorIsSound`, the four together |
| `ServiceImplements` | render service | `ServiceSpec => Spec`: the service, its host and its render thread are a behaviour of the executor |
| `ServiceSound` | render service | `ExecutorIsSound` inside the service |
| `ServiceDrawn` | render service | `DrawnIsAlive` |
| `ServiceAnswers` | render service | `AnswersAreOwn` |
| `ServicePicture` | render service | `PictureSettles` |
| `ControlCorrect`, `TruthfulCorrect` | play session | `ControlAgrees`, `ShutdownTruthful` |
| `TypeCorrect` | asset manager | `TypeOK` |
| `TableCorrect` | asset manager | `TableServes` |
| `OldCorrect` | asset manager | `OldStays` |
| `NewestCorrect` | asset manager | `NewestStays`, an action property |
| `StopCorrect` | asset manager | `StoppedIsQuiet` |
| `HandlesCorrect`, `ReadyCorrect` | resource service | `HandlesAreHonest`, `ReadyIsComplete` |
| `NewestCorrect` | resource service | `NewestContent`, an action property |
| `GroupCorrect` | runtime host | `GroupHasOneUser` |
| `DirtyCorrect`, `NothingLostCorrect` | editor host | `DirtyIsHonest`, `NothingLost` |
| `RunsCorrect` | editor host | `RunsWhatIsShown`, an action property |
| `FilesCorrect` | file service | `FilesAreHonest` |
| `MissedCorrect` | author assets and source import | `NothingMissed` |
| `OwnSavesCorrect` | author assets | `OwnSaveIsQuiet` |
| `ImportsCorrect` | source import | `ImportIsWhole` |
| `TreeCorrect` | scene structure | `TreeIsSound` |
| `ReloadCorrect`, `RefreshCorrect`, `UndoCorrect` | scene structure | `ReloadIsAtomic`, `RefreshKeepsTheRest`, `UndoRestores`, action properties |

### The arguments

*Scheduler.* The next-state relation has two dozen actions, and many of them do the same
to the table of tasks. `StepEffect` sorts every step into seven kinds: nothing happens to
a task (`Quiet`), or tasks are cancelled, one is submitted, some leave the table, some
fail for their dependencies, one starts (with some failing in the same walk of `select()`)
or one finishes. Each part of the invariant is preserved once per kind. `OrderInv` adds
one part to the three parts of `ExecutionOrder`, `Ledger`: a task is absent exactly when it is not yet
accepted, waiting and running tasks are in the table, prerequisites are smaller numbers.
Without it neither order is inductive, as a started task could have a predecessor that is
submitted only later. `CancelReaches` needs `ScopeInv`: a task's scope exists, and a
reclaimed scope has no task in the table, so that a task that runs always has a scope
whose cancellation is on record.

`GoneIsQuiet` adds what the threads know. `ThreadInv`: a thread inside `close_scope` has
closed its scope. `HostInv`: who waits for the workers has set `stopping`, and the host of a
cooperative scheduler is inside a call only while it drives nothing. With `ScopeInv` a scope
that is gone has no task that could run, and a finished `stop` leaves none that is not done.
The same invariants give `ContractKept`: for one task, for the closed and for the gone scopes
a step of each kind does what `TaskContract` allows, or nothing. `BudgetInv` counts: the
counter of running background tasks is the cardinality of their set, which each kind of
step changes by what it does to one task.

`NoLostWakeup` is about time as well. `SleepInv` says why a worker may sleep: nobody is to
be failed (`Spoiled`), and each task that could start is due no sooner than the sleeper's
deadline, or held back by the budget. A step is one in which nobody sleeps on (`AllUp`:
the code notifies all), or one that gives nobody asleep a reason to wake (`Calm`: tasks may
only start), or the sleeper's own last look (`FallingAsleep`). That a look finds nothing
also needs the walk of `select()` to have failed none, which is a least-counterexample
argument: the first task of the walk that it would fail has a prerequisite that ended
before the walk.

*Render executor.* Three lemmas say what `Append`, `Tail` and `Without` do to what a queue
contains and to its freedom from repetitions; with them every step is a statement about
membership, and the sequences are opened again only for the order. `ExecutorInv` is made
of the types, `Places` (each task is in exactly one place), `Hands` (what the render
thread's program counter says about the task it holds), `OfAKind`, `InOrder`, `Status`,
`Stops` and `Room`. `SubmissionOrder` needs `Sorted`, the order inside the queue, since
taking the head overtakes all the others; `StatusPrecedesReceipt` needs that an active
status is of a task which is still in the queue or running, and so, by `Places`, without a
receipt; `StopDrains` needs that an exited thread left an empty queue and that nobody is
accepted while `stopping`. `Room` counts the tasks rather than the places of the queue,
together with the command in the render thread's hands, because a resumable one comes back
without asking for room; `PlacesCounted` gives the bijection between the two.

*Asset manager.* The types are kept in three parts (loads, table and cache, host).
`TableInv` has five: loads are numbered (`Numbered`); the key of a load in flight has an
entry with at least its generation (`Entries`); what a second request would join is in
flight and of the current generation (`Joinable`); a load with a newer content of its key
has a smaller generation than the key (`Outdated`); a reload that is not outdated keeps
its predecessor in the cache (`Kept`). The heart is that the generation of a key only
grows while a load of it is in flight, because an entry is erased only when none is.
`NewestStays` follows, since a load enters the cache only while its generation is the
current one. `StoppedIsQuiet` needs, besides, that a stop resets the cursor of `advance`.

*Render service.* `ServiceImplements` needs no invariant: `RenderService` calls the
executor only through actions of `RenderExecutor`, so each of its steps is a step of
`Next` (a submission with its arguments fixed, a flush, a receipt, the end of a body) or
leaves `vars` alone. What is proved of the executor then holds inside the service
(`ServiceSound`), although its commands, frames and shutdown are chosen by a host that
looks at receipts. `ServiceDrawn` goes through the stronger
`Held`, which is inductive: the material itself holds the mirror whose view it binds, so
that no release of a mirror matters. Two kinds of step touch the material: a frame that
prepares it (`PrepareKeepsHeld`: every refresh and every rebuild, failed ones included)
and the release command; the host's calls leave the GPU alone.

`ServiceAnswers` follows the record of the call in progress through its stages. `SawKept`:
a failure that was seen is in the status of the collection, or in what the call has found
so far. `RequiredOK`: completions kept for captures are of frames whose receipts were taken,
each once, so that the first one of its number is the capture's own. `ShutdownOK` says what is
left at each stage of the shutdown: after a flush nothing (`Silent`, by the executor's
own invariants), after the collection no receipt, after the release its own.

`ServicePicture` counts undisturbed frames (`calm`, the frames that asked for the same in
turn). Contents: after the first the content is shown, on its way, or not begun with nothing
in its way (`Shows`, `Coming`, `Open`); after the second one less; after the third it is
shown. Sizes: while the swapchain has another size than the last frame asked for, a frame that
makes it anew comes before the third; `OneMayFollow` and `NoneMayFollow` say where it
can be: in the render thread's hands, waiting in the queue (where the next frame would replace
it and take over its demand), or owed, as `pendingRecreate` or in a receipt that the host
takes before it submits again. Steps that neither submit, begin nor end a frame are `Steady`
and keep all that; the lemmas on `NewView` count views, so that a new one is always found.

*Play session.* `Farewell` alone gives `ShutdownTruthful`: the farewell is on its way or
heard only after the game has left its loop, and a new session begins with nothing on its
way. `ControlAgrees` is not about the moment but about what is still to be heard. `Heading`
is the state the editor will show once it has heard everything: the last that tells one, on the
wire, else among the events, else what it shows. `Agreement` says that it is the game's state,
or "failed", or "stopping" while the stop is under way. The lemmas say what `Append`, `Tail`
and a concatenation do to the last telling envelope of a sequence. Around it stand the parts
of the handshake: nothing is said before the game has noticed its connection (`Unconnected`,
`Connecting`), the answer to the hello is the first command (`Answered`), only a session
that has been let in plays (`LetIn`), and the queues stay short enough that no answer is
refused (`Plenty`).

*Resource service.* The types need `Known`: a cached uri leads to an object of its kind,
and whatever is listed has a uri. `HandleInv`: the generation of a slot only rises, and a slot
whose generations are used up is never taken again, so a handle that was given back stays
behind its slot. For the contents every step is a conjunction of seven moves (`Moves`): a load
keeps its object and never waits again, it ends well only with its content in its object, a
reference to a texture comes from the game or from a load that has it, what is referred to
is not destroyed. `ReadyInv` and `NewestInv` are preserved by `Moves`, not action by action.
`NewestInv` has the reason why nothing newer is overwritten: of all loads that somebody still
waits for, each object has one, and no content of it is newer.

*Runtime host.* `UsersOK` says who waits for the group: the visuals, the reload, an asset
command or an edit wait exactly while the group works for them. It is inductive only with
`FlowOK`, which ties the frame's stages together: the loader and the service speak of the
same scene, a cancelled scene is never ready when the loader looks at it, since the advance
before has ended it; and with it `exit` is never "refused".

*Editor host.* `FlowInv` is about who works on the document: `Exclusive`, no two of a file
operation, a load, a Prefab edit, an asset edit and a command that is pending do; `Shows`, the
face the last frame showed tells which of them may be. With it most actions leave the document
alone (`QuietStep`, `QuieterStep`, `IdleStep`), and the few that do not are one of four
effects on document and history: an edit is recorded, the cursor moves, the history is
cleared, a save lands. `Honest` is preserved once per effect. It says more of the history than
the property does: the entries are a chain of contents (`Chained`), and each state number
stands for one content, the saved number for that of the file (`Labels`), so that coming back
to the saved number, by undo, redo or a merge, is coming back to the file's content.
`Before` is that content before a drag that is not yet recorded; `Landed` is a save that was
answered whose frame is still to come. That a number is fresh when it is taken, the least that
nobody holds, is `LeastIsFree`. `InHand` ties what is under way to the document that is there,
and `GivenUp` says that once another document is on its way, or the editor closes, the content
is saved or was given up; `NothingLost` and `RunsWhatIsShown` follow.

*File service.* `BufferInv` says that the bytes reserved are the sum of the sizes of those
in the table. The sum is a fold of the community modules; that it exists as a function, and
that a request that enters or leaves changes it by its size, are lemmas (`SumsExist`,
`TotalStep`, `TotalWithout`). `TableInv` has where a request is, `VerdictInv` what a cancel
said of it, `FreshInv` that the requests which callbacks submit wait behind those the dispatch
visits, `OpenInv` that an open stream is being opened or known to the service.

*The editor's own saves.* A content is its write, so a file stands as the editor saved it
(`Stands`) until somebody else writes it. While it stands, the note of the save is among the
commands, or in the task's hands, or it is the fingerprint (`NotedInv`); no other command of
the file would make the fingerprint another one (`QueueInv`); nothing that was read of it is
anything else (`SeenInv`); and a reading or a check of an own content finds the
fingerprint equal (`ReadInv`, `CheckInv`), so it is no change. A save takes the
commands about its file out and must leave the notes of other saves: `Without` is a recursive
function, and the lemmas about it (`KeepsExists`, `WithoutThins`) go by induction over the
numbers, with a set for what holds.

*Imports.* `TransactionInv` follows the one import under way: at the check, a source that is
still what it was before is what the importer read, because a removed or rewritten file
never comes back; at the commit there is no backup; at the saving of the index the products
are the new ones and the backup those of the entry. `WholeInv` is what the property says of
files, and only the step in hand is its exception. `ExportInv`: an export has the worker paused
and idle, and nothing but the step's beginning makes it run. `CopyInv` counts the copies that
were made, ordered, waiting or in hand against what the user asked for: an import that is tried
again is one of the file itself. What the step takes of the orders is a fold; `TurnsExist` and
`FoldSteps` make it a sequence of single steps, `TakeKeeps` is one of them.

*No changed source is missed.* The property speaks of a pipeline at rest; the invariant has to
say, at every step, where a change is that nobody has heard of. `CoveredInv` lists the places: its
event is on its way to the worker (`Early`), or the queue has dropped a candidate and the frame is
not told yet (`uncounted`), or the worker will look at the file (`Waits`), or has it in hand,
or the user's event is among the results. While the worker parses, the file is as the import
read it or one of these holds (`ReadAsIsInv`). `PublishedInv` ties the index to what the runtime
was told of, over the results that are still to be polled and the success with which a step ends,
which is its last event (`SuccessInv`). A cancel empties the worker's queues without
a word; it does no harm because it is the first of the orders and gave up each file as it was
(`CancelInv`, `GivenUpInv`), so that only what came after counts. Each action moves a change
from one place to the next; there is a lemma for each, and the orders are taken one by one
as in the proof about imports.

*No changed scene or Prefab is missed.* `Tracked` says three things of a file. What the monitor
knows, or is about to be told by a note of a save or an applied change (`SetTo`), is what editor and
runtime go by. A change nobody knows is on its way: it will be looked at again (`Behind`: an
event, a waiting probe, a scan) or was read and the reading is waiting for the task, the frame or
the loader (`ReadAs`). And a reading that is out of date is followed by another one, and not what
the monitor knows; without this third part a stale reading could become the fingerprint behind a
change that was dropped. `NumberInv` has that a content is the number of a write that
happened, so that a new write is none that was read before; `TurnInv` that one change at a
time is checked, prepared and loaded, and its event waits for it; `OverwrittenInv` that a save
which somebody wrote over before its acknowledgement is not known. What most steps do to a
file is one of a few effects (`Steady`, `SteadyTracks`); the others have a lemma each. It stands on
the invariant for the editor's own saves.

*Scene structure.* The walks `Up` and `Under` go a bounded number of steps, since the code's
loops end with the tree; the first lemmas make them what a reader takes them for, the least
sets closed under "parent of" (`UpLeast`, `UpClosed`) and "children of" (`UnderLeast`,
`UnderClosed`). That a walk as long as the tree is large has met everything is the pigeonhole
principle. Then a tree that is whole is known from its parents and fields alone
(`SameTree`), because the children are what the parents say. So what each operation does is
said of parents and fields (`Altered`, `CreatedIs`, `DestroyedIs`), and that the result
is whole again is one lemma for each (`MoveSound`, `CreatedSound`, `DestroyedSound`,
`SetSound`); a move keeps it just when it is no crossing, one that gives a node the parent it has.
A script is a fold; `RunSteps` makes it a sequence of single changes. The lists of a script
are sets put in order, each member once (`RanksList`), an order by depth with every object
after its parent (`OrderLists`).

`TreeInv` has the types always, and `SceneOK` (the tree whole, every authored object in
it, no two of one UUID, the Prefab bindings at authored roots) while nothing has crossed; and
it remembers that a snapshot is a subtree of a scene that was there (`IsCapture`). For a
reload, `ReloadUpdates` says that the tree after k updates is whole and has the parents and
fields of the file for the first k of the objects it changes, and those of before for the
others. Taken back
in the opposite order, each update leaves the tree before it (`UndoIs`): the parent there
was is not under the node, because the node is put back into a tree in which it was not.
The exception is an update that was refused: it has not moved its node, so that its undo
gives the node the parent it has, which is the crossing that `scene_subtree` finds;
`ReloadCorrect` speaks of a node that had no parent, where this does no harm. Then the added
objects go, and nothing of the scene hangs under them (`AdditionsGo`). A reload that succeeds leaves the
file's parents and fields, and none of the objects that are to go has anything of the file
under it (`ReloadPlaces`, `ReloadMakes`). A refresh empties the root before it destroys
it (`RefreshClears`), and a deletion's snapshot is grown apart from the scene, where its
parents are its own, and then moved under a parent that is not part of it (`RestoreGives`).

### Only model-checked

Liveness under fairness (`EverythingEnds`, `ServiceReturns`, `EverythingSettles`,
`FailureEnds`, `NoOrphan`, `EveryLoadEnds`, `EveryRequestEnds`, `CancelIsHonoured`,
`EverythingIsAnswered`, `ClosingEnds`), which TLAPS does not handle.

Every safety invariant and action property of a passing run is a theorem.

No module uses a `RECURSIVE` operator, so all of them are open to proofs.

## 5. Findings

`ipc_terminal`. The comment at `src/host/editor/ipc/editor_ipc_session.cpp:193` says why
`update` handles a shutdown frame before anything else: going on pinging might mask a
terminal state that was received already, because the peer has closed. The code holds to
that within the update that reads the frame. But the game closes its connection before it
shuts its application down (`src/host/runtime/runtime_application.cpp:766-777`), which
takes several frames of the editor. In the next update the process still runs and the
disconnected event is there, without a shutdown frame in *this* update's envelopes; or the
next ping is refused. Either makes `fail_ipc` show the session as failed, which the exit
with code 0 does not correct (`runtime_process.cpp:779`). The shortest run takes a dozen
steps.

`scene_subtree`. `scene_tree::reparent` to the parent a node already has appends the node
to that parent's children and then erases every occurrence of it
(`src/engine/function/scene/scene_tree.cpp:174`). The node keeps its parent link and is in
no list. Destroying the parent then leaves it alive under a parent that is gone, although
`docs/reference/scene-tree.md:17-18` says that destroying a node destroys its whole
subtree. A game reaches this with `world::node_reparent`; the engine by itself with a
reload whose update is refused, as the rollback gives the node the parent it never left.

### Other behaviour met while modelling

Each of these is in the models as the code has it. They have no run of their own; where a
document says otherwise it is named.

Scenes and the game:

- A structural reload fails when the frame that polls it fails for another reason, such as
  the environment's read (`runtime_application.cpp:615`), though
  `docs/reference/scene-instance.md:293` and `scene_service.hpp:88-89` have it wait; the
  command is answered and the service keeps a reload nobody polls, so that later loads are
  refused until the exit. A reload asked for right after an activation fails while the
  retired world is still there.
- An environment that cannot be read ends the application's run, though
  `docs/plans/VER-027-0.27.0-granit-render-capabilities.md:40-41` speaks of a fallback.
- `reload_prefab` applies instance after instance though ADR-037 wants a batch; and a
  reload that exchanges parent and child is refused, because updates run in the order of
  UUIDs.

The editor:

- An operation over the instances of a Prefab that fails after the first one has changed
  the document without an entry in the history and leaves it shown as saved
  (`editor_prefab_edit.cpp:45-46`; `editor_command_history.hpp:20`,
  `docs/guides/editor-assets.md:109`, `docs/records/M-331-history-operation.md:11`).
  `DirtyIsHonest` claims nothing from there until the content is replaced (`torn`).
- Save and run whose save ends after the exit was deferred starts the game while the editor
  closes (`late` in `ClosingEnds`).
- Commands of asset and Prefab edits keep the scene handle and address they were made with;
  after the undo of a snapshot or a save under another name they are refused for ever
  (`editor_asset_edit.cpp:112-121`, `docs/guides/editor-assets.md:113`).

Rendering:

- After a capture whose frame fails, its completion stays in
  `required_frame_completions_` and every later `capture_frame` answers `internal`
  (`application.cpp:661-673`, `render_service.cpp:922-945`).
- A capture with `pending_recreate_` recreates the swapchain in the size of the capture;
  when that is not ready the capture succeeds with an empty image.
- The answer `internal` of the shutdown for a foreign completion cannot be reached, and
  neither can the loss of a replaced frame's wish to recreate.

The asset pipeline:

- A change that was applied is reported a second time when another event's probe is queued
  between the two, since `applied` is queued behind that probe
  (`author_asset_service.cpp:370-378`; `docs/plans/VER-024-0.24.0-structural-hot-reload.md:96`,
  `docs/records/M-160-editor-conflict-status.md:9`).
- The note of a save finds no room among the commands when only other saves and applied
  changes are queued. `acknowledge` then answers `invalid_state`, which the host ignores
  (`editor_application.cpp:530,859`), and the next probe reports the editor's own save as
  somebody else's change. An attempt to prove `OwnSaveIsQuiet` of all saves found this;
  the property speaks of those the service took note of.
- A rescan asked for after a `cancel` and taken in the same batch is lost
  (`asset_background_worker.cpp:174-180`); `NothingMissed` leaves it out (`swallowed`).
- The flag of the baseline scan stays up until a scan is complete. Until then what is known
  of a file is not compared when it is probed, so that a change whose event was lost is
  missed; so is one made between the reading of the startup scene and its baseline, and the
  removal of a file whose baseline reading failed (`skipped`). The proof of `NothingMissed`
  found one more way, which takes two writes: before the first scan a change is loaded, but
  the note that it was applied finds no room among the commands
  (`author_asset_service.cpp:374-378`), so that nothing is known of the file; a second change
  is prepared, the loader is not ready for it, and the scan's reading of it becomes the baseline
  (263-265), so that the probe which follows finds nothing changed. `TakesForBaseline` names all of these: a file that was served as something
  else, whose content nobody was told of, gets it as its baseline.
- A watched directory that is removed and made again is not watched on Linux
  (`asset_file_watcher.cpp:80-82,90`); an event without a file name notifies `"."` and is
  no rescan (154-161); an error event that is pushed out of the queue is only a rescan.
- A source that is removed and restored with the same content stays "missing" in the
  browser until it is refreshed. When the rollback of a first import fails, its products
  stay with neither a backup nor an entry, though the message says that a backup is kept.
- The recovery of an import after a crash is out of scope by the project's own plan
  (`docs/plans/VER-039-0.39.0-task-scheduling.md:34`, `docs/guides/editor-assets.md:76`).

The play session:

- Envelopes the transport read between the last poll and its stop are polled by the next
  `update` of the stopped session, which rejects them as a bad handshake; and a game that
  is told to stop by the file before it has pumped its connection says `stopping` before
  its hello. No document says what should happen.

## 6. Plan

Done, in this order: the scheduler with its contract and proofs (everything asynchronous
stands on it), the render executor, the file service, the play session, the asset manager;
then the resource service, the scene service with the game's host, the editor's documents
and host, the scene structure, the render service over its executor with the refinement
proved, and the asset pipeline.

The theorems are complete for what the runs check: each invariant and each action property of
a passing run has one; the rest is liveness.

Models to come, if any: the bounded queues of the IPC transport on the loop executor, and
the reload of a Prefab's source over several instances.
