---------------------------- MODULE EditorDocuments ----------------------------
(***************************************************************************)
(* The open document of the editor and what may change it: the scene       *)
(* document (scene_document.cpp), the command history                      *)
(* (editor_command_history.cpp), the two edits that take several frames    *)
(* (editor_prefab_edit.cpp, editor_asset_edit.cpp with                     *)
(* scene_document_snapshot.cpp) and the loader that replaces the document  *)
(* (editor_scene_loader.cpp).                                              *)
(*                                                                         *)
(* The operators below say what each call does to the record it works on;  *)
(* EditorHost makes its actions of them.  A document's content is a value  *)
(* for each way of editing it: "name" for the inspector, the hierarchy and *)
(* the gizmo, "mesh" for the asset edit, "parts" for the instances of one  *)
(* Prefab.  A unique state number of the history, and a scene handle, is   *)
(* the least number nobody holds.                                          *)
(***************************************************************************)
EXTENDS Naturals, Sequences, FiniteSets

CONSTANTS
  Uris,        \* the scene files of the project
  Startup,     \* the one that is opened first
  Untitled,    \* the empty uri_
  Instances,   \* instances of the Prefab in the scene
  Capacity     \* the history's capacity: 256

ASSUME DocumentAssumption ==
  Startup \in Uris /\ Untitled \notin Uris /\ Capacity \in Nat \ {0} /\ IsFiniteSet(Instances)

Values == {0, 1}
Contents == [name : Values, mesh : Values, parts : [Instances -> Values]]
Blank == [name |-> 0, mesh |-> 0, parts |-> [i \in Instances |-> 0]]

VARIABLES
  document,  \* scene_document: uri, content, dirty, scene
  history,   \* editor_command_history: entries, cursor, current, saved, pending
  prefab,    \* editor_prefab_edit::state
  asset,     \* editor_asset_edit
  loader,    \* editor_scene_loader
  fileOp,    \* pending_file_operation
  disk,      \* the contents of the files there are
  drag       \* transform_gizmo_drag: its before_, <<>> when inactive

documentVars == <<document, history, prefab, asset, loader, fileOp, disk, drag>>

NoPrefab == [step |-> "none", scene |-> 0, cancelled |-> FALSE, visible |-> FALSE, parts |-> Blank.parts]
NoAsset == [step |-> "none", kind |-> "mesh", scene |-> 0, visible |-> FALSE, base |-> Blank,
            after |-> Blank]
NoLoad == [step |-> "none", uri |-> Startup, visible |-> FALSE, cancelled |-> FALSE]
NoFileOp == [kind |-> "none", done |-> FALSE, ok |-> FALSE, uri |-> Startup, fresh |-> FALSE,
             scene |-> 0, content |-> Blank]

\* clear(): a new state number, which is the saved one or not.
NoHistory(saved) ==
  [entries |-> <<>>, cursor |-> 0, current |-> 1, saved |-> IF saved THEN 1 ELSE 0,
   pending |-> "none", cancelled |-> FALSE]

InitDocuments ==
  /\ document = [uri |-> Untitled, content |-> Blank, dirty |-> TRUE, scene |-> 1]
  /\ history = NoHistory(TRUE)
  /\ prefab = NoPrefab /\ asset = NoAsset /\ fileOp = NoFileOp
  /\ loader = [NoLoad EXCEPT !.step = "queued", !.visible = TRUE]
  /\ disk = [u \in {Startup} |-> Blank]
  /\ drag = <<>>

(***************************************************************************)
(* The history                                                             *)
(***************************************************************************)
EntriesOf(h) == {h.entries[k] : k \in DOMAIN h.entries}
Numbers(h) == {h.current, h.saved} \cup {e.before : e \in EntriesOf(h)} \cup {e.after : e \in EntriesOf(h)}
Least(taken) == CHOOSE n \in 1 .. Cardinality(taken) + 1 :
                  n \notin taken /\ \A m \in 1 .. n - 1 : m \in taken

IsPending(h) == h.pending # "none"
CanUndo(h) == ~IsPending(h) /\ h.cursor # 0
CanRedo(h) == ~IsPending(h) /\ h.cursor < Len(h.entries)
HistoryDirty(h) == h.current # h.saved

\* What a command knows: the content it makes and unmakes, of which it only
\* touches its own kind, the scene handle it was made under, and its merge key.
Command(kind, undo, redo, key, d) ==
  [kind |-> kind, undo |-> undo, redo |-> redo, key |-> key, scene |-> d.scene, uri |-> d.uri,
   before |-> 0, after |-> 0]

Merges(h, command) ==
  /\ h.cursor # 0 /\ HistoryDirty(h)
  /\ command.key # "none" /\ h.entries[h.cursor].key = command.key

\* As if what was undone stayed when something new is done.
RecordedOverRedo(h, command) ==
  LET id == Least(Numbers(h))
  IN [h EXCEPT !.entries = Append(IF Len(@) >= Capacity THEN Tail(@) ELSE @,
                                  [command EXCEPT !.before = h.current, !.after = id]),
               !.cursor = IF @ = Capacity THEN @ ELSE @ + 1, !.current = id]

\* record_impl(): redo is dropped; the command is merged into the last one, or
\* pushed, and then the oldest is evicted.
Recorded(h, command) ==
  LET kept == SubSeq(h.entries, 1, h.cursor)
      id == Least(Numbers(h))
      pushed == Append(kept, [command EXCEPT !.before = h.current, !.after = id])
      merged == [kept EXCEPT ![h.cursor] = [@ EXCEPT !.redo = command.redo, !.after = id]]
  IN IF Merges(h, command)
     THEN [h EXCEPT !.entries = merged, !.current = id]
     ELSE [h EXCEPT !.entries = IF Len(pushed) > Capacity THEN Tail(pushed) ELSE pushed,
                    !.cursor = IF Len(pushed) > Capacity THEN Capacity ELSE @ + 1,
                    !.current = id]

MarkSaved(h) == IF IsPending(h) THEN h ELSE [h EXCEPT !.saved = h.current]

\* The entry an undo or a redo works on, and where it leaves the history.
Target(h, undo) == h.entries[IF undo THEN h.cursor ELSE h.cursor + 1]
Moved(h, undo) ==
  IF undo THEN [h EXCEPT !.cursor = @ - 1, !.current = Target(h, TRUE).before]
          ELSE [h EXCEPT !.cursor = @ + 1, !.current = Target(h, FALSE).after]
Settled(h) == [h EXCEPT !.pending = "none", !.cancelled = FALSE]

(***************************************************************************)
(* The document                                                            *)
(***************************************************************************)
Edited(d, content) == [d EXCEPT !.content = content, !.dirty = TRUE]
Synchronized(d, h) == [d EXCEPT !.dirty = HistoryDirty(h)]

\* restore_scene_document(): an instance of the snapshot takes the document's place.
Restored(d, content, scene) == [d EXCEPT !.content = content, !.dirty = TRUE, !.scene = scene]

\* A command that names its node by UUID runs in any scene; one that keeps the
\* scene handle, or a snapshot's uri, is refused in another.
Accepts(d, command) ==
  CASE command.kind = "name"   -> TRUE
    [] command.kind = "author" -> command.uri = d.uri
    [] command.kind = "mesh"   -> command.scene = d.scene
    [] command.kind = "parts"  -> command.scene = d.scene

Applied(d, command, to, scene) ==
  IF command.kind = "author" THEN Restored(d, to, scene)
  ELSE Edited(d, [d.content EXCEPT ![command.kind] = to[command.kind]])

\* prefab_history_operation::advance(): one instance after another, and an
\* instance that fails ends it, with the earlier ones done.
PartlyApplied(content, parts, done) ==
  [content EXCEPT !.parts = [i \in Instances |-> IF i \in done THEN parts[i] ELSE content.parts[i]]]

\* The instances that are done when the operation ends: all, or those before one that fails.
Prefixes == {S \in SUBSET Instances : \A i \in S : \A j \in Instances : j < i => j \in S}

\* scene_document::begin_save() and accept_save().
Saving(d, uri, fresh) ==
  [NoFileOp EXCEPT !.kind = "save", !.uri = uri, !.fresh = fresh, !.scene = d.scene, !.content = d.content]

SaveAccepted(d, op) == op.ok /\ d.scene = op.scene
Saved(d, op) == [d EXCEPT !.uri = op.uri, !.dirty = d.content # op.content]

(***************************************************************************)
(* Edits of several frames                                                 *)
(***************************************************************************)
PrefabActive == prefab.step # "none"
AssetActive == asset.step # "none"
Active == PrefabActive \/ AssetActive \/ IsPending(history)
LoaderActive == loader.step # "none"

\* request_refresh(), request() and request_remove(): the source is prepared first.
CanRequestPrefab == ~PrefabActive /\ ~IsPending(history)
RequestedPrefab(parts) ==
  [NoPrefab EXCEPT !.step = "preparing", !.scene = document.scene, !.visible = TRUE, !.parts = parts]

PrefabFinished(failed) == [NoPrefab EXCEPT !.visible = failed /\ ~prefab.cancelled]

\* cancel(): the preparation is told, an operation too, and neither ends at once;
\* a request for resources is given up.
PrefabCancelled ==
  CASE ~PrefabActive           -> prefab
    [] prefab.step = "assets"  -> NoPrefab
    [] OTHER                   -> [prefab EXCEPT !.cancelled = TRUE]
HistoryCancelled == IF IsPending(history) THEN [history EXCEPT !.cancelled = TRUE] ELSE history

\* request_impl() and request_restore_source(), when resources have to be read.
CanRequestAsset == ~AssetActive /\ ~IsPending(history)
RequestedAsset(kind, after) ==
  [NoAsset EXCEPT !.step = "preparing", !.kind = kind, !.scene = document.scene, !.visible = TRUE,
                  !.base = document.content, !.after = after]

\* commit() and scene_document_edit::advance(): the scene is the one it was asked in,
\* and holds what it held.
AssetFits ==
  /\ document.scene = asset.scene
  /\ IF asset.kind = "mesh" THEN document.content.mesh = asset.base.mesh ELSE document.content = asset.base

\* cancel() of an asset edit ends it.
AssetCancelled == IF AssetActive THEN NoAsset ELSE asset

(***************************************************************************)
(* The loader                                                              *)
(***************************************************************************)
CanRequestLoad == ~LoaderActive /\ ~Active
RequestedLoad(uri) == [NoLoad EXCEPT !.step = "queued", !.uri = uri, !.visible = TRUE]

\* cancel(): a queued request ends at once, another one when the service says so.
LoadCancelled ==
  CASE loader.step = "none"   -> loader
    [] loader.step = "queued" -> [loader EXCEPT !.step = "none"]
    [] OTHER                  -> [loader EXCEPT !.cancelled = TRUE]

\* adopt(), after the editing state of the old document has been closed.
Adopted(d, uri) == [uri |-> uri, content |-> disk[uri], dirty |-> FALSE, scene |-> Least({d.scene})]
\* create_empty().
Created(d) == [uri |-> Untitled, content |-> Blank, dirty |-> TRUE, scene |-> Least({d.scene})]

\* What would be gone if the document went now.
Unsaved(d) == d.content # (IF d.uri \in DOMAIN disk THEN disk[d.uri] ELSE Blank)
=============================================================================
