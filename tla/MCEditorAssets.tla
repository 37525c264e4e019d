---------------------------- MODULE MCEditorAssets ----------------------------
(* EditorAssets on a small instance. *)
EXTENDS EditorAssets
CONSTANTS f1, f2
=============================================================================
