---------------------------- MODULE MCSceneStructure ----------------------------
(* SceneStructure on a small instance: three objects and one Prefab. *)
EXTENDS SceneStructure
=============================================================================
