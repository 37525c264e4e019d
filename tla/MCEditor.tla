------------------------------- MODULE MCEditor -------------------------------
(* EditorHost on a small instance; the bounds are in the configurations. *)
EXTENDS EditorHost
=============================================================================
