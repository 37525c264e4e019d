----------------------------- MODULE MCRuntimeHost -----------------------------
(* RuntimeHost on small instances; the bounds are in the configurations. *)
EXTENDS RuntimeHost
=============================================================================
