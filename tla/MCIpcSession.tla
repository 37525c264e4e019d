---------------------------- MODULE MCIpcSession ----------------------------
(***************************************************************************)
(* A small instance of IpcSession for TLC: the constants come from the cfg.*)
(***************************************************************************)
EXTENDS IpcSession
=============================================================================
