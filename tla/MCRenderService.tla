--------------------------- MODULE MCRenderService ---------------------------
(* RenderService on a small instance: one or two textures, one window. *)
EXTENDS RenderService
=============================================================================
