--------------------------- MODULE MCResourceService ---------------------------
(* ResourceService on a small instance: a material and its texture. *)
EXTENDS ResourceService
CONSTANTS t1, m1
OneTexture == {t1}
OneMaterial == {m1}
MaterialNeeds == [m \in {m1} |-> t1]
=============================================================================
