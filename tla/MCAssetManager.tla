--------------------------- MODULE MCAssetManager ---------------------------
(***************************************************************************)
(* Small instances of AssetManager for TLC.                                *)
(***************************************************************************)
EXTENDS AssetManager
CONSTANTS k1, k2
OneKey == {k1}
TwoKeys == {k1, k2}
=============================================================================
