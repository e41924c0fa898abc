--------------------------- MODULE MCAssetLibrary ---------------------------
(***************************************************************************)
(* Small instances of AssetLibrary for TLC.                                *)
(***************************************************************************)
EXTENDS AssetLibrary, TLC

Symmetry == Permutations(Requests) \cup Permutations(Ids) \cup Permutations(Media)
=============================================================================
