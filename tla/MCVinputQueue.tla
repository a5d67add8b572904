--------------------------- MODULE MCVinputQueue ----------------------------
(* Instances of VinputQueue for TLC; the .cfg files give the sizes.         *)
EXTENDS VinputQueue
=============================================================================
