--------------------------- MODULE MCVirtioQueue ----------------------------
(* Instances of VirtioQueue for TLC; the .cfg files give the sizes.         *)
EXTENDS VirtioQueue
=============================================================================
