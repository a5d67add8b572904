--------------------------- MODULE MCVgpuDisplay ----------------------------
(* Instances of VgpuDisplay for TLC; the .cfg files give the sizes.         *)
EXTENDS VgpuDisplay
=============================================================================
