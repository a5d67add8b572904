----------------------------- MODULE MCSmpLoop ------------------------------
(* Instances of SmpLoop for TLC; the .cfg files give the sizes.             *)
EXTENDS SmpLoop
=============================================================================
