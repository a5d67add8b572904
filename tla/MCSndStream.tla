---------------------------- MODULE MCSndStream -----------------------------
(* Instances of SndStream for TLC; the .cfg files give the sizes.           *)
EXTENDS SndStream
=============================================================================
