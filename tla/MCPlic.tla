------------------------------- MODULE MCPlic --------------------------------
(* Instances of Plic for TLC; the .cfg files give the sizes.                *)
EXTENDS Plic
=============================================================================
