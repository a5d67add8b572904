---------------------------- MODULE MCFuseSession ----------------------------
(* Values for TLC: a directory and two files, of which the second has the  *)
(* inode number of the first (two host file systems) or of the root.       *)
EXTENDS FuseSession, TLC

CONSTANTS dir, file1, file2, root, name1, name2

MCFile == {dir, file1, file2}
MCDir == {dir}
MCTrees == {(dir :> <<root, name1>>) @@ (file1 :> <<dir, name1>>) @@ (file2 :> <<root, name2>>)}
MCNumberings == {(dir :> 2) @@ (file1 :> 3) @@ (file2 :> n) : n \in {1, 3}}
=============================================================================
