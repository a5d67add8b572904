----------------------------- MODULE MCHartMmu -----------------------------
(* Pages for TLC: kernel text, which can only be executed (and read with   *)
(* MXR), and a user page with every permission (the kernel's with SUM).    *)
EXTENDS HartMmu, TLC

MCPte == {[ppn |-> 0, perm |-> {"x"}, user |-> FALSE],
          [ppn |-> 1, perm |-> {"r", "w", "x"}, user |-> TRUE]}

MCStvec == <<0, 0>>

\* Everything, a part of two pages, and a range past the last address.
MCRanges == {<<0, 0>>, <<1, 2>>, <<3, 2>>}
=============================================================================
