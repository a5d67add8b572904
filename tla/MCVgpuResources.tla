-------------------------- MODULE MCVgpuResources --------------------------
(* Values for TLC: a scanout smaller than some resources, the default mode *)
(* and modes whose timing is scaled and cut; resources that together pass  *)
(* the memory limit; a backing with an empty entry, too short for some     *)
(* transfers and too long for others; rectangles at, inside and beyond the *)
(* edges.                                                                  *)
EXTENDS VgpuResources, TLC

MCModes == {<<2, 2>>, <<1024, 768>>, <<4095, 3>>}
MCSizes == {<<2, 2>>, <<3, 1>>, <<2, 0>>}
MCBackings == {<<>>, <<1, 0, 3>>}
MCRects == {<<0, 0, 2, 2>>, <<1, 0, 1, 2>>, <<0, 0, 3, 1>>}
=============================================================================
