-------------------------- MODULE MCTestScheduler ---------------------------
(* Instances of TestScheduler for TLC: three tests, of which the first two *)
(* share a build, or which build each their own.                           *)
EXTENDS TestScheduler

MCShared   == <<1, 1, 3>>
MCSeparate == <<1, 2, 3>>
MCPair     == <<1, 1>>
MCPairOwn  == <<1, 2>>
(* The last test needs more processors than the pool of 3 has. *)
MCPes      == <<2, 1, 4>>
MCPesPair  == <<2, 1>>
=============================================================================
