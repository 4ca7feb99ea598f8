----------------------------- MODULE MCPipes ------------------------------
(***************************************************************************)
(* Instances of Pipes for TLC: three tasks of the Forge.                   *)
(***************************************************************************)
EXTENDS Pipes

ThreeTasks == {"t1", "t2", "t3"}
AllKinds == {"save", "simulate", "probe"}
=============================================================================
