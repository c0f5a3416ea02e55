---------------------------- MODULE MCLifecycle ----------------------------
(* Constants for the runs of Lifecycle: two rooms, two ports, one of which  *)
(* other programs use too.                                                  *)
EXTENDS Lifecycle, TLC

MCPorts == 1..2
MCSymmetry == Permutations(Pids) \cup Permutations(Cmds) \cup Permutations(Rooms)
=============================================================================
