---------------------------- MODULE MCSupervisor -----------------------------
(* Instances of Supervisor for TLC. *)
EXTENDS Supervisor, TLC

CONSTANTS c1, c2

Symmetry == Permutations(Camera)
==============================================================================
