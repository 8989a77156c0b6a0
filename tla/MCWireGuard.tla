------------------------------ MODULE MCWireGuard ------------------------------
(* Constants of the runs on WireGuardService.                              *)
EXTENDS WireGuardService, TLC

(* The names are treated alike. *)
Symmetry == Permutations(Name)
=============================================================================
