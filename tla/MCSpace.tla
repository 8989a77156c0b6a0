------------------------------ MODULE MCSpace -------------------------------
(* Instances of NetworkSpace for TLC.                                      *)
EXTENDS NetworkSpace
=============================================================================
