------------------------------ MODULE MCBuilder ------------------------------
(* Instances of BuilderCache for TLC.                                      *)
EXTENDS BuilderCache
=============================================================================
