------------------------------ MODULE MCCharon ------------------------------
(* Instances of CharonVpnService for TLC.                                  *)
EXTENDS CharonVpnService
=============================================================================
