------------------------------ MODULE MCPause -------------------------------
(* Instances of DeviceStateReceiver for TLC.                               *)
EXTENDS DeviceStateReceiver
=============================================================================
