------------------------------ MODULE MCOpenVPN ------------------------------
(* Constants of the runs on OpenVPNService.                                *)
EXTENDS OpenVPNService
=============================================================================
