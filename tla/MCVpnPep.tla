------------------------------ MODULE MCVpnPep ------------------------------
(* Instances of VpnPep for TLC. *)
EXTENDS VpnPep

CONSTANTS e1, e2
=============================================================================
