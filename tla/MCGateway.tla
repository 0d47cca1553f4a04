------------------------------ MODULE MCGateway ------------------------------
(* Instances of the gateway pipeline for TLC. *)
EXTENDS GatewayProperties

CONSTANTS c1, c2
=============================================================================
