-------------------------- MODULE MCReconnectModal --------------------------
(* Instance of ReconnectModal for TLC: two calls may overlap.               *)
EXTENDS ReconnectModal

CONSTANTS r1, r2
=============================================================================
