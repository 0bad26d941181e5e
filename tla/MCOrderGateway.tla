--------------------------- MODULE MCOrderGateway ---------------------------
(* Instances of OrderGateway for TLC. *)
EXTENDS OrderGateway

CONSTANTS p, q, s

=============================================================================
