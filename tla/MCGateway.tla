----------------------------- MODULE MCGateway -----------------------------
(* Gateway for TLC: names for the frames the configurations choose from.     *)
EXTENDS Gateway
CONSTANTS f1, f2, e1
=============================================================================
