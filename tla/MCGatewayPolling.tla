--------------------------- MODULE MCGatewayPolling ---------------------------
(* Pollers, listeners and connections are interchangeable; the run with a  *)
(* liveness property uses no symmetry.                                     *)
EXTENDS GatewayPolling, TLC

Symmetry == Permutations(Pollers) \cup Permutations(Listeners) \cup Permutations(Conns)
=============================================================================
