---------------------------- MODULE MCLifecycle ----------------------------
(* Every service of the platform, one per behaviour, beside one of another name. *)
EXTENDS Lifecycle

ANeighbour == "neighbour-service"
=============================================================================
