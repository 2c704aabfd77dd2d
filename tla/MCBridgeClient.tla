--------------------------- MODULE MCBridgeClient ---------------------------
(* Instances of BridgeClient for TLC. *)
EXTENDS BridgeClient, TLC

Symmetry == Permutations(Attempts)

=============================================================================
