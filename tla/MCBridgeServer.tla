--------------------------- MODULE MCBridgeServer ---------------------------
(***************************************************************************)
(* Model-checking instance of BridgeServer.  Requests of the same size are *)
(* interchangeable.                                                        *)
(***************************************************************************)
EXTENDS BridgeServer, TLC

\* Bound of this run: the server reads one body of a connection at a time (the
\* delivery run has no such bound).
OneBody == \A c \in HttpConnections : Cardinality(reading[c]) <= 1

Symmetry == Permutations(Requests \ Oversized)

=============================================================================
