--------------------------- MODULE MCRequestQueue ---------------------------
(***************************************************************************)
(* Model-checking instance of RequestQueue.  Requests that report no queue *)
(* depth are interchangeable.                                              *)
(***************************************************************************)
EXTENDS RequestQueue, TLC

Symmetry == Permutations(Requests \ StatusRequests)

=============================================================================
