------------------------- MODULE MCDocumentRevision -------------------------
(***************************************************************************)
(* Model-checking instance of DocumentRevision.  Native ids and UUIDs are  *)
(* interchangeable, which is sound for the safety properties checked.      *)
(***************************************************************************)
EXTENDS DocumentRevision, TLC

Symmetry == Permutations(NativeIds) \cup Permutations(Uuids)

=============================================================================
