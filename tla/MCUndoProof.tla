---------------------------- MODULE MCUndoProof ----------------------------
(* Instances of UndoProof for TLC. *)
EXTENDS UndoProof, TLC

Symmetry == Permutations(Traces) \cup Permutations(Documents)

=============================================================================
