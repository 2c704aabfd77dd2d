--------------------------- MODULE MCFileExports ---------------------------
(* Instances of FileExports for TLC. *)
EXTENDS FileExports, TLC

Symmetry == Permutations(Settings)

=============================================================================
