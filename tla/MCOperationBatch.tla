-------------------------- MODULE MCOperationBatch --------------------------
(* Instances of OperationBatch for TLC. *)
EXTENDS OperationBatch, TLC

CONSTANTS i1, i2, i3, g, p1, p2

\* An item beside a group of two, and two items without a group.
WithGroup == [c \in {Spread, g} |-> IF c = Spread THEN <<i1, g>> ELSE <<i2, i3>>]
WithoutGroup == [c \in {Spread} |-> <<i1, i2>>]

TwoPages == <<p1, p2>>
OnePage == <<p1>>

Symmetry == Permutations(Aliases)

=============================================================================
