-------------------------- MODULE MCSecuritySnapshot --------------------------
(* Model-checking instance of SecuritySnapshot. *)
EXTENDS SecuritySnapshot, TLC

\* Cursors are interchangeable.
Symmetry == Permutations(Cursors)
=============================================================================
