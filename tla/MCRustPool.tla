------------------------------ MODULE MCRustPool ------------------------------
(* Model-checking instance of RustPool. *)
EXTENDS RustPool

\* Threads are interchangeable.
Symmetry == Permutations(Threads)
=============================================================================
