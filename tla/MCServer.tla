------------------------------ MODULE MCServer ------------------------------
(* Instances of Server for TLC. *)
EXTENDS Server, TLC

\* Goroutines are interchangeable.
Symmetry == Permutations(Threads)

=============================================================================
