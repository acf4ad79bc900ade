----------------------------- MODULE MCSession -----------------------------
(* Instances of Session for TLC: a few goroutines, a few refreshes. *)
EXTENDS SessionInv, TLC

\* Goroutines are interchangeable.
Symmetry == Permutations(Threads)

=============================================================================
