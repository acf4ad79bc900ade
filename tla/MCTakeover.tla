----------------------------- MODULE MCTakeover -----------------------------
(* Instances of Takeover for TLC. *)
EXTENDS TakeoverInv, TLC

\* Invocations are interchangeable, and so are the secrets in the environment.
Symmetry == Permutations(Serves) \cup Permutations(EnvSecrets)

=============================================================================
