-------------------------- MODULE MCCircuitBreaker --------------------------
(* Symmetry for the model checking runs of CircuitBreaker. *)
EXTENDS CircuitBreaker, TLC

Symmetry == Permutations(Client) \union Permutations(Key)
            \union Permutations(Request)
=============================================================================
