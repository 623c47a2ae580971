--------------------------- MODULE MCConcurrency ----------------------------
(* Symmetry for the model checking runs of Concurrency. *)
EXTENDS Concurrency, TLC

Symmetry == Permutations(Client) \union Permutations(Key)
            \union Permutations(Request)
=============================================================================
