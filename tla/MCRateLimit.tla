---------------------------- MODULE MCRateLimit -----------------------------
(* Symmetry for the model checking runs of RateLimit. *)
EXTENDS RateLimit, TLC

Symmetry == Permutations(Client) \union Permutations(Key)
            \union Permutations(Request)
=============================================================================
