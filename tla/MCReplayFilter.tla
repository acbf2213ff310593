--------------------------- MODULE MCReplayFilter ---------------------------
(* Model-checking instance of ReplayFilter: two callers race for the lock  *)
(* over three digests, with room for two entries and a lifetime of two.    *)
EXTENDS ReplayFilter, TLC

Symm == Permutations(Callers) \union Permutations(Digests)
=============================================================================
