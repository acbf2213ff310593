----------------------------- MODULE MCHandshake -----------------------------
(* A small instance of Handshake for TLC.                                  *)
EXTENDS Handshake, TLC

Symm == Permutations(Callers) \union Permutations(Digests)
=============================================================================
