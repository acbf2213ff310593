---------------------------- MODULE MCClientState ----------------------------
EXTENDS ClientState, TLC

Symm == Permutations(Builders)
=============================================================================
