---------------------------- MODULE MCServerState ----------------------------
EXTENDS ServerState, TLC

Symm == Permutations(Builders)
=============================================================================
