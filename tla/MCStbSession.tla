---------------------------- MODULE MCStbSession ----------------------------
EXTENDS StbSession, TLC

Symmetry == Permutations(Sockets)
=============================================================================
