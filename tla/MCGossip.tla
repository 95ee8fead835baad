------------------------------ MODULE MCGossip ------------------------------
EXTENDS GossipMembership, TLC
CONSTANT Alike
Symmetry == Permutations(Alike)
=============================================================================
