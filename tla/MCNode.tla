-------------------------------- MODULE MCNode --------------------------------
EXTENDS NodeProperties

Symmetry == Permutations(Node)
=============================================================================
