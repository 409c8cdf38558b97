------------------------------ MODULE MCMemFs -------------------------------
EXTENDS MemFs, TLC
CONSTANTS n1, n2, n3, n4, h1, h2
Symmetry == Permutations(Node) \cup Permutations(Handle)
=============================================================================
