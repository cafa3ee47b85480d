---------------------------- MODULE MCGwcServer ----------------------------
EXTENDS GwcServer, TLC

Symmetry == Permutations(Conn) \cup Permutations(Pipe)
=============================================================================
