------------------------------ MODULE MCPaging ------------------------------
EXTENDS Paging, TLC

Symmetry == Permutations(Spaces) \cup Permutations(Frames) \cup Permutations(Entries)
=============================================================================
