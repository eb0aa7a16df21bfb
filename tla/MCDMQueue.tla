----------------------------- MODULE MCDMQueue ------------------------------
EXTENDS DMQueue, TLC

Symmetry == Permutations(Slots) \cup Permutations(Comments)
=============================================================================
