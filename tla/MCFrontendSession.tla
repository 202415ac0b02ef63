--------------------------- MODULE MCFrontendSession ---------------------------
EXTENDS FrontendSession, TLC

Symmetry == Permutations(Tab) \cup Permutations(User) \cup Permutations(Flow)
================================================================================
