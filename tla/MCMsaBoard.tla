------------------------------- MODULE MCMsaBoard ------------------------------
EXTENDS MsaBoard, TLC

Symmetry ==
    Permutations(Request) \cup Permutations(User) \cup Permutations(Id)
        \cup Permutations(Text)
================================================================================
