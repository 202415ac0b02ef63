---------------------------- MODULE MCAppSyncBoard -----------------------------
EXTENDS AppSyncBoard, TLC

Symmetry ==
    Permutations(Request) \cup Permutations(User) \cup Permutations(Id)
        \cup Permutations(Value)
================================================================================
