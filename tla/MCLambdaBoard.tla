----------------------------- MODULE MCLambdaBoard -----------------------------
EXTENDS LambdaBoard, TLC

Symmetry == Permutations(Request) \cup Permutations(User)

(* Nothing reads answer: states that differ in it alone have the same future. *)
View == <<table, past, counter, awaiting, resent, stray, author, deleted>>
================================================================================
