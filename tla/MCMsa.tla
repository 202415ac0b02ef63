--------------------------------- MODULE MCMsa ---------------------------------
EXTENDS Msa, TLC

Symmetry == Permutations(Request) \cup Permutations(User) \cup Permutations(Sid)

(* What no later step and no property of the run depends on is left out: how *)
(* the last board request ended, held, what a request that only reads its    *)
(* session found there, userId before the login changed it, what a GET reads *)
(* and, as there is one text, the text of an update.                         *)
CallView(c) ==
    CASE c.at \in LoginSteps ->
           <<c.at, c.sid, c.userId, c.name, c.good, c.at = "end" /\ c.userId = c.loaded>>
      [] c.at = "save user" -> <<c.at, c.name>>
      [] c.at = "destroy" -> <<c.at, c.sid>>
      [] OTHER -> <<c.at>>

JobView(j) ==
    IF j.op \in {"read", "list"} THEN <<"get", j.user>>
    ELSE <<j.op, j.user, j.id, j.author, IF j.op = "update" THEN NoText ELSE j.text>>

View ==
    <<users, store, proved, posts, at, wrote,
      [r \in Request |-> CallView(call[r])],
      [r \in BoardRequest |-> JobView(job[r])]>>
================================================================================
