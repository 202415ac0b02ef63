------------------------------- MODULE PostBoard -------------------------------
(***************************************************************************)
(* What a bulletin board promises its users, whatever overlaps: every      *)
(* write takes effect at one moment between its arrival and its answer,    *)
(* only the author of a post changes or removes it, an update changes the  *)
(* fields it names and no others, a removed post stays removed, and a      *)
(* request is refused only for a reason that holds at that moment.  A read *)
(* may miss that a post was created or removed, but only as long as this   *)
(* is news; everything older is seen by every read.                        *)
(*                                                                         *)
(* AppSyncBoard implements this module.  LambdaBoard does not: its update  *)
(* can bring a removed post back.  Neither does MsaBoard: its update can   *)
(* hand a post to another user.                                            *)
(***************************************************************************)
CONSTANTS
    Request,  \* requests that can be under way at the same time
    User,     \* authenticated users
    NoUser,   \* nobody: an unauthenticated request, an id never used
    Id,       \* post ids
    NoId,     \* the id of no request
    Field,    \* the fields of a post: title and content
    Value,    \* the values of a field
    NoValue   \* a field that is absent

VARIABLES
    post,     \* the owner and the text of every id
    news,     \* the ids whose last creation or removal a read may miss
    job,      \* the request under way, or Idle
    outcome   \* how the last request ended

Blank == [f \in Field |-> NoValue]
Text == [Field -> Value \cup {NoValue}]

Idle == [op |-> "none", user |-> NoUser, id |-> NoId,
         changes |-> Blank]
Job == [op : {"create", "update", "delete", "read"}, user : User \cup {NoUser},
        id : Id, changes : Text]

Fresh(i) == post[i].owner = NoUser
Live(i) == ~Fresh(i) /\ post[i].text # Blank

Override(text, changes) ==
    [f \in Field |-> IF changes[f] = NoValue THEN text[f] ELSE changes[f]]

Init ==
    /\ post = [i \in Id |-> [owner |-> NoUser, text |-> Blank]]
    /\ news = {}
    /\ job = [r \in Request |-> Idle]
    /\ outcome = [r \in Request |-> "none"]

Ask(r) ==
    /\ job[r] = Idle
    /\ \E j \in Job : job' = [job EXCEPT ![r] = j]
    /\ outcome' = [outcome EXCEPT ![r] = "none"]
    /\ UNCHANGED <<post, news>>

Create(j) ==
    \E i \in Id :
        /\ Fresh(i)
        /\ post' = [post EXCEPT ![i] = [owner |-> j.user, text |-> j.changes]]
        /\ news' = news \cup {i}

Update(j) ==
    /\ Live(j.id) /\ post[j.id].owner = j.user
    /\ post' = [post EXCEPT ![j.id].text = Override(@, j.changes)]
    /\ UNCHANGED news

Delete(j) ==
    /\ Live(j.id) /\ post[j.id].owner = j.user
    /\ post' = [post EXCEPT ![j.id].text = Blank]
    /\ news' = news \cup {j.id}

Read(j) ==
    /\ Live(j.id) \/ j.id \in news
    /\ UNCHANGED <<post, news>>

Perform(j) ==
    \/ j.op = "create" /\ j.user # NoUser /\ Create(j)
    \/ j.op = "update" /\ j.user # NoUser /\ Update(j)
    \/ j.op = "delete" /\ j.user # NoUser /\ Delete(j)
    \/ j.op = "read" /\ Read(j)

(* Why a request may be refused. *)
Refusable(j) ==
    \/ j.user = NoUser
    \/ j.op = "update" /\ j.changes = Blank
    \/ j.op \in {"update", "delete", "read"} /\ ~Live(j.id)
    \/ j.op = "read" /\ j.id \in news
    \/ j.op \in {"update", "delete"} /\ post[j.id].owner # j.user

Finish(r, how) ==
    /\ job[r] # Idle
    /\ job' = [job EXCEPT ![r] = Idle]
    /\ outcome' = [outcome EXCEPT ![r] = how]

Succeed(r) == Perform(job[r]) /\ Finish(r, "ok")
Refuse(r) == Refusable(job[r]) /\ UNCHANGED <<post, news>> /\ Finish(r, "refused")
(* The answer of a failed request does not tell whether it took effect. *)
Fail(r) == (Perform(job[r]) \/ UNCHANGED <<post, news>>) /\ Finish(r, "failed")

(* From now on every read sees that the post was created or removed. *)
Settle(i) ==
    /\ i \in news
    /\ news' = news \ {i}
    /\ UNCHANGED <<post, job, outcome>>

Next ==
    \/ \E r \in Request : Ask(r) \/ Succeed(r) \/ Refuse(r) \/ Fail(r)
    \/ \E i \in Id : Settle(i)

vars == <<post, news, job, outcome>>
Spec == Init /\ [][Next]_vars
================================================================================
