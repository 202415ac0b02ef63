-------------------------------- MODULE MsaBoard -------------------------------
(***************************************************************************)
(* The board-service of msa-example-1: PostsController and PostsService on *)
(* a Mongo collection, behind SessionAuthMiddleware.                       *)
(*                                                                         *)
(* update and delete first load the post and compare its author, then      *)
(* write by id alone, so requests interleave between the check and the     *)
(* write.  Nothing validates a body: the create may name the _id of its    *)
(* document, and the update may name another author, or none.              *)
(*                                                                         *)
(* title and content are one value of Text.                                *)
(***************************************************************************)
EXTENDS Integers, FiniteSets

CONSTANTS
    Request,  \* requests that can be under way at the same time
    User,     \* ObjectIds an authorId can be: the userIds of sessions
    NoUser,   \* no session; a document without authorId
    Kept,     \* a body that does not name authorId
    Id,       \* ObjectIds of posts
    NoId,     \* a request without an id
    Text,     \* the values of title and content
    NoText    \* title or content missing from the body of a create, both
              \* from that of an update; no document

ASSUME BoardAssumption ==
    /\ NoUser \notin User /\ Kept \notin User \cup {NoUser}
    /\ NoId \notin Id
    /\ NoText \notin Text

VARIABLES
    posts,    \* the documents: author and text of every id
    job,      \* the request under way, with the userId of its session
    at,       \* what its handler awaits
    outcome,  \* how the last request ended
    wrote,    \* history: the users whose requests wrote an id
    held      \* history: the requests whose user was the author of their
              \* post at some moment since they arrived

boardVars == <<posts, job, at, outcome, wrote, held>>

Absent == [author |-> NoUser, text |-> NoText]
Exists(i) == posts[i].text # NoText

NoJob == [op |-> "none", user |-> NoUser, id |-> NoId, author |-> Kept, text |-> NoText]
Job == [op : {"create", "update", "delete", "read", "list"},
        user : User \cup {NoUser}, id : Id \cup {NoId},
        author : User \cup {NoUser, Kept}, text : Text \cup {NoText}]

BoardInit ==
    /\ posts = [i \in Id |-> Absent]
    /\ job = [r \in Request |-> NoJob]
    /\ at = [r \in Request |-> "none"]
    /\ outcome = [r \in Request |-> "none"]
    /\ wrote = [i \in Id |-> {}]
    /\ held = {}

(* The requests that want to write a post whose author their user is now. *)
Authors == {r \in Request : /\ job[r].op \in {"update", "delete"}
                            /\ job[r].user # NoUser
                            /\ posts[job[r].id].author = job[r].user}

Remember == held' = {r \in held : job'[r] # NoJob} \cup Authors'

(* Bound: a create that names no id finds one that no document ever had. *)
IdsLeft ==
    Cardinality({r \in Request : job[r].op = "create"})
      < Cardinality({i \in Id : wrote[i] = {}})

Answer(r, how) ==
    /\ job' = [job EXCEPT ![r] = NoJob]
    /\ at' = [at EXCEPT ![r] = "none"]
    /\ outcome' = [outcome EXCEPT ![r] = how]

AnswerOnly(r, how) == Answer(r, how) /\ UNCHANGED <<posts, wrote>>

(* SessionAuthMiddleware, on every route of /posts, and the start of the *)
(* controller's method: 401 without a userId.                            *)
Middleware(r, j) ==
    IF j.user = NoUser
      THEN AnswerOnly(r, "refused")
      ELSE /\ job' = [job EXCEPT ![r] = j]
           /\ at' = [at EXCEPT ![r] = IF j.op = "create" THEN "save" ELSE "find"]
           /\ outcome' = [outcome EXCEPT ![r] = "none"]
           /\ UNCHANGED <<posts, wrote>>

(* A request arrives, its session is loaded. *)
Arrive(r, user) ==
    /\ job[r] = NoJob
    /\ \E j \in Job :
        /\ j.user = user
        /\ j.op = "create" => IdsLeft
        /\ j.op = "list" => j.id = NoId
        /\ j.op \in {"update", "delete", "read"} => j.id # NoId
        /\ j.op # "update" => j.author = Kept
        /\ j.op \in {"delete", "read", "list"} => j.text = NoText
        /\ Middleware(r, j)
    /\ Remember

(* The author was compared, the write is next. *)
Await(r, what) ==
    /\ at' = [at EXCEPT ![r] = what]
    /\ UNCHANGED <<posts, job, outcome, wrote>>

--------------------------------------------------------------------------------
(* What the awaited calls do to the collection. *)

Store(r, i, document) ==
    /\ posts' = [posts EXCEPT ![i] = document]
    /\ wrote' = [wrote EXCEPT ![i] = @ \cup {job[r].user}]

(* new postModel({...dto, authorId}).save(): under the _id of the body, if no *)
(* document has it, or under a new one; the author is the session's user.     *)
Insert(r) ==
    \E i \in Id :
        /\ IF job[r].id = NoId THEN wrote[i] = {} ELSE i = job[r].id /\ ~Exists(i)
        /\ Store(r, i, [author |-> job[r].user, text |-> job[r].text])

(* The fields of the body replace those of the document. *)
Merged(document, body) ==
    [author |-> IF body.author = Kept THEN document.author ELSE body.author,
     text |-> IF body.text = NoText THEN document.text ELSE body.text]

(* Mutant: an update that upserts. *)
FindByIdAndUpsert(r) == Store(r, job[r].id, Merged(posts[job[r].id], job[r]))

(* findByIdAndUpdate(id, updateData): whatever the body names, no upsert. *)
FindByIdAndUpdate(r) ==
    /\ Exists(job[r].id)
    /\ Store(r, job[r].id, Merged(posts[job[r].id], job[r]))

FindByIdAndDelete(r) == Store(r, job[r].id, Absent)

Write(r) ==
    \/ at[r] = "save" /\ job[r].text \in Text /\ Insert(r)
    \/ at[r] = "update" /\ FindByIdAndUpdate(r)
    \/ at[r] = "delete" /\ FindByIdAndDelete(r)

--------------------------------------------------------------------------------
(* Mutant: the author is not compared. *)
FoundWithoutAuthor(r) ==
    LET j == job[r] IN
    /\ at[r] = "find"
    /\ \/ j.op = "list" /\ AnswerOnly(r, "ok")
       \/ j.op # "list" /\ ~Exists(j.id) /\ AnswerOnly(r, "refused")
       \/ j.op = "read" /\ Exists(j.id) /\ AnswerOnly(r, "ok")
       \/ j.op \in {"update", "delete"} /\ Exists(j.id) /\ Await(r, j.op)

(* findAll and findOne of a GET answer here; findOne answers 404; update and *)
(* delete fail on a document without authorId, answer 403 to anyone but the  *)
(* author, or go on.                                                         *)
Found(r) ==
    LET j == job[r] IN
    /\ at[r] = "find"
    /\ \/ j.op = "list" /\ AnswerOnly(r, "ok")
       \/ j.op # "list" /\ ~Exists(j.id) /\ AnswerOnly(r, "refused")
       \/ j.op = "read" /\ Exists(j.id) /\ AnswerOnly(r, "ok")
       \/ /\ j.op \in {"update", "delete"} /\ Exists(j.id)
          /\ \/ posts[j.id].author = NoUser /\ AnswerOnly(r, "failed")
             \/ posts[j.id].author \in User \ {j.user} /\ AnswerOnly(r, "refused")
             \/ posts[j.id].author = j.user /\ Await(r, j.op)

(* The write was made. *)
Written(r) ==
    /\ Write(r)
    /\ Answer(r, "ok")

(* updatedPost is null: 404. *)
UpdatedNothing(r) ==
    /\ at[r] = "update"
    /\ ~Exists(job[r].id)
    /\ AnswerOnly(r, "refused")

(* A save without title or content or under the _id of another document, an *)
(* error of Mongo: 500.  After an error the write may have been made.       *)
Rejected(r) ==
    /\ at[r] \in {"save", "find", "update", "delete"}
    /\ Write(r) \/ UNCHANGED <<posts, wrote>>
    /\ Answer(r, "failed")

BoardContinue(r) ==
    /\ \/ Found(r)
       \/ Written(r)
       \/ UpdatedNothing(r)
       \/ Rejected(r)
    /\ Remember

BoardNext == \E r \in Request :
    (\E user \in User \cup {NoUser} : Arrive(r, user)) \/ BoardContinue(r)

Spec == BoardInit /\ [][BoardNext]_boardVars

--------------------------------------------------------------------------------
BoardTypeOK ==
    /\ posts \in [Id -> [author : User \cup {NoUser}, text : Text \cup {NoText}]]
    /\ job \in [Request -> Job \cup {NoJob}]
    /\ at \in [Request -> {"none", "save", "find", "update", "delete"}]
    /\ outcome \in [Request -> {"none", "ok", "refused", "failed"}]
    /\ wrote \in [Id -> SUBSET User]
    /\ held \subseteq Request

(* A post is changed or removed only by a PUT or DELETE whose user was its   *)
(* author at some moment since the request arrived, and who was not told     *)
(* 401, 403 or 404: checking and writing in two steps lets a request finish  *)
(* after the post has passed to somebody else, but nobody gets to write who  *)
(* never was the author, and no create replaces a post by naming its _id.    *)
WritersWereAuthors ==
    [][\A i \in Id : Exists(i) /\ posts'[i] # posts[i] =>
         \E r \in held : /\ job[r].op \in {"update", "delete"} /\ job[r].id = i
                         /\ job'[r] = NoJob /\ outcome'[r] # "refused"]_boardVars

(* A removed post does not come back by a late update: an id has a document  *)
(* again only when a create names it, and then in the name of its creator.   *)
NoRevival ==
    [][\A i \in Id : ~Exists(i) /\ Exists(i)' =>
         \E r \in Request : /\ job[r].op = "create" /\ job'[r] = NoJob
                            /\ posts'[i].author = job[r].user
                            /\ wrote[i] = {} \/ job[r].id = i]_boardVars
================================================================================
