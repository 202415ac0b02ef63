------------------------------ MODULE LambdaBoard ------------------------------
(***************************************************************************)
(* The post handlers of aws-lambda-example/backend: createPost, updatePost,*)
(* deletePost and getPost, run as concurrent Lambda invocations against    *)
(* the DynamoDB tables Counter and Posts.                                  *)
(*                                                                         *)
(* An invocation is atomic between two awaits.  What it awaits is one      *)
(* DynamoDB command: awaiting[r] holds the command together with the       *)
(* handler's local variables.  The SDK client of the handlers has the      *)
(* default retry policy, so a command whose connection breaks is sent      *)
(* again while the first copy may still be on its way: such a copy is in   *)
(* stray and takes effect later, or never.                                 *)
(*                                                                         *)
(* The handlers' GetCommands do not ask for a consistent read: such a read *)
(* may answer with a version of the row that was replaced before, until    *)
(* all replicas have caught up.                                            *)
(*                                                                         *)
(* title and content are always checked, written and returned together and *)
(* are one value of Text.                                                  *)
(***************************************************************************)
EXTENDS Integers, FiniteSets

CONSTANTS
    Request,    \* the Lambda invocations that can run at the same time
    User,       \* subject claims of the Cognito users
    NoUser,     \* an absent userId attribute
    Text,       \* the values of title and content
    NoText,     \* title or content missing or empty
    Malformed,  \* a body JSON.parse rejects
    MaxId,      \* bound: the largest value the counter reaches
    MaxSend,    \* the SDK's attempts after the first one
    MaxStray    \* bound: the copies of commands still on their way

ASSUME BoardAssumption ==
    /\ NoUser \notin User
    /\ NoText \notin Text
    /\ MaxId \in Nat
    /\ MaxSend \in Nat
    /\ MaxStray \in Nat

VARIABLES
    table,      \* Posts, the row of every id
    past,       \* its earlier versions that some replica still has
    counter,    \* the value of the item "post" of table Counter
    awaiting,   \* the command every invocation awaits
    resent,     \* how often the SDK sent it again
    stray,      \* copies of commands that may still take effect
    answer,     \* the response the last step sent, or Silence
    author,     \* history: the user whose createPost first wrote an id
    deleted     \* history: the ids a DeleteItem removed a row of

vars == <<table, past, counter, awaiting, resent, stray, answer, author, deleted>>

Id == 1 .. MaxId
Row == [owner : User \cup {NoUser}, text : Text \cup {NoText}]
Absent == [owner |-> NoUser, text |-> NoText]
There(i) == table[i].text # NoText

(* A row that has title and content but no userId. *)
Ghost(i) == There(i) /\ table[i].owner = NoUser

Kind == {"idle", "nextId", "put", "getToUpdate", "update",
         "getToDelete", "delete", "get"}
Command == [kind : Kind, id : 0 .. MaxId, user : User \cup {NoUser},
            text : Text \cup {NoText}]
Idle == [kind |-> "idle", id |-> 0, user |-> NoUser, text |-> NoText]

Status == {0, 200, 201, 400, 401, 403, 404, 500, 503}
Response == [status : Status, row : Row]
Silence == [status |-> 0, row |-> Absent]

(* A copy of a read has no effect and nobody awaits its reply. *)
Copies(c) == {d \in {c} : d.kind \in {"nextId", "put", "update", "delete"}}

(* The writes to Posts that may still take effect. *)
Writes == {c \in stray \cup {awaiting[r] : r \in Request} :
             c.kind \in {"put", "update", "delete"}}

Init ==
    /\ table = [i \in Id |-> Absent]
    /\ past = [i \in Id |-> {}]
    /\ counter = 0
    /\ awaiting = [r \in Request |-> Idle]
    /\ resent = [r \in Request |-> 0]
    /\ stray = {}
    /\ answer = Silence
    /\ author = [i \in Id |-> NoUser]
    /\ deleted = {}

store == <<table, past, counter, author, deleted>>

--------------------------------------------------------------------------------
(* What an invocation does with its own state. *)

Answer(r, status, row) ==
    /\ awaiting' = [awaiting EXCEPT ![r] = Idle]
    /\ resent' = [resent EXCEPT ![r] = 0]
    /\ answer' = [status |-> status, row |-> row]

Await(r, kind, id, user, text) ==
    /\ awaiting' = [awaiting EXCEPT ![r] =
                      [kind |-> kind, id |-> id, user |-> user, text |-> text]]
    /\ resent' = [resent EXCEPT ![r] = 0]
    /\ answer' = Silence

(* The synchronous part of the handlers.  named says that the token has a  *)
(* username claim: an id token passes the authorizer and has none.         *)

CreatePost(r, user, named, body) ==
    /\ awaiting[r].kind = "idle"
    /\ \/ body = Malformed /\ Answer(r, 500, Absent)
       \/ body = NoText /\ Answer(r, 400, Absent)
       \/ body \in Text /\ ~named /\ Answer(r, 401, Absent)
       \/ body \in Text /\ named /\ Await(r, "nextId", 0, user, body)
    /\ UNCHANGED <<store, stray>>

UpdatePost(r, user, id, body) ==
    /\ awaiting[r].kind = "idle"
    /\ \/ body = Malformed /\ Answer(r, 500, Absent)
       \/ body = NoText /\ Answer(r, 400, Absent)
       \/ body \in Text /\ Await(r, "getToUpdate", id, user, body)
    /\ UNCHANGED <<store, stray>>

DeletePost(r, user, id, named) ==
    /\ awaiting[r].kind = "idle"
    /\ \/ ~named /\ Answer(r, 401, Absent)
       \/ named /\ Await(r, "getToDelete", id, user, NoText)
    /\ UNCHANGED <<store, stray>>

GetPost(r, id) ==
    /\ awaiting[r].kind = "idle"
    /\ Await(r, "get", id, NoUser, NoText)
    /\ UNCHANGED <<store, stray>>

--------------------------------------------------------------------------------
(* What a command does to the tables. *)

(* What a GetItem may return: the row or an earlier version of it. *)
Versions(i) == {table[i]} \cup past[i]

(* A write replaces the row; replicas that lag still have the old one. *)
Store(i, row) ==
    /\ table' = [table EXCEPT ![i] = row]
    /\ past' = [past EXCEPT ![i] = (@ \cup {table[i]}) \ {row}]

(* The replicas of a row catch up. *)
CatchUp(i) ==
    /\ past[i] # {}
    /\ past' = [past EXCEPT ![i] = {}]
    /\ answer' = Silence
    /\ UNCHANGED <<table, counter, awaiting, resent, stray, author, deleted>>

(* Mutant: the counter is read and written back in two steps, so that two *)
(* creates may read the same value.                                       *)
CountUpInTwoSteps ==
    /\ counter < MaxId
    /\ counter' \in {counter, counter + 1} \ {0}
    /\ UNCHANGED <<table, past, author, deleted>>

(* SET value = if_not_exists(value, 0) + 1 on the item "post". *)
CountUp ==
    /\ counter < MaxId
    /\ counter' = counter + 1
    /\ UNCHANGED <<table, past, author, deleted>>

(* PutItem without a condition. *)
PutItem(c) ==
    /\ Store(c.id, [owner |-> c.user, text |-> c.text])
    /\ author' = [author EXCEPT ![c.id] = c.user]
    /\ UNCHANGED <<counter, deleted>>

(* Mutant: the update puts an item that has only title and content. *)
UpdateReplacesRow(c) ==
    /\ Store(c.id, [owner |-> NoUser, text |-> c.text])
    /\ UNCHANGED <<counter, author, deleted>>

(* UpdateItem without a condition: it creates the row when there is none. *)
UpdateItem(c) ==
    /\ Store(c.id, [table[c.id] EXCEPT !.text = c.text])
    /\ UNCHANGED <<counter, author, deleted>>

DeleteItem(c) ==
    /\ Store(c.id, Absent)
    /\ deleted' = IF There(c.id) THEN deleted \cup {c.id} ELSE deleted
    /\ UNCHANGED <<counter, author>>

TakesEffect(c) ==
    \/ c.kind = "nextId" /\ CountUp
    \/ c.kind = "put" /\ PutItem(c)
    \/ c.kind = "update" /\ UpdateItem(c)
    \/ c.kind = "delete" /\ DeleteItem(c)

--------------------------------------------------------------------------------
(* The continuations of the handlers after each await. *)

(* getNextId returns: createPost builds the item and puts it. *)
GotNextId(r) ==
    LET c == awaiting[r] IN
    /\ c.kind = "nextId"
    /\ CountUp
    /\ Await(r, "put", counter', c.user, c.text)
    /\ UNCHANGED stray

Created(r) ==
    LET c == awaiting[r] IN
    /\ c.kind = "put"
    /\ PutItem(c)
    /\ Answer(r, 201, table'[c.id])
    /\ UNCHANGED stray

(* Mutant: the owner is not compared with the caller. *)
CheckedWithoutOwner(r, from, to) ==
    LET c == awaiting[r] IN
    /\ c.kind = from
    /\ \E row \in Versions(c.id) :
        \/ row.text = NoText /\ Answer(r, 404, Absent)
        \/ row.text # NoText /\ Await(r, to, c.id, c.user, c.text)
    /\ UNCHANGED <<store, stray>>

(* The GetItem of updatePost and deletePost and the two checks after it. *)
Checked(r, from, to) ==
    LET c == awaiting[r] IN
    /\ c.kind = from
    /\ \E row \in Versions(c.id) :
        \/ row.text = NoText /\ Answer(r, 404, Absent)
        \/ row.text # NoText /\ row.owner # c.user /\ Answer(r, 403, Absent)
        \/ /\ row.text # NoText /\ row.owner = c.user
           /\ Await(r, to, c.id, c.user, c.text)
    /\ UNCHANGED <<store, stray>>

Updated(r) ==
    LET c == awaiting[r] IN
    /\ c.kind = "update"
    /\ UpdateItem(c)
    /\ Answer(r, 200, table'[c.id])
    /\ UNCHANGED stray

Deleted(r) ==
    LET c == awaiting[r] IN
    /\ c.kind = "delete"
    /\ DeleteItem(c)
    /\ Answer(r, 200, Absent)
    /\ UNCHANGED stray

Got(r) ==
    LET c == awaiting[r] IN
    /\ c.kind = "get"
    /\ \E row \in Versions(c.id) :
         IF row.text # NoText THEN Answer(r, 200, row) ELSE Answer(r, 404, Absent)
    /\ UNCHANGED <<store, stray>>

--------------------------------------------------------------------------------
(* Failures. *)

(* Mutant: one attempt too many. *)
SendAgainOnceMore(r) ==
    /\ awaiting[r].kind # "idle"
    /\ resent[r] <= MaxSend
    /\ Cardinality(stray \cup Copies(awaiting[r])) <= MaxStray
    /\ resent' = [resent EXCEPT ![r] = @ + 1]
    /\ stray' = stray \cup Copies(awaiting[r])
    /\ answer' = Silence
    /\ UNCHANGED <<store, awaiting>>

(* No reply came: the SDK sends the command again, the first copy may *)
(* still be on its way.                                                *)
SendAgain(r) ==
    /\ awaiting[r].kind # "idle"
    /\ resent[r] < MaxSend
    /\ Cardinality(stray \cup Copies(awaiting[r])) <= MaxStray
    /\ resent' = [resent EXCEPT ![r] = @ + 1]
    /\ stray' = stray \cup Copies(awaiting[r])
    /\ answer' = Silence
    /\ UNCHANGED <<store, awaiting>>

StrayTakesEffect(c) ==
    /\ c \in stray
    /\ TakesEffect(c)
    /\ stray' = stray \ {c}
    /\ answer' = Silence
    /\ UNCHANGED <<awaiting, resent>>

StrayIsLost(c) ==
    /\ c \in stray
    /\ stray' = stray \ {c}
    /\ answer' = Silence
    /\ UNCHANGED <<store, awaiting, resent>>

(* send rejects, the handler's catch answers 500. *)
SendFails(r) ==
    /\ awaiting[r].kind # "idle"
    /\ Answer(r, 500, Absent)
    /\ UNCHANGED <<store, stray>>

(* The platform ends an invocation after 10 seconds; its command may *)
(* still be on its way.                                              *)
TimesOut(r) ==
    /\ awaiting[r].kind # "idle"
    /\ Answer(r, 503, Absent)
    /\ \/ UNCHANGED stray
       \/ /\ Cardinality(stray \cup Copies(awaiting[r])) <= MaxStray
          /\ stray' = stray \cup Copies(awaiting[r])
    /\ UNCHANGED store

--------------------------------------------------------------------------------
Receive(r) ==
    \/ \E user \in User, body \in Text \cup {NoText, Malformed} :
        \/ \E named \in BOOLEAN : CreatePost(r, user, named, body)
        \/ \E id \in Id : UpdatePost(r, user, id, body)
    \/ \E user \in User, id \in Id, named \in BOOLEAN : DeletePost(r, user, id, named)
    \/ \E id \in Id : GetPost(r, id)

Continue(r) ==
    \/ GotNextId(r)
    \/ Created(r)
    \/ Checked(r, "getToUpdate", "update")
    \/ Checked(r, "getToDelete", "delete")
    \/ Updated(r)
    \/ Deleted(r)
    \/ Got(r)

Next ==
    \/ \E r \in Request :
        Receive(r) \/ Continue(r) \/ SendAgain(r) \/ SendFails(r) \/ TimesOut(r)
    \/ \E c \in stray : StrayTakesEffect(c) \/ StrayIsLost(c)
    \/ \E i \in Id : CatchUp(i)

Spec == Init /\ [][Next]_vars

--------------------------------------------------------------------------------
TypeOK ==
    /\ table \in [Id -> Row]
    /\ past \in [Id -> SUBSET Row]
    /\ counter \in 0 .. MaxId
    /\ awaiting \in [Request -> Command]
    /\ resent \in [Request -> 0 .. MaxSend]
    /\ stray \subseteq Command
    /\ answer \in Response
    /\ author \in [Id -> User \cup {NoUser}]
    /\ deleted \subseteq Id

(* A write that passed the owner check is rightful whenever it lands:      *)
(* between the GetItem and the write of updatePost and deletePost, and     *)
(* while a copy is on its way, nobody else can become the owner of the id, *)
(* and a PutItem never lands on another user's post.                       *)
WritersAreAuthors ==
    \A c \in Writes :
        \/ author[c.id] = c.user
        \/ c.kind = "put" /\ author[c.id] = NoUser

(* No id ever passes from one user to another, whatever creates, updates,  *)
(* deletes, retries and timeouts overlap: ids come from one atomic counter *)
(* and are never used twice.                                               *)
NoTakeover ==
    [][\A i \in Id : author[i] # NoUser => author'[i] = author[i]]_vars

(* As long as no DeleteItem removed it, a post whose PutItem took effect is *)
(* there and carries its author, and an id whose PutItem never took effect  *)
(* has no row: only an update that lands after a delete of the post, which  *)
(* its GetItem did not see, leaves a row without an owner.                  *)
UndeletedPostsIntact ==
    \A i \in Id \ deleted :
        /\ There(i) <=> author[i] # NoUser
        /\ table[i].owner = author[i]

(* Nothing that is under way or lags behind can pass for the owner of i: no *)
(* write to it is on its way, and no replica still has a version of its     *)
(* former owner.                                                            *)
Settled(i) ==
    /\ \A c \in Writes : c.id # i
    /\ \A row \in past[i] : row.owner = NoUser

(* A row without an owner stays for good once it is settled: nobody passes  *)
(* the owner check on it any more, so neither PUT nor DELETE can repair or  *)
(* remove it, and no createPost gets its id again.  Before, a late write or *)
(* a check against a lagging replica may still change it.                   *)
GhostIsForever ==
    [][\A i \in Id : Ghost(i) /\ Settled(i) => Ghost(i)' /\ Settled(i)']_vars

(* README.md:187-188 promises that a successful PUT answers with the post  *)
(* in the format of GET, which has userId, and :196 a 404 when there is no *)
(* post: a PUT that answers 200 answers with a post that has an owner.     *)
UpdateAnswersWithAPost ==
    [][\A r \in Request :
         awaiting[r].kind = "update" /\ awaiting'[r] = Idle /\ answer'.status = 200
            => answer'.row.owner \in User]_vars
================================================================================
