----------------------------- MODULE AppSyncBoard ------------------------------
(***************************************************************************)
(* The AppSync resolvers of aws-appsync-example/functions.  A resolver has *)
(* a request function, which turns the context into one DynamoDB operation *)
(* or an error, and a response function, which turns the result into the   *)
(* answer.  The operations of different requests interleave on the table;  *)
(* each is atomic and carries its own condition.  The GetItem of getPost   *)
(* does not ask for a consistent read: until all replicas have caught up   *)
(* it may miss that an item appeared or was removed.                       *)
(***************************************************************************)
EXTENDS Integers, FiniteSets

CONSTANTS
    Request,  \* resolver invocations that can be under way at the same time
    User,     \* user names of the identity
    NoUser,   \* ctx.identity without a username; an item without an author
    Id,       \* the ids util.autoId can return
    NoId,     \* the id of no invocation
    Field,    \* title and content
    Value,    \* the values of an argument
    NoValue   \* an argument that is undefined

ASSUME AppSyncAssumption ==
    NoUser \notin User /\ NoValue \notin Value /\ NoId \notin Id /\ Field # {}

VARIABLES
    table,      \* the posts table: author, text of every id
    lagging,    \* the ids a replica has not seen appear or disappear yet
    ctx,        \* the context of every invocation
    operation,  \* the DynamoDB operation it waits for
    outcome,    \* how the last invocation ended
    minted,     \* the ids util.autoId has returned
    owner       \* history: the user whose PutItem wrote an id

vars == <<table, lagging, ctx, operation, outcome, minted, owner>>
store == <<table, lagging, owner>>

Blank == [f \in Field |-> NoValue]
Text == [Field -> Value \cup {NoValue}]
Absent == [author |-> NoUser, text |-> Blank]
Exists(i) == table[i] # Absent

NoContext == [op |-> "none", user |-> NoUser, id |-> NoId, changes |-> Blank]
Context == [op : {"create", "update", "delete", "read"}, user : User \cup {NoUser},
            id : Id, changes : Text]

NoOperation == [kind |-> "none", key |-> NoId]
Operation == [kind : {"PutItem", "UpdateItem", "DeleteItem", "GetItem"}, key : Id]

Init ==
    /\ table = [i \in Id |-> Absent]
    /\ lagging = {}
    /\ ctx = [r \in Request |-> NoContext]
    /\ operation = [r \in Request |-> NoOperation]
    /\ outcome = [r \in Request |-> "none"]
    /\ minted = {}
    /\ owner = [i \in Id |-> NoUser]

(* Bound: no more createPost calls than there are ids. *)
IdsLeft ==
    Cardinality(minted)
        + Cardinality({r \in Request : ctx[r].op = "create" /\ operation[r] = NoOperation})
      < Cardinality(Id)

(* A call of the API.  createPost has both arguments. *)
Invoke(r) ==
    /\ ctx[r] = NoContext
    /\ \E c \in Context :
        /\ c.op = "create" => c.changes \in [Field -> Value] /\ IdsLeft
        /\ c.op \in {"delete", "read"} => c.changes = Blank
        /\ ctx' = [ctx EXCEPT ![r] = c]
    /\ outcome' = [outcome EXCEPT ![r] = "none"]
    /\ UNCHANGED <<store, operation, minted>>

Return(r, how) ==
    /\ ctx' = [ctx EXCEPT ![r] = NoContext]
    /\ operation' = [operation EXCEPT ![r] = NoOperation]
    /\ outcome' = [outcome EXCEPT ![r] = how]

--------------------------------------------------------------------------------
(* The request functions. *)

(* util.error('Unauthorized') and util.error('Nothing to update'). *)
RequestRefused(r) ==
    LET c == ctx[r] IN
    /\ operation[r] = NoOperation
    /\ \/ c.op \in {"create", "update", "delete"} /\ c.user = NoUser
       \/ c.op = "update" /\ c.changes = Blank
    /\ Return(r, "refused")
    /\ UNCHANGED <<store, minted>>

Send(r, kind, key) ==
    /\ operation' = [operation EXCEPT ![r] = [kind |-> kind, key |-> key]]
    /\ UNCHANGED <<store, ctx, outcome>>

(* util.autoId() returns an id it never returned before. *)
CreateRequest(r) ==
    /\ ctx[r].op = "create" /\ operation[r] = NoOperation
    /\ ctx[r].user # NoUser
    /\ \E id \in Id :
        /\ id \notin minted
        /\ minted' = minted \cup {id}
        /\ Send(r, "PutItem", id)

UpdateRequest(r) ==
    /\ ctx[r].op = "update" /\ operation[r] = NoOperation
    /\ ctx[r].user # NoUser
    /\ ctx[r].changes # Blank
    /\ Send(r, "UpdateItem", ctx[r].id)
    /\ UNCHANGED minted

DeleteRequest(r) ==
    /\ ctx[r].op = "delete" /\ operation[r] = NoOperation
    /\ ctx[r].user # NoUser
    /\ Send(r, "DeleteItem", ctx[r].id)
    /\ UNCHANGED minted

GetRequest(r) ==
    /\ ctx[r].op = "read" /\ operation[r] = NoOperation
    /\ Send(r, "GetItem", ctx[r].id)
    /\ UNCHANGED minted

--------------------------------------------------------------------------------
(* The operations with their conditions. *)

(* Mutant: the update does not ask for the author. *)
AnyoneMayUpdate(r, o) == o.kind = "PutItem" => ~Exists(o.key)

(* attribute_not_exists(id) of the put, #author = :u of update and delete. *)
ConditionHolds(r, o) ==
    /\ o.kind = "PutItem" => ~Exists(o.key)
    /\ o.kind \in {"UpdateItem", "DeleteItem"} => table[o.key].author = ctx[r].user

(* Mutant: one of the attributes is forgotten. *)
PutPartly(r, o) ==
    LET forgotten == CHOOSE f \in Field : TRUE IN
    /\ o.kind = "PutItem"
    /\ table' = [table EXCEPT ![o.key] = [author |-> ctx[r].user,
                   text |-> [f \in Field \ {forgotten} |-> ctx[r].changes[f]]]]
    /\ lagging' = lagging \cup {o.key}
    /\ owner' = [owner EXCEPT ![o.key] = ctx[r].user]

Put(r, o) ==
    /\ o.kind = "PutItem"
    /\ table' = [table EXCEPT ![o.key] =
                   [author |-> ctx[r].user, text |-> ctx[r].changes]]
    /\ lagging' = lagging \cup {o.key}
    /\ owner' = [owner EXCEPT ![o.key] = ctx[r].user]

(* SET of the fields whose argument is defined. *)
Update(r, o) ==
    /\ o.kind = "UpdateItem"
    /\ table' = [table EXCEPT ![o.key].text =
         [f \in Field |-> IF ctx[r].changes[f] = NoValue THEN @[f]
                          ELSE ctx[r].changes[f]]]
    /\ UNCHANGED <<lagging, owner>>

Delete(r, o) ==
    /\ o.kind = "DeleteItem"
    /\ table' = [table EXCEPT ![o.key] = Absent]
    /\ lagging' = lagging \cup {o.key}
    /\ UNCHANGED owner

Effect(r) ==
    LET o == operation[r] IN
    /\ ConditionHolds(r, o)
    /\ Put(r, o) \/ Update(r, o) \/ Delete(r, o)

(* The response functions: the result, ... *)
Respond(r) ==
    /\ Effect(r)
    /\ Return(r, "ok")
    /\ UNCHANGED minted

(* ... the item of a GetItem or null, of any replica, ... *)
RespondGet(r) ==
    LET o == operation[r] IN
    /\ o.kind = "GetItem"
    /\ \/ (Exists(o.key) \/ o.key \in lagging) /\ Return(r, "ok")
       \/ (~Exists(o.key) \/ o.key \in lagging) /\ Return(r, "refused")
    /\ UNCHANGED <<store, minted>>

(* ... ConditionalCheckFailedException as Forbidden (createPost has no such *)
(* case: it answers null) ...                                               *)
RespondConditionFailed(r) ==
    LET o == operation[r] IN
    /\ o # NoOperation
    /\ ~ConditionHolds(r, o)
    /\ Return(r, IF o.kind = "PutItem" THEN "failed" ELSE "refused")
    /\ UNCHANGED <<store, minted>>

(* ... and any other error as itself; the operation may have taken effect. *)
RespondError(r) ==
    /\ operation[r] # NoOperation
    /\ Effect(r) \/ UNCHANGED store
    /\ Return(r, "failed")
    /\ UNCHANGED minted

(* All replicas of an item catch up. *)
CatchUp(i) ==
    /\ i \in lagging
    /\ lagging' = lagging \ {i}
    /\ UNCHANGED <<table, ctx, operation, outcome, minted, owner>>

Next ==
    \/ \E r \in Request :
        \/ Invoke(r)
        \/ RequestRefused(r)
        \/ CreateRequest(r)
        \/ UpdateRequest(r)
        \/ DeleteRequest(r)
        \/ GetRequest(r)
        \/ Respond(r)
        \/ RespondGet(r)
        \/ RespondConditionFailed(r)
        \/ RespondError(r)
    \/ \E i \in Id : CatchUp(i)

Spec == Init /\ [][Next]_vars

--------------------------------------------------------------------------------
TypeOK ==
    /\ table \in [Id -> [author : User \cup {NoUser}, text : Text]]
    /\ lagging \subseteq Id
    /\ ctx \in [Request -> Context \cup {NoContext}]
    /\ operation \in [Request -> Operation \cup {NoOperation}]
    /\ outcome \in [Request -> {"none", "ok", "refused", "failed"}]
    /\ minted \subseteq Id
    /\ owner \in [Id -> User \cup {NoUser}]

(* The resolvers keep the promises of PostBoard: a post is its item, with   *)
(* the user who put it as the owner even after the item is gone, and only   *)
(* what some replica still has to learn is news.                            *)
Board == INSTANCE PostBoard WITH
    post <- [i \in Id |-> [owner |-> owner[i], text |-> table[i].text]],
    news <- lagging,
    job <- ctx

BoardSpec == Board!Spec
================================================================================
