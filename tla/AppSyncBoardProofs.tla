-------------------------- MODULE AppSyncBoardProofs ---------------------------
(***************************************************************************)
(* The AppSync resolvers implement PostBoard, for any users, ids, fields   *)
(* and values and any number of overlapping requests.                      *)
(***************************************************************************)
EXTENDS AppSyncBoard, TLAPS

(* An item belongs to the user who put it and has a text; an id that was    *)
(* put was generated.                                                       *)
ItemsAreOwned ==
    \A i \in Id :
        /\ table[i] = Absent \/ /\ table[i].author = owner[i]
                                /\ owner[i] # NoUser
                                /\ table[i].text # Blank
        /\ owner[i] # NoUser => i \in minted

(* An operation was built by the request function of its resolver. *)
OperationsAreRequested ==
    \A r \in Request :
        /\ ctx[r].op = "create" => ctx[r].changes \in [Field -> Value]
        /\ operation[r] # NoOperation =>
            /\ ctx[r] # NoContext
            /\ operation[r].kind = "PutItem" => ctx[r].op = "create"
            /\ operation[r].kind = "UpdateItem" => ctx[r].op = "update"
            /\ operation[r].kind = "DeleteItem" => ctx[r].op = "delete"
            /\ operation[r].kind = "GetItem" => ctx[r].op = "read"
            /\ operation[r].kind # "GetItem" => ctx[r].user # NoUser
            /\ operation[r].kind # "PutItem" => operation[r].key = ctx[r].id

(* The id of a put is nobody else's. *)
PutsAreFresh ==
    \A r \in Request : operation[r].kind = "PutItem" =>
        /\ operation[r].key \in minted
        /\ owner[operation[r].key] = NoUser
        /\ \A q \in Request \ {r} : operation[q].kind = "PutItem"
                                      => operation[q].key # operation[r].key

IInv == TypeOK /\ ItemsAreOwned /\ OperationsAreRequested /\ PutsAreFresh

LEMMA NoContextIsNone ==
    /\ NoContext \notin Context
    /\ NoContext.op = "none" /\ NoOperation.kind = "none"
    /\ NoOperation \notin Operation
BY DEF NoContext, Context, NoOperation, Operation

(* What an operation does to the table, with the invariant kept. *)
LEMMA EffectKeeps ==
    ASSUME IInv, NEW r \in Request, Effect(r), NEW how \in {"ok", "failed"},
           Return(r, how), UNCHANGED minted
    PROVE  IInv'
<1> USE AppSyncAssumption, NoContextIsNone DEF IInv
<1> DEFINE o == operation[r]
<1>1. /\ operation' = [operation EXCEPT ![r] = NoOperation]
      /\ ctx' = [ctx EXCEPT ![r] = NoContext]
      /\ outcome' = [outcome EXCEPT ![r] = how]
      /\ ConditionHolds(r, o)
  BY DEF Return, Effect
<1>2. o # NoOperation /\ o \in Operation /\ o.key \in Id /\ ctx[r] \in Context
  BY DEF Effect, Put, Update, Delete, TypeOK, OperationsAreRequested, Operation
<1>3. OperationsAreRequested'
  BY <1>1 DEF OperationsAreRequested, TypeOK
<1>4. CASE Put(r, o)
  <2>0. /\ ctx[r].user \in User /\ ctx[r].changes \in [Field -> Value]
        /\ o.key \in minted
    BY <1>2, <1>4 DEF Put, OperationsAreRequested, PutsAreFresh, Context
  <2>1. ctx[r].changes # Blank /\ ctx[r].changes \in Text
    BY <2>0 DEF Blank, Text
  <2>2. TypeOK'
    BY <1>1, <1>2, <1>4, <2>0, <2>1 DEF TypeOK, Put
  <2>3. ItemsAreOwned'
    BY <1>2, <1>4, <2>0, <2>1 DEF ItemsAreOwned, Put, TypeOK
  <2>4. PutsAreFresh'
    BY <1>1, <1>2, <1>4 DEF PutsAreFresh, Put, TypeOK
  <2> QED BY <1>3, <2>2, <2>3, <2>4
<1>5. CASE Update(r, o)
  <2> DEFINE new == [f \in Field |-> IF ctx[r].changes[f] = NoValue
                        THEN table[o.key].text[f] ELSE ctx[r].changes[f]]
  <2>0. /\ table[o.key].author = ctx[r].user /\ ctx[r].user # NoUser
        /\ table[o.key] # Absent
    BY <1>1, <1>2, <1>5 DEF ConditionHolds, Update, OperationsAreRequested, Absent
  <2>1. /\ table' = [table EXCEPT ![o.key].text = new]
        /\ UNCHANGED <<lagging, owner>> /\ new \in Text
    BY <1>2, <1>5 DEF Update, Context, Text, TypeOK
  <2>2. new # Blank
    <3>1. PICK f \in Field : table[o.key].text[f] # NoValue
      BY <1>2, <2>0 DEF ItemsAreOwned, TypeOK, Text, Blank
    <3>2. new[f] # NoValue
      BY <3>1
    <3> QED BY <3>2 DEF Blank
  <2>3. TypeOK'
    BY <1>1, <1>2, <2>1 DEF TypeOK
  <2>4. ItemsAreOwned'
    <3>1. /\ table'[o.key].author = table[o.key].author
          /\ table'[o.key].text = new
          /\ \A i \in Id : i # o.key => table'[i] = table[i]
      BY <1>2, <2>1 DEF TypeOK
    <3> HIDE DEF new
    <3>2. table[o.key].author = owner[o.key] /\ owner[o.key] # NoUser
      BY <1>2, <2>0 DEF ItemsAreOwned
    <3> QED BY <1>2, <2>1, <2>2, <3>1, <3>2 DEF ItemsAreOwned
  <2>5. PutsAreFresh'
    BY <1>1, <2>1 DEF PutsAreFresh, TypeOK
  <2> QED BY <1>3, <2>3, <2>4, <2>5
<1>6. CASE Delete(r, o)
  <2>1. TypeOK'
    BY <1>1, <1>2, <1>6 DEF TypeOK, Delete, Absent, Blank, Text
  <2>2. ItemsAreOwned'
    BY <1>2, <1>6 DEF ItemsAreOwned, Delete, TypeOK
  <2>3. PutsAreFresh'
    BY <1>1, <1>6 DEF PutsAreFresh, Delete, TypeOK
  <2> QED BY <1>3, <2>1, <2>2, <2>3
<1> QED BY <1>4, <1>5, <1>6 DEF Effect

(* A resolver that returns and leaves the table alone. *)
LEMMA ReturnKeeps ==
    ASSUME IInv, NEW r \in Request, NEW how \in {"ok", "refused", "failed"},
           Return(r, how), UNCHANGED <<store, minted>>
    PROVE  IInv'
<1> USE NoContextIsNone DEF IInv, store
<1>1. TypeOK'
  BY DEF Return, TypeOK
<1>2. ItemsAreOwned'
  BY DEF ItemsAreOwned
<1>3. OperationsAreRequested'
  BY DEF Return, OperationsAreRequested, TypeOK
<1>4. PutsAreFresh'
  BY DEF Return, PutsAreFresh, TypeOK
<1> QED BY <1>1, <1>2, <1>3, <1>4

(* The request functions and the calls. *)
LEMMA RequestKeeps ==
    ASSUME IInv, NEW r \in Request,
           \/ Invoke(r) \/ CreateRequest(r) \/ UpdateRequest(r)
           \/ DeleteRequest(r) \/ GetRequest(r)
    PROVE  IInv'
<1> USE AppSyncAssumption, NoContextIsNone DEF IInv, store
<1>1. CASE Invoke(r)
  <2>1. TypeOK' /\ ItemsAreOwned' /\ PutsAreFresh'
    BY <1>1 DEF Invoke, TypeOK, ItemsAreOwned, PutsAreFresh
  <2>2. operation[r] = NoOperation
    BY <1>1 DEF Invoke, OperationsAreRequested
  <2>3. OperationsAreRequested'
    BY <1>1, <2>2 DEF Invoke, OperationsAreRequested, TypeOK
  <2> QED BY <2>1, <2>3
<1>2. CASE CreateRequest(r)
  <2>1. PICK id \in Id : /\ id \notin minted /\ minted' = minted \cup {id}
                         /\ Send(r, "PutItem", id)
    BY <1>2 DEF CreateRequest
  <2>2. TypeOK'
    BY <2>1 DEF Send, TypeOK, Operation
  <2>3. ItemsAreOwned'
    BY <2>1 DEF Send, ItemsAreOwned
  <2>4. OperationsAreRequested'
    BY <1>2, <2>1 DEF CreateRequest, Send, OperationsAreRequested, TypeOK
  <2>5. PutsAreFresh'
    BY <2>1 DEF Send, PutsAreFresh, ItemsAreOwned, TypeOK
  <2> QED BY <2>2, <2>3, <2>4, <2>5
<1>3. CASE UpdateRequest(r) \/ DeleteRequest(r) \/ GetRequest(r)
  <2>1. PICK kind \in {"UpdateItem", "DeleteItem", "GetItem"} :
           /\ Send(r, kind, ctx[r].id) /\ UNCHANGED minted
           /\ kind = "UpdateItem" => ctx[r].op = "update"
           /\ kind = "DeleteItem" => ctx[r].op = "delete"
           /\ kind = "GetItem" => ctx[r].op = "read"
           /\ kind # "GetItem" => ctx[r].user # NoUser
           /\ ctx[r].op # "none"
    BY <1>3 DEF UpdateRequest, DeleteRequest, GetRequest
  <2>2. ctx[r] \in Context /\ ctx[r].id \in Id
    BY <2>1 DEF TypeOK, Context
  <2>3. TypeOK'
    BY <2>1, <2>2 DEF Send, TypeOK, Operation
  <2>4. ItemsAreOwned'
    BY <2>1 DEF Send, ItemsAreOwned
  <2>5. OperationsAreRequested'
    BY <2>1 DEF Send, OperationsAreRequested, TypeOK
  <2>6. PutsAreFresh'
    BY <2>1 DEF Send, PutsAreFresh, TypeOK
  <2> QED BY <2>3, <2>4, <2>5, <2>6
<1> QED BY <1>1, <1>2, <1>3

LEMMA NextKeeps == IInv /\ [Next]_vars => IInv'
<1> SUFFICES ASSUME IInv, [Next]_vars PROVE IInv'
  OBVIOUS
<1>1. CASE UNCHANGED vars
  BY <1>1 DEF vars, IInv, TypeOK, ItemsAreOwned, OperationsAreRequested, PutsAreFresh
<1>2. ASSUME NEW r \in Request,
             RequestRefused(r) \/ RespondGet(r) \/ RespondConditionFailed(r)
      PROVE  IInv'
  BY <1>2, ReturnKeeps DEF RequestRefused, RespondGet, RespondConditionFailed
<1>3. ASSUME NEW r \in Request, Respond(r) \/ RespondError(r)
      PROVE  IInv'
  BY <1>3, EffectKeeps, ReturnKeeps DEF Respond, RespondError
<1>4. ASSUME NEW i \in Id, CatchUp(i) PROVE IInv'
  BY <1>4 DEF CatchUp, IInv, TypeOK, ItemsAreOwned, OperationsAreRequested, PutsAreFresh
<1> QED BY <1>1, <1>2, <1>3, <1>4, RequestKeeps DEF Next

LEMMA InitKeeps == Init => IInv
BY AppSyncAssumption, NoContextIsNone
   DEF Init, IInv, TypeOK, ItemsAreOwned, OperationsAreRequested, PutsAreFresh,
       Absent, Blank, Text

--------------------------------------------------------------------------------
(* The table, the contexts and the operations keep their types. *)
THEOREM TypeCorrect == Spec => []TypeOK
BY InitKeeps, NextKeeps, PTL DEF Spec, IInv

LEMMA SameNames ==
    /\ Board!Idle = NoContext
    /\ Board!Blank = Blank
    /\ Board!Job = Context
BY DEF Board!Idle, Board!Blank, Board!Job, NoContext, Blank, Context, Board!Text, Text

Posts == [i \in Id |-> [owner |-> owner[i], text |-> table[i].text]]

LEMMA ReturnFinishes ==
    ASSUME NEW r \in Request, NEW how, Return(r, how), ctx[r] # NoContext
    PROVE  Board!Finish(r, how)
BY SameNames DEF Return, Board!Finish

(* An operation whose condition holds performs the request. *)
LEMMA EffectPerforms ==
    ASSUME IInv, NEW r \in Request, Effect(r)
    PROVE  ctx[r] # NoContext /\ Board!Perform(ctx[r])
<1> USE AppSyncAssumption, NoContextIsNone DEF IInv
<1> DEFINE o == operation[r]
           c == ctx[r]
<1>1. /\ o # NoOperation /\ o.key \in Id /\ c # NoContext /\ c \in Context
      /\ ConditionHolds(r, o)
  BY DEF Effect, Put, Update, Delete, TypeOK, OperationsAreRequested, Operation
<1>2. CASE Put(r, o)
  <2>1. /\ c.op = "create" /\ c.user # NoUser
        /\ owner[o.key] = NoUser
    BY <1>1, <1>2 DEF Put, OperationsAreRequested, PutsAreFresh
  <2>2. Posts' = [Posts EXCEPT ![o.key] = [owner |-> c.user, text |-> c.changes]]
    <3>1. /\ table' = [table EXCEPT ![o.key] = [author |-> c.user, text |-> c.changes]]
          /\ owner' = [owner EXCEPT ![o.key] = c.user]
          /\ DOMAIN table = Id /\ DOMAIN owner = Id
      BY <1>2 DEF Put, TypeOK
    <3>2. \A i \in Id : [owner |-> owner'[i], text |-> table'[i].text] =
                          IF i = o.key THEN [owner |-> c.user, text |-> c.changes]
                          ELSE Posts[i]
      BY <1>1, <3>1 DEF Posts
    <3> QED BY <1>1, <3>2 DEF Posts
  <2>3. Posts[o.key].owner = NoUser
    BY <1>1, <2>1 DEF Posts
  <2>4. Board!Create(c)
    BY <1>1, <1>2, <2>2, <2>3 DEF Put, Board!Create, Board!Fresh, Posts
  <2> QED BY <1>1, <2>1, <2>4 DEF Board!Perform
<1>3. CASE Update(r, o)
  <2>1. /\ c.op = "update" /\ c.user # NoUser /\ o.key = c.id
        /\ table[c.id].author = c.user
    BY <1>1, <1>3 DEF Update, OperationsAreRequested, ConditionHolds
  <2>2. owner[c.id] = c.user /\ table[c.id].text # Blank
    BY <1>1, <2>1 DEF ItemsAreOwned, Absent
  <2>3. Posts' = [Posts EXCEPT ![c.id].text = Board!Override(@, c.changes)]
    <3> DEFINE new == Board!Override(table[c.id].text, c.changes)
    <3>1. /\ table' = [table EXCEPT ![c.id].text = new]
          /\ UNCHANGED owner /\ DOMAIN table = Id
      BY <1>3, <2>1 DEF Update, TypeOK, Board!Override
    <3>2. Posts[c.id].text = table[c.id].text
      BY <1>1, <2>1 DEF Posts
    <3> HIDE DEF new
    <3>3. \A i \in Id : [owner |-> owner'[i], text |-> table'[i].text] =
                          IF i = c.id THEN [Posts[i] EXCEPT !.text = new] ELSE Posts[i]
      BY <1>1, <3>1 DEF Posts, TypeOK
    <3>4. Posts' = [Posts EXCEPT ![c.id].text = new]
      BY <1>1, <2>1, <3>3 DEF Posts
    <3> QED BY <3>2, <3>4 DEF new
  <2>4. Posts[c.id].owner = c.user /\ Posts[c.id].text # Blank
    BY <1>1, <2>1, <2>2 DEF Posts
  <2>5. Board!Update(c)
    BY <1>3, <2>1, <2>3, <2>4, SameNames
       DEF Update, Board!Update, Board!Live, Board!Fresh, Posts
  <2> QED BY <1>1, <2>1, <2>5 DEF Board!Perform
<1>4. CASE Delete(r, o)
  <2>1. /\ c.op = "delete" /\ c.user # NoUser /\ o.key = c.id
        /\ table[c.id].author = c.user
    BY <1>1, <1>4 DEF Delete, OperationsAreRequested, ConditionHolds
  <2>2. owner[c.id] = c.user /\ table[c.id].text # Blank
    BY <1>1, <2>1 DEF ItemsAreOwned, Absent
  <2>3. Posts' = [Posts EXCEPT ![c.id].text = Blank]
    BY <1>1, <1>4, <2>1 DEF Delete, Posts, TypeOK, Absent
  <2>4. Posts[c.id].owner = c.user /\ Posts[c.id].text # Blank
    BY <1>1, <2>1, <2>2 DEF Posts
  <2>5. Board!Delete(c)
    BY <1>4, <2>1, <2>3, <2>4, SameNames
       DEF Delete, Board!Delete, Board!Live, Board!Fresh, Posts
  <2> QED BY <1>1, <2>1, <2>5 DEF Board!Perform
<1> QED BY <1>2, <1>3, <1>4 DEF Effect

(* A request is refused for a reason of the board. *)
LEMMA RefusalHasReason ==
    ASSUME IInv, NEW r \in Request, ctx[r] # NoContext,
           \/ RequestRefused(r)
           \/ /\ operation[r].kind = "GetItem"
              /\ ~Exists(operation[r].key) \/ operation[r].key \in lagging
           \/ RespondConditionFailed(r) /\ operation[r].kind # "PutItem"
    PROVE  Board!Refusable(ctx[r])
<1> USE AppSyncAssumption, NoContextIsNone DEF IInv
<1> DEFINE o == operation[r]
           c == ctx[r]
<1>0. c \in Context /\ c.id \in Id
  BY DEF TypeOK, Context
<1>1. CASE RequestRefused(r)
  BY <1>1, SameNames DEF RequestRefused, Board!Refusable
<1>2. CASE o.kind = "GetItem" /\ (~Exists(o.key) \/ o.key \in lagging)
  <2>1. c.op = "read" /\ o.key = c.id
    BY <1>2 DEF OperationsAreRequested
  <2>2. Exists(c.id) \/ Posts[c.id].text = Blank
    BY <1>0 DEF Posts, Exists, Absent
  <2>3. Exists(c.id) \/ ~Board!Live(c.id)
    BY <2>2, SameNames DEF Board!Live, Posts
  <2> QED BY <1>2, <2>1, <2>3 DEF Board!Refusable
<1>3. CASE RespondConditionFailed(r) /\ o.kind # "PutItem"
  <2>1. /\ c.op \in {"update", "delete"} /\ o.key = c.id
        /\ table[c.id].author # c.user
    BY <1>3 DEF RespondConditionFailed, ConditionHolds, OperationsAreRequested,
                TypeOK, Operation
  <2>2. owner[c.id] # c.user \/ table[c.id].text = Blank
    BY <1>0, <2>1 DEF ItemsAreOwned, Absent
  <2>3. Posts[c.id].owner # c.user \/ Posts[c.id].text = Blank
    BY <1>0, <2>2 DEF Posts
  <2>4. Posts[c.id].owner # c.user \/ ~Board!Live(c.id)
    BY <2>3, SameNames DEF Board!Live, Posts
  <2> QED BY <2>1, <2>4 DEF Board!Refusable, Posts
<1> QED BY <1>1, <1>2, <1>3

LEMMA StepImplements == IInv /\ [Next]_vars => [Board!Next]_(Board!vars)
<1> SUFFICES ASSUME IInv, [Next]_vars PROVE [Board!Next]_(Board!vars)
  OBVIOUS
<1> USE NoContextIsNone DEF IInv
<1> DEFINE Same == Posts' = Posts /\ UNCHANGED lagging
<1>0. UNCHANGED store => Same
  BY DEF store, Posts
<1>1. CASE UNCHANGED vars
  BY <1>1 DEF vars, Board!vars
<1>2. ASSUME NEW r \in Request, Invoke(r) PROVE Board!Ask(r)
  <2>1. Same
    BY <1>0, <1>2 DEF Invoke
  <2> QED BY <1>2, <2>1, SameNames DEF Invoke, Board!Ask, Posts
<1>3. ASSUME NEW r \in Request,
             CreateRequest(r) \/ UpdateRequest(r) \/ DeleteRequest(r) \/ GetRequest(r)
      PROVE  UNCHANGED Board!vars
  BY <1>0, <1>3 DEF CreateRequest, UpdateRequest, DeleteRequest, GetRequest, Send,
                    Board!vars, Posts
<1>4. ASSUME NEW r \in Request,
             RequestRefused(r) \/ RespondGet(r) \/ RespondConditionFailed(r)
      PROVE  Board!Succeed(r) \/ Board!Refuse(r) \/ Board!Fail(r)
  <2>1. ctx[r] # NoContext /\ Same
    <3>1. ctx[r] # NoContext
      BY <1>4 DEF RequestRefused, RespondGet, RespondConditionFailed,
                  OperationsAreRequested
    <3> QED BY <1>0, <1>4, <3>1 DEF RequestRefused, RespondGet, RespondConditionFailed
  <2>2. CASE RequestRefused(r)
    BY <2>1, <2>2, RefusalHasReason, ReturnFinishes
       DEF RequestRefused, Board!Refuse, Posts
  <2>3. CASE RespondGet(r)
    <3> DEFINE k == operation[r].key
    <3>1. ctx[r].op = "read" /\ k = ctx[r].id /\ ctx[r] \in Context /\ k \in Id
      BY <2>1, <2>3 DEF RespondGet, OperationsAreRequested, TypeOK, Context
    <3>2. CASE (Exists(k) \/ k \in lagging) /\ Return(r, "ok")
      <4>1. Exists(k) => Posts[k].owner # NoUser /\ Posts[k].text # Blank
        BY <3>1 DEF Posts, Exists, ItemsAreOwned
      <4>2. Exists(k) => Board!Live(k)
        BY <4>1, SameNames DEF Board!Live, Board!Fresh, Posts
      <4>3. Board!Perform(ctx[r])
        BY <2>1, <3>1, <3>2, <4>2 DEF Board!Perform, Board!Read, Posts
      <4> QED BY <2>1, <3>2, <4>3, ReturnFinishes DEF Board!Succeed
    <3>3. CASE (~Exists(k) \/ k \in lagging) /\ Return(r, "refused")
      BY <2>1, <2>3, <3>3, RefusalHasReason, ReturnFinishes
         DEF RespondGet, Board!Refuse, Posts
    <3> QED BY <2>3, <3>2, <3>3 DEF RespondGet
  <2>4. CASE RespondConditionFailed(r)
    <3>1. CASE operation[r].kind = "PutItem"
      BY <2>1, <2>4, <3>1, ReturnFinishes
         DEF RespondConditionFailed, Board!Fail, Posts
    <3>2. CASE operation[r].kind # "PutItem"
      BY <2>1, <2>4, <3>2, RefusalHasReason, ReturnFinishes
         DEF RespondConditionFailed, Board!Refuse, Posts
    <3> QED BY <3>1, <3>2
  <2> QED BY <1>4, <2>2, <2>3, <2>4
<1>5. ASSUME NEW r \in Request, Respond(r) PROVE Board!Succeed(r)
  BY <1>5, EffectPerforms, ReturnFinishes DEF Respond, Board!Succeed
<1>6. ASSUME NEW r \in Request, RespondError(r) PROVE Board!Fail(r)
  <2>1. ctx[r] # NoContext /\ (Board!Perform(ctx[r]) \/ Same)
    BY <1>0, <1>6, EffectPerforms DEF RespondError, OperationsAreRequested
  <2> QED BY <1>6, <2>1, ReturnFinishes DEF RespondError, Board!Fail, Posts
<1>7. ASSUME NEW i \in Id, CatchUp(i) PROVE Board!Settle(i)
  BY <1>7 DEF CatchUp, Board!Settle
<1> QED BY <1>1, <1>2, <1>3, <1>4, <1>5, <1>6, <1>7 DEF Next, Board!Next

(* The resolvers implement the board: each of their steps is a step of    *)
(* PostBoard or leaves the board as it is.                                *)
THEOREM Implements == Spec => BoardSpec
<1>1. Init => Board!Init
  BY SameNames DEF Init, Board!Init, Absent
<1> QED BY <1>1, InitKeeps, NextKeeps, StepImplements, PTL
        DEF Spec, BoardSpec, Board!Spec
================================================================================
