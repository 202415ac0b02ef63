--------------------------- MODULE LambdaBoardProofs ---------------------------
(***************************************************************************)
(* Proofs about LambdaBoard for every number of invocations, users, ids,   *)
(* attempts and stray copies.                                              *)
(***************************************************************************)
EXTENDS LambdaBoard, TLAPS

(* Every command that may still take effect. *)
Pending == stray \cup {awaiting[r] : r \in Request}

(* What the handlers put into a command. *)
CommandOK(c) ==
    /\ c \in Command
    /\ c.kind \in {"nextId", "put", "update", "getToUpdate"} => c.text \in Text
    /\ c.kind \notin {"idle", "get"} => c.user \in User
    /\ c.kind \in {"put", "update", "delete", "getToUpdate", "getToDelete", "get"}
          => c.id \in Id

(* The id of a PutItem was drawn from the counter, and by nobody else. *)
PutsAreMinted ==
    /\ \A c \in Pending : c.kind = "put" => c.id <= counter
    /\ \A c, d \in Pending :
         c.kind = "put" /\ d.kind = "put" /\ c.id = d.id => c.user = d.user

(* An id that has or had a row was drawn from the counter and has an author, *)
(* who is the only user that any version of the row can belong to.           *)
RowsAreAuthored ==
    \A i \in Id :
        /\ author[i] # NoUser => i <= counter
        /\ There(i) \/ i \in deleted => author[i] # NoUser
        /\ \A row \in Versions(i) : row.owner \in {NoUser, author[i]}

IInv ==
    /\ TypeOK
    /\ \A c \in Pending : CommandOK(c)
    /\ PutsAreMinted
    /\ RowsAreAuthored
    /\ WritersAreAuthors
    /\ UndeletedPostsIntact

--------------------------------------------------------------------------------
(* Steps that write nothing new: the tables stay and the commands that may *)
(* take effect are old ones, or one that IInv allows.                      *)
LEMMA KeepsInvariant ==
    ASSUME IInv, TypeOK', UNCHANGED store,
           \A c \in Pending' :
             \/ c \in Pending
             \/ /\ CommandOK(c)
                /\ c.kind # "put"
                /\ c.kind \in {"update", "delete"} => author[c.id] = c.user
    PROVE  IInv'
<1> USE BoardAssumption DEF IInv
<1>1. \A c : CommandOK(c)' <=> CommandOK(c)
  BY DEF CommandOK, Command, Id
<1>2. (\A c \in Pending : CommandOK(c))'
  BY <1>1
<1>3. PutsAreMinted'
  BY DEF PutsAreMinted, store
<1>4. RowsAreAuthored'
  BY DEF RowsAreAuthored, store, There, Versions
<1>5. WritersAreAuthors'
  BY DEF WritersAreAuthors, Writes, Pending, store
<1>6. UndeletedPostsIntact'
  BY DEF UndeletedPostsIntact, store, There
<1> QED BY <1>2, <1>3, <1>4, <1>5, <1>6

(* After a write the versions of a row are the new one and some of the old. *)
LEMMA StoredVersions ==
    ASSUME TypeOK, NEW i \in Id, NEW row, Store(i, row)
    PROVE  /\ Versions(i)' \subseteq Versions(i) \cup {row}
           /\ \A j \in Id : j # i => Versions(j)' = Versions(j)
BY DEF TypeOK, Store, Versions

(* A write keeps the rows authored when its own row is. *)
LEMMA StoredRowsAreAuthored ==
    ASSUME IInv, NEW i \in Id, NEW row, Store(i, row), counter' = counter,
           author[i] \in {NoUser, author'[i]}, author'[i] # NoUser => i <= counter,
           row.owner \in {NoUser, author'[i]},
           row.text # NoText \/ i \in deleted' => author'[i] # NoUser,
           \A j \in Id \ {i} : author'[j] = author[j] /\ (j \in deleted' => j \in deleted)
    PROVE  RowsAreAuthored'
<1> USE DEF IInv
<1> SUFFICES ASSUME NEW j \in Id
             PROVE  /\ author'[j] # NoUser => j <= counter'
                    /\ There(j)' \/ j \in deleted' => author'[j] # NoUser
                    /\ \A v \in Versions(j)' : v.owner \in {NoUser, author'[j]}
  BY DEF RowsAreAuthored, Id
<1>1. \A v \in Versions(j) : v.owner \in {NoUser, author[j]}
  BY DEF RowsAreAuthored
<1>2. CASE j = i
  <2>1. table'[i] = row
    BY DEF Store, TypeOK
  <2>2. \A v \in Versions(i)' : v \in Versions(i) \/ v = row
    BY StoredVersions
  <2>3. \A v \in Versions(i)' : v.owner \in {NoUser, author'[i]}
    BY <1>1, <1>2, <2>2
  <2> QED BY <1>2, <2>1, <2>3 DEF There
<1>3. CASE j # i
  <2>1. Versions(j)' = Versions(j) /\ table'[j] = table[j]
    BY <1>3, StoredVersions DEF Store, TypeOK
  <2> QED BY <1>1, <1>3, <2>1 DEF There, RowsAreAuthored
<1> QED BY <1>2, <1>3

(* A write of Pending that takes effect, when no new command appears. *)
LEMMA EffectKeepsInvariant ==
    ASSUME IInv, TypeOK', NEW c \in Pending, TakesEffect(c),
           Pending' \subseteq Pending \cup {Idle}
    PROVE  IInv'
<1> USE BoardAssumption DEF IInv
<1>1. (\A d \in Pending : CommandOK(d))'
  BY DEF CommandOK, Command, Id, Idle, Kind
<1>2. CASE c.kind = "nextId" /\ CountUp
  <2>1. PutsAreMinted'
    <3>1. counter \in Int /\ counter' = counter + 1
      BY <1>2 DEF CountUp, TypeOK
    <3>2. \A d \in Pending : d.id \in Int
      BY DEF CommandOK, Command
    <3>3. \A d \in Pending' : d.kind = "put" => d \in Pending
      BY DEF Idle
    <3>4. \A d \in Pending : d.kind = "put" => d.id <= counter + 1
      BY <3>1, <3>2 DEF PutsAreMinted
    <3> QED BY <3>1, <3>3, <3>4 DEF PutsAreMinted
  <2>2. RowsAreAuthored'
    BY <1>2 DEF RowsAreAuthored, CountUp, There, Versions, TypeOK, Id
  <2>3. WritersAreAuthors'
    BY <1>2 DEF WritersAreAuthors, Writes, Pending, CountUp, Idle
  <2>4. UndeletedPostsIntact'
    BY <1>2 DEF UndeletedPostsIntact, CountUp, There
  <2> QED BY <1>1, <2>1, <2>2, <2>3, <2>4
<1>3. CASE c.kind = "put" /\ PutItem(c)
  <2>0. /\ c.id \in Id /\ c.user \in User /\ c.text \in Text
        /\ author[c.id] \in {c.user, NoUser}
    BY <1>3 DEF CommandOK, WritersAreAuthors, Writes, Pending
  <2>1. PutsAreMinted'
    BY <1>3 DEF PutsAreMinted, PutItem, Idle
  <2>2. RowsAreAuthored'
    <3> DEFINE row == [owner |-> c.user, text |-> c.text]
    <3>1. Store(c.id, row) /\ counter' = counter /\ deleted' = deleted
      BY <1>3 DEF PutItem
    <3>2. author' = [author EXCEPT ![c.id] = c.user] /\ author'[c.id] = c.user
      BY <1>3, <2>0 DEF PutItem, TypeOK
    <3>3. \A j \in Id \ {c.id} : author'[j] = author[j]
      BY <3>2 DEF TypeOK
    <3>4. row.owner = c.user /\ c.user # NoUser /\ c.id <= counter
      BY <1>3, <2>0 DEF PutsAreMinted
    <3> HIDE DEF row
    <3> QED BY <2>0, <3>1, <3>2, <3>3, <3>4, StoredRowsAreAuthored
  <2>3. WritersAreAuthors'
    BY <1>3, <2>0 DEF WritersAreAuthors, Writes, Pending, PutItem, Idle, TypeOK,
                     PutsAreMinted, CommandOK
  <2>4. UndeletedPostsIntact'
    BY <1>3, <2>0 DEF UndeletedPostsIntact, PutItem, Store, There, TypeOK
  <2> QED BY <1>1, <2>1, <2>2, <2>3, <2>4
<1>4. CASE c.kind = "update" /\ UpdateItem(c)
  <2>0. /\ c.id \in Id /\ c.user \in User /\ c.text \in Text
        /\ author[c.id] = c.user
    BY <1>4 DEF CommandOK, WritersAreAuthors, Writes, Pending
  <2>1. PutsAreMinted'
    BY <1>4 DEF PutsAreMinted, UpdateItem, Idle
  <2>2. RowsAreAuthored'
    <3> DEFINE row == [table[c.id] EXCEPT !.text = c.text]
    <3>1. Store(c.id, row) /\ UNCHANGED <<counter, author, deleted>>
      BY <1>4 DEF UpdateItem
    <3>2. row.owner = table[c.id].owner /\ author[c.id] # NoUser
      BY <2>0 DEF TypeOK, Row
    <3>3. row.owner \in {NoUser, author[c.id]} /\ c.id <= counter
      BY <2>0, <3>2 DEF RowsAreAuthored, Versions
    <3> HIDE DEF row
    <3> QED BY <2>0, <3>1, <3>2, <3>3, StoredRowsAreAuthored
  <2>3. WritersAreAuthors'
    BY <1>4 DEF WritersAreAuthors, Writes, Pending, UpdateItem, Idle
  <2>4. UndeletedPostsIntact'
    BY <1>4, <2>0 DEF UndeletedPostsIntact, UpdateItem, Store, There, TypeOK, Row
  <2> QED BY <1>1, <2>1, <2>2, <2>3, <2>4
<1>5. CASE c.kind = "delete" /\ DeleteItem(c)
  <2>0. c.id \in Id
    BY <1>5 DEF CommandOK
  <2>1. PutsAreMinted'
    BY <1>5 DEF PutsAreMinted, DeleteItem, Idle
  <2>2. RowsAreAuthored'
    <3>1. Store(c.id, Absent) /\ UNCHANGED <<counter, author>>
      BY <1>5 DEF DeleteItem
    <3>2. Absent.owner = NoUser /\ Absent.text = NoText
      BY DEF Absent
    <3>3. /\ author[c.id] # NoUser => c.id <= counter
          /\ c.id \in deleted' => author[c.id] # NoUser
          /\ \A j \in Id \ {c.id} : j \in deleted' => j \in deleted
      BY <1>5, <2>0 DEF DeleteItem, RowsAreAuthored
    <3> QED BY <2>0, <3>1, <3>2, <3>3, StoredRowsAreAuthored
  <2>3. WritersAreAuthors'
    BY <1>5 DEF WritersAreAuthors, Writes, Pending, DeleteItem, Idle
  <2>4. UndeletedPostsIntact'
    BY <1>5, <2>0 DEF UndeletedPostsIntact, DeleteItem, Store, There, Absent, TypeOK
  <2> QED BY <1>1, <2>1, <2>2, <2>3, <2>4
<1> QED BY <1>2, <1>3, <1>4, <1>5 DEF TakesEffect

--------------------------------------------------------------------------------
(* Every step keeps the types; the proof of each action names only what it *)
(* changes.                                                                *)
LEMMA AnswerTyped ==
    ASSUME TypeOK, NEW r \in Request, NEW status \in Status, NEW row \in Row,
           Answer(r, status, row)
    PROVE  /\ awaiting' \in [Request -> Command]
           /\ resent' \in [Request -> 0 .. MaxSend]
           /\ answer' \in Response
BY BoardAssumption DEF TypeOK, Answer, Command, Idle, Kind, Response

LEMMA AwaitTyped ==
    ASSUME TypeOK, NEW r \in Request, NEW kind \in Kind, NEW id \in 0 .. MaxId,
           NEW user \in User \cup {NoUser}, NEW text \in Text \cup {NoText},
           Await(r, kind, id, user, text)
    PROVE  /\ awaiting' \in [Request -> Command]
           /\ resent' \in [Request -> 0 .. MaxSend]
           /\ answer' \in Response
BY BoardAssumption DEF TypeOK, Await, Command, Kind, Response, Silence, Row, Absent, Status

LEMMA AbsentIsRow == Absent \in Row
BY DEF Absent, Row

LEMMA SilenceIsResponse == Silence \in Response
BY AbsentIsRow DEF Silence, Response, Status

LEMMA EffectTyped ==
    ASSUME IInv, NEW c \in Pending, TakesEffect(c)
    PROVE  /\ table' \in [Id -> Row]
           /\ past' \in [Id -> SUBSET Row]
           /\ counter' \in 0 .. MaxId
           /\ author' \in [Id -> User \cup {NoUser}]
           /\ deleted' \subseteq Id
<1> USE BoardAssumption DEF IInv, TypeOK
<1>1. CASE c.kind = "nextId" /\ CountUp
  BY <1>1 DEF CountUp
<1>2. CASE c.kind = "put" /\ PutItem(c)
  BY <1>2 DEF PutItem, Store, CommandOK, Row
<1>3. CASE c.kind = "update" /\ UpdateItem(c)
  BY <1>3 DEF UpdateItem, Store, CommandOK, Row
<1>4. CASE c.kind = "delete" /\ DeleteItem(c)
  BY <1>4, AbsentIsRow DEF DeleteItem, Store, CommandOK
<1> QED BY <1>1, <1>2, <1>3, <1>4 DEF TakesEffect

LEMMA AnswerPending ==
    ASSUME TypeOK, NEW r \in Request, NEW status, NEW row,
           Answer(r, status, row)
    PROVE  Pending' \subseteq stray' \cup Pending \cup {Idle}
BY DEF TypeOK, Answer, Pending

LEMMA AwaitPending ==
    ASSUME TypeOK, NEW r \in Request, NEW kind, NEW id, NEW user, NEW text,
           Await(r, kind, id, user, text), UNCHANGED stray
    PROVE  Pending' \subseteq Pending \cup
             {[kind |-> kind, id |-> id, user |-> user, text |-> text]}
BY DEF TypeOK, Await, Pending

(* A handler that answers without touching the tables. *)
LEMMA AnswerKeepsInvariant ==
    ASSUME IInv, NEW r \in Request, NEW status \in Status, NEW row \in Row,
           Answer(r, status, row), UNCHANGED store, stray' \subseteq Pending
    PROVE  IInv'
<1> USE BoardAssumption
<1>1. TypeOK'
  <2>1. stray' \subseteq Command
    BY DEF IInv, CommandOK
  <2> QED BY <2>1, AnswerTyped DEF IInv, TypeOK, store
<1>2. \A c \in Pending' : c \in Pending \/ c = Idle
  BY AnswerPending DEF IInv, Pending
<1>3. CommandOK(Idle) /\ Idle.kind = "idle"
  BY DEF CommandOK, Command, Idle, Kind
<1> QED BY <1>1, <1>2, <1>3, KeepsInvariant

(* A handler that goes on to a command which is not a PutItem. *)
LEMMA AwaitKeepsInvariant ==
    ASSUME IInv, NEW r \in Request, NEW kind \in Kind, NEW id, NEW user, NEW text,
           Await(r, kind, id, user, text), UNCHANGED <<store, stray>>,
           CommandOK([kind |-> kind, id |-> id, user |-> user, text |-> text]),
           kind # "put",
           kind \in {"update", "delete"} => author[id] = user
    PROVE  IInv'
<1> DEFINE c == [kind |-> kind, id |-> id, user |-> user, text |-> text]
<1> USE BoardAssumption
<1>1. c \in Command
  BY DEF CommandOK
<1>2. id \in 0 .. MaxId /\ user \in User \cup {NoUser} /\ text \in Text \cup {NoText}
  BY <1>1 DEF Command
<1>3. TypeOK'
  BY <1>2, AwaitTyped DEF IInv, TypeOK, store
<1>4. \A d \in Pending' : d \in Pending \/ d = c
  BY AwaitPending DEF IInv
<1>5. c.kind = kind /\ c.id = id /\ c.user = user
  OBVIOUS
<1> QED BY <1>3, <1>4, <1>5, KeepsInvariant

--------------------------------------------------------------------------------
LEMMA ReceiveKeepsInvariant ==
    ASSUME IInv, NEW r \in Request, Receive(r)
    PROVE  IInv'
<1> USE BoardAssumption, AbsentIsRow
<1> stray \subseteq Pending
  BY DEF Pending
<1>2. ASSUME NEW status \in Status, Answer(r, status, Absent),
             UNCHANGED <<store, stray>>
      PROVE  IInv'
  BY <1>2, AnswerKeepsInvariant
<1>3. ASSUME NEW kind \in {"nextId", "getToUpdate", "getToDelete", "get"},
             NEW i \in 0 .. MaxId, NEW u \in User \cup {NoUser},
             NEW t \in Text \cup {NoText},
             kind # "nextId" => i \in Id, kind # "get" => u \in User,
             kind \in {"nextId", "getToUpdate"} => t \in Text,
             Await(r, kind, i, u, t), UNCHANGED <<store, stray>>
      PROVE  IInv'
  <2>1. CommandOK([kind |-> kind, id |-> i, user |-> u, text |-> t])
    BY <1>3 DEF CommandOK, Command, Kind
  <2>2. kind \in Kind /\ kind # "put" /\ kind \notin {"update", "delete"}
    BY <1>3 DEF Kind
  <2> QED BY <1>3, <2>1, <2>2, AwaitKeepsInvariant
<1>4. /\ 500 \in Status /\ 400 \in Status /\ 401 \in Status
      /\ 0 \in 0 .. MaxId /\ \A id \in Id : id \in 0 .. MaxId
  BY DEF Status, Id
<1>5. ASSUME NEW user \in User, NEW named \in BOOLEAN,
             NEW body \in Text \cup {NoText, Malformed}, CreatePost(r, user, named, body)
      PROVE  IInv'
  BY <1>2, <1>3, <1>4, <1>5 DEF CreatePost
<1>6. ASSUME NEW user \in User, NEW id \in Id,
             NEW body \in Text \cup {NoText, Malformed}, UpdatePost(r, user, id, body)
      PROVE  IInv'
  BY <1>2, <1>3, <1>4, <1>6 DEF UpdatePost
<1>7. ASSUME NEW user \in User, NEW id \in Id, NEW named \in BOOLEAN,
             DeletePost(r, user, id, named)
      PROVE  IInv'
  BY <1>2, <1>3, <1>4, <1>7 DEF DeletePost
<1>8. ASSUME NEW id \in Id, GetPost(r, id) PROVE IInv'
  BY <1>3, <1>4, <1>8 DEF GetPost
<1> QED BY <1>5, <1>6, <1>7, <1>8 DEF Receive

(* A handler that answers after its write took effect. *)
LEMMA FinishKeepsInvariant ==
    ASSUME IInv, NEW r \in Request, NEW status \in Status, NEW row \in Row,
           TakesEffect(awaiting[r]), Answer(r, status, row), UNCHANGED stray
    PROVE  IInv'
<1>1. awaiting[r] \in Pending
  BY DEF Pending
<1>2. TypeOK'
  BY <1>1, EffectTyped, AnswerTyped DEF IInv, TypeOK
<1>3. Pending' \subseteq Pending \cup {Idle}
  BY AnswerPending DEF IInv, Pending
<1> QED BY <1>1, <1>2, <1>3, EffectKeepsInvariant

(* The id of a new PutItem is above every id in use. *)
LEMMA GotNextIdKeepsInvariant ==
    ASSUME IInv, NEW r \in Request, GotNextId(r)
    PROVE  IInv'
<1> USE BoardAssumption DEF IInv
<1> DEFINE c == awaiting[r]
           n == [kind |-> "put", id |-> counter', user |-> c.user, text |-> c.text]
<1>1. /\ c \in Pending /\ CommandOK(c) /\ c.kind = "nextId"
      /\ CountUp /\ counter' = counter + 1 /\ counter' \in Id
      /\ Await(r, "put", counter', c.user, c.text) /\ UNCHANGED stray
  BY DEF GotNextId, CountUp, Pending, TypeOK, Id
<1>2. c.user \in User /\ c.text \in Text /\ CommandOK(n)
  BY <1>1 DEF CommandOK, Command, Kind, Id
<1>3. TypeOK'
  <2>1. counter' \in 0 .. MaxId /\ "put" \in Kind
    BY <1>1 DEF Id, Kind
  <2>2. UNCHANGED <<table, past, author, deleted>>
    BY <1>1 DEF CountUp
  <2> QED BY <1>1, <1>2, <2>1, <2>2, AwaitTyped DEF TypeOK
<1>4. Pending' \subseteq Pending \cup {n}
  BY <1>1, AwaitPending
<1>5. \A d \in Pending : d.kind = "put" => d.id # n.id
  BY <1>1 DEF PutsAreMinted, TypeOK, CommandOK, Command
<1>6. author[n.id] = NoUser
  BY <1>1 DEF RowsAreAuthored, TypeOK
<1>7. (\A d \in Pending : CommandOK(d))'
  BY <1>2, <1>4 DEF CommandOK, Command, Id
<1>8. PutsAreMinted'
  BY <1>1, <1>4, <1>5 DEF PutsAreMinted, TypeOK, CommandOK, Command
<1>9. RowsAreAuthored'
  BY <1>1 DEF RowsAreAuthored, CountUp, There, Versions, TypeOK, Id
<1>10. WritersAreAuthors'
  BY <1>1, <1>4, <1>6 DEF WritersAreAuthors, Writes, Pending, CountUp
<1>11. UndeletedPostsIntact'
  BY <1>1 DEF UndeletedPostsIntact, CountUp, There
<1> QED BY <1>3, <1>7, <1>8, <1>9, <1>10, <1>11

LEMMA CheckedKeepsInvariant ==
    ASSUME IInv, NEW r \in Request,
           NEW from \in {"getToUpdate", "getToDelete"},
           NEW to \in {"update", "delete"},
           to = "update" => from = "getToUpdate",
           Checked(r, from, to)
    PROVE  IInv'
<1> USE BoardAssumption, AbsentIsRow
<1> DEFINE c == awaiting[r]
<1>1. /\ c.kind = from /\ c \in Pending /\ CommandOK(c)
      /\ UNCHANGED <<store, stray>> /\ stray \subseteq Pending
  BY DEF Checked, Pending, IInv
<1>2. 404 \in Status /\ 403 \in Status
  BY DEF Status
<1>3. PICK row \in Versions(c.id) :
        \/ row.text = NoText /\ Answer(r, 404, Absent)
        \/ row.text # NoText /\ row.owner # c.user /\ Answer(r, 403, Absent)
        \/ row.owner = c.user /\ Await(r, to, c.id, c.user, c.text)
  BY DEF Checked
<1>4. CASE Answer(r, 404, Absent) \/ Answer(r, 403, Absent)
  BY <1>1, <1>2, <1>4, AnswerKeepsInvariant
<1>5. CASE row.owner = c.user /\ Await(r, to, c.id, c.user, c.text)
  <2>1. c.id \in Id /\ c.user \in User
    BY <1>1 DEF CommandOK
  <2>2. author[c.id] = c.user
    BY <1>5, <2>1 DEF IInv, RowsAreAuthored
  <2>3. CommandOK([kind |-> to, id |-> c.id, user |-> c.user, text |-> c.text])
    BY <1>1, <2>1 DEF CommandOK, Command, Kind
  <2> QED BY <1>1, <1>5, <2>2, <2>3, AwaitKeepsInvariant DEF Kind
<1> QED BY <1>3, <1>4, <1>5

LEMMA ContinueKeepsInvariant ==
    ASSUME IInv, NEW r \in Request, Continue(r)
    PROVE  IInv'
<1> USE BoardAssumption, AbsentIsRow
<1> DEFINE c == awaiting[r]
<1>1. c \in Pending /\ CommandOK(c) /\ stray \subseteq Pending
  BY DEF IInv, Pending
<1>2. 200 \in Status /\ 201 \in Status /\ 404 \in Status
  BY DEF Status
<1>3. CASE GotNextId(r)
  BY <1>3, GotNextIdKeepsInvariant
<1>4. CASE Checked(r, "getToUpdate", "update") \/ Checked(r, "getToDelete", "delete")
  BY <1>4, CheckedKeepsInvariant
<1>5. CASE Created(r) \/ Updated(r)
  <2>1. TakesEffect(c) /\ UNCHANGED stray
    BY <1>5 DEF Created, Updated, TakesEffect
  <2>2. c.id \in Id
    BY <1>1, <1>5 DEF Created, Updated, CommandOK
  <2>3. table'[c.id] \in Row
    BY <1>1, <2>1, <2>2, EffectTyped
  <2>4. Answer(r, 201, table'[c.id]) \/ Answer(r, 200, table'[c.id])
    BY <1>5 DEF Created, Updated
  <2> QED BY <1>2, <2>1, <2>3, <2>4, FinishKeepsInvariant
<1>6. CASE Deleted(r)
  <2>1. TakesEffect(c) /\ UNCHANGED stray /\ Answer(r, 200, Absent)
    BY <1>6 DEF Deleted, TakesEffect
  <2> QED BY <1>2, <2>1, FinishKeepsInvariant
<1>7. CASE Got(r)
  <2>1. Versions(c.id) \subseteq Row
    BY <1>1, <1>7 DEF Got, CommandOK, IInv, TypeOK, Versions
  <2>2. PICK row \in Versions(c.id) : Answer(r, 200, row) \/ Answer(r, 404, Absent)
    BY <1>7 DEF Got
  <2> QED BY <1>1, <1>2, <1>7, <2>1, <2>2, AnswerKeepsInvariant DEF Got
<1> QED BY <1>3, <1>4, <1>5, <1>6, <1>7 DEF Continue

LEMMA FailureKeepsInvariant ==
    ASSUME IInv, NEW r \in Request, SendAgain(r) \/ SendFails(r) \/ TimesOut(r)
    PROVE  IInv'
<1> USE BoardAssumption, AbsentIsRow
<1>1. stray \subseteq Pending /\ awaiting[r] \in Pending
  BY DEF Pending
<1>2. CASE SendAgain(r)
  <2>1. Pending' \subseteq Pending
    BY <1>2 DEF SendAgain, Pending, Copies
  <2>2. TypeOK'
    BY <1>1, <1>2, SilenceIsResponse
       DEF SendAgain, IInv, TypeOK, CommandOK, Copies, store
  <2> QED BY <1>2, <2>1, <2>2, KeepsInvariant DEF SendAgain
<1>3. CASE SendFails(r)
  BY <1>1, <1>3, AnswerKeepsInvariant DEF SendFails, Status
<1>4. CASE TimesOut(r)
  <2>1. stray' \subseteq Pending /\ Answer(r, 503, Absent) /\ UNCHANGED store
    BY <1>1, <1>4 DEF TimesOut, Copies
  <2> QED BY <2>1, AnswerKeepsInvariant DEF Status
<1> QED BY <1>2, <1>3, <1>4

LEMMA StrayKeepsInvariant ==
    ASSUME IInv, NEW c \in stray, StrayTakesEffect(c) \/ StrayIsLost(c)
    PROVE  IInv'
<1> USE BoardAssumption
<1>1. c \in Pending /\ Pending' \subseteq Pending
  BY DEF Pending, StrayTakesEffect, StrayIsLost
<1>2. CASE StrayTakesEffect(c)
  <2>1. TakesEffect(c)
    BY <1>2 DEF StrayTakesEffect
  <2>2. TypeOK'
    BY <1>1, <1>2, <2>1, EffectTyped, SilenceIsResponse
       DEF StrayTakesEffect, IInv, TypeOK
  <2> QED BY <1>1, <2>1, <2>2, EffectKeepsInvariant
<1>3. CASE StrayIsLost(c)
  <2>1. TypeOK' /\ UNCHANGED store
    BY <1>3, SilenceIsResponse DEF StrayIsLost, IInv, TypeOK, store
  <2> QED BY <1>1, <2>1, KeepsInvariant
<1> QED BY <1>2, <1>3

(* The replicas catch up: only old versions go. *)
LEMMA CatchUpKeepsInvariant ==
    ASSUME IInv, NEW i \in Id, CatchUp(i)
    PROVE  IInv'
<1> USE DEF IInv, CatchUp
<1>1. TypeOK'
  BY SilenceIsResponse DEF TypeOK
<1>2. \A c : CommandOK(c)' <=> CommandOK(c)
  BY DEF CommandOK, Command, Id
<1>3. (\A c \in Pending : CommandOK(c))' /\ PutsAreMinted'
  BY <1>2 DEF Pending, PutsAreMinted
<1>4. RowsAreAuthored'
  BY DEF RowsAreAuthored, There, Versions, TypeOK
<1>5. WritersAreAuthors' /\ UndeletedPostsIntact'
  BY DEF WritersAreAuthors, Writes, UndeletedPostsIntact, There
<1> QED BY <1>1, <1>3, <1>4, <1>5

LEMMA NextKeepsInvariant == IInv /\ [Next]_vars => IInv'
<1> SUFFICES ASSUME IInv, [Next]_vars PROVE IInv'
  OBVIOUS
<1>1. CASE UNCHANGED vars
  BY <1>1, KeepsInvariant DEF vars, store, IInv, TypeOK, Pending
<1>2. CASE Next
  BY <1>2, ReceiveKeepsInvariant, ContinueKeepsInvariant, FailureKeepsInvariant,
     StrayKeepsInvariant, CatchUpKeepsInvariant DEF Next
<1> QED BY <1>1, <1>2

LEMMA InitInvariant == Init => IInv
<1> SUFFICES ASSUME Init PROVE IInv
  OBVIOUS
<1>1. TypeOK
  BY BoardAssumption
     DEF Init, TypeOK, Row, Absent, Command, Kind, Idle, Response, Silence, Status, Id
<1>2. Pending \subseteq {Idle} /\ CommandOK(Idle)
  BY BoardAssumption DEF Init, Pending, CommandOK, Command, Idle, Kind
<1>3. PutsAreMinted /\ WritersAreAuthors
  BY <1>2 DEF PutsAreMinted, WritersAreAuthors, Writes, Pending, Idle
<1>4. RowsAreAuthored /\ UndeletedPostsIntact
  BY BoardAssumption
     DEF Init, RowsAreAuthored, UndeletedPostsIntact, There, Versions, Absent
<1> QED BY <1>1, <1>2, <1>3, <1>4 DEF IInv

--------------------------------------------------------------------------------
(* The types hold for every value of the constants. *)
THEOREM TypeCorrect == Spec => []TypeOK
BY InitInvariant, NextKeepsInvariant, PTL DEF Spec, IInv

(* A write of updatePost or deletePost that passed the owner check, and the *)
(* PutItem of createPost, are rightful whenever they take effect.           *)
THEOREM LateWritesAreRightful == Spec => []WritersAreAuthors
BY InitInvariant, NextKeepsInvariant, PTL DEF Spec, IInv

(* A post that was not deleted is there and carries its author. *)
THEOREM PostsStayIntact == Spec => []UndeletedPostsIntact
BY InitInvariant, NextKeepsInvariant, PTL DEF Spec, IInv

(* The tables change only by a pending command that takes effect, and the   *)
(* replicas by catching up.                                                 *)
LEMMA StoreStep ==
    [Next]_vars => \/ UNCHANGED store
                   \/ \E i \in Id : CatchUp(i)
                   \/ \E c \in Pending : TakesEffect(c)
<1> SUFFICES ASSUME Next
             PROVE  \/ UNCHANGED store
                    \/ \E i \in Id : CatchUp(i)
                    \/ \E c \in Pending : TakesEffect(c)
  BY DEF vars, store
<1>1. ASSUME NEW r \in Request, Receive(r) PROVE UNCHANGED store
  BY <1>1 DEF Receive, CreatePost, UpdatePost, DeletePost, GetPost
<1>2. ASSUME NEW r \in Request, Continue(r)
      PROVE  UNCHANGED store \/ \E c \in Pending : TakesEffect(c)
  <2>1. awaiting[r] \in Pending
    BY DEF Pending
  <2> QED BY <1>2, <2>1 DEF Continue, GotNextId, Created, Checked, Updated, Deleted,
                            Got, TakesEffect
<1>3. ASSUME NEW r \in Request, SendAgain(r) \/ SendFails(r) \/ TimesOut(r)
      PROVE  UNCHANGED store
  BY <1>3 DEF SendAgain, SendFails, TimesOut
<1>4. ASSUME NEW c \in stray, StrayTakesEffect(c) \/ StrayIsLost(c)
      PROVE  UNCHANGED store \/ TakesEffect(c)
  BY <1>4 DEF StrayTakesEffect, StrayIsLost
<1> QED BY <1>1, <1>2, <1>3, <1>4 DEF Next, Pending

(* No id passes from one user to another. *)
THEOREM IdsKeepTheirAuthor == Spec => NoTakeover
<1>1. IInv /\ [Next]_vars
         => [\A i \in Id : author[i] # NoUser => author'[i] = author[i]]_vars
  <2> SUFFICES ASSUME IInv, [Next]_vars, NEW i \in Id, author[i] # NoUser
               PROVE  author'[i] = author[i]
    OBVIOUS
  <2>1. CASE UNCHANGED store \/ \E j \in Id : CatchUp(j)
    BY <2>1 DEF store, CatchUp
  <2>2. ASSUME NEW c \in Pending, TakesEffect(c)
        PROVE  author'[i] = author[i]
    BY <2>2 DEF IInv, TypeOK, TakesEffect, CountUp, PutItem, UpdateItem, DeleteItem,
                WritersAreAuthors, Writes, Pending
  <2> QED BY <2>1, <2>2, StoreStep
<1> QED BY <1>1, InitInvariant, NextKeepsInvariant, PTL DEF Spec, NoTakeover

--------------------------------------------------------------------------------
(* Every command of a next state is an old one or one the step created. *)
LEMMA NewWrites ==
    ASSUME IInv, Next, NEW c \in Pending', c.kind \in {"put", "update", "delete"}
    PROVE  \/ c \in Pending
           \/ c.id = counter + 1
           \/ c.user \in User /\ \E row \in Versions(c.id) : row.owner = c.user
<1> USE BoardAssumption
<1>1. ASSUME NEW r \in Request, NEW status, NEW row, Answer(r, status, row),
             stray' \subseteq Pending
      PROVE  c \in Pending
  BY <1>1, AnswerPending DEF IInv, Idle
<1>2. ASSUME NEW r \in Request, NEW kind, NEW id, NEW user, NEW text,
             kind \notin {"put", "update", "delete"},
             Await(r, kind, id, user, text), UNCHANGED stray
      PROVE  c \in Pending
  BY <1>2, AwaitPending DEF IInv
<1> stray \subseteq Pending
  BY DEF Pending
<1>3. ASSUME NEW r \in Request, Receive(r) PROVE c \in Pending
  BY <1>1, <1>2, <1>3 DEF Receive, CreatePost, UpdatePost, DeletePost, GetPost
<1>4. ASSUME NEW r \in Request, Continue(r)
      PROVE  \/ c \in Pending
             \/ c.id = counter + 1
             \/ c.user \in User /\ \E row \in Versions(c.id) : row.owner = c.user
  <2>1. CASE GotNextId(r)
    BY <2>1, AwaitPending DEF GotNextId, CountUp, IInv
  <2>2. CASE Created(r) \/ Updated(r) \/ Deleted(r) \/ Got(r)
    BY <2>2, <1>1 DEF Created, Updated, Deleted, Got
  <2>3. ASSUME NEW from \in {"getToUpdate", "getToDelete"}, NEW to,
               Checked(r, from, to)
        PROVE  \/ c \in Pending
               \/ c.user \in User /\ \E row \in Versions(c.id) : row.owner = c.user
    <3> DEFINE g == awaiting[r]
    <3>1. g.user \in User /\ UNCHANGED stray
      BY <2>3 DEF Checked, IInv, Pending, CommandOK
    <3>2. PICK row \in Versions(g.id) :
            \/ Answer(r, 404, Absent)
            \/ Answer(r, 403, Absent)
            \/ row.owner = g.user /\ Await(r, to, g.id, g.user, g.text)
      BY <2>3 DEF Checked
    <3>3. CASE Await(r, to, g.id, g.user, g.text) /\ row.owner = g.user
      BY <3>1, <3>3, AwaitPending DEF IInv
    <3> QED BY <3>1, <3>2, <3>3, <1>1
  <2> QED BY <1>4, <2>1, <2>2, <2>3 DEF Continue
<1>5. ASSUME NEW r \in Request, SendAgain(r) \/ SendFails(r) \/ TimesOut(r)
      PROVE  c \in Pending
  <2>1. CASE SendAgain(r)
    BY <2>1 DEF SendAgain, Pending, Copies
  <2>2. CASE SendFails(r) \/ TimesOut(r)
    <3>1. stray' \subseteq Pending
      BY <2>2 DEF SendFails, TimesOut, Pending, Copies
    <3> QED BY <2>2, <3>1, <1>1 DEF SendFails, TimesOut
  <2> QED BY <1>5, <2>1, <2>2
<1>6. ASSUME NEW d \in stray, StrayTakesEffect(d) \/ StrayIsLost(d)
      PROVE  c \in Pending
  BY <1>6 DEF StrayTakesEffect, StrayIsLost, Pending
<1>7. ASSUME NEW i \in Id, CatchUp(i) PROVE c \in Pending
  BY <1>7 DEF CatchUp, Pending
<1> QED BY <1>3, <1>4, <1>5, <1>6, <1>7 DEF Next

(* A row without an owner stays once it is settled. *)
THEOREM GhostsStay == Spec => GhostIsForever
<1>1. IInv /\ [Next]_vars
         => [\A i \in Id : Ghost(i) /\ Settled(i) => Ghost(i)' /\ Settled(i)']_vars
  <2> SUFFICES ASSUME IInv, Next, NEW i \in Id, Ghost(i), Settled(i)
               PROVE  Ghost(i)' /\ Settled(i)'
    OBVIOUS
  <2>1. i # counter + 1
    BY DEF IInv, TypeOK, RowsAreAuthored, Ghost, Id
  <2>2. \A row \in Versions(i) : row.owner = NoUser
    BY DEF Settled, Ghost, Versions
  <2>3. (\A c \in Writes : c.id # i)'
    <3> SUFFICES ASSUME NEW c \in Writes', c.id = i PROVE FALSE
      OBVIOUS
    <3>1. c \in Pending' /\ c.kind \in {"put", "update", "delete"}
      BY DEF Writes, Pending
    <3>2. c \notin Pending
      BY <3>1 DEF Settled, Writes, Pending
    <3> QED BY <2>1, <2>2, <3>1, <3>2, NewWrites, BoardAssumption
  <2>4. table'[i] = table[i] /\ past'[i] \subseteq past[i]
    <3>1. CASE UNCHANGED store
      BY <3>1 DEF store
    <3>2. ASSUME NEW j \in Id, CatchUp(j) PROVE table' = table /\ past'[i] \subseteq past[i]
      BY <3>2 DEF CatchUp, IInv, TypeOK
    <3>3. ASSUME NEW c \in Pending, TakesEffect(c)
          PROVE  table'[i] = table[i] /\ past'[i] = past[i]
      BY <3>3 DEF TakesEffect, CountUp, PutItem, UpdateItem, DeleteItem, Store, IInv,
                  TypeOK, Writes, Pending, Settled
    <3> QED BY <3>1, <3>2, <3>3, StoreStep
  <2> QED BY <2>3, <2>4 DEF Ghost, There, Settled
<1> QED BY <1>1, InitInvariant, NextKeepsInvariant, PTL DEF Spec, GhostIsForever
================================================================================
