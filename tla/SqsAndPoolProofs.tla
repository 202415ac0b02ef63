---------------------------- MODULE SqsAndPoolProofs ---------------------------
(***************************************************************************)
(* Proofs about SqsConsumer for every set of messages and consumers, every *)
(* batch size and every number of faults, and, from PlacesOK on, about     *)
(* ThreeTierPool for every finite set of requests, every limit of the pool *)
(* and every number of faults.  The two share nothing but this module.     *)
(***************************************************************************)
EXTENDS SqsConsumer, ThreeTierPool, SequenceTheorems, FiniteSetTheorems, TLAPS

QueueOK == queue \in [Message -> {"unsent", "visible", "hidden", "deleted"}]
BatchOK == batch \in [Consumer -> [Message -> Stage]]

(* What a consumer is about to delete was dispatched, and dispatch does not *)
(* return true for a poisoned message.                                      *)
HandledWereDispatched ==
    /\ \A c \in Consumer, m \in Message : batch[c][m] = "handled" => m \in dispatched
    /\ \A m \in dispatched : Dispatches(m)

IInv == QueueOK /\ BatchOK /\ HandledWereDispatched /\ NothingIsLost

(* One message of one batch changes its stage; Handle and Delete. *)
LEMMA StageKeeps ==
    ASSUME IInv, NEW c \in Consumer, NEW m \in Message, NEW stage \in Stage,
           batch' = [batch EXCEPT ![c][m] = stage],
           dispatched \subseteq dispatched', \A d \in dispatched' : Dispatches(d),
           stage = "handled" => m \in dispatched',
           QueueOK', NothingIsLost'
    PROVE  IInv'
<1> USE DEF IInv
<1>1. \A d \in Consumer, n \in Message :
        batch'[d][n] = IF d = c /\ n = m THEN stage ELSE batch[d][n]
  BY DEF BatchOK
<1>2. BatchOK'
  BY DEF BatchOK
<1>3. HandledWereDispatched'
  BY <1>1 DEF HandledWereDispatched, Dispatches, Type
<1> QED BY <1>2, <1>3

LEMMA NextKeeps == IInv /\ [Next]_vars => IInv'
<1> SUFFICES ASSUME IInv, [Next]_vars PROVE IInv'
  OBVIOUS
<1> USE DEF IInv
<1>1. CASE UNCHANGED vars
  BY <1>1 DEF vars, QueueOK, BatchOK, HandledWereDispatched, NothingIsLost,
              Dispatches, Type
<1>2. ASSUME NEW m \in Message, Send(m) \/ VisibilityEnds(m) PROVE IInv'
  BY <1>2 DEF Send, VisibilityEnds, QueueOK, BatchOK, HandledWereDispatched,
              NothingIsLost, Dispatches, Type
<1>3. ASSUME NEW c \in Consumer, NEW ms \in SUBSET Message, Receive(c, ms)
      PROVE  IInv'
  <2>1. QueueOK' /\ NothingIsLost'
    BY <1>3 DEF Receive, QueueOK, NothingIsLost
  <2> DEFINE new == [m \in Message |-> IF m \in ms THEN "received" ELSE "none"]
  <2>2. new \in [Message -> Stage] /\ \A m \in Message : new[m] # "handled"
    BY DEF Stage
  <2>3. batch' = [batch EXCEPT ![c] = new] /\ UNCHANGED dispatched
    BY <1>3 DEF Receive
  <2> HIDE DEF new
  <2>4. BatchOK' /\ HandledWereDispatched'
    BY <2>2, <2>3 DEF BatchOK, HandledWereDispatched, Dispatches, Type
  <2> QED BY <2>1, <2>4
<1>4. ASSUME NEW c \in Consumer, NEW m \in Message, Handle(c, m) PROVE IInv'
  <2>1. QueueOK' /\ NothingIsLost'
    BY <1>4 DEF Handle, QueueOK, NothingIsLost
  <2> QED BY <1>4, <2>1, StageKeeps DEF Handle, HandledWereDispatched, Stage
<1>5. ASSUME NEW c \in Consumer, NEW m \in Message, Delete(c, m) PROVE IInv'
  <2>1. QueueOK' /\ NothingIsLost'
    BY <1>5 DEF Delete, QueueOK, NothingIsLost, HandledWereDispatched
  <2> QED BY <1>5, <2>1, StageKeeps DEF Delete, HandledWereDispatched, Stage
<1>6. ASSUME NEW c \in Consumer, NEW m \in Message, DeleteFails(c, m) PROVE IInv'
  <2>1. QueueOK' /\ NothingIsLost'
    BY <1>6 DEF DeleteFails, QueueOK, NothingIsLost
  <2> QED BY <1>6, <2>1, StageKeeps DEF DeleteFails, HandledWereDispatched, Stage
<1>7. ASSUME NEW c \in Consumer, Restart(c) PROVE IInv'
  <2> DEFINE new == [m \in Message |-> "none"]
  <2>1. new \in [Message -> Stage] /\ \A m \in Message : new[m] # "handled"
    BY DEF Stage
  <2>2. batch' = [batch EXCEPT ![c] = new] /\ UNCHANGED <<queue, dispatched>>
    BY <1>7 DEF Restart
  <2> HIDE DEF new
  <2> QED BY <2>1, <2>2 DEF QueueOK, BatchOK, NothingIsLost,
                            HandledWereDispatched, Dispatches, Type
<1> QED BY <1>1, <1>2, <1>3, <1>4, <1>5, <1>6, <1>7 DEF Next

LEMMA InitKeeps == Init => IInv
BY DEF Init, IInv, QueueOK, BatchOK, Stage, HandledWereDispatched, NothingIsLost

--------------------------------------------------------------------------------
(* The messages in the hands of a consumer. *)
Held(c) == {m \in Message : batch[c][m] # "none"}

BatchesFit == \A c \in Consumer : Cardinality(Held(c)) <= BatchSize

(* A consumer that receives nothing holds no more messages than before. *)
LEMMA FewerFit ==
    ASSUME IInv, BatchesFit, NEW c \in Consumer,
           NEW new \in [Message -> Stage], batch' = [batch EXCEPT ![c] = new],
           \A m \in Message : batch[c][m] = "none" => new[m] = "none"
    PROVE  BatchesFit'
<1> SUFFICES ASSUME NEW d \in Consumer PROVE Cardinality(Held(d)') <= BatchSize
  BY DEF BatchesFit
<1>1. Held(d)' \subseteq Held(d) /\ IsFiniteSet(Held(d))
  BY SqsAssumption, FS_Subset DEF Held, IInv, BatchOK
<1>2. /\ Cardinality(Held(d)') \in Nat /\ Cardinality(Held(d)) \in Nat
      /\ Cardinality(Held(d)') <= Cardinality(Held(d))
  BY <1>1, FS_Subset, FS_CardinalityType
<1> QED BY <1>2, SqsAssumption DEF BatchesFit

LEMMA BatchesStayFit == IInv /\ BatchesFit /\ [Next]_vars => BatchesFit'
<1> SUFFICES ASSUME IInv, BatchesFit, [Next]_vars PROVE BatchesFit'
  OBVIOUS
<1>1. CASE UNCHANGED batch
  BY <1>1 DEF BatchesFit, Held
<1>2. ASSUME NEW c \in Consumer, NEW ms \in SUBSET Message, Receive(c, ms)
      PROVE  BatchesFit'
  <2> SUFFICES ASSUME NEW d \in Consumer PROVE Cardinality(Held(d)') <= BatchSize
    BY DEF BatchesFit
  <2>1. d = c => Held(d)' = ms
    BY <1>2 DEF Receive, Held, IInv, BatchOK
  <2>2. d # c => Held(d)' = Held(d)
    BY <1>2 DEF Receive, Held, IInv, BatchOK
  <2> QED BY <1>2, <2>1, <2>2 DEF Receive, BatchesFit
<1>3. ASSUME NEW c \in Consumer, NEW m \in Message,
             Handle(c, m) \/ Delete(c, m) \/ DeleteFails(c, m)
      PROVE  BatchesFit'
  <2>1. PICK stage \in Stage : /\ batch[c][m] # "none"
                               /\ batch' = [batch EXCEPT ![c][m] = stage]
    BY <1>3 DEF Handle, Delete, DeleteFails, Stage
  <2> DEFINE new == [batch[c] EXCEPT ![m] = stage]
  <2>2. /\ new \in [Message -> Stage]
        /\ \A n \in Message : batch[c][n] = "none" => new[n] = "none"
    BY <2>1 DEF IInv, BatchOK
  <2>3. batch' = [batch EXCEPT ![c] = new]
    BY <2>1
  <2> HIDE DEF new
  <2> QED BY <2>2, <2>3, FewerFit
<1>4. ASSUME NEW c \in Consumer, Restart(c) PROVE BatchesFit'
  <2> DEFINE new == [m \in Message |-> "none"]
  <2>1. /\ batch' = [batch EXCEPT ![c] = new] /\ new \in [Message -> Stage]
        /\ \A m \in Message : new[m] = "none"
    BY <1>4 DEF Restart, Stage
  <2> HIDE DEF new
  <2> QED BY <2>1, FewerFit
<1> QED BY <1>1, <1>2, <1>3, <1>4 DEF Next, vars, Send, VisibilityEnds

TypesOK == IInv /\ BatchesFit /\ dispatched \subseteq Message /\ faults \in 0 .. MaxFaults

LEMMA TypesKeep == TypesOK /\ [Next]_vars => TypesOK'
<1> SUFFICES ASSUME TypesOK, [Next]_vars PROVE TypesOK'
  OBVIOUS
<1>1. IInv' /\ BatchesFit'
  BY NextKeeps, BatchesStayFit DEF TypesOK
<1>2. dispatched' \subseteq Message /\ faults' \in 0 .. MaxFaults
  BY SqsAssumption
     DEF TypesOK, Next, vars, Send, VisibilityEnds, Receive, Handle, Delete,
         DeleteFails, Restart
<1> QED BY <1>1, <1>2 DEF TypesOK

LEMMA TypesStart == Init => TypesOK
<1> SUFFICES ASSUME Init PROVE TypesOK
  OBVIOUS
<1>1. \A c \in Consumer : Held(c) = {}
  BY DEF Init, Held
<1> QED BY <1>1, InitKeeps, SqsAssumption, FS_EmptySet DEF Init, TypesOK, BatchesFit

--------------------------------------------------------------------------------
(* The queue and the batches keep their types, and no consumer holds more    *)
(* than batchSize messages, since it polls again only when its batch is done. *)
THEOREM TypeCorrect == Spec => []TypeOK
<1>1. TypesOK => TypeOK
  BY DEF TypesOK, IInv, QueueOK, BatchOK, BatchesFit, Held, TypeOK
<1> QED BY <1>1, TypesStart, TypesKeep, PTL DEF Spec

(* No overlap of receivers, visibility timeouts, failed deletes and restarts *)
(* deletes a message that no dispatch accepted.                              *)
THEOREM NoMessageIsLost == Spec => []NothingIsLost
BY InitKeeps, NextKeeps, PTL DEF Spec, IInv

(* A poisoned message is neither dispatched nor deleted, by any step. *)
THEOREM PoisonRemains == Spec => PoisonStays
<1>1. IInv' => \A m \in Message :
                 Type(m) = "throw.error" => m \notin dispatched' /\ queue'[m] # "deleted"
  BY DEF IInv, HandledWereDispatched, NothingIsLost, Dispatches, Type
<1>2. IInv /\ [Next]_vars
        => [\A m \in Message :
              Type(m) = "throw.error"
                => m \notin dispatched' /\ queue'[m] # "deleted"]_vars
  BY <1>1, NextKeeps
<1> QED BY <1>2, InitKeeps, NextKeeps, PTL DEF Spec, PoisonStays

--------------------------------------------------------------------------------
(* ThreeTierPool: where initDB and the handlers are, and the pool. *)
PlacesOK ==
    /\ initAt \in {"connect", "query", "done"}
    /\ at \in [Request -> {"none", "waiting", "connect", "statement"}]
    /\ open \in 0 .. Limit /\ free \in Nat /\ unreleased \in Nat
    /\ waiting \in Seq(Request)

(* What clients and the database see. *)
DataOK ==
    /\ table \in BOOLEAN /\ row \in [Request -> BOOLEAN]
    /\ ask \in [Request -> Content \cup {"none", "status"}]
    /\ answer \in [Request -> {"none", "ok", "error", "lost"}]
    /\ poolFaults \in 0 .. MaxPoolFaults

(* A handler waits only while all connections are taken, and it has one place *)
(* in the queue.                                                              *)
NobodyWaitsInVain ==
    /\ waiting # <<>> => free = 0 /\ open = Limit
    /\ {waiting[k] : k \in DOMAIN waiting} = {r \in Request : at[r] = "waiting"}
    /\ \A k, l \in DOMAIN waiting : waiting[k] = waiting[l] => k = l

PoolOK == PlacesOK /\ PoolIsAccounted /\ NobodyWaitsInVain

(* A success is the last word of its handler. *)
OkIsDone == \A r \in Request : answer[r] = "ok" => at[r] = "none"

(* The connection of initDB, until its finally. *)
InitHolds == IF initAt = "done" THEN 0 ELSE 1

LEMMA BusyIsFinite == IsFiniteSet(Busy) /\ Cardinality(Busy) \in Nat
<1>1. Busy \in SUBSET Request
  BY DEF Busy
<1> QED BY <1>1, PoolAssumption, FS_Subset, FS_CardinalityType

(* How many handlers hold a connection, when one of them starts or ends. *)
LEMMA BusyChanges ==
    ASSUME NEW r
    PROVE  /\ Busy' = Busy => Cardinality(Busy') = Cardinality(Busy)
           /\ Busy' = Busy \cup {r} /\ r \notin Busy
                => Cardinality(Busy') = Cardinality(Busy) + 1
           /\ Busy' = Busy \ {r} /\ r \in Busy
                => Cardinality(Busy') = Cardinality(Busy) - 1
BY BusyIsFinite, FS_AddElement, FS_RemoveElement

(* The first one leaves the queue. *)
LEMMA TailOfQueue ==
    ASSUME PlacesOK, NobodyWaitsInVain, waiting # <<>>
    PROVE  /\ Head(waiting) \in Request /\ at[Head(waiting)] = "waiting"
           /\ Tail(waiting) \in Seq(Request)
           /\ \A k, l \in DOMAIN Tail(waiting) :
                Tail(waiting)[k] = Tail(waiting)[l] => k = l
           /\ {Tail(waiting)[k] : k \in DOMAIN Tail(waiting)}
                = {r \in Request : at[r] = "waiting"} \ {Head(waiting)}
<1> DEFINE n == Len(waiting)
<1>1. /\ n \in Nat /\ n # 0 /\ DOMAIN waiting = 1 .. n
      /\ \A k \in 1 .. n : waiting[k] \in Request
  BY DEF PlacesOK
<1>2. /\ Tail(waiting) \in Seq(Request) /\ DOMAIN Tail(waiting) = 1 .. n - 1
      /\ \A k \in 1 .. n - 1 : Tail(waiting)[k] = waiting[k + 1]
  BY <1>1 DEF PlacesOK
<1>3. Head(waiting) = waiting[1]
  BY <1>1
<1>4. \A k, l \in 1 .. n : waiting[k] = waiting[l] => k = l
  BY <1>1 DEF NobodyWaitsInVain
<1>5. {waiting[k] : k \in 1 .. n} = {r \in Request : at[r] = "waiting"}
  BY <1>1 DEF NobodyWaitsInVain
<1>6. Head(waiting) \in Request /\ at[Head(waiting)] = "waiting"
  BY <1>1, <1>3, <1>5
<1>7. \A k, l \in 1 .. n - 1 : Tail(waiting)[k] = Tail(waiting)[l] => k = l
  <2> SUFFICES ASSUME NEW k \in 1 .. n - 1, NEW l \in 1 .. n - 1,
                      waiting[k + 1] = waiting[l + 1]
               PROVE  k = l
    BY <1>2
  <2>1. k + 1 \in 1 .. n /\ l + 1 \in 1 .. n
    BY <1>1
  <2> QED BY <1>4, <2>1
<1>8. ASSUME NEW r, r \in {Tail(waiting)[k] : k \in 1 .. n - 1}
      PROVE  r \in {waiting[k] : k \in 1 .. n} /\ r # waiting[1]
  <2>1. PICK k \in 1 .. n - 1 : r = waiting[k + 1]
    BY <1>2, <1>8
  <2>2. k + 1 \in 1 .. n /\ 1 \in 1 .. n /\ k + 1 # 1
    BY <1>1
  <2> QED BY <1>4, <2>1, <2>2
<1>9. ASSUME NEW r, r \in {waiting[k] : k \in 1 .. n}, r # waiting[1]
      PROVE  r \in {Tail(waiting)[k] : k \in 1 .. n - 1}
  <2>1. PICK k \in 1 .. n : r = waiting[k]
    BY <1>9
  <2>2. k - 1 \in 1 .. n - 1 /\ (k - 1) + 1 = k
    BY <1>1, <1>9, <2>1
  <2> QED BY <1>2, <2>1, <2>2
<1>10. {Tail(waiting)[k] : k \in 1 .. n - 1} = {waiting[k] : k \in 1 .. n} \ {waiting[1]}
  BY <1>8, <1>9
<1> QED BY <1>2, <1>3, <1>5, <1>6, <1>7, <1>10

(* Everybody who waits is in the queue, once. *)
QueueMatches ==
    /\ {waiting[k] : k \in DOMAIN waiting} = {r \in Request : at[r] = "waiting"}
    /\ \A k, l \in DOMAIN waiting : waiting[k] = waiting[l] => k = l

(* A connection is passed on: those in done had one, who is first gets one. *)
LEMMA PassMoves ==
    ASSUME PlacesOK, NobodyWaitsInVain, NEW done \in SUBSET Busy,
           NEW next \in {"connect", "statement"}, Pass(done, next)
    PROVE  /\ at' \in [Request -> {"none", "waiting", "connect", "statement"}]
           /\ waiting' \in Seq(Request) /\ QueueMatches'
           /\ waiting = <<>> => waiting' = <<>> /\ Busy' = Busy \ done
           /\ waiting # <<>> => /\ Busy' = (Busy \ done) \cup {Head(waiting)}
                                /\ Head(waiting) \notin Busy
<1>1. CASE waiting = <<>>
  <2>1. waiting' = <<>> /\ at' = [r \in Request |-> IF r \in done THEN "none" ELSE at[r]]
    BY <1>1 DEF Pass
  <2>2. Busy' = Busy \ done
    BY <2>1 DEF Busy
  <2>3. {r \in Request : at[r] = "waiting"} = {}
    BY <1>1 DEF NobodyWaitsInVain
  <2>4. {r \in Request : at'[r] = "waiting"} = {}
    BY <2>1, <2>3
  <2>5. at' \in [Request -> {"none", "waiting", "connect", "statement"}]
    BY <2>1 DEF PlacesOK
  <2> QED BY <1>1, <2>1, <2>2, <2>4, <2>5 DEF QueueMatches
<1>2. CASE waiting # <<>>
  <2> DEFINE first == Head(waiting)
  <2>1. /\ first \in Request /\ at[first] = "waiting" /\ Tail(waiting) \in Seq(Request)
        /\ \A k, l \in DOMAIN Tail(waiting) :
             Tail(waiting)[k] = Tail(waiting)[l] => k = l
        /\ {Tail(waiting)[k] : k \in DOMAIN Tail(waiting)}
             = {r \in Request : at[r] = "waiting"} \ {first}
    BY <1>2, TailOfQueue
  <2>2. /\ waiting' = Tail(waiting)
        /\ at' = [r \in Request |->
                    IF r = first THEN next ELSE IF r \in done THEN "none" ELSE at[r]]
    BY <1>2 DEF Pass
  <2> HIDE DEF first
  <2>3. first \notin Busy
    BY <2>1 DEF Busy
  <2>4. Busy' = (Busy \ done) \cup {first}
    BY <2>1, <2>2 DEF Busy
  <2>5. {r \in Request : at'[r] = "waiting"} = {r \in Request : at[r] = "waiting"} \ {first}
    BY <2>2 DEF Busy
  <2>6. at' \in [Request -> {"none", "waiting", "connect", "statement"}]
    BY <2>2 DEF PlacesOK
  <2>7. QueueMatches'
    <3>1. waiting' = Tail(waiting)
      BY <2>2
    <3> QED BY <2>1, <2>5, <3>1 DEF QueueMatches
  <2> QED BY <1>2, <2>1, <2>2, <2>3, <2>4, <2>6, <2>7 DEF first
<1> QED BY <1>1, <1>2

(* At most one handler returns in a step, and at most one gets its place. *)
LEMMA PassCounts ==
    ASSUME PlacesOK, NobodyWaitsInVain, NEW r, NEW done \in {{}, {r}}, done \subseteq Busy,
           NEW next \in {"connect", "statement"}, Pass(done, next)
    PROVE  Cardinality(Busy') = Cardinality(Busy) - (IF done = {} THEN 0 ELSE 1)
                                  + (IF waiting = <<>> THEN 0 ELSE 1)
<1> DEFINE left == Busy \ done
<1>1. /\ IsFiniteSet(left)
      /\ Cardinality(left) = Cardinality(Busy) - (IF done = {} THEN 0 ELSE 1)
  <2>1. CASE done = {}
    <3>1. left = Busy
      BY <2>1
    <3> QED BY <2>1, <3>1, BusyIsFinite
  <2>2. CASE done = {r}
    <3>1. r \in Busy /\ done # {}
      BY <2>2
    <3> QED BY <2>2, <3>1, BusyIsFinite, FS_RemoveElement
  <2> QED BY <2>1, <2>2
<1>2. CASE waiting = <<>>
  <2>1. Busy' = left
    BY <1>2, PassMoves
  <2> QED BY <1>1, <1>2, <2>1, BusyIsFinite
<1>3. CASE waiting # <<>>
  <2>1. Busy' = left \cup {Head(waiting)} /\ Head(waiting) \notin left
    BY <1>3, PassMoves
  <2> HIDE DEF left
  <2>2. Cardinality(Busy') = Cardinality(left) + 1
    BY <1>1, <2>1, FS_AddElement
  <2> QED BY <1>1, <1>3, <2>2, BusyIsFinite
<1> QED BY <1>2, <1>3

(* TableReady, and a handler that is done. *)
LEMMA ReleaseKeeps ==
    ASSUME PoolOK, NEW r, NEW done \in {{}, {r}}, done \subseteq Busy, Release(done),
           initAt' \in {"connect", "query", "done"}, UNCHANGED unreleased,
           InitHolds' = InitHolds - (IF done = {} THEN 1 ELSE 0)
    PROVE  PoolOK'
<1>1. /\ Pass(done, "statement") /\ "statement" \in {"connect", "statement"}
      /\ free' = (IF waiting = <<>> THEN free + 1 ELSE free) /\ open' = open
  BY DEF Release
<1>2. PlacesOK /\ PoolIsAccounted /\ NobodyWaitsInVain
  BY DEF PoolOK
<1>3. Cardinality(Busy') = Cardinality(Busy) - (IF done = {} THEN 0 ELSE 1)
                             + (IF waiting = <<>> THEN 0 ELSE 1)
  BY <1>1, <1>2, PassCounts
<1>4. /\ at' \in [Request -> {"none", "waiting", "connect", "statement"}]
      /\ waiting' \in Seq(Request) /\ QueueMatches'
      /\ waiting = <<>> => waiting' = <<>>
  BY <1>1, <1>2, PassMoves
<1>5. PlacesOK'
  BY <1>1, <1>2, <1>4 DEF PlacesOK
<1>6. InitHolds \in 0 .. 1 /\ InitHolds' \in 0 .. 1
  BY DEF InitHolds
<1>7. PoolIsAccounted'
  <2>1. open = free + Cardinality(Busy) + unreleased + InitHolds
    BY <1>2 DEF PoolIsAccounted, InitHolds
  <2>2. open' = free' + Cardinality(Busy') + unreleased' + InitHolds'
    BY <1>1, <1>2, <1>3, <1>6, <2>1, BusyIsFinite DEF PlacesOK
  <2> QED BY <2>2 DEF PoolIsAccounted, InitHolds
<1>8. NobodyWaitsInVain'
  BY <1>1, <1>2, <1>4 DEF NobodyWaitsInVain, QueueMatches
<1> QED BY <1>5, <1>7, <1>8 DEF PoolOK

(* A connection that ends under a handler, or that nobody released. *)
LEMMA RemoveKeeps ==
    ASSUME PoolOK, NEW r, NEW done \in {{}, {r}}, done \subseteq Busy, Remove(done),
           UNCHANGED initAt, unreleased' \in Nat,
           unreleased' = unreleased - (IF done = {} THEN 1 ELSE 0)
    PROVE  PoolOK'
<1>1. /\ Pass(done, "connect") /\ "connect" \in {"connect", "statement"}
      /\ open' = (IF waiting = <<>> THEN open - 1 ELSE open) /\ free' = free
  BY DEF Remove
<1>2. PlacesOK /\ PoolIsAccounted /\ NobodyWaitsInVain
  BY DEF PoolOK
<1>3. Cardinality(Busy') = Cardinality(Busy) - (IF done = {} THEN 0 ELSE 1)
                             + (IF waiting = <<>> THEN 0 ELSE 1)
  BY <1>1, <1>2, PassCounts
<1>4. /\ at' \in [Request -> {"none", "waiting", "connect", "statement"}]
      /\ waiting' \in Seq(Request) /\ QueueMatches'
      /\ waiting = <<>> => waiting' = <<>>
  BY <1>1, <1>2, PassMoves
<1>5. InitHolds \in 0 .. 1 /\ InitHolds' = InitHolds
  BY DEF InitHolds
<1>6. open = free + Cardinality(Busy) + unreleased + InitHolds
  BY <1>2 DEF PoolIsAccounted, InitHolds
<1>7. Cardinality(Busy') \in Nat
  <2>1. done # {} => Cardinality(Busy) # 0
    BY BusyIsFinite, FS_EmptySet
  <2> QED BY <1>3, <2>1, BusyIsFinite
<1>8. open' = free' + Cardinality(Busy') + unreleased' + InitHolds'
  <2>1. open \in Int /\ free \in Nat /\ unreleased \in Nat
    BY <1>2 DEF PlacesOK
  <2>2. Cardinality(Busy') + unreleased'
          = Cardinality(Busy) + unreleased - 1 + (IF waiting = <<>> THEN 0 ELSE 1)
    BY <1>3, <2>1, BusyIsFinite
  <2>3. unreleased' \in Nat /\ free' \in Nat /\ InitHolds' \in Int /\ InitHolds \in Int
    BY <1>1, <1>5, <2>1
  <2>4. CASE waiting = <<>>
    <3>1. Cardinality(Busy') + unreleased' = Cardinality(Busy) + unreleased - 1
      BY <2>1, <2>2, <2>4, BusyIsFinite
    <3>2. open' = open - 1 /\ free' = free /\ InitHolds' = InitHolds
      BY <1>1, <1>5, <2>4
    <3> QED BY <1>6, <1>7, <2>1, <2>3, <3>1, <3>2, BusyIsFinite
  <2>5. CASE waiting # <<>>
    <3>1. Cardinality(Busy') + unreleased' = Cardinality(Busy) + unreleased
      BY <2>1, <2>2, <2>5, BusyIsFinite
    <3>2. open' = open /\ free' = free /\ InitHolds' = InitHolds
      BY <1>1, <1>5, <2>5
    <3> QED BY <1>6, <1>7, <2>1, <2>3, <3>1, <3>2, BusyIsFinite
  <2> QED BY <2>4, <2>5
<1>9. open' \in 0 .. Limit
  BY <1>1, <1>2, <1>5, <1>7, <1>8, PoolAssumption DEF PlacesOK
<1>10. PlacesOK'
  BY <1>1, <1>2, <1>4, <1>9 DEF PlacesOK
<1>11. PoolIsAccounted'
  BY <1>8 DEF PoolIsAccounted, InitHolds
<1>12. NobodyWaitsInVain'
  BY <1>1, <1>2, <1>4 DEF NobodyWaitsInVain, QueueMatches
<1> QED BY <1>10, <1>11, <1>12 DEF PoolOK

(* One handler goes on, and the queue stays as it is. *)
LEMMA HandlerMoves ==
    ASSUME PoolOK, NEW r \in Request, at[r] # "waiting",
           NEW next \in {"none", "connect", "statement"},
           at' = [at EXCEPT ![r] = next], UNCHANGED waiting
    PROVE  /\ at' \in [Request -> {"none", "waiting", "connect", "statement"}]
           /\ waiting' \in Seq(Request) /\ QueueMatches'
           /\ Cardinality(Busy') = Cardinality(Busy)
                + (IF at[r] = "none" THEN 0 ELSE -1) + (IF next = "none" THEN 0 ELSE 1)
<1>1. at \in [Request -> {"none", "waiting", "connect", "statement"}] /\ QueueMatches
  BY DEF PoolOK, PlacesOK, NobodyWaitsInVain, QueueMatches
<1>2. \A s \in Request : at'[s] = IF s = r THEN next ELSE at[s]
  BY <1>1
<1>3. {s \in Request : at'[s] = "waiting"} = {s \in Request : at[s] = "waiting"}
  BY <1>2
<1>4. at' \in [Request -> {"none", "waiting", "connect", "statement"}]
  BY <1>1
<1>5. waiting' \in Seq(Request) /\ QueueMatches'
  BY <1>1, <1>3 DEF PoolOK, PlacesOK, QueueMatches
<1>6. r \in Busy <=> at[r] # "none"
  BY <1>1 DEF Busy
<1>7. CASE at[r] = "none" /\ next = "none"
  <2>1. Busy' = Busy
    BY <1>1, <1>2, <1>7 DEF Busy
  <2> QED BY <1>4, <1>5, <1>7, <2>1, BusyIsFinite
<1>8. CASE at[r] = "none" /\ next # "none"
  <2>1. Busy' = Busy \cup {r} /\ r \notin Busy
    BY <1>1, <1>2, <1>8 DEF Busy
  <2>2. Cardinality(Busy') = Cardinality(Busy) + 1
    BY <2>1, BusyChanges
  <2> QED BY <1>4, <1>5, <1>8, <2>2, BusyIsFinite
<1>9. CASE at[r] # "none" /\ next = "none"
  <2>1. Busy' = Busy \ {r} /\ r \in Busy
    BY <1>1, <1>2, <1>6, <1>9 DEF Busy
  <2>2. Cardinality(Busy') = Cardinality(Busy) - 1
    BY <2>1, BusyChanges
  <2> QED BY <1>4, <1>5, <1>9, <2>2, BusyIsFinite
<1>10. CASE at[r] # "none" /\ next # "none"
  <2>1. Busy' = Busy
    BY <1>1, <1>2, <1>6, <1>10 DEF Busy
  <2> QED BY <1>4, <1>5, <1>10, <2>1, BusyIsFinite
<1> QED BY <1>7, <1>8, <1>9, <1>10

(* The three cases of getConnection. *)
LEMMA GetConnectionKeeps ==
    ASSUME PoolOK, NEW r \in Request, at[r] = "none", GetConnection(r),
           UNCHANGED <<initAt, unreleased>>
    PROVE  PoolOK'
<1>1. PlacesOK /\ PoolIsAccounted /\ NobodyWaitsInVain /\ InitHolds' = InitHolds
  BY DEF PoolOK, InitHolds
<1>2. /\ open = free + Cardinality(Busy) + unreleased + InitHolds
      /\ open \in 0 .. Limit /\ free \in Nat /\ unreleased \in Nat /\ InitHolds \in 0 .. 1
  BY <1>1 DEF PoolIsAccounted, InitHolds, PlacesOK
<1>3. CASE free > 0 \/ open < Limit
  <2>1. waiting = <<>>
    BY <1>2, <1>3, PoolAssumption DEF PoolOK, NobodyWaitsInVain
  <2>2. PICK next \in {"connect", "statement"} : at' = [at EXCEPT ![r] = next]
    BY <1>3, <1>2, PoolAssumption DEF GetConnection
  <2>3. /\ waiting' = <<>> /\ waiting' = waiting
        /\ (open' = open /\ free' = free - 1) \/ (open' = open + 1 /\ free' = free)
        /\ open' \in 0 .. Limit /\ free' \in Nat
    <3>1. CASE free > 0
      BY <1>2, <2>1, <3>1 DEF GetConnection
    <3>2. CASE free = 0 /\ open < Limit
      BY <1>2, <2>1, <3>2, PoolAssumption DEF GetConnection
    <3> QED BY <1>2, <1>3, <3>1, <3>2
  <2>4. /\ at' \in [Request -> {"none", "waiting", "connect", "statement"}]
        /\ waiting' \in Seq(Request) /\ QueueMatches'
        /\ Cardinality(Busy') = Cardinality(Busy) + 1
    <3>1. next \in {"none", "connect", "statement"} /\ next # "none" /\ at[r] # "waiting"
      OBVIOUS
    <3>2. Cardinality(Busy') = Cardinality(Busy)
            + (IF at[r] = "none" THEN 0 ELSE -1) + (IF next = "none" THEN 0 ELSE 1)
      BY <2>2, <2>3, <3>1, HandlerMoves
    <3>3. Cardinality(Busy') = Cardinality(Busy) + 1
      BY <3>1, <3>2, BusyIsFinite
    <3> QED BY <2>2, <2>3, <3>1, <3>3, HandlerMoves
  <2>5. PlacesOK'
    BY <1>1, <2>3, <2>4 DEF PlacesOK
  <2>6. open' = free' + Cardinality(Busy') + unreleased' + InitHolds'
    <3>1. unreleased' = unreleased /\ Cardinality(Busy') = Cardinality(Busy) + 1
      BY <2>4
    <3>2. InitHolds' = InitHolds
      BY <1>1
    <3>3. CASE open' = open /\ free' = free - 1
      BY <1>2, <3>1, <3>2, <3>3, BusyIsFinite
    <3>4. CASE open' = open + 1 /\ free' = free
      BY <1>2, <3>1, <3>2, <3>4, BusyIsFinite
    <3> QED BY <2>3, <3>3, <3>4
  <2>7. NobodyWaitsInVain'
    BY <2>3, <2>4 DEF NobodyWaitsInVain, QueueMatches
  <2> QED BY <2>5, <2>6, <2>7 DEF PoolOK, PoolIsAccounted, InitHolds
<1>4. CASE free = 0 /\ open = Limit
  <2>1. /\ waiting' = Append(waiting, r) /\ at' = [at EXCEPT ![r] = "waiting"]
        /\ UNCHANGED <<open, free>>
    BY <1>2, <1>4, PoolAssumption DEF GetConnection
  <2>2. /\ \A s \in Request : at'[s] = IF s = r THEN "waiting" ELSE at[s]
        /\ at' \in [Request -> {"none", "waiting", "connect", "statement"}]
    BY <1>1, <2>1 DEF PlacesOK
  <2>3. Busy' = Busy
    BY <2>2 DEF Busy
  <2>4. QueueMatches /\ waiting \in Seq(Request)
    BY <1>1 DEF NobodyWaitsInVain, QueueMatches, PlacesOK
  <2> DEFINE n == Len(waiting)
  <2>5. /\ n \in Nat /\ DOMAIN waiting = 1 .. n /\ DOMAIN waiting' = 1 .. n + 1
        /\ waiting'[n + 1] = r /\ \A k \in 1 .. n : waiting'[k] = waiting[k]
        /\ waiting' \in Seq(Request)
    BY <2>1, <2>4, AppendProperties
  <2>6. \A k \in 1 .. n : waiting[k] # r
    BY <2>4, <2>5 DEF QueueMatches
  <2> HIDE DEF n
  <2>7. \A k, l \in DOMAIN waiting' : waiting'[k] = waiting'[l] => k = l
    BY <2>4, <2>5, <2>6 DEF QueueMatches
  <2>8. {waiting'[k] : k \in DOMAIN waiting'} = {waiting[k] : k \in DOMAIN waiting} \cup {r}
    BY <2>5
  <2>9. {s \in Request : at'[s] = "waiting"} = {s \in Request : at[s] = "waiting"} \cup {r}
    BY <2>2
  <2>10. QueueMatches'
    BY <2>4, <2>7, <2>8, <2>9 DEF QueueMatches
  <2>11. PlacesOK'
    BY <1>1, <2>1, <2>2, <2>5 DEF PlacesOK
  <2>12. PoolIsAccounted'
    BY <1>1, <2>1, <2>3 DEF PoolIsAccounted
  <2>13. NobodyWaitsInVain'
    BY <1>4, <2>1, <2>10 DEF NobodyWaitsInVain, QueueMatches
  <2> QED BY <2>11, <2>12, <2>13 DEF PoolOK
<1> QED BY <1>2, <1>3, <1>4, PoolAssumption

LEMMA PoolKeeps == PoolOK /\ [PoolNext]_poolVars => PoolOK'
<1> SUFFICES ASSUME PoolOK, [PoolNext]_poolVars PROVE PoolOK'
  OBVIOUS
<1>1. /\ open = free + Cardinality(Busy) + unreleased + InitHolds
      /\ open \in 0 .. Limit /\ free \in Nat /\ unreleased \in Nat /\ InitHolds \in 0 .. 1
  BY DEF PoolOK, PoolIsAccounted, InitHolds, PlacesOK
(* Nothing changes for the pool but initAt, or nothing at all. *)
<1>2. ASSUME UNCHANGED <<at, open, free, waiting, unreleased>>,
             initAt' \in {"connect", "query", "done"}, InitHolds' = InitHolds
      PROVE  PoolOK'
  <2>1. Busy' = Busy
    BY <1>2 DEF Busy
  <2> QED BY <1>1, <1>2, <2>1
          DEF PoolOK, PlacesOK, PoolIsAccounted, NobodyWaitsInVain, InitHolds
<1>3. CASE UNCHANGED poolVars
  BY <1>2, <1>3 DEF poolVars, processVars, InitHolds, PoolOK, PlacesOK
<1>4. CASE InitConnected
  BY <1>2, <1>4 DEF InitConnected, InitHolds
<1>5. CASE TableReady
  <2>1. /\ Release({}) /\ initAt' \in {"connect", "query", "done"} /\ unreleased' = unreleased
        /\ InitHolds' = InitHolds - 1 /\ {} \in {{}, {0}} /\ {} \subseteq Busy
    BY <1>5 DEF TableReady, InitHolds
  <2> QED BY <2>1, ReleaseKeeps
<1>6. CASE ProcessRestarts
  <2>1. /\ initAt' = "connect" /\ at' = [r \in Request |-> "none"]
        /\ open' = 1 /\ free' = 0 /\ waiting' = <<>> /\ unreleased' = 0
    BY <1>6 DEF ProcessRestarts, Start
  <2>2. Busy' = {} /\ Cardinality({}) = 0
    BY <2>1, FS_EmptySet DEF Busy
  <2>3. PlacesOK' /\ PoolIsAccounted'
    BY <2>1, <2>2, PoolAssumption DEF PlacesOK, PoolIsAccounted
  <2>4. NobodyWaitsInVain'
    BY <2>1 DEF NobodyWaitsInVain
  <2> QED BY <2>3, <2>4 DEF PoolOK
<1>7. CASE IdleConnectionEnds
  <2>1. CASE free > 0 /\ free' = free - 1 /\ open' = open - 1
               /\ UNCHANGED <<at, waiting, unreleased>>
    <3>1. waiting = <<>> /\ InitHolds' = InitHolds /\ initAt' = initAt
      BY <1>1, <1>7, <2>1 DEF IdleConnectionEnds, PoolOK, NobodyWaitsInVain, InitHolds
    <3>2. Busy' = Busy
      BY <2>1 DEF Busy
    <3>3. free' \in Nat /\ open' \in 0 .. Limit
      BY <1>1, <2>1, BusyIsFinite, PoolAssumption
    <3>4. PlacesOK'
      BY <2>1, <3>1, <3>3 DEF PoolOK, PlacesOK
    <3>5. open' = free' + Cardinality(Busy) + unreleased + InitHolds
      BY <1>1, <2>1, BusyIsFinite
    <3>6. PoolIsAccounted'
      BY <2>1, <3>1, <3>2, <3>5 DEF PoolIsAccounted, InitHolds
    <3>7. NobodyWaitsInVain'
      BY <2>1, <3>1 DEF PoolOK, NobodyWaitsInVain
    <3> QED BY <3>4, <3>6, <3>7 DEF PoolOK
  <2>2. CASE unreleased > 0 /\ unreleased' = unreleased - 1 /\ Remove({})
    <3>1. /\ initAt' = initAt /\ unreleased' \in Nat
          /\ {} \in {{}, {0}} /\ {} \subseteq Busy
      BY <1>1, <1>7, <2>2 DEF IdleConnectionEnds
    <3> QED BY <2>2, <3>1, RemoveKeeps
  <2> QED BY <1>7, <2>1, <2>2 DEF IdleConnectionEnds
<1>8. ASSUME NEW r \in Request, Arrive(r) PROVE PoolOK'
  <2>1. at[r] = "none" /\ UNCHANGED <<initAt, unreleased>>
    BY <1>8 DEF Arrive
  <2>2. GetConnection(r) \/ UNCHANGED <<at, open, free, waiting>>
    BY <1>8 DEF Arrive
  <2>3. CASE GetConnection(r)
    BY <2>1, <2>3, GetConnectionKeeps
  <2>4. CASE UNCHANGED <<at, open, free, waiting>>
    BY <1>2, <2>1, <2>4 DEF InitHolds, PoolOK, PlacesOK
  <2> QED BY <2>2, <2>3, <2>4
<1>9. ASSUME NEW r \in Request, Connected(r) PROVE PoolOK'
  <2>1. /\ at[r] = "connect" /\ at' = [at EXCEPT ![r] = "statement"]
        /\ UNCHANGED <<initAt, open, free, waiting, unreleased>>
    BY <1>9 DEF Connected
  <2>2. Busy' = Busy
    BY <2>1 DEF Busy, PoolOK, PlacesOK
  <2>3. /\ at' \in [Request -> {"none", "waiting", "connect", "statement"}]
        /\ waiting' \in Seq(Request) /\ QueueMatches'
    BY <2>1, HandlerMoves
  <2>4. PlacesOK' /\ PoolIsAccounted'
    BY <2>1, <2>2, <2>3 DEF PoolOK, PlacesOK, PoolIsAccounted
  <2>5. NobodyWaitsInVain'
    BY <2>1, <2>3 DEF PoolOK, NobodyWaitsInVain, QueueMatches
  <2> QED BY <2>4, <2>5 DEF PoolOK
<1>10. ASSUME NEW r \in Request, Execute(r) PROVE PoolOK'
  <2>1. /\ Release({r}) /\ UNCHANGED <<initAt, unreleased>>
        /\ {r} \in {{}, {r}} /\ {r} \subseteq Busy /\ {r} # {}
    BY <1>10 DEF Execute, Busy
  <2>2. initAt' \in {"connect", "query", "done"} /\ InitHolds' = InitHolds - 0
    BY <1>1, <2>1 DEF PoolOK, PlacesOK, InitHolds
  <2> QED BY <2>1, <2>2, ReleaseKeeps
<1>11. ASSUME NEW r \in Request, ConnectFails(r) \/ ConnectionLost(r) PROVE PoolOK'
  <2>1. /\ Remove({r}) /\ UNCHANGED <<initAt, unreleased>>
        /\ {r} \in {{}, {r}} /\ {r} \subseteq Busy /\ {r} # {}
    BY <1>11 DEF ConnectFails, ConnectionLost, Busy
  <2>2. unreleased' \in Nat /\ unreleased' = unreleased - 0
    BY <1>1, <2>1
  <2> QED BY <2>1, <2>2, RemoveKeeps
<1>12. ASSUME NEW r \in Request, Reject(r) PROVE PoolOK'
  <2>1. /\ at[r] = "statement" /\ at' = [at EXCEPT ![r] = "none"]
        /\ unreleased' = unreleased + 1 /\ UNCHANGED <<initAt, open, free, waiting>>
    BY <1>12 DEF Reject
  <2>2. /\ at' \in [Request -> {"none", "waiting", "connect", "statement"}]
        /\ waiting' \in Seq(Request) /\ QueueMatches'
    BY <2>1, HandlerMoves
  <2>3. Busy' = Busy \ {r} /\ r \in Busy
    BY <2>1 DEF Busy, PoolOK, PlacesOK
  <2>4. Cardinality(Busy') = Cardinality(Busy) - 1
    BY <2>3, BusyChanges
  <2>5. PlacesOK'
    BY <1>1, <2>1, <2>2 DEF PoolOK, PlacesOK
  <2>6. open = free + Cardinality(Busy') + unreleased' + InitHolds
    BY <1>1, <2>1, <2>4, BusyIsFinite
  <2>7. PoolIsAccounted'
    BY <2>1, <2>6 DEF PoolIsAccounted, InitHolds
  <2>8. NobodyWaitsInVain'
    BY <2>1, <2>2 DEF PoolOK, NobodyWaitsInVain, QueueMatches
  <2> QED BY <2>5, <2>7, <2>8 DEF PoolOK
<1> QED BY <1>3, <1>4, <1>5, <1>6, <1>7, <1>8, <1>9, <1>10, <1>11, <1>12 DEF PoolNext

LEMMA DataKeeps == DataOK /\ [PoolNext]_poolVars => DataOK'
<1> SUFFICES ASSUME DataOK, [PoolNext]_poolVars PROVE DataOK'
  OBVIOUS
<1>1. CASE UNCHANGED <<table, row, ask, answer, poolFaults>>
  BY <1>1 DEF DataOK
<1>2. CASE InitConnected \/ UNCHANGED poolVars
  BY <1>1, <1>2 DEF poolVars, processVars, databaseVars, InitConnected
<1>3. CASE TableReady
  BY <1>3 DEF TableReady, DataOK
<1>4. CASE ProcessRestarts
  <2>1. /\ table' \in BOOLEAN /\ ask' = ask /\ row' \in [Request -> BOOLEAN]
        /\ answer' = [r \in Request |-> IF at[r] = "none" THEN answer[r] ELSE "lost"]
    BY <1>4 DEF ProcessRestarts, Start, DataOK
  <2>2. poolFaults' \in 0 .. MaxPoolFaults
    BY <1>4, PoolAssumption DEF ProcessRestarts, Fault, DataOK
  <2> QED BY <2>1, <2>2 DEF DataOK
<1>5. CASE IdleConnectionEnds
  BY <1>5, PoolAssumption DEF IdleConnectionEnds, databaseVars, Fault, DataOK
<1>6. ASSUME NEW r \in Request, Arrive(r) PROVE DataOK'
  <2>1. PICK what \in Content \cup {"status"}, answered \in {"none", "error"} :
          /\ ask' = [ask EXCEPT ![r] = what] /\ row' = [row EXCEPT ![r] = FALSE]
          /\ answer' = [answer EXCEPT ![r] = answered] /\ UNCHANGED <<table, poolFaults>>
    BY <1>6 DEF Arrive
  <2> QED BY <2>1 DEF DataOK
<1>7. ASSUME NEW r \in Request, Connected(r) PROVE DataOK'
  BY <1>1, <1>7 DEF Connected, databaseVars
<1>8. ASSUME NEW r \in Request, ConnectFails(r) PROVE DataOK'
  BY <1>8, PoolAssumption DEF ConnectFails, Fault, databaseVars, DataOK
<1>9. ASSUME NEW r \in Request, Execute(r) PROVE DataOK'
  BY <1>9 DEF Execute, DataOK
<1>10. ASSUME NEW r \in Request, Reject(r) PROVE DataOK'
  BY <1>10 DEF Reject, databaseVars, DataOK
<1>11. ASSUME NEW r \in Request, ConnectionLost(r) PROVE DataOK'
  <2>1. row' \in [Request -> BOOLEAN] /\ answer' = [answer EXCEPT ![r] = "error"]
    BY <1>11 DEF ConnectionLost, DataOK
  <2>2. UNCHANGED <<table, ask>> /\ Fault
    BY <1>11 DEF ConnectionLost
  <2> QED BY <2>1, <2>2, PoolAssumption DEF Fault, DataOK
<1> QED BY <1>2, <1>3, <1>4, <1>5, <1>6, <1>7, <1>8, <1>9, <1>10, <1>11 DEF PoolNext

AnswersOK == OkIsDone /\ SuccessMeansSaved

(* A handler goes on or ends; who was told of a success has returned. *)
LEMMA PassedOnHadNoAnswer ==
    ASSUME PoolOK, OkIsDone, NEW done \in SUBSET Busy, NEW next, Pass(done, next),
           NEW s \in Request, answer[s] = "ok"
    PROVE  at'[s] = "none"
<1>1. at[s] = "none"
  BY DEF OkIsDone
<1>2. waiting # <<>> => at[Head(waiting)] = "waiting"
  BY TailOfQueue DEF PoolOK
<1> QED BY <1>1, <1>2 DEF Pass

LEMMA AnswersKeep == PoolOK /\ DataOK /\ AnswersOK /\ [PoolNext]_poolVars => AnswersOK'
<1> SUFFICES ASSUME PoolOK, DataOK, AnswersOK, [PoolNext]_poolVars PROVE AnswersOK'
  OBVIOUS
<1>0. OkIsDone /\ SuccessMeansSaved
  BY DEF AnswersOK
<1>1. ASSUME UNCHANGED <<ask, answer, row>>,
             \A s \in Request : answer[s] = "ok" => at'[s] = "none"
      PROVE  AnswersOK'
  BY <1>0, <1>1 DEF AnswersOK, OkIsDone, SuccessMeansSaved
<1>2. CASE InitConnected \/ UNCHANGED poolVars
  BY <1>0, <1>1, <1>2
     DEF poolVars, processVars, databaseVars, InitConnected, OkIsDone
<1>3. CASE TableReady
  <2>1. Pass({}, "statement") /\ {} \in SUBSET Busy /\ UNCHANGED <<ask, answer, row>>
    BY <1>3 DEF TableReady, Release
  <2> QED BY <1>0, <1>1, <2>1, PassedOnHadNoAnswer
<1>4. CASE ProcessRestarts
  <2>1. /\ ask' = ask /\ \A s \in Request : at'[s] = "none"
        /\ \A s \in Request : answer'[s] = "ok" => answer[s] = "ok"
        /\ \A s \in Request : row[s] => row'[s]
    BY <1>4 DEF ProcessRestarts, Start
  <2> QED BY <1>0, <2>1 DEF AnswersOK, OkIsDone, SuccessMeansSaved
<1>5. CASE IdleConnectionEnds
  <2>1. UNCHANGED <<ask, answer, row>> /\ (UNCHANGED at \/ Pass({}, "connect"))
    BY <1>5 DEF IdleConnectionEnds, databaseVars, Remove
  <2>2. {} \in SUBSET Busy
    OBVIOUS
  <2>3. \A s \in Request : answer[s] = "ok" => at'[s] = "none"
    BY <1>0, <2>1, <2>2, PassedOnHadNoAnswer DEF OkIsDone
  <2> QED BY <1>1, <2>1, <2>3
(* Only the answer, the question and the row of one request change. *)
<1>6. ASSUME NEW r \in Request,
             \A s \in Request : s # r => /\ ask'[s] = ask[s] /\ answer'[s] = answer[s]
                                         /\ row'[s] = row[s],
             \A s \in Request : answer[s] = "ok" /\ s # r => at'[s] = "none",
             answer'[r] = "ok" => at'[r] = "none" /\ (ask'[r] = "fits" => row'[r])
      PROVE  AnswersOK'
  BY <1>0, <1>6 DEF AnswersOK, OkIsDone, SuccessMeansSaved
<1>7. ASSUME NEW r \in Request, Arrive(r) PROVE AnswersOK'
  <2>1. PICK what \in Content \cup {"status"}, answered \in {"none", "error"} :
          /\ ask' = [ask EXCEPT ![r] = what] /\ row' = [row EXCEPT ![r] = FALSE]
          /\ answer' = [answer EXCEPT ![r] = answered]
    BY <1>7 DEF Arrive
  <2>2. \A s \in Request : s # r => at'[s] = at[s]
    BY <1>7 DEF Arrive, GetConnection, PoolOK, PlacesOK
  <2>3. /\ answer'[r] # "ok"
        /\ \A s \in Request : s # r => /\ ask'[s] = ask[s] /\ answer'[s] = answer[s]
                                      /\ row'[s] = row[s]
    BY <2>1 DEF DataOK
  <2>4. \A s \in Request : answer[s] = "ok" /\ s # r => at'[s] = "none"
    BY <1>0, <2>2 DEF OkIsDone
  <2> QED BY <1>6, <2>3, <2>4
<1>8. ASSUME NEW r \in Request, Connected(r) PROVE AnswersOK'
  <2>1. /\ UNCHANGED <<ask, answer, row>>
        /\ at[r] = "connect" /\ \A s \in Request : s # r => at'[s] = at[s]
    BY <1>8 DEF Connected, databaseVars, PoolOK, PlacesOK
  <2> QED BY <1>0, <1>1, <2>1 DEF OkIsDone
<1>9. ASSUME NEW r \in Request, Execute(r) PROVE AnswersOK'
  <2>1. /\ Pass({r}, "statement") /\ at[r] = "statement" /\ ask' = ask
        /\ row' = [row EXCEPT ![r] = (ask[r] = "fits")]
        /\ answer' = [answer EXCEPT ![r] = "ok"]
    BY <1>9 DEF Execute, Release
  <2>2. {r} \in SUBSET Busy
    BY <2>1 DEF Busy
  <2>3. at'[r] = "none"
    <3>1. waiting # <<>> => at[Head(waiting)] = "waiting"
      BY TailOfQueue DEF PoolOK
    <3> QED BY <2>1, <3>1 DEF Pass
  <2>4. \A s \in Request : answer[s] = "ok" => at'[s] = "none"
    BY <1>0, <2>1, <2>2, PassedOnHadNoAnswer
  <2> QED BY <1>6, <2>1, <2>3, <2>4 DEF DataOK
<1>10. ASSUME NEW r \in Request, Reject(r) PROVE AnswersOK'
  <2>1. /\ UNCHANGED <<ask, row>> /\ answer' = [answer EXCEPT ![r] = "error"]
        /\ \A s \in Request : s # r => at'[s] = at[s]
    BY <1>10 DEF Reject, databaseVars, PoolOK, PlacesOK
  <2> QED BY <1>0, <1>6, <2>1 DEF DataOK, OkIsDone
<1>11. ASSUME NEW r \in Request, ConnectFails(r) \/ ConnectionLost(r) PROVE AnswersOK'
  <2>1. /\ Pass({r}, "connect") /\ ask' = ask /\ answer' = [answer EXCEPT ![r] = "error"]
        /\ \A s \in Request : s # r => row'[s] = row[s]
    BY <1>11 DEF ConnectFails, ConnectionLost, Remove, databaseVars, DataOK
  <2>2. {r} \in SUBSET Busy
    BY <1>11 DEF ConnectFails, ConnectionLost, Busy
  <2>3. \A s \in Request : answer[s] = "ok" => at'[s] = "none"
    BY <1>0, <2>1, <2>2, PassedOnHadNoAnswer
  <2> QED BY <1>6, <2>1, <2>3 DEF DataOK
<1> QED BY <1>2, <1>3, <1>4, <1>5, <1>7, <1>8, <1>9, <1>10, <1>11 DEF PoolNext

LEMMA PoolStarts == PoolInit => PoolOK /\ DataOK /\ AnswersOK
<1> SUFFICES ASSUME PoolInit PROVE PoolOK /\ DataOK /\ AnswersOK
  OBVIOUS
<1>1. Busy = {} /\ Cardinality({}) = 0
  BY FS_EmptySet DEF PoolInit, Busy
<1>2. PlacesOK /\ PoolIsAccounted
  BY <1>1, PoolAssumption DEF PoolInit, PlacesOK, PoolIsAccounted
<1>3. NobodyWaitsInVain
  BY DEF PoolInit, NobodyWaitsInVain
<1>4. DataOK /\ AnswersOK
  BY PoolAssumption DEF PoolInit, DataOK, AnswersOK, OkIsDone, SuccessMeansSaved
<1> QED BY <1>2, <1>3, <1>4 DEF PoolOK

LEMMA PoolInvariance == PoolSpec => [](PoolOK /\ DataOK /\ AnswersOK)
<1>1. PoolOK /\ DataOK /\ AnswersOK /\ [PoolNext]_poolVars
        => (PoolOK /\ DataOK /\ AnswersOK)'
  BY PoolKeeps, DataKeeps, AnswersKeep
<1> QED BY <1>1, PoolStarts, PTL DEF PoolSpec

(* The types of ThreeTierPool: the pool never opens more connections than    *)
(* its limit, whoever asks, fails or is restarted.                           *)
THEOREM PoolTypeCorrect == PoolSpec => []PoolTypeOK
<1>1. PoolOK /\ DataOK => PoolTypeOK
  <2> SUFFICES ASSUME PoolOK, DataOK PROVE PoolTypeOK
    OBVIOUS
  <2>1. open = free + Cardinality(Busy) + unreleased + InitHolds
    BY DEF PoolOK, PoolIsAccounted, InitHolds
  <2>2. InitHolds \in 0 .. 1 /\ open \in 0 .. Limit /\ free \in Nat /\ unreleased \in Nat
    BY DEF InitHolds, PoolOK, PlacesOK
  <2>3. free \in 0 .. Limit /\ unreleased \in 0 .. Limit
    BY <2>1, <2>2, BusyIsFinite, PoolAssumption
  <2> QED BY <2>3 DEF PoolOK, PlacesOK, DataOK, PoolTypeOK
<1> QED BY <1>1, PoolInvariance, PTL

(* Every connection is free, in use by initDB or by one handler that will    *)
(* release it, or left behind by a rejected statement, for every number of   *)
(* requests and every limit.                                                 *)
THEOREM ConnectionsAreAccounted == PoolSpec => []PoolIsAccounted
<1>1. PoolOK => PoolIsAccounted
  BY DEF PoolOK
<1> QED BY <1>1, PoolInvariance, PTL

(* A client that /save told of a success has its row, whatever fails. *)
THEOREM SuccessIsTrue == PoolSpec => []SuccessMeansSaved
<1>1. AnswersOK => SuccessMeansSaved
  BY DEF AnswersOK
<1> QED BY <1>1, PoolInvariance, PTL

(* The part of Answered that no fairness is needed for, with any limit and    *)
(* any number of requests: while anybody waits and not all connections were   *)
(* left behind, some handler or initDB has one that it will release; the      *)
(* queue never waits for nobody.                                              *)
THEOREM QueueIsServed == PoolSpec => []SomebodyWillRelease
<1>1. ASSUME PoolOK, waiting # <<>>, unreleased < Limit, initAt = "done", Busy = {}
      PROVE  FALSE
  <2>1. open = Limit /\ free = 0
    BY <1>1 DEF PoolOK, NobodyWaitsInVain
  <2>2. Cardinality(Busy) = 0
    BY <1>1, FS_EmptySet
  <2>3. open = free + Cardinality(Busy) + unreleased
    BY <1>1, <2>2, PoolAssumption DEF PoolOK, PoolIsAccounted, PlacesOK
  <2> QED BY <1>1, <2>1, <2>2, <2>3, PoolAssumption DEF PoolOK, PlacesOK
<1>2. PoolOK => SomebodyWillRelease
  BY <1>1 DEF SomebodyWillRelease
<1> QED BY <1>2, PoolInvariance, PTL
================================================================================
